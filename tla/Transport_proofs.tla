-------------------------- MODULE Transport_proofs --------------------------
(***************************************************************************)
(* Proofs about Transport.  The pool: for any number of tunnels, users,    *)
(* workers and refill requests, any bounds, and sessions of every role and *)
(* binding.  The control channel: for any writes, numbers of fragments,    *)
(* priorities and contexts that end, and every binding.                    *)
(***************************************************************************)
EXTENDS Transport, FiniteSetTheorems, SequenceTheorems, WellFoundedInduction, TLAPS

(***************************************************************************)
(* The inductive invariant.                                                *)
(***************************************************************************)
\* A tunnel is in somebody's hands exactly between taking it and letting it go.
Hands ==
    /\ \A u \in Users : user[u].pc \in {"probing", "probed", "using", "reading", "putting"}
                            <=> user[u].t \in Tunnels
    /\ sv.pc = "offering" <=> sv.t \in Tunnels
    /\ con.pc \in {"taken", "putting"} <=> con.t \in Tunnels
    /\ \A w \in Workers : worker[w].pc = "putting" <=> worker[w].t \in Tunnels

\* What a tunnel's binding and state say of it.
TunnelType == [state : {"none", "idle", "closed", "broken"},
               link : {"up", "fin", "cut", "down"},
               inbox : {"empty", "half", "data"},
               pend : BOOLEAN, half : BOOLEAN]

Sound(r) ==
    /\ r \in TunnelType
    /\ r.state = "idle" => r.link # "down"
    /\ side.kind # "tcp" => r.inbox # "half"

Links == \A t \in Tunnels : Sound(tun[t])

\* Every idle tunnel can be popped.
Covered == \A t \in idle : \E n \in DOMAIN order : order[n] = t

\* The maintenance: nothing is out before it closes; what is idle again since the
\* snapshot, or never left, and was expired then is still.
Waiting(t) == t \in idle \/ \E u \in Users : user[u].t = t /\ user[u].pc \in {"probing", "probed"}

Swept ==
    /\ ev.pc # "closing" => ev.out = {}
    /\ ev.pc = "scanning" =>
          \A t \in ev.expired \cap ev.same : Waiting(t) => t \in aged
    /\ \A t \in ev.out \cap ev.expired : t \in aged

\* The queue: no tunnel is in it twice, only gRPC has handlers, and after a TCP
\* acceptor closed nothing stays in it.
Queue ==
    /\ \A i, j \in DOMAIN pending : pending[i] = pending[j] => i = j
    /\ side.kind # "grpc" => \A t \in Tunnels : handler[t] = "none"
    /\ side.kind = "tcp" /\ acc = "closed" /\ sv.pc \notin {"sent", "draining"} => pending = <<>>

\* The places of `Places', whether or not the queue is served.
PoolPlaces == {"idle", "in_use", "evicted", "offered", "stream", "queued", "accepted"}

Spot == (PoolPlaces \X {NoTunnel}) \cup ({"user"} \X Users) \cup ({"worker"} \X Workers)

At(p, t) ==
    \/ p[1] = "idle" /\ t \in idle
    \/ p[1] = "in_use" /\ t \in inUse
    \/ p[1] = "evicted" /\ t \in ev.out
    \/ p[1] = "offered" /\ sv.t = t
    \/ p[1] = "stream" /\ handler[t] = "offering"
    \/ p[1] = "queued" /\ Queued(t)
    \/ p[1] = "accepted" /\ con.t = t
    \/ p[1] = "user" /\ InHand(p[2], t)
    \/ p[1] = "worker" /\ worker[p[2]].t = t

\* No tunnel is in two places, one that is open is in some place, and one that does
\* not exist yet is in none.
Apart == \A t \in Tunnels : \A p, q \in Spot : At(p, t) /\ At(q, t) => p = q
Held  == \A t \in Tunnels : Open(t) => \E p \in Spot : At(p, t)
Fresh == \A t \in Tunnels : tun[t].state = "none" => \A p \in Spot : ~At(p, t)

IInv ==
    /\ TypeOK
    /\ Hands
    /\ Links
    /\ NoMissedWakeup
    /\ Covered
    /\ Swept
    /\ Queue
    /\ Apart /\ Held /\ Fresh

(***************************************************************************)
(* Taking tunnels out of the order.                                        *)
(***************************************************************************)
\* A set of numbers that is not empty has a least one (induction is used in this
\* form below).
LEMMA LeastNumber ==
    ASSUME NEW S \in SUBSET Nat, S # {}
    PROVE  \E n \in S : \A m \in S : n <= m
<1>1. PICK n \in S : \A m \in S : ~(<<m, n>> \in OpToRel(<, Nat))
    BY NatLessThanWellFounded, WFMin
<1>2. ASSUME NEW m \in S, m < n PROVE FALSE
    <2>1. <<m, n>> \in OpToRel(<, Nat)
        BY <1>2 DEF OpToRel
    <2> QED BY <2>1, <1>1
<1> QED BY <1>2

\* One step of `Without': what is left of s after its first k entries.
LeftAt(f, k, s, ts) ==
    IF k = 0 THEN <<>> ELSE IF s[k] \in ts THEN f[k - 1] ELSE Append(f[k - 1], s[k])

\* The recursion of `Without' has a solution.
LEMMA LeftExists ==
    ASSUME NEW s, NEW ts, NEW n \in Nat
    PROVE  \E f : f = [k \in 0..n |-> LeftAt(f, k, s, ts)]
<1> DEFINE Solves(f, m) == f = [k \in 0..m |-> LeftAt(f, k, s, ts)]
           Bad == {m \in Nat : \A f : ~Solves(f, m)}
<1> SUFFICES Bad = {}
    OBVIOUS
<1> SUFFICES ASSUME Bad # {} PROVE FALSE
    OBVIOUS
<1>1. PICK m \in Bad : \A l \in Bad : m <= l
    BY LeastNumber
<1>2. CASE m = 0
    <2>1. Solves([k \in 0..0 |-> <<>>], 0)
        BY DEF LeftAt
    <2> QED BY <2>1, <1>1, <1>2
<1>3. CASE m # 0
    <2>1. m - 1 \in Nat /\ m \in Nat
        BY <1>1, <1>3
    <2>2. m - 1 \notin Bad
        BY <1>1, <2>1
    <2>3. PICK g : Solves(g, m - 1)
        BY <2>1, <2>2
    <2> DEFINE h == [k \in 0..m |-> IF k = m THEN LeftAt(g, m, s, ts) ELSE g[k]]
    <2>4. \A k \in 0..m-1 : h[k] = g[k] /\ g[k] = LeftAt(g, k, s, ts)
        BY <2>1, <2>3
    <2>5. \A k \in 0..m : h[k] = LeftAt(h, k, s, ts)
        <3> SUFFICES ASSUME NEW k \in 0..m PROVE h[k] = LeftAt(h, k, s, ts)
            OBVIOUS
        <3>1. k # 0 => k - 1 \in 0..m-1 /\ h[k - 1] = g[k - 1]
            BY <2>1, <2>4
        <3>2. LeftAt(h, k, s, ts) = LeftAt(g, k, s, ts)
            BY <3>1 DEF LeftAt
        <3>3. CASE k = m
            BY <3>2, <3>3
        <3>4. CASE k # m
            <4>1. k \in 0..m-1
                BY <2>1, <3>4
            <4> QED BY <2>4, <3>2, <4>1
        <3> QED BY <3>3, <3>4
    <2>6. Solves(h, m)
        <3> DEFINE e == [k \in 0..m |-> LeftAt(h, k, s, ts)]
        <3>1. h = e
            BY <2>5
        <3> QED BY <3>1
    <2> QED BY <2>6, <1>1
<1> QED BY <1>2, <1>3

\* What is left of a sequence of tunnels is one, and holds all that is not taken out.
LEMMA WithoutKeeps ==
    ASSUME NEW T, NEW s \in Seq(T), NEW ts
    PROVE  /\ Without(s, ts) \in Seq(T)
           /\ \A n \in DOMAIN s : s[n] \notin ts =>
                \E i \in DOMAIN Without(s, ts) : Without(s, ts)[i] = s[n]
<1> DEFINE left == CHOOSE f : f = [k \in 0..Len(s) |-> LeftAt(f, k, s, ts)]
           Has(q, x) == \E i \in DOMAIN q : q[i] = x
           Good(k) == /\ left[k] \in Seq(T)
                      /\ \A n \in 1..k : s[n] \notin ts => Has(left[k], s[n])
           Bad == {k \in 0..Len(s) : ~Good(k)}
<1>0. Len(s) \in Nat /\ DOMAIN s = 1..Len(s)
    OBVIOUS
<1>1. left = [k \in 0..Len(s) |-> LeftAt(left, k, s, ts)]
    BY <1>0, LeftExists
<1>2. Without(s, ts) = left[Len(s)]
    BY DEF Without, LeftAt
<1> HIDE DEF left
<1>3. Bad = {}
    <2> SUFFICES ASSUME Bad # {} PROVE FALSE
        OBVIOUS
    <2>0. Bad \in SUBSET Nat
        BY <1>0
    <2>1. PICK k \in Bad : \A l \in Bad : k <= l
        BY <2>0, LeastNumber
    <2>2. k \in 0..Len(s) /\ k \in Nat /\ left[k] = LeftAt(left, k, s, ts)
        BY <1>0, <1>1, <2>1
    <2>3. CASE k = 0
        <3>1. left[k] = <<>> /\ <<>> \in Seq(T)
            BY <2>2, <2>3 DEF LeftAt
        <3>2. \A n \in 1..k : FALSE
            BY <2>3
        <3> QED BY <2>1, <3>1, <3>2
    <2>4. CASE k # 0
        <3>1. k - 1 \in 0..Len(s) /\ ~(k <= k - 1) /\ k \in 1..Len(s)
            BY <1>0, <2>2, <2>4
        <3>2. Good(k - 1)
            BY <2>1, <3>1
        <3>3. s[k] \in T
            BY <3>1, <1>0
        <3> DEFINE q == left[k - 1]
        <3>4. q \in Seq(T)
            BY <3>2
        <3>5. \A n \in 1..k : n # k => n \in 1..k-1
            BY <2>2
        <3>6. CASE s[k] \in ts
            <4>1. left[k] = q
                BY <2>2, <2>4, <3>6 DEF LeftAt
            <4>2. \A n \in 1..k : s[n] \notin ts => Has(left[k], s[n])
                BY <3>2, <3>5, <3>6, <4>1
            <4> QED BY <4>1, <4>2, <3>4, <2>1
        <3>7. CASE s[k] \notin ts
            <4>1. left[k] = Append(q, s[k])
                BY <2>2, <2>4, <3>7 DEF LeftAt
            <4> HIDE DEF q
            <4>2. /\ Append(q, s[k]) \in Seq(T)
                  /\ DOMAIN Append(q, s[k]) = 1..Len(q)+1
                  /\ Len(q) \in Nat /\ DOMAIN q = 1..Len(q)
                  /\ Append(q, s[k])[Len(q) + 1] = s[k]
                  /\ \A i \in 1..Len(q) : Append(q, s[k])[i] = q[i]
                BY <3>3, <3>4
            <4>3. Has(left[k], s[k])
                BY <4>1, <4>2
            <4>4. \A x : Has(q, x) => Has(left[k], x)
                BY <4>1, <4>2
            <4>5. \A n \in 1..k : s[n] \notin ts => Has(left[k], s[n])
                BY <3>2, <3>5, <4>3, <4>4 DEF q
            <4> QED BY <4>1, <4>2, <4>5, <2>1
        <3> QED BY <3>6, <3>7
    <2> QED BY <2>3, <2>4
<1>4. Good(Len(s))
    BY <1>0, <1>3
<1> QED BY <1>0, <1>2, <1>4

(***************************************************************************)
(* What the steps make of one tunnel.                                      *)
(***************************************************************************)
\* A tunnel ends or keeps its state, whatever else happens to it.
After(r, x) == Sound(x) /\ (x.state = r.state \/ x.state \in {"closed", "broken"})

\* The parts of a tunnel, and what changing one of them leaves.
LEMMA TunnelFields ==
    ASSUME NEW r \in TunnelType
    PROVE  /\ r.state \in {"none", "idle", "closed", "broken"}
           /\ r.link \in {"up", "fin", "cut", "down"}
           /\ r.inbox \in {"empty", "half", "data"}
           /\ r.pend \in BOOLEAN /\ r.half \in BOOLEAN
    BY DEF TunnelType

Same(r, x) == x.state = r.state /\ x.link = r.link /\ x.inbox = r.inbox

\* A tunnel whose state changes.
LEMMA StateField ==
    ASSUME NEW r \in TunnelType, NEW v \in {"none", "idle", "closed", "broken"}
    PROVE  /\ [r EXCEPT !.state = v] \in TunnelType
           /\ [r EXCEPT !.state = v].state = v
           /\ [r EXCEPT !.state = v].link = r.link
           /\ [r EXCEPT !.state = v].inbox = r.inbox
    BY DEF TunnelType

\* A tunnel whose link changes.
LEMMA LinkField ==
    ASSUME NEW r \in TunnelType, NEW v \in {"up", "fin", "cut", "down"}
    PROVE  /\ [r EXCEPT !.link = v] \in TunnelType
           /\ [r EXCEPT !.link = v].state = r.state
           /\ [r EXCEPT !.link = v].link = v
           /\ [r EXCEPT !.link = v].inbox = r.inbox
    BY DEF TunnelType

\* A tunnel whose inbox changes.
LEMMA InboxField ==
    ASSUME NEW r \in TunnelType, NEW v \in {"empty", "half", "data"}
    PROVE  /\ [r EXCEPT !.inbox = v] \in TunnelType
           /\ [r EXCEPT !.inbox = v].state = r.state
           /\ [r EXCEPT !.inbox = v].link = r.link
           /\ [r EXCEPT !.inbox = v].inbox = v
    BY DEF TunnelType

\* A tunnel with something read ahead, or nothing.
LEMMA PendField ==
    ASSUME NEW r \in TunnelType, NEW v \in BOOLEAN
    PROVE  /\ [r EXCEPT !.pend = v] \in TunnelType
           /\ Same(r, [r EXCEPT !.pend = v])
    BY DEF TunnelType, Same

\* A tunnel with half a frame read, or none.
LEMMA HalfField ==
    ASSUME NEW r \in TunnelType, NEW v \in BOOLEAN
    PROVE  /\ [r EXCEPT !.half = v] \in TunnelType
           /\ Same(r, [r EXCEPT !.half = v])
    BY DEF TunnelType, Same

\* Close, markBroken and Reset end a tunnel for good; a new one is open.
LEMMA Endings ==
    ASSUME NEW r, Sound(r)
    PROVE  /\ Sound(Closed(r)) /\ Closed(r).state \in {"closed", "broken"}
           /\ Sound(Broken(r)) /\ Broken(r).state = "broken"
           /\ Sound(NewTunnel) /\ NewTunnel.state = "idle"
<1>1. Absent \in TunnelType /\ Absent.link = "up" /\ Absent.inbox = "empty"
    BY DEF Absent, TunnelType
<1>2. ASSUME NEW v \in {"closed", "broken"}
      PROVE  /\ Sound([Absent EXCEPT !.state = v, !.link = "down"])
             /\ [Absent EXCEPT !.state = v, !.link = "down"].state = v
    <2> DEFINE a == [Absent EXCEPT !.state = v]
               b == [a EXCEPT !.link = "down"]
    <2>1. /\ a \in TunnelType
          /\ a.state = v
          /\ a.inbox = Absent.inbox
        <3>1. v \in {"none", "idle", "closed", "broken"}
            OBVIOUS
        <3>2. Absent \in TunnelType
            BY <1>1
        <3> QED BY <3>1, <3>2, StateField, Zenon
    <2>2. b \in TunnelType /\ b.state = v /\ b.inbox = "empty"
        <3> HIDE DEF a
        <3> QED BY <1>1, <2>1, LinkField
    <2>3. [Absent EXCEPT !.state = v, !.link = "down"] = b
        BY <1>1 DEF TunnelType
    <2> HIDE DEF b
    <2> QED BY <2>2, <2>3 DEF Sound
<1>3. Sound(NewTunnel) /\ NewTunnel.state = "idle"
    BY <1>1, StateField DEF NewTunnel, Sound
<1> QED BY <1>2, <1>3 DEF Closed, Broken

\* What a framed connection holds is one of four things.
LEMMA Received ==
    ASSUME NEW r \in TunnelType
    PROVE  /\ Receive(r) \in {"data", "half", "nothing", "eof", "error"}
    BY TunnelFields DEF Receive

\* Fields that a read or a probe changes together.
LEMMA TakenKeeps ==
    ASSUME NEW r, Sound(r), NEW b \in BOOLEAN
    PROVE  After(r, Taken(r, b))
<1>1. r \in TunnelType
    BY DEF Sound
<1> DEFINE r1 == [r EXCEPT !.inbox = "empty"]
           r2 == [r1 EXCEPT !.half = FALSE]
           r3 == [r2 EXCEPT !.pend = b]
<1>2. r1 \in TunnelType /\ r1.state = r.state /\ r1.link = r.link /\ r1.inbox = "empty"
    BY <1>1, InboxField
<1>3. r2 \in TunnelType /\ Same(r1, r2)
    <2> HIDE DEF r1
    <2> QED BY <1>2, HalfField
<1>4. r3 \in TunnelType /\ Same(r2, r3)
    <2> HIDE DEF r2
    <2> QED BY <1>3, PendField
<1>5. Taken(r, b) = r3
    BY <1>1 DEF Taken, TunnelType
<1> HIDE DEF r1, r2, r3
<1> QED BY <1>2, <1>3, <1>4, <1>5 DEF After, Sound, Same

\* The same for half a frame.
LEMMA HalfKeeps ==
    ASSUME NEW r, Sound(r)
    PROVE  After(r, [r EXCEPT !.inbox = "empty", !.half = TRUE])
<1>1. r \in TunnelType
    BY DEF Sound
<1> DEFINE r1 == [r EXCEPT !.inbox = "empty"]
           r2 == [r1 EXCEPT !.half = TRUE]
<1>2. r1 \in TunnelType /\ r1.state = r.state /\ r1.link = r.link /\ r1.inbox = "empty"
    BY <1>1, InboxField
<1>3. r2 \in TunnelType /\ Same(r1, r2)
    <2> HIDE DEF r1
    <2> QED BY <1>2, HalfField
<1>5. [r EXCEPT !.inbox = "empty", !.half = TRUE] = r2
    BY <1>1 DEF TunnelType
<1> HIDE DEF r1, r2
<1> QED BY <1>2, <1>3, <1>5 DEF After, Sound, Same

\* A probe ends a tunnel or leaves it as it is.
LEMMA ProbeKeeps ==
    ASSUME NEW r, Sound(r)
    PROVE  After(r, Probed(r))
<1>1. r \in TunnelType /\ After(r, r) /\ After(r, Closed(r)) /\ After(r, Broken(r))
    BY Endings DEF Sound, After
<1>2. [r EXCEPT !.inbox = "empty", !.pend = TRUE, !.half = FALSE] = Taken(r, TRUE)
    BY <1>1 DEF Taken, TunnelType
<1>3. After(r, Taken(r, TRUE)) /\ After(r, [r EXCEPT !.inbox = "empty", !.half = TRUE])
    BY TakenKeeps, HalfKeeps
<1>4. r.pend \in BOOLEAN /\ Receive(r) \in {"data", "half", "nothing", "eof", "error"}
    BY <1>1, TunnelFields, Received
<1>5. TCPProbe(r) \in {r, Taken(r, TRUE), [r EXCEPT !.inbox = "empty", !.half = TRUE],
                       Closed(r), Broken(r)}
    BY <1>2, <1>4, Zenon DEF TCPProbe
<1>6. After(r, TCPProbe(r))
    BY <1>1, <1>3, <1>5, Zenon
<1> QED BY <1>1, <1>6, Zenon DEF Probed

\* So does a read, in every way it can return.
LEMMA ReadKeeps ==
    ASSUME NEW r, Sound(r), side.kind \in {"tcp", "grpc", "quic"},
           NEW x \in ByKind(TCPReads(r), GRPCReads(r), QUICReads(r))
    PROVE  After(r, x)
<1> DEFINE h == [r EXCEPT !.inbox = "empty", !.half = TRUE]
           p == [r EXCEPT !.pend = FALSE]
           Ways == {r, Taken(r, TRUE), Taken(r, FALSE), h, p, Closed(r), Broken(r)}
<1>1. /\ r \in TunnelType /\ After(r, r) /\ After(r, Closed(r)) /\ After(r, Broken(r))
      /\ side.kind # "tcp" => r.inbox # "half"
    BY Endings DEF Sound, After
<1>2. After(r, Taken(r, TRUE)) /\ After(r, Taken(r, FALSE)) /\ After(r, h)
    BY TakenKeeps, HalfKeeps
<1>3. After(r, p)
    <2>1. p \in TunnelType /\ Same(r, p)
        BY <1>1, PendField
    <2> HIDE DEF p
    <2> QED BY <1>1, <2>1 DEF Sound, After, Same
<1>4. /\ r.pend \in BOOLEAN /\ Receive(r) \in {"data", "half", "nothing", "eof", "error"}
      /\ r.inbox \in {"empty", "half", "data"} /\ r.link \in {"up", "fin", "cut", "down"}
    BY <1>1, TunnelFields, Received
<1>5. \A y \in Ways : After(r, y)
    <2> HIDE DEF h, p
    <2> QED BY <1>1, <1>2, <1>3
<1>6. TCPReads(r) \subseteq Ways
    <2> HIDE DEF h, p
    <2> QED BY <1>4 DEF TCPReads, h, p
<1>7. side.kind # "tcp" => GRPCReads(r) \subseteq Ways /\ QUICReads(r) \subseteq Ways
    <2> HIDE DEF h
    <2> QED BY <1>1, <1>4 DEF GRPCReads, QUICReads
<1>8. x \in Ways
    <2> HIDE DEF Ways
    <2> QED BY <1>6, <1>7 DEF ByKind
<1> QED BY <1>5, <1>8

\* And a write to an open tunnel.
LEMMA WriteKeeps ==
    ASSUME NEW r, Sound(r), r.state = "idle", side.kind \in {"tcp", "grpc", "quic"},
           NEW x \in ByKind(TCPWrites(r), GRPCWrites(r), QUICWrites(r))
    PROVE  After(r, x)
<1>1. /\ r \in TunnelType /\ After(r, r) /\ After(r, Closed(r)) /\ After(r, Broken(r))
      /\ r.link # "down"
    BY Endings DEF Sound, After
<1>2. r.link \in {"up", "fin", "cut"}
    BY <1>1, TunnelFields
<1>3. x \in {r, Closed(r), Broken(r)}
    BY <1>2 DEF ByKind, TCPWrites, GRPCWrites, QUICWrites
<1> QED BY <1>1, <1>3, Zenon

(***************************************************************************)
(* What the steps make of all the tunnels.                                 *)
(***************************************************************************)
\* A step keeps the session, and every tunnel keeps its state or ends, but for those
\* that are new.
TunnelsKeep(born) ==
    /\ side' = side
    /\ tun' \in [Tunnels -> TunnelType]
    /\ \A t \in Tunnels : IF t \in born THEN tun[t].state = "none" /\ tun'[t] = NewTunnel
                                        ELSE After(tun[t], tun'[t])

\* The types of a session, of a user and of the maintenance.
UserType == [pc : {"out", "popping", "waiting", "probing", "probed",
                   "using", "reading", "putting"},
             t : Tunnels \cup {NoTunnel}, signalled : BOOLEAN]

EvType == [pc : {"rest", "scanning", "closing"}, snap : SUBSET Tunnels,
           same : SUBSET Tunnels, expired : SUBSET Tunnels,
           cand : SUBSET Tunnels, out : SUBSET Tunnels]

\* The parts of the type invariant, under names.
LEMMA Types ==
    ASSUME TypeOK
    PROVE  /\ side.kind \in {"tcp", "grpc", "quic"} /\ side.role \in {"server", "agent"}
           /\ side.sends \in Nat /\ side.sweeps \in Nat
           /\ tun \in [Tunnels -> TunnelType]
           /\ user \in [Users -> UserType]
           /\ ev \in EvType
    BY PoolConstants DEF TypeOK, SideType, TunnelType, UserType, EvType

\* One tunnel changes.
LEMMA OneChanges ==
    ASSUME tun \in [Tunnels -> TunnelType], Links, side' = side,
           NEW t \in Tunnels, NEW x, After(tun[t], x), tun' = [tun EXCEPT ![t] = x]
    PROVE  TunnelsKeep({}) /\ tun'[t] = x
<1>1. x \in TunnelType /\ \A s \in Tunnels : After(tun[s], tun[s])
    BY DEF After, Sound, Links
<1>2. \A s \in Tunnels : tun'[s] = IF s = t THEN x ELSE tun[s]
    OBVIOUS
<1> QED BY <1>1, <1>2 DEF TunnelsKeep

\* None does.
LEMMA NoneChanges ==
    ASSUME tun \in [Tunnels -> TunnelType], Links, UNCHANGED <<side, tun>>
    PROVE  TunnelsKeep({})
    BY DEF TunnelsKeep, After, Sound, Links

\* One is new.
LEMMA OneIsNew ==
    ASSUME tun \in [Tunnels -> TunnelType], Links, side' = side,
           NEW t \in Tunnels, tun[t].state = "none", tun' = [tun EXCEPT ![t] = NewTunnel]
    PROVE  TunnelsKeep({t}) /\ tun'[t].state = "idle"
<1>1. NewTunnel \in TunnelType /\ NewTunnel.state = "idle"
    BY Endings DEF Sound, Links
<1>2. \A s \in Tunnels : After(tun[s], tun[s])
    BY DEF After, Sound, Links
<1>3. \A s \in Tunnels : tun'[s] = IF s = t THEN NewTunnel ELSE tun[s]
    OBVIOUS
<1> QED BY <1>1, <1>2, <1>3 DEF TunnelsKeep

\* What follows for the binding's part of the invariant, and for what is open.
LEMMA KeepLinks ==
    ASSUME Links, NEW born, TunnelsKeep(born)
    PROVE  /\ Links'
           /\ tun' \in [Tunnels -> TunnelType]
           /\ \A t \in Tunnels : t \notin born =>
                 /\ Open(t)' => Open(t)
                 /\ tun'[t].state = "none" => tun[t].state = "none"
<1>1. \A t \in Tunnels : Sound(tun[t])
    BY DEF Links
<1>2. \A t \in Tunnels : Sound(NewTunnel) /\ NewTunnel.state = "idle"
    BY <1>1, Endings
<1>3. \A t \in Tunnels : /\ Sound(tun'[t])
                         /\ t \notin born => tun'[t].state \in {tun[t].state, "closed", "broken"}
    BY <1>2 DEF TunnelsKeep, After
<1>4. \A t \in Tunnels : Sound(tun[t])'
    BY <1>3 DEF Sound, TunnelsKeep
<1> QED BY <1>3, <1>4 DEF Links, Open, TunnelsKeep

\* us has user u at pc with the tunnel t, and everybody else where he is.
UserGoes(us, u, pc, t) ==
    /\ us \in [Users -> UserType]
    /\ us[u].pc = pc /\ us[u].t = t
    /\ \A v \in Users : v # u => us[v].pc = user[v].pc /\ us[v].t = user[v].t

\* us has everybody where he is.
UsersStay(us) ==
    /\ us \in [Users -> UserType]
    /\ \A v \in Users : us[v].pc = user[v].pc /\ us[v].t = user[v].t

Points == {"out", "popping", "waiting", "probing", "probed", "using", "reading", "putting"}

With(r, pc, t) == [r EXCEPT !.pc = pc, !.t = t]

\* One user at another point, with a tunnel or without.
LEMMA RecordGoes ==
    ASSUME NEW r \in UserType, NEW pc \in Points, NEW t \in Tunnels \cup {NoTunnel}
    PROVE  /\ With(r, pc, t) \in UserType
           /\ With(r, pc, t).pc = pc
           /\ With(r, pc, t).t = t
           /\ With(r, pc, t).signalled = r.signalled
<1> DEFINE a == [r EXCEPT !.pc = pc]
           b == [a EXCEPT !.t = t]
<1>1. a \in UserType /\ a.pc = pc /\ a.signalled = r.signalled
    BY DEF UserType, Points
<1>2. b \in UserType /\ b.pc = pc /\ b.t = t /\ b.signalled = a.signalled
    <2> HIDE DEF a
    <2> QED BY <1>1 DEF UserType, Points
<1>3. With(r, pc, t) = b
    BY DEF UserType, With
<1> HIDE DEF a, b
<1> QED BY <1>1, <1>2, <1>3

\* From any users that are where they are.
LEMMA SetGoes ==
    ASSUME NEW users, UsersStay(users), NEW u \in Users, NEW x \in UserType,
           NEW us, us = [users EXCEPT ![u] = x]
    PROVE  /\ UserGoes(us, u, x.pc, x.t)
           /\ \A v \in Users : v # u => us[v].signalled = users[v].signalled
           /\ us[u] = x
<1>1. users \in [Users -> UserType]
    BY DEF UsersStay
<1>2. us \in [Users -> UserType] /\ us[u] = x /\ \A v \in Users : v # u => us[v] = users[v]
    BY <1>1
<1> QED BY <1>2 DEF UserGoes, UsersStay

\* One user waiting, or no longer; and everybody who waits told, when b.
Paused(u, pc) == [user EXCEPT ![u] = [@ EXCEPT !.pc = pc, !.signalled = FALSE]]
Told(users, b) ==
    [u \in Users |-> [users[u] EXCEPT !.signalled = @ \/ (b /\ users[u].pc = "waiting")]]

\* The waiting and waking of Acquire.
LEMMA WaitGoes ==
    ASSUME user \in [Users -> UserType], NEW u \in Users,
           NEW pc \in {"out", "popping", "waiting"}, NEW us, us = Paused(u, pc)
    PROVE  /\ UserGoes(us, u, pc, user[u].t)
           /\ \A v \in Users : v # u => us[v] = user[v]
<1>1. ASSUME NEW r \in UserType
      PROVE  /\ [r EXCEPT !.pc = pc, !.signalled = FALSE] \in UserType
             /\ [r EXCEPT !.pc = pc, !.signalled = FALSE].pc = pc
             /\ [r EXCEPT !.pc = pc, !.signalled = FALSE].t = r.t
    <2> DEFINE a == [r EXCEPT !.pc = pc]
               b == [a EXCEPT !.signalled = FALSE]
    <2>1. a \in UserType /\ a.pc = pc /\ a.t = r.t
        BY DEF UserType
    <2>2. b \in UserType /\ b.pc = pc /\ b.t = r.t
        <3> HIDE DEF a
        <3> QED BY <2>1 DEF UserType
    <2>3. [r EXCEPT !.pc = pc, !.signalled = FALSE] = b
        BY DEF UserType
    <2> HIDE DEF b
    <2> QED BY <2>2, <2>3
<1>2. us = [user EXCEPT ![u] = [user[u] EXCEPT !.pc = pc, !.signalled = FALSE]]
    BY DEF Paused
<1>3. user[u] \in UserType
    OBVIOUS
<1> QED BY <1>1, <1>2, <1>3 DEF UserGoes

\* A broadcast moves nobody.
LEMMA SignalMovesNobody ==
    ASSUME NEW users \in [Users -> UserType], NEW b \in BOOLEAN, NEW us, us = Told(users, b)
    PROVE  /\ us \in [Users -> UserType]
           /\ \A u \in Users : us[u].pc = users[u].pc /\ us[u].t = users[u].t
           /\ \A u \in Users :
                 us[u].signalled <=> (users[u].signalled \/ (b /\ users[u].pc = "waiting"))
<1> SUFFICES ASSUME NEW u \in Users
             PROVE  /\ us[u] \in UserType
                    /\ us[u].pc = users[u].pc /\ us[u].t = users[u].t
                    /\ us[u].signalled <=> (users[u].signalled \/ (b /\ users[u].pc = "waiting"))
    BY DEF Told
<1> QED BY DEF UserType, Told

\* What a user, the maintenance, the acceptor, a refill and the network do to the
\* tunnels: only three actions make one.
LEMMA UserTunnels ==
    ASSUME TypeOK, Hands, Links, NEW u \in Users, UserStep(u)
    PROVE  TunnelsKeep({})
<1> DEFINE t == user[u].t
<1>1. /\ tun \in [Tunnels -> TunnelType] /\ side.kind \in {"tcp", "grpc", "quic"}
      /\ user[u].pc \in {"probing", "probed", "using", "reading", "putting"} => t \in Tunnels
      /\ t \in Tunnels => Sound(tun[t])
    BY Types DEF Hands, Links
<1> HIDE DEF t
<1>2. CASE UNCHANGED <<side, tun>>
    BY <1>1, <1>2, NoneChanges
<1>3. t \in Tunnels => /\ After(tun[t], Broken(tun[t])) /\ After(tun[t], Closed(tun[t]))
                       /\ After(tun[t], Probed(tun[t]))
    BY <1>1, Endings, ProbeKeeps DEF After
<1>4. CASE ProbePopped(u)
    <2>1. t \in Tunnels
        BY <1>1, <1>4 DEF ProbePopped
    <2>2. After(tun[t], Broken(Probed(tun[t])))
        BY <1>3, <2>1, Endings DEF After
    <2> QED BY <1>1, <1>3, <1>4, <2>1, <2>2, OneChanges DEF ProbePopped, t
<1>5. CASE Settle(u)
    BY <1>1, <1>2, <1>3, <1>5, OneChanges DEF Settle, t
<1>6. CASE EndRead(u)
    <2>1. t \in Tunnels /\ Sound(tun[t]) /\ side' = side
        BY <1>1, <1>6 DEF EndRead
    <2>2. PICK r \in ByKind(TCPReads(tun[t]), GRPCReads(tun[t]), QUICReads(tun[t])) :
                tun' = [tun EXCEPT ![t] = r]
        BY <1>6 DEF EndRead, t
    <2>3. After(tun[t], r)
        BY <1>1, <2>1, ReadKeeps
    <2> QED BY <1>1, <2>1, <2>2, <2>3, OneChanges
<1>7. CASE UserWrites(u)
    <2>1. t \in Tunnels /\ Sound(tun[t]) /\ side' = side /\ tun[t].state = "idle"
        BY <1>1, <1>7 DEF UserWrites, Open, t
    <2>2. PICK r \in ByKind(TCPWrites(tun[t]), GRPCWrites(tun[t]), QUICWrites(tun[t])) :
                tun' = [tun EXCEPT ![t] = r]
        BY <1>7 DEF UserWrites, t
    <2>3. After(tun[t], r)
        BY <1>1, <2>1, WriteKeeps
    <2> QED BY <1>1, <2>1, <2>2, <2>3, OneChanges
<1>8. CASE StartRecycle(u)
    BY <1>1, <1>2, <1>3, <1>8, OneChanges DEF StartRecycle, t
<1>9. CASE PutRecycled(u)
    BY <1>1, <1>2, <1>3, <1>9, OneChanges DEF PutRecycled, t
<1>10. CASE Remove(u)
    BY <1>1, <1>2, <1>3, <1>10, OneChanges DEF Remove, t
<1>11. CASE StartAcquire(u) \/ Pop(u) \/ Wake(u) \/ PushBack(u) \/ StartRead(u)
    BY <1>2, <1>11 DEF StartAcquire, Pop, Wake, PushBack, StartRead
<1> QED BY <1>4, <1>5, <1>6, <1>7, <1>8, <1>9, <1>10, <1>11 DEF UserStep

\* The maintenance.
LEMMA MaintenanceTunnels ==
    ASSUME TypeOK, Links, Maintenance
    PROVE  TunnelsKeep({})
<1>1. tun \in [Tunnels -> TunnelType] /\ \A t \in Tunnels : Sound(tun[t])
    BY Types DEF Links
<1>2. CASE UNCHANGED <<side, tun>>
    BY <1>1, <1>2, NoneChanges
<1>3. ASSUME NEW t \in Tunnels, Scan(t) PROVE TunnelsKeep({})
    <2>1. After(tun[t], Probed(tun[t]))
        BY <1>1, ProbeKeeps
    <2>2. side' = side /\ (tun' = [tun EXCEPT ![t] = Probed(tun[t])] \/ tun' = tun)
        BY <1>3 DEF Scan
    <2> QED BY <1>1, <1>2, <2>1, <2>2, OneChanges
<1>4. ASSUME NEW t \in Tunnels, CloseEvicted(t) PROVE TunnelsKeep({})
    <2>1. After(tun[t], Closed(tun[t])) /\ After(tun[t], Broken(tun[t]))
        BY <1>1, Endings DEF After
    <2>2. side' = side /\ (\/ tun' = [tun EXCEPT ![t] = Closed(tun[t])]
                           \/ tun' = [tun EXCEPT ![t] = Broken(tun[t])])
        BY <1>4 DEF CloseEvicted
    <2> QED BY <1>1, <2>1, <2>2, OneChanges
<1> QED BY <1>2, <1>3, <1>4 DEF Maintenance, EvictExpired, Snapshot, EvictCandidates, Age

\* The peer and the network.
LEMMA NetworkTunnels ==
    ASSUME TypeOK, Links, Network
    PROVE  TunnelsKeep({})
<1>1. tun \in [Tunnels -> TunnelType] /\ \A t \in Tunnels : Sound(tun[t])
    BY Types DEF Links
<1>2. PICK t \in Tunnels : PeerSend(t) \/ PeerEnds(t) \/ StreamContextDone(t)
    BY DEF Network
<1>3. tun[t] \in TunnelType /\ tun[t].state = "idle" /\ tun[t].link # "down"
    BY <1>1, <1>2 DEF PeerSend, PeerEnds, StreamContextDone, Open, Sound
<1>4. CASE PeerSend(t)
    <2>1. PICK some \in {"data", "half"} : /\ tun' = [tun EXCEPT ![t].inbox = some]
                                           /\ some = "half" => side.kind = "tcp"
        BY <1>4 DEF PeerSend
    <2>2. tun' = [tun EXCEPT ![t] = [tun[t] EXCEPT !.inbox = some]] /\ side' = side
        BY <1>4, <2>1 DEF PeerSend
    <2> DEFINE x == [tun[t] EXCEPT !.inbox = some]
    <2>3. x \in TunnelType /\ x.state = tun[t].state /\ x.link = tun[t].link /\ x.inbox = some
        <3> DEFINE r == tun[t]
        <3>1. r \in TunnelType /\ some \in {"empty", "half", "data"}
            BY <1>3
        <3> HIDE DEF r
        <3>2. /\ [r EXCEPT !.inbox = some] \in TunnelType
              /\ [r EXCEPT !.inbox = some].state = r.state
              /\ [r EXCEPT !.inbox = some].link = r.link
              /\ [r EXCEPT !.inbox = some].inbox = some
            BY <3>1, InboxField, Zenon
        <3> QED BY <3>2 DEF r
    <2> HIDE DEF x
    <2>4. After(tun[t], x)
        BY <1>3, <2>1, <2>3 DEF After, Sound
    <2> QED BY <1>1, <2>2, <2>4, OneChanges DEF x
<1>5. CASE PeerEnds(t)
    <2>1. PICK l \in {"fin", "cut"} : tun' = [tun EXCEPT ![t].link = l]
        BY <1>5 DEF PeerEnds
    <2>2. tun' = [tun EXCEPT ![t] = [tun[t] EXCEPT !.link = l]] /\ side' = side
        BY <1>5, <2>1 DEF PeerEnds
    <2> DEFINE x == [tun[t] EXCEPT !.link = l]
    <2>3. x \in TunnelType /\ x.state = tun[t].state /\ x.link = l /\ x.inbox = tun[t].inbox
        <3> DEFINE r == tun[t]
        <3>1. r \in TunnelType /\ l \in {"up", "fin", "cut", "down"}
            BY <1>3
        <3> HIDE DEF r
        <3>2. /\ [r EXCEPT !.link = l] \in TunnelType
              /\ [r EXCEPT !.link = l].state = r.state
              /\ [r EXCEPT !.link = l].link = l
              /\ [r EXCEPT !.link = l].inbox = r.inbox
            BY <3>1, LinkField, Zenon
        <3> QED BY <3>2 DEF r
    <2> HIDE DEF x
    <2>4. After(tun[t], x)
        BY <1>1, <1>3, <2>1, <2>3 DEF After, Sound
    <2> QED BY <1>1, <2>2, <2>4, OneChanges DEF x
<1>6. CASE StreamContextDone(t)
    <2>1. After(tun[t], Closed(tun[t]))
        BY <1>1, Endings DEF After
    <2> QED BY <1>1, <1>6, <2>1, OneChanges DEF StreamContextDone
<1> QED BY <1>2, <1>4, <1>5, <1>6

\* The acceptor, but for the two actions that accept.
LEMMA ServerTunnels ==
    ASSUME TypeOK, Hands, Links,
           \/ \E t \in Tunnels : OfferStream(t) \/ HandlerEnds(t)
           \/ Offer \/ CheckDone \/ ServeEnds \/ CloseAcceptor \/ CloseConn \/ DrainPending
           \/ TakePending \/ CheckTaken \/ PutAccepted
    PROVE  TunnelsKeep({})
<1>1. /\ tun \in [Tunnels -> TunnelType] /\ \A t \in Tunnels : Sound(tun[t])
      /\ pending \in Seq(Tunnels)
    BY Types DEF Links, TypeOK
<1>2. CASE UNCHANGED <<side, tun>>
    BY <1>1, <1>2, NoneChanges
<1>3. \A t \in Tunnels : After(tun[t], Closed(tun[t])) /\ After(tun[t], Broken(tun[t]))
    BY <1>1, Endings DEF After
<1>4. ASSUME NEW t \in Tunnels, OfferStream(t) \/ HandlerEnds(t) PROVE TunnelsKeep({})
    BY <1>1, <1>2, <1>3, <1>4, OneChanges DEF OfferStream, HandlerEnds
<1>5. CASE Offer
    <2>1. sv.t \in Tunnels
        BY <1>5 DEF Offer, Hands
    <2> QED BY <1>1, <1>2, <1>3, <1>5, <2>1, OneChanges DEF Offer
<1>6. CASE CloseConn
    <2> DEFINE New(t) == IF Open(t) THEN [tun[t] EXCEPT !.link = "cut"] ELSE tun[t]
    <2>1. tun' = [t \in Tunnels |-> New(t)] /\ side' = side
        BY <1>6 DEF CloseConn
    <2>2. ASSUME NEW t \in Tunnels PROVE After(tun[t], New(t))
        <3>1. [tun[t] EXCEPT !.link = "cut"] \in TunnelType
            BY <1>1, LinkField
        <3>2. [tun[t] EXCEPT !.link = "cut"].state = tun[t].state
            BY <1>1, LinkField
        <3>3. [tun[t] EXCEPT !.link = "cut"].link = "cut"
            BY <1>1, LinkField
        <3>4. [tun[t] EXCEPT !.link = "cut"].inbox = tun[t].inbox
            BY <1>1, LinkField
        <3> DEFINE x == [tun[t] EXCEPT !.link = "cut"]
        <3> HIDE DEF x
        <3>5. After(tun[t], x) /\ After(tun[t], tun[t])
            BY <1>1, <3>1, <3>2, <3>3, <3>4 DEF After, Sound, x
        <3> QED BY <3>5 DEF x
    <2>3. \A t \in Tunnels : After(tun[t], tun'[t]) /\ tun'[t] \in TunnelType
        <3> HIDE DEF New
        <3> QED BY <2>1, <2>2 DEF After, Sound
    <2>4. tun' \in [Tunnels -> TunnelType]
        <3> HIDE DEF New
        <3> QED BY <2>1, <2>3
    <2> QED BY <2>1, <2>3, <2>4 DEF TunnelsKeep
<1>7. CASE DrainPending
    <2>1. side' = side /\ (tun' = tun \/ (pending # <<>> /\
                                          tun' = [tun EXCEPT ![Head(pending)] = Closed(@)]))
        BY <1>7 DEF DrainPending, Drain
    <2>2. pending # <<>> => Head(pending) \in Tunnels
        BY <1>1
    <2> QED BY <1>1, <1>2, <1>3, <2>1, <2>2, OneChanges
<1>8. CASE CheckTaken
    <2>1. con.t \in Tunnels
        BY <1>8 DEF CheckTaken, Hands
    <2> QED BY <1>1, <1>2, <1>3, <1>8, <2>1, OneChanges DEF CheckTaken
<1>9. CASE PutAccepted
    <2>1. con.t \in Tunnels
        BY <1>9 DEF PutAccepted, Hands
    <2> QED BY <1>1, <1>2, <1>3, <1>9, <2>1, OneChanges DEF PutAccepted
<1>10. CASE CheckDone \/ ServeEnds \/ CloseAcceptor \/ TakePending
    BY <1>2, <1>10 DEF CheckDone, ServeEnds, CloseAcceptor, TakePending
<1> QED BY <1>4, <1>5, <1>6, <1>7, <1>8, <1>9, <1>10

\* The actions that make a tunnel.
LEMMA NewTunnels ==
    ASSUME TypeOK, Links, NEW t \in Tunnels
    PROVE  /\ Accept(t) \/ HandleTunnelStream(t) => TunnelsKeep({t}) /\ Open(t)'
           /\ \A w \in Workers : OpenTunnel(w, t) =>
                 \/ TunnelsKeep({}) /\ tun' = tun
                 \/ TunnelsKeep({t}) /\ Open(t)'
<1>1. tun \in [Tunnels -> TunnelType]
    BY Types
<1>2. Accept(t) \/ HandleTunnelStream(t) => TunnelsKeep({t}) /\ Open(t)'
    BY <1>1, OneIsNew DEF Accept, HandleTunnelStream, Open
<1>3. ASSUME NEW w \in Workers, OpenTunnel(w, t)
      PROVE  (TunnelsKeep({}) /\ tun' = tun) \/ (TunnelsKeep({t}) /\ Open(t)')
    <2>1. /\ side' = side
          /\ \/ tun[t].state = "none" /\ tun' = [tun EXCEPT ![t] = NewTunnel]
             \/ tun' = tun
        BY <1>3 DEF OpenTunnel
    <2>2. (TunnelsKeep({}) /\ tun' = tun) \/ (TunnelsKeep({t}) /\ tun'[t].state = "idle")
        BY <1>1, <2>1, OneIsNew, NoneChanges
    <2> QED BY <2>2 DEF Open
<1> QED BY <1>2, <1>3

\* The rest of a refill.
LEMMA RefillTunnels ==
    ASSUME TypeOK, Hands, Links,
           \/ \E q \in Requests : HandleRefillRequest(q)
           \/ RefillToTarget \/ RefillDone
           \/ \E w \in Workers : PutOpened(w)
    PROVE  TunnelsKeep({})
<1>1. tun \in [Tunnels -> TunnelType] /\ \A t \in Tunnels : Sound(tun[t])
    BY Types DEF Links
<1>2. CASE UNCHANGED <<side, tun>>
    BY <1>1, <1>2, NoneChanges
<1>3. \A t \in Tunnels : After(tun[t], Closed(tun[t]))
    BY <1>1, Endings DEF After
<1>4. ASSUME NEW w \in Workers, PutOpened(w) PROVE TunnelsKeep({})
    <2>1. worker[w].t \in Tunnels
        BY <1>4 DEF PutOpened, Hands
    <2> QED BY <1>1, <1>2, <1>3, <1>4, <2>1, OneChanges DEF PutOpened
<1> QED BY <1>2, <1>4 DEF HandleRefillRequest, RefillToTarget, RefillDone

(***************************************************************************)
(* What putting in and taking out make of the pool.                        *)
(***************************************************************************)
\* PutIdle.
LEMMA PutIdleGives ==
    ASSUME TypeOK, NEW t \in Tunnels, NEW users \in [Users -> UserType], PutIdle(t, users)
    PROVE  /\ Open(t) /\ t \notin inUse
           /\ idle' = idle \cup {t} /\ inUse' = inUse /\ aged' = aged \ {t}
           /\ order' \in Seq(Tunnels)
           /\ Covered => Covered'
           /\ ev' \in EvType
           /\ ev'.pc = ev.pc /\ ev'.same = ev.same \ {t} /\ ev'.expired = ev.expired
           /\ ev'.out = ev.out
           /\ user' \in [Users -> UserType]
           /\ \A u \in Users : user'[u].pc = users[u].pc /\ user'[u].t = users[u].t
           /\ \A u \in Users : user'[u].signalled <=>
                 (users[u].signalled \/ (t \notin idle /\ users[u].pc = "waiting"))
<1>1. order \in Seq(Tunnels) /\ ev \in EvType
    BY Types DEF TypeOK
<1>2. Open(t) /\ t \notin inUse /\ idle' = idle \cup {t} /\ inUse' = inUse /\ aged' = aged \ {t}
    BY DEF PutIdle, Refused
<1>3. order' = IF t \in idle THEN order ELSE Append(order, t)
    BY DEF PutIdle
<1>4. order' \in Seq(Tunnels)
    BY <1>1, <1>3
<1>5. ASSUME Covered PROVE Covered'
    <2> SUFFICES ASSUME NEW x \in idle' PROVE \E n \in DOMAIN order' : order'[n] = x
        BY DEF Covered
    <2>1. CASE t \in idle
        BY <1>2, <1>3, <1>5, <2>1 DEF Covered
    <2>2. CASE t \notin idle
        <3>1. /\ DOMAIN order = 1..Len(order) /\ DOMAIN order' = 1..Len(order)+1
              /\ Len(order) \in Nat /\ order'[Len(order)+1] = t
              /\ \A n \in 1..Len(order) : order'[n] = order[n]
            BY <1>1, <1>3, <2>2
        <3>2. CASE x = t
            BY <3>1, <3>2
        <3>3. CASE x # t
            <4>1. PICK n \in DOMAIN order : order[n] = x
                BY <1>2, <1>5, <3>3 DEF Covered
            <4> QED BY <3>1, <4>1
        <3> QED BY <3>2, <3>3
    <2> QED BY <2>1, <2>2
<1>6. ev' = [ev EXCEPT !.same = ev.same \ {t}]
    BY DEF PutIdle
<1>7. /\ ev' \in EvType
      /\ ev'.pc = ev.pc /\ ev'.same = ev.same \ {t} /\ ev'.expired = ev.expired
      /\ ev'.out = ev.out
    BY <1>1, <1>6 DEF EvType
<1> DEFINE b == t \notin idle
<1>8. user' = Told(users, b)
    BY DEF PutIdle, Told
<1>9. b \in BOOLEAN
    OBVIOUS
<1> HIDE DEF b
<1>10. /\ user' \in [Users -> UserType]
       /\ \A u \in Users : user'[u].pc = users[u].pc /\ user'[u].t = users[u].t
       /\ \A u \in Users : user'[u].signalled <=>
                 (users[u].signalled \/ (b /\ users[u].pc = "waiting"))
    BY <1>8, <1>9, SignalMovesNobody
<1> QED BY <1>2, <1>4, <1>5, <1>7, <1>10 DEF b

\* What leaves the order, and what stays.
LEMMA OrderWithout ==
    ASSUME TypeOK, NEW ts, order' = Without(order, ts), idle' \subseteq idle \ ts
    PROVE  /\ order' \in Seq(Tunnels)
           /\ Covered => Covered'
<1>1. order \in Seq(Tunnels)
    BY DEF TypeOK
<1>2. /\ order' \in Seq(Tunnels)
      /\ \A n \in DOMAIN order : order[n] \notin ts => \E i \in DOMAIN order' : order'[i] = order[n]
    BY <1>1, WithoutKeeps
<1>3. ASSUME Covered, NEW x \in idle' PROVE \E i \in DOMAIN order' : order'[i] = x
    <2>1. x \in idle /\ x \notin ts
        OBVIOUS
    <2>2. PICK n \in DOMAIN order : order[n] = x
        BY <1>3, <2>1 DEF Covered
    <2> QED BY <1>2, <2>1, <2>2
<1> QED BY <1>2, <1>3 DEF Covered

\* What a pop takes from the head of the order, and what it leaves.
LEMMA PopGives ==
    ASSUME TypeOK, NEW u \in Users, Pop(u)
    PROVE  /\ order' \in Seq(Tunnels)
           /\ Covered => Covered'
           /\ \/ /\ idle' = idle
                 /\ Covered => idle = {}
                 /\ user' = [user EXCEPT ![u] = [@ EXCEPT !.pc = "waiting", !.signalled = FALSE]]
              \/ \E t \in idle : idle' = idle \ {t} /\ user' = Set(u, "probing", t)
<1> DEFINE found == {n \in DOMAIN order : order[n] \in idle}
<1>1. order \in Seq(Tunnels) /\ Len(order) \in Nat /\ DOMAIN order = 1..Len(order)
    BY DEF TypeOK
<1>2. CASE found = {}
    <2>1. /\ order' = <<>> /\ idle' = idle
          /\ user' = [user EXCEPT ![u] = [@ EXCEPT !.pc = "waiting", !.signalled = FALSE]]
        BY <1>2 DEF Pop
    <2>2. Covered => idle = {}
        BY <1>2 DEF Covered
    <2>3. order' \in Seq(Tunnels)
        BY <2>1
    <2> QED BY <2>1, <2>2, <2>3 DEF Covered
<1>3. CASE found # {}
    <2>1. PICK n \in found : /\ \A m \in found : n <= m
                             /\ user' = Set(u, "probing", order[n])
                             /\ idle' = idle \ {order[n]}
                             /\ order' = SubSeq(order, n + 1, Len(order))
        BY <1>3 DEF Pop
    <2>2. n \in 1..Len(order) /\ order[n] \in idle
        BY <1>1, <2>1
    <2>3. /\ order' \in Seq(Tunnels)
          /\ Len(order') = Len(order) - n
          /\ DOMAIN order' = 1..Len(order')
          /\ \A i \in 1..Len(order)-n : order'[i] = order[i + n]
        <3>1. \A i \in n+1..Len(order) : order[i] \in Tunnels
            BY <1>1, <2>2
        <3>2. order' \in Seq(Tunnels)
            BY <1>1, <2>1, <2>2, <3>1, SubSeqProperties
        <3>3. /\ Len(order') = Len(order) - n
              /\ \A i \in 1..Len(order)-n : order'[i] = order[i + n]
            BY <1>1, <2>1, <2>2, SubSeqProperties
        <3> QED BY <3>2, <3>3
    <2>4. ASSUME Covered, NEW x \in idle' PROVE \E i \in DOMAIN order' : order'[i] = x
        <3>1. x \in idle /\ x # order[n]
            BY <2>1
        <3>2. PICK m \in DOMAIN order : order[m] = x
            BY <2>4, <3>1 DEF Covered
        <3>3. m \in found /\ m \in 1..Len(order)
            BY <1>1, <3>1, <3>2
        <3>4. m > n
            BY <1>1, <2>1, <2>2, <3>1, <3>2, <3>3
        <3>5. m - n \in 1..Len(order)-n /\ (m - n) + n = m
            BY <1>1, <2>2, <3>3, <3>4
        <3> QED BY <2>3, <3>2, <3>5
    <2>5. Covered => Covered'
        BY <2>4 DEF Covered
    <2> QED BY <2>1, <2>2, <2>3, <2>5
<1> QED BY <1>2, <1>3

(***************************************************************************)
(* Where the users go.                                                     *)
(***************************************************************************)
\* Every step of a user, as a move from one point of Acquire, Recycle or Remove to
\* another.
LEMMA UserMoves ==
    ASSUME TypeOK, Hands, NEW u \in Users
    PROVE  /\ StartAcquire(u) => UserGoes(user', u, "popping", NoTunnel)
           /\ Pop(u) => \/ /\ UserGoes(user', u, "waiting", NoTunnel)
                           /\ idle' = idle /\ (Covered => idle = {})
                           /\ \A v \in Users : v # u => user'[v] = user[v]
                        \/ /\ \E t \in idle : /\ UserGoes(user', u, "probing", t)
                                              /\ idle' = idle \ {t}
                           /\ \A v \in Users : user'[v].signalled = user[v].signalled
           /\ Wake(u) => /\ \E pc \in {"popping", "out"} : UserGoes(user', u, pc, NoTunnel)
                         /\ \A v \in Users : v # u => user'[v] = user[v]
           /\ ProbePopped(u) => \/ UserGoes(user', u, "probed", user[u].t)
                                \/ UserGoes(user', u, "popping", NoTunnel)
           /\ PushBack(u) => /\ UserGoes(user', u, "out", NoTunnel)
                             /\ \A v \in Users : user[v].pc = "waiting" => user'[v].signalled
           /\ Settle(u) => \/ UserGoes(user', u, "using", user[u].t)
                           \/ UserGoes(user', u, "popping", NoTunnel)
           /\ StartRead(u) => UserGoes(user', u, "reading", user[u].t)
           /\ EndRead(u) => UserGoes(user', u, "using", user[u].t)
           /\ StartRecycle(u) => \/ UserGoes(user', u, "putting", user[u].t)
                                 \/ UserGoes(user', u, "out", NoTunnel)
           /\ Remove(u) => UserGoes(user', u, "out", NoTunnel)
           /\ PutRecycled(u) => UserGoes(user', u, "out", NoTunnel)
           /\ StartAcquire(u) \/ ProbePopped(u) \/ Settle(u) \/ StartRead(u) \/ EndRead(u)
                \/ UserWrites(u) \/ StartRecycle(u) \/ Remove(u) =>
                   \A v \in Users : user'[v].signalled = user[v].signalled
<1>1. UsersStay(user) /\ user \in [Users -> UserType] /\ user[u] \in UserType
    BY Types DEF UsersStay
<1>2. /\ user[u].t \in Tunnels \cup {NoTunnel}
      /\ user[u].pc \in {"popping", "waiting"} => user[u].t = NoTunnel
    BY <1>1, PoolConstants DEF UserType, Hands
<1>3. ASSUME NEW pc \in {"out", "popping", "waiting", "probing", "probed",
                         "using", "reading", "putting"},
             NEW t \in Tunnels \cup {NoTunnel}
      PROVE  /\ UserGoes(Set(u, pc, t), u, pc, t)
             /\ \A v \in Users : Set(u, pc, t)[v].signalled = user[v].signalled
    <2> DEFINE us == Set(u, pc, t)
               x == With(user[u], pc, t)
    <2>1. us = [user EXCEPT ![u] = x]
        BY DEF Set, With
    <2>2. x \in UserType /\ x.pc = pc /\ x.t = t /\ x.signalled = user[u].signalled
        <3>1. pc \in Points
            BY DEF Points
        <3> QED BY <1>1, <3>1, RecordGoes
    <2> HIDE DEF us, x
    <2>3. UserGoes(us, u, pc, t) /\ \A v \in Users : us[v].signalled = user[v].signalled
        BY <1>1, <2>1, <2>2, SetGoes
    <2> QED BY <2>3 DEF us
<1>4. Pop(u) => \/ /\ UserGoes(user', u, "waiting", NoTunnel)
                   /\ idle' = idle /\ (Covered => idle = {})
                   /\ \A v \in Users : v # u => user'[v] = user[v]
                \/ /\ \E t \in idle : /\ UserGoes(user', u, "probing", t)
                                      /\ idle' = idle \ {t}
                   /\ \A v \in Users : user'[v].signalled = user[v].signalled
    <2> SUFFICES ASSUME Pop(u)
                 PROVE  \/ /\ UserGoes(user', u, "waiting", NoTunnel)
                           /\ idle' = idle /\ (Covered => idle = {})
                           /\ \A v \in Users : v # u => user'[v] = user[v]
                        \/ /\ \E t \in idle : /\ UserGoes(user', u, "probing", t)
                                              /\ idle' = idle \ {t}
                           /\ \A v \in Users : user'[v].signalled = user[v].signalled
        OBVIOUS
    <2>1. user[u].t = NoTunnel
        BY <1>2 DEF Pop
    <2>2. CASE /\ idle' = idle
               /\ Covered => idle = {}
               /\ user' = [user EXCEPT ![u] = [@ EXCEPT !.pc = "waiting", !.signalled = FALSE]]
        <3>1. user' = Paused(u, "waiting")
            BY <2>2 DEF Paused
        <3>2. /\ UserGoes(user', u, "waiting", user[u].t)
              /\ \A v \in Users : v # u => user'[v] = user[v]
            BY <1>1, <3>1, WaitGoes
        <3> QED BY <2>1, <2>2, <3>2
    <2>3. CASE \E t \in idle : idle' = idle \ {t} /\ user' = Set(u, "probing", t)
        <3>1. PICK t \in idle : idle' = idle \ {t} /\ user' = Set(u, "probing", t)
            BY <2>3
        <3>2. t \in Tunnels \cup {NoTunnel}
            BY DEF TypeOK
        <3>3. /\ UserGoes(user', u, "probing", t)
              /\ \A v \in Users : user'[v].signalled = user[v].signalled
            BY <1>3, <3>1, <3>2
        <3> QED BY <3>1, <3>3
    <2> QED BY <2>2, <2>3, PopGives
<1>5. Wake(u) => /\ \E pc \in {"popping", "out"} : UserGoes(user', u, pc, NoTunnel)
                 /\ \A v \in Users : v # u => user'[v] = user[v]
    <2> SUFFICES ASSUME Wake(u)
                 PROVE  /\ \E pc \in {"popping", "out"} : UserGoes(user', u, pc, NoTunnel)
                        /\ \A v \in Users : v # u => user'[v] = user[v]
        OBVIOUS
    <2>1. user[u].t = NoTunnel
        BY <1>2 DEF Wake
    <2>2. PICK pc \in {"popping", "out"} : user' = Paused(u, pc)
        BY DEF Wake, Paused
    <2>3. UserGoes(user', u, pc, user[u].t) /\ \A v \in Users : v # u => user'[v] = user[v]
        BY <1>1, <2>2, WaitGoes
    <2> QED BY <2>1, <2>3
<1>6. PushBack(u) => /\ UserGoes(user', u, "out", NoTunnel)
                     /\ \A v \in Users : user[v].pc = "waiting" => user'[v].signalled
    <2> SUFFICES ASSUME PushBack(u)
                 PROVE  /\ UserGoes(user', u, "out", NoTunnel)
                        /\ \A v \in Users : user[v].pc = "waiting" => user'[v].signalled
        OBVIOUS
    <2>1. PICK b \in BOOLEAN : b
        OBVIOUS
    <2> DEFINE us == Notified
    <2>2. us = Told(user, b)
        BY <2>1 DEF Notified, Told
    <2>3. user' = [us EXCEPT ![u] = [@ EXCEPT !.pc = "out", !.t = NoTunnel]]
        BY DEF PushBack
    <2> HIDE DEF us
    <2>4. /\ us \in [Users -> UserType]
          /\ \A v \in Users : us[v].pc = user[v].pc /\ us[v].t = user[v].t
          /\ \A v \in Users : us[v].signalled <=>
                                (user[v].signalled \/ (b /\ user[v].pc = "waiting"))
        BY <1>1, <2>2, SignalMovesNobody
    <2>5. UsersStay(us)
        BY <2>4 DEF UsersStay
    <2> DEFINE x == With(us[u], "out", NoTunnel)
    <2>6. user' = [us EXCEPT ![u] = x]
        BY <2>3 DEF With
    <2>7. x \in UserType /\ x.pc = "out" /\ x.t = NoTunnel /\ x.signalled = us[u].signalled
        BY <2>4, RecordGoes DEF Points
    <2> HIDE DEF x
    <2>8. UserGoes(user', u, "out", NoTunnel)
        BY <2>4, <2>6, <2>7 DEF UserGoes
    <2>9. \A v \in Users : user'[v].signalled = us[v].signalled
        BY <2>4, <2>6, <2>7
    <2> QED BY <2>1, <2>4, <2>8, <2>9
<1>7. PutRecycled(u) => UserGoes(user', u, "out", NoTunnel)
    <2> SUFFICES ASSUME PutRecycled(u) PROVE UserGoes(user', u, "out", NoTunnel)
        OBVIOUS
    <2> DEFINE us == Set(u, "out", NoTunnel)
    <2>1. UserGoes(us, u, "out", NoTunnel)
        BY <1>3
    <2>2. user[u].t \in Tunnels
        BY DEF PutRecycled, Hands
    <2>3. us \in [Users -> UserType]
        BY <2>1 DEF UserGoes
    <2>4. PutIdle(user[u].t, us) \/ user' = us
        BY DEF PutRecycled
    <2> HIDE DEF us
    <2>5. CASE user' = us
        BY <2>1, <2>5
    <2>6. CASE PutIdle(user[u].t, us)
        <3>1. /\ user' \in [Users -> UserType]
              /\ \A v \in Users : user'[v].pc = us[v].pc /\ user'[v].t = us[v].t
            BY <2>2, <2>3, <2>6, PutIdleGives
        <3> QED BY <2>1, <3>1 DEF UserGoes
    <2> QED BY <2>4, <2>5, <2>6
<1>8. StartAcquire(u) => user' = Set(u, "popping", NoTunnel)
    BY DEF StartAcquire
<1>9. ProbePopped(u) => user' = Set(u, "probed", user[u].t) \/ user' = Set(u, "popping", NoTunnel)
    BY DEF ProbePopped
<1>10. Settle(u) => user' = Set(u, "using", user[u].t) \/ user' = Set(u, "popping", NoTunnel)
    BY DEF Settle
<1>11. StartRead(u) => user' = Set(u, "reading", user[u].t)
    BY DEF StartRead
<1>12. EndRead(u) => user' = Set(u, "using", user[u].t)
    BY DEF EndRead
<1>13. StartRecycle(u) => user' = Set(u, "putting", user[u].t) \/ user' = Set(u, "out", NoTunnel)
    BY DEF StartRecycle
<1>14. Remove(u) => user' = Set(u, "out", NoTunnel)
    BY DEF Remove
<1>15. UserWrites(u) => user' = user
    BY DEF UserWrites
<1> QED
    BY <1>2, <1>3, <1>4, <1>5, <1>6, <1>7, <1>8, <1>9, <1>10, <1>11, <1>12, <1>13, <1>14, <1>15

(***************************************************************************)
(* Type correctness, and who has a tunnel in hand.                         *)
(***************************************************************************)
\* A user's move respects the types and the hands.
LEMMA GoesTyped ==
    ASSUME TypeOK, Hands, NEW u \in Users, NEW pc, NEW t, UserGoes(user', u, pc, t),
           pc \in {"probing", "probed", "using", "reading", "putting"} <=> t \in Tunnels
    PROVE  /\ user' \in [Users -> UserType]
           /\ \A v \in Users : user'[v].pc \in {"probing", "probed", "using", "reading", "putting"}
                                  <=> user'[v].t \in Tunnels
    BY DEF UserGoes, Hands

\* The types are kept and the hands right after every step of a user.
LEMMA UserTypes ==
    ASSUME TypeOK, Hands, Links, NEW u \in Users, UserStep(u)
    PROVE  TypeOK' /\ Hands'
<1> DEFINE UserOK == /\ user' \in [Users -> UserType]
                     /\ \A v \in Users :
                            user'[v].pc \in {"probing", "probed", "using", "reading", "putting"}
                                <=> user'[v].t \in Tunnels
           PoolOK == /\ idle' \subseteq Tunnels /\ inUse' \subseteq Tunnels /\ aged' \subseteq Tunnels
                     /\ order' \in Seq(Tunnels) /\ ev' \in EvType
           Rest == UNCHANGED <<serverVars, agentVars, boundVars>>
<1>1. UserOK /\ PoolOK /\ Rest => TypeOK' /\ Hands'
    <2> SUFFICES ASSUME UserOK, PoolOK, Rest PROVE TypeOK' /\ Hands'
        OBVIOUS
    <2>1. side' = side /\ tun' \in [Tunnels -> TunnelType]
        BY UserTunnels DEF TunnelsKeep
    <2>2. UNCHANGED <<sv, pending, acc, con, handler, worker, seen, sends, sweeps>>
        BY DEF serverVars, agentVars, boundVars
    <2>3. TypeOK'
        BY <2>1, <2>2 DEF TypeOK, TunnelType, UserType, EvType
    <2>4. Hands'
        BY <2>2 DEF Hands
    <2> QED BY <2>3, <2>4
<1>2. /\ idle \subseteq Tunnels /\ inUse \subseteq Tunnels /\ aged \subseteq Tunnels
      /\ order \in Seq(Tunnels) /\ ev \in EvType /\ user \in [Users -> UserType]
      /\ user[u].pc \in {"probing", "probed", "using", "reading", "putting"}
            <=> user[u].t \in Tunnels
      /\ NoTunnel \notin Tunnels
    BY Types, PoolConstants DEF TypeOK, Hands
<1>3. CASE StartAcquire(u)
    <2>1. UserOK
        BY <1>2, <1>3, UserMoves, GoesTyped
    <2> QED BY <1>1, <1>2, <1>3, <2>1 DEF StartAcquire, poolVars
<1>4. CASE Pop(u)
    <2>1. UserOK /\ idle' \subseteq Tunnels
        <3>1. \A t \in idle : t \in Tunnels
            BY <1>2
        <3> QED BY <1>2, <1>4, <3>1, UserMoves, GoesTyped
    <2>2. order' \in Seq(Tunnels)
        BY <1>4, PopGives
    <2> QED BY <1>1, <1>2, <1>4, <2>1, <2>2 DEF Pop
<1>5. CASE Wake(u)
    <2>1. UserOK
        BY <1>2, <1>5, UserMoves, GoesTyped
    <2> QED BY <1>1, <1>2, <1>5, <2>1 DEF Wake, poolVars
<1>6. CASE ProbePopped(u)
    <2>1. user[u].t \in Tunnels
        BY <1>2, <1>6 DEF ProbePopped
    <2>2. UserOK
        BY <1>2, <1>6, <2>1, UserMoves, GoesTyped
    <2> QED BY <1>1, <1>2, <1>6, <2>2 DEF ProbePopped
<1>7. CASE PushBack(u)
    <2>1. user[u].t \in Tunnels
        BY <1>2, <1>7 DEF PushBack
    <2>2. UserOK
        BY <1>2, <1>7, UserMoves, GoesTyped
    <2>3. order' \in Seq(Tunnels) /\ idle' \subseteq Tunnels
        BY <1>2, <1>7, <2>1 DEF PushBack
    <2> QED BY <1>1, <1>2, <1>7, <2>2, <2>3 DEF PushBack
<1>8. CASE Settle(u)
    <2>1. user[u].t \in Tunnels
        BY <1>2, <1>8 DEF Settle
    <2>2. UserOK
        BY <1>2, <1>8, <2>1, UserMoves, GoesTyped
    <2> QED BY <1>1, <1>2, <1>8, <2>1, <2>2 DEF Settle
<1>9. CASE StartRead(u) \/ EndRead(u)
    <2>1. user[u].t \in Tunnels
        BY <1>2, <1>9 DEF StartRead, EndRead
    <2>2. UserOK
        BY <1>2, <1>9, <2>1, UserMoves, GoesTyped
    <2> QED BY <1>1, <1>2, <1>9, <2>2 DEF StartRead, EndRead, poolVars
<1>10. CASE UserWrites(u)
    <2>1. user' = user /\ PoolOK /\ Rest
        BY <1>2, <1>10 DEF UserWrites, poolVars
    <2>2. UserOK
        BY <1>2, <2>1 DEF Hands
    <2> QED BY <1>1, <2>1, <2>2
<1>11. CASE StartRecycle(u)
    <2>1. user[u].t \in Tunnels
        BY <1>2, <1>11 DEF StartRecycle
    <2>2. UserOK
        BY <1>2, <1>11, <2>1, UserMoves, GoesTyped
    <2> QED BY <1>1, <1>2, <1>11, <2>2 DEF StartRecycle
<1>12. CASE PutRecycled(u)
    <2>1. user[u].t \in Tunnels
        BY <1>2, <1>12 DEF PutRecycled
    <2>2. UserOK
        BY <1>2, <1>12, UserMoves, GoesTyped
    <2>3. Rest
        BY <1>12 DEF PutRecycled
    <2>4. CASE UNCHANGED <<poolVars, ev>>
        BY <1>1, <1>2, <2>2, <2>3, <2>4 DEF poolVars
    <2>5. CASE PutIdle(user[u].t, Set(u, "out", NoTunnel))
        <3> DEFINE us == [user EXCEPT ![u] = With(user[u], "out", NoTunnel)]
        <3>1. With(user[u], "out", NoTunnel) \in UserType
            BY <1>2, RecordGoes DEF Points
        <3>2. us \in [Users -> UserType] /\ Set(u, "out", NoTunnel) = us
            BY <1>2, <3>1 DEF Set, With
        <3> HIDE DEF us
        <3>3. /\ idle' = idle \cup {user[u].t} /\ inUse' = inUse /\ aged' = aged \ {user[u].t}
              /\ order' \in Seq(Tunnels) /\ ev' \in EvType
            BY <2>1, <2>5, <3>2, PutIdleGives
        <3> QED BY <1>1, <1>2, <2>1, <2>2, <2>3, <3>3
    <2> QED BY <1>12, <2>4, <2>5 DEF PutRecycled
<1>13. CASE Remove(u)
    <2>1. UserOK
        BY <1>2, <1>13, UserMoves, GoesTyped
    <2>2. order' \in Seq(Tunnels)
        BY <1>13, OrderWithout DEF Remove
    <2> QED BY <1>1, <1>2, <1>13, <2>1, <2>2 DEF Remove
<1> QED
    BY <1>3, <1>4, <1>5, <1>6, <1>7, <1>8, <1>9, <1>10, <1>11, <1>12, <1>13 DEF UserStep

\* What the maintenance looks at and takes out.
LEMMA EvFields ==
    ASSUME TypeOK
    PROVE  /\ Resting \in EvType
           /\ ev.pc \in {"rest", "scanning", "closing"} /\ ev.snap \subseteq Tunnels
           /\ ev.same \subseteq Tunnels /\ ev.expired \subseteq Tunnels
           /\ ev.cand \subseteq Tunnels /\ ev.out \subseteq Tunnels
<1>1. ev \in EvType
    BY Types
<1> QED BY <1>1 DEF EvType, Resting

Sweeping(e, o, x) == [e EXCEPT !.pc = "closing", !.out = o, !.expired = x]

\* What each step of the maintenance makes of `ev'.
LEMMA EvMoves ==
    ASSUME TypeOK
    PROVE  /\ EvictExpired => /\ ev' \in EvType /\ ev'.pc = "closing"
                              /\ ev'.out = aged \cap idle /\ ev'.expired = aged \cap idle
           /\ Snapshot => /\ ev' \in EvType /\ ev'.pc = "scanning" /\ ev'.same = idle
                          /\ ev'.expired = aged \cap idle /\ ev'.out = {}
           /\ \A t \in Tunnels : Scan(t) =>
                 /\ ev' \in EvType /\ ev'.pc = ev.pc /\ ev'.same = ev.same
                 /\ ev'.expired = ev.expired /\ ev'.out = ev.out
           /\ EvictCandidates =>
                 LET gone == {t \in ev.cand : StillThere(t)} IN
                 /\ ev' \in EvType /\ ev'.out = gone /\ ev'.pc # "scanning"
                 /\ ev'.expired \subseteq ev.expired /\ (gone # {} => ev'.pc = "closing")
           /\ \A t \in Tunnels : CloseEvicted(t) =>
                 /\ ev' \in EvType /\ ev'.out = ev.out \ {t} /\ ev'.expired \subseteq ev.expired
                 /\ ev'.pc # "scanning" /\ (ev'.pc # "closing" => ev'.out = {})
<1>1. ev \in EvType /\ idle \subseteq Tunnels
    BY Types DEF TypeOK
<1>2. /\ Resting \in EvType /\ Resting.pc = "rest" /\ Resting.out = {} /\ Resting.expired = {}
      /\ Resting.same = {}
    BY DEF Resting, EvType
<1>3. ASSUME NEW e \in EvType, NEW o \in SUBSET Tunnels, NEW x \in SUBSET Tunnels
      PROVE  /\ Sweeping(e, o, x) \in EvType /\ Sweeping(e, o, x).pc = "closing"
             /\ Sweeping(e, o, x).out = o /\ Sweeping(e, o, x).expired = x
    <2> DEFINE a == [e EXCEPT !.pc = "closing"]
               b == [a EXCEPT !.out = o]
               c == [b EXCEPT !.expired = x]
    <2>1. a \in EvType /\ a.pc = "closing"
        BY DEF EvType
    <2>2. b \in EvType /\ b.pc = "closing" /\ b.out = o
        <3> HIDE DEF a
        <3> QED BY <2>1 DEF EvType
    <2>3. c \in EvType /\ c.pc = "closing" /\ c.out = o /\ c.expired = x
        <3> HIDE DEF b
        <3> QED BY <2>2 DEF EvType
    <2>4. Sweeping(e, o, x) = c
        BY DEF EvType, Sweeping
    <2> HIDE DEF c
    <2> QED BY <2>3, <2>4
<1>4. ASSUME EvictExpired
      PROVE  /\ ev' \in EvType /\ ev'.pc = "closing"
             /\ ev'.out = aged \cap idle /\ ev'.expired = aged \cap idle
    <2> DEFINE o == aged \cap idle
    <2>1. ev' = Sweeping(ev, o, o)
        BY <1>4 DEF EvictExpired, Sweeping
    <2>2. o \in SUBSET Tunnels
        BY <1>1
    <2> HIDE DEF o
    <2>3. ev' \in EvType /\ ev'.pc = "closing" /\ ev'.out = o /\ ev'.expired = o
        BY <1>1, <1>3, <2>1, <2>2
    <2> QED BY <2>3 DEF o
<1>5. ASSUME Snapshot
      PROVE  /\ ev' \in EvType /\ ev'.pc = "scanning" /\ ev'.same = idle
             /\ ev'.expired = aged \cap idle /\ ev'.out = {}
    BY <1>1, <1>5 DEF Snapshot, EvType
<1>6. ASSUME NEW t \in Tunnels, Scan(t)
      PROVE  /\ ev' \in EvType /\ ev'.pc = ev.pc /\ ev'.same = ev.same
             /\ ev'.expired = ev.expired /\ ev'.out = ev.out
    <2>1. PICK s, c : ev' = [ev EXCEPT !.snap = s, !.cand = c]
                      /\ s \in SUBSET Tunnels /\ c \in SUBSET Tunnels
        <3> DEFINE s == ev.snap \ {t}
                   c == IF t \in ev.expired \/ ~Fit(tun'[t]) THEN ev.cand \cup {t} ELSE ev.cand
        <3>1. ev' = [ev EXCEPT !.snap = s, !.cand = c]
            BY <1>6 DEF Scan
        <3>2. s \in SUBSET Tunnels /\ c \in SUBSET Tunnels
            BY EvFields
        <3> QED BY <3>1, <3>2
    <2> DEFINE a == [ev EXCEPT !.snap = s]
               b == [a EXCEPT !.cand = c]
    <2>2. /\ a \in EvType /\ a.pc = ev.pc /\ a.same = ev.same
          /\ a.expired = ev.expired /\ a.out = ev.out
        BY <1>1, <2>1 DEF EvType
    <2>3. /\ b \in EvType /\ b.pc = ev.pc /\ b.same = ev.same
          /\ b.expired = ev.expired /\ b.out = ev.out
        <3> HIDE DEF a
        <3> QED BY <2>1, <2>2 DEF EvType
    <2>4. ev' = b
        BY <1>1, <2>1 DEF EvType
    <2> HIDE DEF b
    <2> QED BY <2>3, <2>4
<1>7. ASSUME EvictCandidates
      PROVE  LET gone == {t \in ev.cand : StillThere(t)} IN
             /\ ev' \in EvType /\ ev'.out = gone /\ ev'.pc # "scanning"
             /\ ev'.expired \subseteq ev.expired /\ (gone # {} => ev'.pc = "closing")
    <2> DEFINE gone == {t \in ev.cand : StillThere(t)}
               x == ev.expired \cap gone
    <2>1. gone \in SUBSET Tunnels /\ x \in SUBSET Tunnels /\ x \subseteq ev.expired
        BY EvFields
    <2>2. ev' = IF gone = {} THEN Resting
                ELSE Sweeping(Resting, gone, x)
        BY <1>7 DEF EvictCandidates, Sweeping
    <2> HIDE DEF gone, x
    <2>3. LET f == Sweeping(Resting, gone, x)
          IN  f \in EvType /\ f.pc = "closing" /\ f.out = gone /\ f.expired = x
        BY <1>2, <1>3, <2>1
    <2>4. CASE gone = {}
        BY <1>2, <2>2, <2>4 DEF gone
    <2>5. CASE gone # {}
        BY <2>1, <2>2, <2>3, <2>5 DEF gone
    <2> QED BY <2>4, <2>5
<1>8. ASSUME NEW t \in Tunnels, CloseEvicted(t)
      PROVE  /\ ev' \in EvType /\ ev'.out = ev.out \ {t} /\ ev'.expired \subseteq ev.expired
             /\ ev'.pc # "scanning" /\ (ev'.pc # "closing" => ev'.out = {})
    <2>1. ev.pc = "closing" /\ ev' = IF ev.out = {t} THEN Resting ELSE [ev EXCEPT !.out = ev.out \ {t}]
        BY <1>8 DEF CloseEvicted
    <2>2. CASE ev.out = {t}
        BY <1>2, <2>1, <2>2
    <2>3. CASE ev.out # {t}
        <3>1. ev' = [ev EXCEPT !.out = ev.out \ {t}]
            BY <2>1, <2>3
        <3> QED BY <1>1, <2>1, <3>1 DEF EvType
    <2> QED BY <2>2, <2>3
<1> QED BY <1>4, <1>5, <1>6, <1>7, <1>8

\* The types are kept and the hands right after every step of the maintenance.
LEMMA MaintenanceTypes ==
    ASSUME TypeOK, Hands, Links, Maintenance
    PROVE  TypeOK' /\ Hands'
<1> DEFINE PoolOK == /\ idle' \subseteq Tunnels /\ inUse' = inUse /\ aged' \subseteq Tunnels
                     /\ order' \in Seq(Tunnels) /\ ev' \in EvType
                     /\ sweeps' \in 0..side.sweeps
           Rest == UNCHANGED <<user, serverVars, agentVars, sends>>
<1>1. PoolOK /\ Rest => TypeOK' /\ Hands'
    <2> SUFFICES ASSUME PoolOK, Rest PROVE TypeOK' /\ Hands'
        OBVIOUS
    <2>1. side' = side /\ tun' \in [Tunnels -> TunnelType]
        BY MaintenanceTunnels DEF TunnelsKeep
    <2>2. UNCHANGED <<user, sv, pending, acc, con, handler, worker, seen, sends>>
        BY DEF serverVars, agentVars
    <2>3. TypeOK'
        BY <2>1, <2>2 DEF TypeOK, TunnelType, EvType
    <2>4. Hands'
        BY <2>2 DEF Hands
    <2> QED BY <2>3, <2>4
<1>2. /\ idle \subseteq Tunnels /\ inUse \subseteq Tunnels /\ aged \subseteq Tunnels
      /\ order \in Seq(Tunnels) /\ ev \in EvType
      /\ side.sweeps \in Nat /\ sweeps \in 0..side.sweeps
    BY Types DEF TypeOK
<1>3. CASE EvictExpired
    <2>1. sweeps' \in 0..side.sweeps
        BY <1>2, <1>3 DEF EvictExpired
    <2>2. order' \in Seq(Tunnels) /\ idle' \subseteq Tunnels
        BY <1>2, <1>3, OrderWithout DEF EvictExpired, TakeIdle
    <2> QED BY <1>1, <1>2, <1>3, <2>1, <2>2, EvMoves DEF EvictExpired, TakeIdle
<1>4. CASE Snapshot
    <2>1. sweeps' \in 0..side.sweeps
        BY <1>2, <1>4 DEF Snapshot
    <2> QED BY <1>1, <1>2, <1>4, <2>1, EvMoves DEF Snapshot, poolVars
<1>5. ASSUME NEW t \in Tunnels, Scan(t) PROVE TypeOK' /\ Hands'
    BY <1>1, <1>2, <1>5, EvMoves DEF Scan, poolVars, boundVars
<1>6. CASE EvictCandidates
    <2>1. PICK gone : idle' = idle \ gone /\ order' = Without(order, gone)
        BY <1>6 DEF EvictCandidates, TakeIdle
    <2>2. order' \in Seq(Tunnels) /\ idle' \subseteq Tunnels
        BY <1>2, <2>1, OrderWithout
    <2> QED BY <1>1, <1>2, <1>6, <2>2, EvMoves DEF EvictCandidates, TakeIdle, boundVars
<1>7. ASSUME NEW t \in Tunnels, CloseEvicted(t) \/ Age(t) PROVE TypeOK' /\ Hands'
    BY <1>1, <1>2, <1>7, EvMoves DEF CloseEvicted, Age, boundVars
<1> QED BY <1>3, <1>4, <1>5, <1>6, <1>7 DEF Maintenance

\* The acceptor: how its queue, its loop and its consumer move.
SvType == [pc : {"accepting", "offering", "sent", "draining", "ended"},
           t : Tunnels \cup {NoTunnel}]
ConType == [pc : {"waiting", "taken", "putting", "ended"}, t : Tunnels \cup {NoTunnel}]

\* What the head of the queue leaves behind.
LEMMA HeadAndTail ==
    ASSUME TypeOK, pending # <<>>
    PROVE  /\ Head(pending) \in Tunnels /\ Tail(pending) \in Seq(Tunnels)
           /\ Queued(Head(pending))
           /\ DOMAIN pending = 1..Len(pending) /\ Len(pending) \in Nat /\ Len(pending) > 0
           /\ DOMAIN Tail(pending) = 1..Len(pending)-1
           /\ \A i \in 1..Len(pending)-1 : Tail(pending)[i] = pending[i + 1]
           /\ Head(pending) = pending[1]
<1>1. pending \in Seq(Tunnels)
    BY DEF TypeOK
<1>2. Len(pending) \in Nat /\ Len(pending) > 0 /\ DOMAIN pending = 1..Len(pending)
    BY <1>1
<1>3. Head(pending) = pending[1] /\ 1 \in DOMAIN pending
    BY <1>1, <1>2
<1> QED BY <1>1, <1>2, <1>3, HeadTailProperties DEF Queued

\* And what joins it.
LEMMA QueueJoined ==
    ASSUME TypeOK, NEW t \in Tunnels
    PROVE  /\ Append(pending, t) \in Seq(Tunnels)
           /\ DOMAIN pending = 1..Len(pending) /\ Len(pending) \in Nat
           /\ DOMAIN Append(pending, t) = 1..Len(pending)+1
           /\ \A i \in 1..Len(pending) : Append(pending, t)[i] = pending[i]
           /\ Append(pending, t)[Len(pending) + 1] = t
<1>1. pending \in Seq(Tunnels)
    BY DEF TypeOK
<1> QED BY <1>1

\* The types are kept and the hands right after every step of the acceptor.
LEMMA ServerTypes ==
    ASSUME TypeOK, Hands, Links, ServerStep
    PROVE  TypeOK' /\ Hands'
<1> DEFINE AccOK == /\ sv' \in SvType /\ con' \in ConType
                    /\ sv'.pc = "offering" <=> sv'.t \in Tunnels
                    /\ con'.pc \in {"taken", "putting"} <=> con'.t \in Tunnels
                    /\ acc' \in {"open", "draining", "closed"} /\ pending' \in Seq(Tunnels)
                    /\ handler' \in [Tunnels -> {"none", "offering", "serving", "ended"}]
           PoolOK == /\ idle' \subseteq Tunnels /\ inUse' = inUse /\ aged' \subseteq Tunnels
                     /\ order' \in Seq(Tunnels) /\ ev' \in EvType
                     /\ user' \in [Users -> UserType]
                     /\ \A u \in Users : user'[u].pc = user[u].pc /\ user'[u].t = user[u].t
           Rest == UNCHANGED <<agentVars, boundVars>>
           Pool == UNCHANGED <<user, poolVars, ev>>
<1>0. side' = side /\ tun' \in [Tunnels -> TunnelType]
    BY ServerTunnels, NewTunnels DEF ServerStep, TunnelsKeep
<1>1. AccOK /\ PoolOK /\ Rest => TypeOK' /\ Hands'
    <2> SUFFICES ASSUME AccOK, PoolOK, Rest PROVE TypeOK' /\ Hands'
        OBVIOUS
    <2>2. UNCHANGED <<worker, seen, sends, sweeps>>
        BY DEF agentVars, boundVars
    <2>3. TypeOK'
        BY <1>0, <2>2 DEF TypeOK, TunnelType, EvType, UserType, SvType, ConType
    <2>4. Hands'
        BY <2>2 DEF Hands
    <2> QED BY <2>3, <2>4
<1>2. /\ idle \subseteq Tunnels /\ inUse \subseteq Tunnels /\ aged \subseteq Tunnels
      /\ order \in Seq(Tunnels) /\ ev \in EvType /\ user \in [Users -> UserType]
      /\ sv \in SvType /\ con \in ConType /\ acc \in {"open", "draining", "closed"}
      /\ handler \in [Tunnels -> {"none", "offering", "serving", "ended"}]
      /\ pending \in Seq(Tunnels)
      /\ NoTunnel \notin Tunnels
      /\ sv.pc = "offering" <=> sv.t \in Tunnels
      /\ con.pc \in {"taken", "putting"} <=> con.t \in Tunnels
    BY Types, PoolConstants DEF TypeOK, Hands, SvType, ConType
<1>3. Pool => PoolOK
    BY <1>2 DEF poolVars
<1> HIDE DEF PoolOK
<1>4. ASSUME NEW t \in Tunnels, Accept(t) PROVE TypeOK' /\ Hands'
    <2>1. Pool /\ Rest /\ UNCHANGED <<con, acc, pending, handler>>
        BY <1>4 DEF Accept
    <2>2. sv' \in SvType /\ (sv'.pc = "offering" <=> sv'.t \in Tunnels)
        BY <1>4 DEF Accept, SvType
    <2> QED BY <1>1, <1>2, <1>3, <2>1, <2>2
<1>5. ASSUME NEW t \in Tunnels, HandleTunnelStream(t) \/ HandlerEnds(t) PROVE TypeOK' /\ Hands'
    <2>1. Pool /\ Rest /\ UNCHANGED <<con, acc, pending, sv>>
        BY <1>5 DEF HandleTunnelStream, HandlerEnds
    <2>2. handler' \in [Tunnels -> {"none", "offering", "serving", "ended"}]
        BY <1>2, <1>5 DEF HandleTunnelStream, HandlerEnds
    <2> QED BY <1>1, <1>2, <1>3, <2>1, <2>2
<1>6. ASSUME NEW t \in Tunnels, OfferStream(t) PROVE TypeOK' /\ Hands'
    <2>1. Pool /\ Rest /\ UNCHANGED <<con, acc, sv>>
        BY <1>6 DEF OfferStream
    <2>2. /\ handler' \in [Tunnels -> {"none", "offering", "serving", "ended"}]
          /\ pending' \in Seq(Tunnels)
        BY <1>2, <1>6, QueueJoined DEF OfferStream
    <2> QED BY <1>1, <1>2, <1>3, <2>1, <2>2
<1>7. CASE Offer
    <2>1. Pool /\ Rest /\ UNCHANGED <<con, acc, handler>>
        BY <1>7 DEF Offer
    <2>2. sv.t \in Tunnels
        BY <1>2, <1>7 DEF Offer
    <2>3. sv' \in SvType /\ (sv'.pc = "offering" <=> sv'.t \in Tunnels)
        BY <1>2, <1>7 DEF Offer, SvType
    <2>4. pending' \in Seq(Tunnels)
        BY <1>2, <1>7, <2>2, QueueJoined DEF Offer
    <2> QED BY <1>1, <1>2, <1>3, <2>1, <2>3, <2>4
<1>8. CASE CheckDone \/ ServeEnds
    <2>1. Pool /\ Rest /\ UNCHANGED <<con, acc, handler, pending>>
        BY <1>8 DEF CheckDone, ServeEnds
    <2>2. PICK pc \in {"accepting", "draining", "ended"} : sv' = [sv EXCEPT !.pc = pc]
        BY <1>8 DEF CheckDone, ServeEnds
    <2>3. sv.pc # "offering"
        BY <1>8 DEF CheckDone, ServeEnds
    <2>4. sv' \in SvType /\ (sv'.pc = "offering" <=> sv'.t \in Tunnels)
        BY <1>2, <2>2, <2>3 DEF SvType
    <2> QED BY <1>1, <1>2, <1>3, <2>1, <2>4
<1>9. CASE CloseAcceptor
    <2>1. Pool /\ Rest /\ UNCHANGED <<con, sv, handler, pending>>
        BY <1>9 DEF CloseAcceptor
    <2>2. acc' \in {"open", "draining", "closed"}
        BY <1>9 DEF CloseAcceptor
    <2> QED BY <1>1, <1>2, <1>3, <2>1, <2>2
<1>10. CASE CloseConn
    BY <1>1, <1>2, <1>3, <1>10 DEF CloseConn, serverVars
<1>11. CASE DrainPending
    <2>1. Pool /\ Rest /\ UNCHANGED <<con, handler>>
        BY <1>11 DEF DrainPending
    <2>2. /\ pending' = pending \/ (pending # <<>> /\ pending' = Tail(pending))
          /\ acc' = acc \/ acc' = "closed"
          /\ sv' = sv \/ (sv.pc = "draining" /\ sv' = [sv EXCEPT !.pc = "ended"])
        BY <1>11 DEF DrainPending, Drain
    <2>3. pending' \in Seq(Tunnels)
        BY <1>2, <2>2, HeadAndTail
    <2>4. sv' \in SvType /\ (sv'.pc = "offering" <=> sv'.t \in Tunnels)
        BY <1>2, <2>2 DEF SvType
    <2> QED BY <1>1, <1>2, <1>3, <2>1, <2>2, <2>3, <2>4
<1>12. CASE TakePending
    <2>1. Pool /\ Rest /\ UNCHANGED <<acc, sv, handler>>
        BY <1>12 DEF TakePending
    <2>2. /\ pending' \in Seq(Tunnels)
          /\ con' \in ConType /\ (con'.pc \in {"taken", "putting"} <=> con'.t \in Tunnels)
        <3>1. CASE con' = [pc |-> "ended", t |-> NoTunnel] /\ pending' = pending
            BY <1>2, <3>1 DEF ConType
        <3>2. CASE /\ pending # <<>>
                   /\ con' = [pc |-> "taken", t |-> Head(pending)]
                   /\ pending' = Tail(pending)
            <4>1. Head(pending) \in Tunnels /\ pending' \in Seq(Tunnels)
                BY <3>2, HeadAndTail
            <4> QED BY <3>2, <4>1 DEF ConType
        <3> QED BY <1>12, <3>1, <3>2 DEF TakePending
    <2> QED BY <1>1, <1>2, <1>3, <2>1, <2>2
<1>13. CASE CheckTaken
    <2>1. Pool /\ Rest /\ UNCHANGED <<acc, sv, handler, pending>>
        BY <1>13 DEF CheckTaken
    <2>2. con.t \in Tunnels
        BY <1>2, <1>13 DEF CheckTaken
    <2>3. con' \in ConType /\ (con'.pc \in {"taken", "putting"} <=> con'.t \in Tunnels)
        BY <1>2, <1>13, <2>2 DEF CheckTaken, ConType
    <2> QED BY <1>1, <1>2, <1>3, <2>1, <2>3
<1>14. CASE PutAccepted
    <2>1. Rest /\ UNCHANGED <<acc, sv, handler, pending>>
        BY <1>14 DEF PutAccepted
    <2>2. con.t \in Tunnels
        BY <1>2, <1>14 DEF PutAccepted
    <2>3. con' \in ConType /\ (con'.pc \in {"taken", "putting"} <=> con'.t \in Tunnels)
        BY <1>2, <1>14 DEF PutAccepted, ConType
    <2>4. PoolOK
        <3>1. CASE Pool
            BY <1>3, <3>1
        <3>2. CASE PutIdle(con.t, user)
            BY <1>2, <2>2, <3>2, PutIdleGives DEF PoolOK
        <3> QED BY <1>14, <3>1, <3>2 DEF PutAccepted
    <2> QED BY <1>1, <1>2, <2>1, <2>3, <2>4
<1> QED
    BY <1>4, <1>5, <1>6, <1>7, <1>8, <1>9, <1>10, <1>11, <1>12, <1>13, <1>14 DEF ServerStep

\* And after every step of a refill.
LEMMA AgentTypes ==
    ASSUME TypeOK, Hands, Links, AgentStep
    PROVE  TypeOK' /\ Hands'
<1> DEFINE WorkersOK == /\ worker' \in [Workers -> [pc : {"free", "putting"},
                                                   t : Tunnels \cup {NoTunnel}]]
                        /\ \A w \in Workers : worker'[w].pc = "putting" <=> worker'[w].t \in Tunnels
                        /\ seen' \subseteq Requests
           PoolOK == /\ idle' \subseteq Tunnels /\ inUse' = inUse /\ aged' \subseteq Tunnels
                     /\ order' \in Seq(Tunnels) /\ ev' \in EvType
                     /\ user' \in [Users -> UserType]
                     /\ \A u \in Users : user'[u].pc = user[u].pc /\ user'[u].t = user[u].t
           Rest == UNCHANGED <<serverVars, boundVars>>
           Pool == UNCHANGED <<user, poolVars, ev>>
<1>0. side' = side /\ tun' \in [Tunnels -> TunnelType]
    BY RefillTunnels, NewTunnels DEF AgentStep, TunnelsKeep
<1>1. WorkersOK /\ PoolOK /\ Rest => TypeOK' /\ Hands'
    <2> SUFFICES ASSUME WorkersOK, PoolOK, Rest PROVE TypeOK' /\ Hands'
        OBVIOUS
    <2>2. UNCHANGED <<sv, pending, acc, con, handler, sends, sweeps>>
        BY DEF serverVars, boundVars
    <2>3. TypeOK'
        BY <1>0, <2>2 DEF TypeOK, TunnelType, EvType, UserType
    <2>4. Hands'
        BY <2>2 DEF Hands
    <2> QED BY <2>3, <2>4
<1>2. /\ idle \subseteq Tunnels /\ inUse \subseteq Tunnels /\ aged \subseteq Tunnels
      /\ order \in Seq(Tunnels) /\ ev \in EvType /\ user \in [Users -> UserType]
      /\ worker \in [Workers -> [pc : {"free", "putting"}, t : Tunnels \cup {NoTunnel}]]
      /\ \A w \in Workers : worker[w].pc = "putting" <=> worker[w].t \in Tunnels
      /\ seen \subseteq Requests /\ NoTunnel \notin Tunnels
    BY Types, PoolConstants DEF TypeOK, Hands
<1>3. Pool => PoolOK
    BY <1>2 DEF poolVars
<1> HIDE DEF PoolOK
<1>4. ASSUME NEW q \in Requests, HandleRefillRequest(q) PROVE TypeOK' /\ Hands'
    BY <1>1, <1>2, <1>3, <1>4 DEF HandleRefillRequest
<1>5. CASE RefillToTarget \/ RefillDone
    BY <1>1, <1>2, <1>3, <1>5 DEF RefillToTarget, RefillDone
<1>6. ASSUME NEW w \in Workers, NEW t \in Tunnels, OpenTunnel(w, t) PROVE TypeOK' /\ Hands'
    <2>1. Pool /\ Rest /\ seen' = seen
        BY <1>6 DEF OpenTunnel
    <2>2. worker' = worker \/ worker' = [worker EXCEPT ![w] = [pc |-> "putting", t |-> t]]
        BY <1>6 DEF OpenTunnel
    <2>3. WorkersOK
        BY <1>2, <2>1, <2>2
    <2> QED BY <1>1, <1>3, <2>1, <2>3
<1>7. ASSUME NEW w \in Workers, PutOpened(w) PROVE TypeOK' /\ Hands'
    <2>1. Rest /\ seen' = seen
        BY <1>7 DEF PutOpened
    <2>2. worker' = [worker EXCEPT ![w] = [pc |-> "free", t |-> NoTunnel]] /\ worker[w].t \in Tunnels
        BY <1>2, <1>7 DEF PutOpened
    <2>3. WorkersOK
        BY <1>2, <2>1, <2>2
    <2>4. PoolOK
        <3>1. CASE Pool
            BY <1>3, <3>1
        <3>2. CASE PutIdle(worker[w].t, user)
            BY <1>2, <2>2, <3>2, PutIdleGives DEF PoolOK
        <3> QED BY <1>7, <3>1, <3>2 DEF PutOpened
    <2> QED BY <1>1, <2>1, <2>3, <2>4
<1> QED BY <1>4, <1>5, <1>6, <1>7 DEF AgentStep

\* And after every step of the peers.
LEMMA NetworkTypes ==
    ASSUME TypeOK, Hands, Links, Network
    PROVE  TypeOK' /\ Hands'
<1>1. side' = side /\ tun' \in [Tunnels -> TunnelType]
    BY NetworkTunnels DEF TunnelsKeep
<1>2. /\ UNCHANGED <<user, poolVars, serverVars, ev, agentVars, sweeps>>
      /\ sends' = sends \/ (sends < side.sends /\ sends' = sends + 1)
    BY DEF Network, PeerSend, PeerEnds, StreamContextDone, boundVars
<1>3. sends' \in 0..side.sends
    BY <1>2, Types DEF TypeOK
<1>4. UNCHANGED <<idle, order, inUse, aged, sv, pending, acc, con, handler, worker, seen>>
    BY <1>2 DEF poolVars, serverVars, agentVars
<1>5. TypeOK'
    BY <1>1, <1>2, <1>3, <1>4 DEF TypeOK, TunnelType
<1>6. Hands'
    BY <1>2, <1>4 DEF Hands
<1> QED BY <1>5, <1>6

(***************************************************************************)
(* Nobody waits for a tunnel that is there.                                *)
(***************************************************************************)
\* PutIdle tells whoever waits.
LEMMA PutWakes ==
    ASSUME TypeOK, Covered, NEW t \in Tunnels, NEW users \in [Users -> UserType],
           \A v \in Users : users[v].pc = "waiting" /\ ~users[v].signalled => idle = {},
           PutIdle(t, users)
    PROVE  NoMissedWakeup' /\ Covered'
<1>1. /\ idle' = idle \cup {t} /\ Covered'
      /\ \A v \in Users : user'[v].pc = users[v].pc
      /\ \A v \in Users : user'[v].signalled <=>
                 (users[v].signalled \/ (t \notin idle /\ users[v].pc = "waiting"))
    BY PutIdleGives
<1>2. \A v \in Users : ~(user'[v].pc = "waiting" /\ ~user'[v].signalled)
    BY <1>1
<1> QED BY <1>1, <1>2 DEF NoMissedWakeup

\* Nothing comes in and nobody begins to wait.
LEMMA NothingComes ==
    ASSUME NoMissedWakeup, idle' \subseteq idle,
           \A v \in Users : user'[v].pc = "waiting" => /\ user[v].pc = "waiting"
                                                       /\ user'[v].signalled = user[v].signalled
    PROVE  NoMissedWakeup'
<1> SUFFICES ASSUME NEW v \in Users, user'[v].pc = "waiting", ~user'[v].signalled
             PROVE  idle' = {}
    BY DEF NoMissedWakeup
<1>1. user[v].pc = "waiting" /\ ~user[v].signalled
    OBVIOUS
<1> QED BY <1>1 DEF NoMissedWakeup

\* No step leaves an Acquire waiting beside an idle tunnel.
LEMMA WakeupStep ==
    ASSUME TypeOK, Hands, Links, NoMissedWakeup, Covered, Next
    PROVE  NoMissedWakeup' /\ Covered'
<1>0. user \in [Users -> UserType] /\ idle \subseteq Tunnels
    BY Types DEF TypeOK
<1>1. CASE UNCHANGED <<user, idle, order>>
    BY <1>1, NothingComes DEF Covered
<1>2. ASSUME NEW u \in Users, UserStep(u) PROVE NoMissedWakeup' /\ Covered'
    <2>1. CASE StartAcquire(u) \/ ProbePopped(u) \/ Settle(u) \/ StartRead(u) \/ EndRead(u)
                \/ StartRecycle(u)
        <3>1. \E pc, t : UserGoes(user', u, pc, t) /\ pc # "waiting"
            BY <2>1, UserMoves
        <3>2. /\ UNCHANGED <<idle, order>>
              /\ \A v \in Users : user'[v].signalled = user[v].signalled
            <4>1. UNCHANGED <<idle, order>>
                BY <2>1 DEF StartAcquire, ProbePopped, Settle, StartRead, EndRead, StartRecycle, poolVars
            <4>2. \A v \in Users : user'[v].signalled = user[v].signalled
                BY <2>1, UserMoves
            <4> QED BY <4>1, <4>2
        <3>3. \A v \in Users : user'[v].pc = "waiting" => user[v].pc = "waiting"
            BY <3>1 DEF UserGoes
        <3> QED BY <3>2, <3>3, NothingComes DEF Covered
    <2>2. CASE Pop(u)
        <3>1. Covered'
            BY <2>2, PopGives
        <3>2. CASE /\ UserGoes(user', u, "waiting", NoTunnel) /\ idle' = idle /\ idle = {}
            BY <3>1, <3>2 DEF NoMissedWakeup
        <3>3. CASE /\ \E t \in idle : UserGoes(user', u, "probing", t) /\ idle' = idle \ {t}
                   /\ \A v \in Users : user'[v].signalled = user[v].signalled
            <4>1. idle' \subseteq idle
                BY <3>3
            <4>2. \A v \in Users : user'[v].pc = "waiting" => user[v].pc = "waiting"
                BY <3>3 DEF UserGoes
            <4> QED BY <3>1, <3>3, <4>1, <4>2, NothingComes
        <3> QED BY <2>2, <3>2, <3>3, UserMoves
    <2>3. CASE Wake(u)
        <3>1. /\ \E pc \in {"popping", "out"} : UserGoes(user', u, pc, NoTunnel)
              /\ \A v \in Users : v # u => user'[v] = user[v]
              /\ UNCHANGED <<idle, order>>
            BY <2>3, UserMoves DEF Wake, poolVars
        <3>2. \A v \in Users : user'[v].pc = "waiting" => user'[v] = user[v]
            BY <3>1 DEF UserGoes
        <3> QED BY <3>1, <3>2, NothingComes DEF Covered
    <2>4. CASE PushBack(u)
        <3>1. user[u].t \in Tunnels
            BY <2>4 DEF PushBack, Hands
        <3>2. \A v \in Users : user'[v].pc = "waiting" => user'[v].signalled
            BY <2>4, UserMoves DEF UserGoes
        <3>3. idle' = idle \cup {user[u].t} /\ order' = Append(order, user[u].t)
            BY <2>4 DEF PushBack
        <3>4. order \in Seq(Tunnels)
            BY DEF TypeOK
        <3> DEFINE t == user[u].t
        <3>5. /\ DOMAIN order = 1..Len(order) /\ DOMAIN order' = 1..Len(order)+1
              /\ Len(order) \in Nat /\ order'[Len(order)+1] = t
              /\ \A n \in 1..Len(order) : order'[n] = order[n]
            <4>1. t \in Tunnels /\ order' = Append(order, t)
                BY <3>1, <3>3
            <4> HIDE DEF t
            <4> QED BY <3>4, <4>1
        <3>6. ASSUME NEW x \in idle' PROVE \E n \in DOMAIN order' : order'[n] = x
            <4>1. CASE x = t
                BY <3>5, <4>1
            <4>2. CASE x # t
                <5>1. PICK n \in DOMAIN order : order[n] = x
                    BY <3>3, <3>6, <4>2 DEF Covered
                <5> QED BY <3>5, <5>1
            <4> QED BY <4>1, <4>2
        <3> QED BY <3>2, <3>6 DEF Covered, NoMissedWakeup
    <2>5. CASE PutRecycled(u)
        <3> DEFINE us == [user EXCEPT ![u] = With(user[u], "out", NoTunnel)]
        <3>1. /\ With(user[u], "out", NoTunnel) \in UserType
              /\ With(user[u], "out", NoTunnel).pc = "out"
            BY <1>0, RecordGoes DEF Points
        <3>2. /\ us \in [Users -> UserType] /\ Set(u, "out", NoTunnel) = us
              /\ us[u].pc = "out" /\ \A v \in Users : v # u => us[v] = user[v]
            BY <1>0, <3>1 DEF Set, With
        <3> HIDE DEF us
        <3>3. CASE PutIdle(user[u].t, us)
            <4>1. user[u].t \in Tunnels
                BY <2>5 DEF PutRecycled, Hands
            <4>2. \A v \in Users : us[v].pc = "waiting" /\ ~us[v].signalled => idle = {}
                BY <3>2 DEF NoMissedWakeup
            <4> QED BY <3>2, <3>3, <4>1, <4>2, PutWakes
        <3>4. CASE user' = us /\ UNCHANGED poolVars
            <4>1. \A v \in Users : user'[v].pc = "waiting" => user'[v] = user[v]
                BY <3>2, <3>4
            <4> QED BY <3>4, <4>1, NothingComes DEF Covered, poolVars
        <3> QED BY <2>5, <3>2, <3>3, <3>4 DEF PutRecycled
    <2>6. CASE Remove(u)
        <3>1. idle' \subseteq idle \ {user[u].t} /\ order' = Without(order, {user[u].t})
            BY <2>6 DEF Remove
        <3>2. Covered'
            BY <3>1, OrderWithout
        <3>3. \A v \in Users : user'[v].pc = "waiting" => user[v].pc = "waiting"
            BY <2>6, UserMoves DEF UserGoes
        <3>4. \A v \in Users : user'[v].signalled = user[v].signalled
            BY <2>6, UserMoves
        <3>5. idle' \subseteq idle
            BY <3>1
        <3> QED BY <3>2, <3>3, <3>4, <3>5, NothingComes
    <2>7. CASE UserWrites(u)
        BY <1>1, <2>7 DEF UserWrites, poolVars
    <2> QED BY <1>2, <2>1, <2>2, <2>3, <2>4, <2>5, <2>6, <2>7 DEF UserStep
<1>3. CASE Maintenance
    <2>1. user' = user
        BY <1>3 DEF Maintenance, EvictExpired, Snapshot, EvictCandidates, Scan, CloseEvicted, Age
    <2>2. CASE UNCHANGED <<idle, order>>
        BY <1>1, <2>1, <2>2
    <2>3. CASE \E gone : TakeIdle(gone)
        <3>1. PICK gone : idle' = idle \ gone /\ order' = Without(order, gone)
            BY <2>3 DEF TakeIdle
        <3>2. Covered' /\ idle' \subseteq idle
            BY <3>1, OrderWithout
        <3> QED BY <2>1, <3>2, NothingComes
    <2> QED BY <1>3, <2>2, <2>3
            DEF Maintenance, EvictExpired, Snapshot, EvictCandidates, Scan, CloseEvicted, Age, poolVars
<1>4. CASE ServerStep
    <2>1. CASE PutAccepted /\ PutIdle(con.t, user)
        <3>1. con.t \in Tunnels
            BY <2>1 DEF PutAccepted, Hands
        <3> QED BY <1>0, <2>1, <3>1, PutWakes DEF NoMissedWakeup
    <2>2. CASE UNCHANGED <<user, poolVars>>
        BY <1>1, <2>2 DEF poolVars
    <2> QED BY <1>4, <2>1, <2>2
            DEF ServerStep, PutAccepted, Accept, HandleTunnelStream, OfferStream, HandlerEnds, Offer,
                CheckDone, ServeEnds, CloseAcceptor, CloseConn, DrainPending, TakePending, CheckTaken
<1>5. CASE AgentStep
    <2>1. ASSUME NEW w \in Workers, PutOpened(w), PutIdle(worker[w].t, user)
          PROVE  NoMissedWakeup' /\ Covered'
        <3>1. worker[w].t \in Tunnels
            BY <2>1 DEF PutOpened, Hands
        <3> QED BY <1>0, <2>1, <3>1, PutWakes DEF NoMissedWakeup
    <2>2. CASE UNCHANGED <<user, poolVars>>
        BY <1>1, <2>2 DEF poolVars
    <2> QED BY <1>5, <2>1, <2>2
            DEF AgentStep, PutOpened, HandleRefillRequest, RefillToTarget, RefillDone, OpenTunnel
<1>6. CASE Network
    BY <1>1, <1>6 DEF Network, PeerSend, PeerEnds, StreamContextDone, poolVars
<1> QED BY <1>2, <1>3, <1>4, <1>5, <1>6 DEF Next

(***************************************************************************)
(* Every tunnel in one place.                                              *)
(***************************************************************************)
\* The places are different from one another.
LEMMA Spots ==
    /\ \A k \in PoolPlaces : <<k, NoTunnel>> \in Spot
    /\ \A u \in Users : <<"user", u>> \in Spot
    /\ \A w \in Workers : <<"worker", w>> \in Spot
    /\ \A p \in Spot : /\ p[1] \in PoolPlaces \cup {"user", "worker"}
                       /\ p[1] \in PoolPlaces => p = <<p[1], NoTunnel>>
                       /\ p[1] = "user" => p[2] \in Users /\ p = <<"user", p[2]>>
                       /\ p[1] = "worker" => p[2] \in Workers /\ p = <<"worker", p[2]>>
    BY DEF Spot, PoolPlaces

\* Nothing new comes anywhere, and what is still open stays.
LEMMA Stays ==
    ASSUME Apart, Held, Fresh, Links, TunnelsKeep({}),
           \A t \in Tunnels : \A p \in Spot : At(p, t)' => At(p, t),
           \A t \in Tunnels : Open(t)' => \A p \in Spot : At(p, t) => At(p, t)'
    PROVE  Apart' /\ Held' /\ Fresh'
<1>1. \A t \in Tunnels : /\ Open(t)' => Open(t)
                         /\ tun'[t].state = "none" => tun[t].state = "none"
    BY KeepLinks
<1>2. Apart'
    BY DEF Apart
<1>3. Held'
    BY <1>1 DEF Held
<1>4. Fresh'
    BY <1>1 DEF Fresh
<1> QED BY <1>2, <1>3, <1>4

\* The tunnels ts go from one place to another.
LEMMA Moves ==
    ASSUME Apart, Held, Fresh, Links, TunnelsKeep({}),
           NEW ts, NEW from \in Spot, NEW to \in Spot,
           \A t \in Tunnels : t \in ts => At(from, t),
           \A t \in Tunnels : \A p \in Spot :
              At(p, t)' => (At(p, t) /\ ~(t \in ts /\ p = from)) \/ (t \in ts /\ p = to),
           \A t \in Tunnels : Open(t)' =>
              IF t \in ts THEN At(to, t)' ELSE \A p \in Spot : At(p, t) => At(p, t)'
    PROVE  Apart' /\ Held' /\ Fresh'
<1>1. \A t \in Tunnels : /\ Open(t)' => Open(t)
                         /\ tun'[t].state = "none" => tun[t].state = "none"
    BY KeepLinks
<1>2. \A t \in Tunnels : t \in ts => \A p \in Spot : At(p, t)' => p = to
    BY DEF Apart
<1>3. Apart'
    BY <1>2 DEF Apart
<1>4. Held'
    BY <1>1 DEF Held
<1>5. Fresh'
    BY <1>1 DEF Fresh
<1> QED BY <1>3, <1>4, <1>5

\* One tunnel goes from one place to another.
LEMMA OneMoves ==
    ASSUME Apart, Held, Fresh, Links, TunnelsKeep({}),
           NEW t \in Tunnels, NEW from \in Spot, NEW to \in Spot, At(from, t), At(to, t)',
           \A x \in Tunnels : \A p \in Spot :
              At(p, x)' => (At(p, x) /\ ~(x = t /\ p = from)) \/ (x = t /\ p = to),
           \A x \in Tunnels : Open(x)' /\ x # t => \A p \in Spot : At(p, x) => At(p, x)'
    PROVE  Apart' /\ Held' /\ Fresh'
<1>1. PICK ts : ts = {t}
    OBVIOUS
<1>2. \A x \in Tunnels : x \in ts => At(from, x)
    BY <1>1
<1>3. \A x \in Tunnels : \A p \in Spot :
         At(p, x)' => (At(p, x) /\ ~(x \in ts /\ p = from)) \/ (x \in ts /\ p = to)
    BY <1>1
<1>4. \A x \in Tunnels : Open(x)' =>
         IF x \in ts THEN At(to, x)' ELSE \A p \in Spot : At(p, x) => At(p, x)'
    BY <1>1
<1> QED BY <1>2, <1>3, <1>4, Moves

\* A tunnel is made in some place.
LEMMA Begins ==
    ASSUME Apart, Held, Fresh, Links, NEW b \in Tunnels, TunnelsKeep({b}), Open(b)',
           NEW to \in Spot, At(to, b)',
           \A t \in Tunnels : \A p \in Spot : At(p, t)' => At(p, t) \/ (t = b /\ p = to),
           \A t \in Tunnels : t # b /\ Open(t)' => \A p \in Spot : At(p, t) => At(p, t)'
    PROVE  Apart' /\ Held' /\ Fresh'
<1>1. \A t \in Tunnels : t # b => /\ Open(t)' => Open(t)
                                  /\ tun'[t].state = "none" => tun[t].state = "none"
    BY KeepLinks
<1>2. \A p \in Spot : At(p, b)' => p = to
    BY DEF TunnelsKeep, Fresh
<1>3. Apart'
    BY <1>2 DEF Apart
<1>4. Held'
    BY <1>1 DEF Held
<1>5. tun'[b].state # "none"
    BY DEF Open
<1>6. Fresh'
    BY <1>1, <1>5 DEF Fresh
<1> QED BY <1>3, <1>4, <1>6

\* The places a user can move a tunnel between, when only the two maps and the hands
\* of one user change.
LEMMA UserPlaces ==
    ASSUME UNCHANGED <<serverVars, worker>>, ev'.out = ev.out,
           NEW u \in Users, NEW pc, NEW t, UserGoes(user', u, pc, t)
    PROVE  \A x \in Tunnels : \A p \in Spot :
              /\ p = <<"idle", NoTunnel>> =>
                    (At(p, x) <=> x \in idle) /\ (At(p, x)' <=> x \in idle')
              /\ p = <<"in_use", NoTunnel>> =>
                    (At(p, x) <=> x \in inUse) /\ (At(p, x)' <=> x \in inUse')
              /\ p = <<"user", u>> =>
                    (At(p, x)' <=> (x = t /\ pc \notin {"using", "reading"})) /\ (At(p, x) <=> InHand(u, x))
              /\ p \notin {<<"idle", NoTunnel>>, <<"in_use", NoTunnel>>, <<"user", u>>} =>
                    (At(p, x)' <=> At(p, x))
<1> SUFFICES ASSUME NEW x \in Tunnels, NEW p \in Spot
             PROVE  /\ p = <<"idle", NoTunnel>> =>
                          (At(p, x) <=> x \in idle) /\ (At(p, x)' <=> x \in idle')
                    /\ p = <<"in_use", NoTunnel>> =>
                          (At(p, x) <=> x \in inUse) /\ (At(p, x)' <=> x \in inUse')
                    /\ p = <<"user", u>> =>
                          /\ At(p, x)' <=> (x = t /\ pc \notin {"using", "reading"})
                          /\ At(p, x) <=> InHand(u, x)
                    /\ p \notin {<<"idle", NoTunnel>>, <<"in_use", NoTunnel>>, <<"user", u>>} =>
                          (At(p, x)' <=> At(p, x))
    OBVIOUS
<1>1. UNCHANGED <<sv, pending, con, handler>>
    BY DEF serverVars
<1>2. /\ p[1] \in PoolPlaces => p = <<p[1], NoTunnel>>
      /\ p[1] = "user" => p[2] \in Users /\ p = <<"user", p[2]>>
      /\ "idle" \in PoolPlaces /\ "in_use" \in PoolPlaces
    BY Spots DEF PoolPlaces
<1>3. CASE p = <<"user", u>>
    BY <1>3 DEF At, InHand, UserGoes
<1>4. CASE p = <<"idle", NoTunnel>> \/ p = <<"in_use", NoTunnel>>
    BY <1>4 DEF At
<1>5. CASE p \notin {<<"idle", NoTunnel>>, <<"in_use", NoTunnel>>, <<"user", u>>}
    <2>1. p[1] = "user" => (InHand(p[2], x)' <=> InHand(p[2], x))
        BY <1>2, <1>5 DEF InHand, UserGoes
    <2>2. Queued(x)' <=> Queued(x)
        BY <1>1 DEF Queued
    <2>3. p[1] # "idle" /\ p[1] # "in_use"
        BY <1>2, <1>5
    <2>4. At(p, x)' <=> At(p, x)
        BY <1>1, <2>1, <2>2, <2>3 DEF At
    <2> QED BY <1>5, <2>4
<1> QED BY <1>3, <1>4, <1>5

\* No step of a user puts a tunnel in two places or loses an open one.
LEMMA UserApart ==
    ASSUME TypeOK, Hands, Links, Apart, Held, Fresh, NEW u \in Users, UserStep(u)
    PROVE  Apart' /\ Held' /\ Fresh'
<1>t. PICK t : t = user[u].t
    OBVIOUS
<1> DEFINE I == <<"idle", NoTunnel>>
           A == <<"in_use", NoTunnel>>
           H == <<"user", u>>
<1>0. /\ I \in Spot /\ A \in Spot /\ H \in Spot
      /\ I # A /\ I # H /\ A # H
    BY Spots DEF PoolPlaces
<1>1. TunnelsKeep({})
    BY UserTunnels
<1>2. /\ \A x \in Tunnels : InHand(u, x) <=> (x = t /\ user[u].pc \notin {"using", "reading"})
      /\ user[u].pc \in {"probing", "probed", "using", "reading", "putting"} <=> t \in Tunnels
      /\ NoTunnel \notin Tunnels /\ idle \subseteq Tunnels /\ inUse \subseteq Tunnels
      /\ user \in [Users -> UserType] /\ tun \in [Tunnels -> TunnelType]
      /\ \A x \in Tunnels : Sound(tun[x])
      /\ t = user[u].t
    BY <1>t, Types, PoolConstants DEF InHand, Hands, TypeOK, Links
<1>3. ASSUME UNCHANGED <<serverVars, worker, idle, inUse>>, ev'.out = ev.out,
             NEW pc, NEW s, UserGoes(user', u, pc, s),
             \A x \in Tunnels : (x = s /\ pc \notin {"using", "reading"}) => InHand(u, x),
             \A x \in Tunnels : Open(x)' /\ InHand(u, x) => (x = s /\ pc \notin {"using", "reading"})
      PROVE  Apart' /\ Held' /\ Fresh'
    <2>1. \A x \in Tunnels : \A p \in Spot : At(p, x)' => At(p, x)
        BY <1>3, UserPlaces
    <2>2. \A x \in Tunnels : Open(x)' => \A p \in Spot : At(p, x) => At(p, x)'
        BY <1>3, UserPlaces
    <2> QED BY <1>1, <2>1, <2>2, Stays
<1>4. CASE StartAcquire(u)
    <2>1. UserGoes(user', u, "popping", NoTunnel)
        BY <1>4, UserMoves
    <2>2. t \notin Tunnels /\ UNCHANGED <<serverVars, worker, idle, inUse>> /\ ev' = ev
        BY <1>2, <1>4 DEF StartAcquire, poolVars, agentVars
    <2> QED BY <1>2, <1>3, <2>1, <2>2
<1>5. CASE Wake(u)
    <2>1. PICK pc : UserGoes(user', u, pc, NoTunnel)
        BY <1>5, UserMoves
    <2>2. t \notin Tunnels /\ UNCHANGED <<serverVars, worker, idle, inUse>> /\ ev' = ev
        BY <1>2, <1>5 DEF Wake, poolVars, agentVars
    <2> QED BY <1>2, <1>3, <2>1, <2>2
<1>6. CASE Pop(u)
    <2>1. t \notin Tunnels /\ UNCHANGED <<serverVars, worker, inUse>> /\ ev' = ev
        BY <1>2, <1>6 DEF Pop, agentVars
    <2>2. CASE UserGoes(user', u, "waiting", NoTunnel) /\ idle' = idle
        BY <1>2, <1>3, <2>1, <2>2
    <2>3. CASE \E s \in idle : UserGoes(user', u, "probing", s) /\ idle' = idle \ {s}
        <3>1. PICK s \in idle : UserGoes(user', u, "probing", s) /\ idle' = idle \ {s}
            BY <2>3
        <3>2. s \in Tunnels /\ \A x \in Tunnels : ~InHand(u, x)
            BY <1>2, <2>1
        <3>3. \A x \in Tunnels : x \in {s} => At(I, x)
            BY <1>0, <2>1, <3>1, UserPlaces
        <3>4. \A x \in Tunnels : \A p \in Spot :
                 At(p, x)' => (At(p, x) /\ ~(x \in {s} /\ p = I)) \/ (x \in {s} /\ p = H)
            BY <2>1, <3>1, UserPlaces
        <3>5. \A x \in Tunnels : Open(x)' =>
                 IF x \in {s} THEN At(H, x)' ELSE \A p \in Spot : At(p, x) => At(p, x)'
            BY <1>0, <2>1, <3>1, <3>2, UserPlaces
        <3> QED BY <1>0, <1>1, <3>3, <3>4, <3>5, Moves
    <2> QED BY <1>6, <2>2, <2>3, UserMoves
<1>7. CASE ProbePopped(u)
    <2>1. t \in Tunnels /\ UNCHANGED <<serverVars, worker, idle, inUse>> /\ ev' = ev
        BY <1>2, <1>7 DEF ProbePopped, agentVars
    <2>2. CASE UserGoes(user', u, "probed", t)
        <3>1. user[u].pc = "probing"
            BY <1>7 DEF ProbePopped
        <3> QED BY <1>2, <1>3, <2>1, <2>2, <3>1
    <2>3. CASE UserGoes(user', u, "popping", NoTunnel)
        <3>1. user'[u].pc = "popping"
            BY <2>3 DEF UserGoes
        <3>2. ~Open(t)'
            <4>1. Sound(Probed(tun[t]))
                BY <1>2, <2>1, ProbeKeeps DEF After
            <4>2. tun' = [tun EXCEPT ![t] = Broken(Probed(tun[t]))] \/ user' = Set(u, "probed", t)
                BY <1>2, <1>7 DEF ProbePopped
            <4>3. user' # Set(u, "probed", t)
                <5>0. user[u] \in UserType /\ t \in Tunnels \cup {NoTunnel} /\ "probed" \in Points
                    BY <1>2, <2>1 DEF Points
                <5>1. With(user[u], "probed", t).pc = "probed"
                    BY <5>0, RecordGoes
                <5>2. Set(u, "probed", t)[u] = With(user[u], "probed", t)
                    BY <1>2 DEF Set, With
                <5> QED BY <3>1, <5>1, <5>2
            <4>4. Broken(Probed(tun[t])).state = "broken"
                BY <4>1, Endings
            <4> QED BY <1>2, <2>1, <4>2, <4>3, <4>4 DEF Open
        <3> QED BY <1>2, <1>3, <2>1, <2>3, <3>2
    <2> QED BY <1>2, <1>7, <2>2, <2>3, UserMoves
<1>8. CASE PushBack(u)
    <2>1. /\ t \in Tunnels /\ UNCHANGED <<serverVars, worker, inUse>> /\ ev' = ev
          /\ idle' = idle \cup {t} /\ user[u].pc = "probed"
        BY <1>2, <1>8 DEF PushBack, agentVars
    <2>2. UserGoes(user', u, "out", NoTunnel)
        BY <1>8, UserMoves
    <2>3. \A x \in Tunnels : x \in {t} => At(H, x)
        BY <1>0, <1>2, <2>1, <2>2, UserPlaces
    <2>4. \A x \in Tunnels : \A p \in Spot :
             At(p, x)' => (At(p, x) /\ ~(x \in {t} /\ p = H)) \/ (x \in {t} /\ p = I)
        BY <1>2, <2>1, <2>2, UserPlaces
    <2>5. \A x \in Tunnels : Open(x)' =>
             IF x \in {t} THEN At(I, x)' ELSE \A p \in Spot : At(p, x) => At(p, x)'
        BY <1>0, <1>2, <2>1, <2>2, UserPlaces
    <2> QED BY <1>0, <1>1, <2>3, <2>4, <2>5, Moves
<1>9. CASE Settle(u)
    <2>1. /\ t \in Tunnels /\ UNCHANGED <<serverVars, worker, idle>> /\ ev' = ev
          /\ user[u].pc = "probed"
        BY <1>2, <1>9 DEF Settle, agentVars
    <2>2. CASE inUse' = inUse \cup {t} /\ user' = Set(u, "using", t)
        <3>1. UserGoes(user', u, "using", t)
            <4>1. t \in Tunnels \cup {NoTunnel} /\ user[u] \in UserType /\ "using" \in Points
                BY <1>2, <2>1 DEF Points
            <4>2. /\ With(user[u], "using", t) \in UserType
                  /\ With(user[u], "using", t).pc = "using"
                  /\ With(user[u], "using", t).t = t
                BY <4>1, RecordGoes
            <4> QED BY <1>2, <2>2, <4>2 DEF UserGoes, Set, With
        <3>2. \A x \in Tunnels : x \in {t} => At(H, x)
            BY <1>0, <1>2, <2>1, <3>1, UserPlaces
        <3>3. \A x \in Tunnels : \A p \in Spot :
                 At(p, x)' => (At(p, x) /\ ~(x \in {t} /\ p = H)) \/ (x \in {t} /\ p = A)
            BY <1>2, <2>1, <2>2, <3>1, UserPlaces
        <3>4. \A x \in Tunnels : Open(x)' =>
                 IF x \in {t} THEN At(A, x)' ELSE \A p \in Spot : At(p, x) => At(p, x)'
            BY <1>0, <1>2, <2>1, <2>2, <3>1, UserPlaces
        <3> QED BY <1>0, <1>1, <3>2, <3>3, <3>4, Moves
    <2>3. CASE /\ inUse' = inUse /\ user' = Set(u, "popping", NoTunnel)
               /\ tun' = [tun EXCEPT ![t] = Broken(tun[t])]
        <3>1. UserGoes(user', u, "popping", NoTunnel)
            <4>2. With(user[u], "popping", NoTunnel) \in UserType
                BY <1>2, <2>1, RecordGoes DEF Points
            <4>3. /\ With(user[u], "popping", NoTunnel).pc = "popping"
                  /\ With(user[u], "popping", NoTunnel).t = NoTunnel
                BY <1>2, <2>1, RecordGoes DEF Points
            <4> QED BY <1>2, <2>3, <4>2, <4>3 DEF UserGoes, Set, With
        <3>2. ~Open(t)'
            BY <1>2, <2>1, <2>3, Endings DEF Open
        <3> QED BY <1>2, <1>3, <2>1, <2>3, <3>1, <3>2
    <2> QED BY <1>2, <1>9, <2>2, <2>3 DEF Settle
<1>10. CASE StartRead(u) \/ EndRead(u)
    <2>1. UNCHANGED <<serverVars, worker, idle, inUse>> /\ ev' = ev
        BY <1>10 DEF StartRead, EndRead, poolVars, agentVars
    <2>2. user[u].pc \in {"using", "reading"}
        BY <1>10 DEF StartRead, EndRead
    <2>3. PICK pc \in {"using", "reading"} : UserGoes(user', u, pc, t)
        BY <1>2, <1>10, UserMoves
    <2> QED BY <1>2, <1>3, <2>1, <2>2, <2>3
<1>11. CASE UserWrites(u)
    <2>1. UNCHANGED <<serverVars, worker, idle, inUse, user>> /\ ev' = ev
        BY <1>11 DEF UserWrites, poolVars, agentVars
    <2>2. UserGoes(user', u, user[u].pc, t)
        BY <1>2, <2>1 DEF UserGoes
    <2> QED BY <1>2, <1>3, <2>1, <2>2
<1>12. CASE StartRecycle(u)
    <2>1. /\ t \in Tunnels /\ UNCHANGED <<serverVars, worker, idle>> /\ ev' = ev
          /\ user[u].pc = "using" /\ t \in inUse /\ inUse' = inUse \ {t}
        BY <1>2, <1>12 DEF StartRecycle, agentVars
    <2>2. \A x \in Tunnels : ~InHand(u, x)
        BY <1>2, <2>1
    <2>3. CASE UserGoes(user', u, "putting", t)
        <3>2. \A x \in Tunnels : x \in {t} => At(A, x)
            BY <1>0, <1>2, <2>1, <2>3, UserPlaces
        <3>3. \A x \in Tunnels : \A p \in Spot :
                 At(p, x)' => (At(p, x) /\ ~(x \in {t} /\ p = A)) \/ (x \in {t} /\ p = H)
            BY <1>2, <2>1, <2>3, UserPlaces
        <3>4. \A x \in Tunnels : Open(x)' =>
                 IF x \in {t} THEN At(H, x)' ELSE \A p \in Spot : At(p, x) => At(p, x)'
            BY <1>0, <2>2, <2>1, <2>3, UserPlaces
        <3> QED BY <1>0, <1>1, <3>2, <3>3, <3>4, Moves
    <2>4. CASE UserGoes(user', u, "out", NoTunnel)
        <3>1. user'[u].pc = "out"
            BY <2>4 DEF UserGoes
        <3>2. user' # Set(u, "putting", t)
            <4>0. user[u] \in UserType /\ t \in Tunnels \cup {NoTunnel} /\ "putting" \in Points
                BY <1>2, <2>1 DEF Points
            <4>1. With(user[u], "putting", t).pc = "putting"
                BY <4>0, RecordGoes
            <4>2. Set(u, "putting", t)[u] = With(user[u], "putting", t)
                BY <1>2 DEF Set, With
            <4> QED BY <3>1, <4>1, <4>2
        <3>3. tun' = [tun EXCEPT ![t] = Broken(tun[t])]
            BY <1>2, <1>12, <3>2 DEF StartRecycle
        <3>4. ~Open(t)'
            BY <1>2, <2>1, <3>3, Endings DEF Open
        <3>5. \A x \in Tunnels : \A p \in Spot : At(p, x)' => At(p, x)
            BY <1>2, <2>1, <2>4, UserPlaces
        <3>6. \A x \in Tunnels : Open(x)' => \A p \in Spot : At(p, x) => At(p, x)'
            BY <2>1, <2>2, <2>4, <3>4, UserPlaces
        <3> QED BY <1>1, <3>5, <3>6, Stays
    <2> QED BY <1>2, <1>12, <2>3, <2>4, UserMoves
<1>13. CASE PutRecycled(u)
    <2>1. /\ t \in Tunnels /\ UNCHANGED <<serverVars, worker>> /\ user[u].pc = "putting"
        BY <1>2, <1>13 DEF PutRecycled, agentVars
    <2>2. UserGoes(user', u, "out", NoTunnel)
        BY <1>13, UserMoves
    <2>3. CASE PutIdle(t, Set(u, "out", NoTunnel))
        <3>1. With(user[u], "out", NoTunnel) \in UserType
            BY <1>2, RecordGoes DEF Points
        <3> DEFINE us == [user EXCEPT ![u] = With(user[u], "out", NoTunnel)]
        <3>2. us \in [Users -> UserType] /\ Set(u, "out", NoTunnel) = us
            BY <1>2, <3>1 DEF Set, With
        <3> HIDE DEF us
        <3>3. idle' = idle \cup {t} /\ inUse' = inUse /\ ev'.out = ev.out
            BY <2>1, <2>3, <3>2, PutIdleGives
        <3>4. \A x \in Tunnels : x \in {t} => At(H, x)
            BY <1>0, <1>2, <2>1, <2>2, <3>3, UserPlaces
        <3>5. \A x \in Tunnels : \A p \in Spot :
                 At(p, x)' => (At(p, x) /\ ~(x \in {t} /\ p = H)) \/ (x \in {t} /\ p = I)
            BY <1>2, <2>1, <2>2, <3>3, UserPlaces
        <3>6. \A x \in Tunnels : Open(x)' =>
                 IF x \in {t} THEN At(I, x)' ELSE \A p \in Spot : At(p, x) => At(p, x)'
            BY <1>0, <1>2, <2>1, <2>2, <3>3, UserPlaces
        <3> QED BY <1>0, <1>1, <3>4, <3>5, <3>6, Moves
    <2>4. CASE /\ tun' = [tun EXCEPT ![t] = Broken(@)]
               /\ UNCHANGED <<poolVars, ev>>
        <3>1. ~Open(t)'
            BY <1>2, <2>1, <2>4, Endings DEF Open
        <3>2. UNCHANGED <<idle, inUse, ev>>
            BY <2>4 DEF poolVars
        <3> QED BY <1>2, <1>3, <2>1, <2>2, <3>1, <3>2
    <2> QED BY <1>2, <1>13, <2>3, <2>4 DEF PutRecycled
<1>14. CASE Remove(u)
    <2>1. /\ UNCHANGED <<serverVars, worker>> /\ ev' = ev /\ user[u].pc = "using"
          /\ inUse' = inUse \ {t} /\ idle' = idle \ {t}
          /\ tun' = [tun EXCEPT ![t] = Closed(tun[t])]
        BY <1>2, <1>14 DEF Remove, agentVars
    <2>2. UserGoes(user', u, "out", NoTunnel) /\ t \in Tunnels
        BY <1>2, <1>14, <2>1, UserMoves
    <2>3. ~Open(t)'
        BY <1>2, <2>1, <2>2, Endings DEF Open
    <2>4. \A x \in Tunnels : ~InHand(u, x)
        BY <1>2, <2>1
    <2>5. \A x \in Tunnels : \A p \in Spot : At(p, x)' => At(p, x)
        BY <1>2, <2>1, <2>2, UserPlaces
    <2>6. \A x \in Tunnels : Open(x)' => \A p \in Spot : At(p, x) => At(p, x)'
        BY <2>1, <2>2, <2>3, <2>4, UserPlaces
    <2> QED BY <1>1, <2>5, <2>6, Stays
<1> QED
    BY <1>4, <1>5, <1>6, <1>7, <1>8, <1>9, <1>10, <1>11, <1>12, <1>13, <1>14 DEF UserStep

\* The places of the server role, when only they and the idle map change.
LEMMA ServerPlaces ==
    ASSUME \A u \in Users : user'[u].pc = user[u].pc /\ user'[u].t = user[u].t,
           UNCHANGED <<inUse, worker>>, ev'.out = ev.out
    PROVE  \A x \in Tunnels : \A p \in Spot :
              /\ p = <<"idle", NoTunnel>> =>
                    (At(p, x) <=> x \in idle) /\ (At(p, x)' <=> x \in idle')
              /\ p = <<"offered", NoTunnel>> =>
                    (At(p, x) <=> sv.t = x) /\ (At(p, x)' <=> sv'.t = x)
              /\ p = <<"stream", NoTunnel>> =>
                    (At(p, x) <=> handler[x] = "offering") /\ (At(p, x)' <=> handler'[x] = "offering")
              /\ p = <<"queued", NoTunnel>> =>
                    (At(p, x) <=> Queued(x)) /\ (At(p, x)' <=> Queued(x)')
              /\ p = <<"accepted", NoTunnel>> =>
                    (At(p, x) <=> con.t = x) /\ (At(p, x)' <=> con'.t = x)
              /\ p \notin {"idle", "offered", "stream", "queued", "accepted"} \X {NoTunnel} =>
                    (At(p, x)' <=> At(p, x))
<1> SUFFICES ASSUME NEW x \in Tunnels, NEW p \in Spot
             PROVE  /\ p = <<"idle", NoTunnel>> =>
                          (At(p, x) <=> x \in idle) /\ (At(p, x)' <=> x \in idle')
                    /\ p = <<"offered", NoTunnel>> =>
                          (At(p, x) <=> sv.t = x) /\ (At(p, x)' <=> sv'.t = x)
                    /\ p = <<"stream", NoTunnel>> =>
                          /\ At(p, x) <=> handler[x] = "offering"
                          /\ At(p, x)' <=> handler'[x] = "offering"
                    /\ p = <<"queued", NoTunnel>> =>
                          (At(p, x) <=> Queued(x)) /\ (At(p, x)' <=> Queued(x)')
                    /\ p = <<"accepted", NoTunnel>> =>
                          (At(p, x) <=> con.t = x) /\ (At(p, x)' <=> con'.t = x)
                    /\ p \notin {"idle", "offered", "stream", "queued", "accepted"} \X {NoTunnel} =>
                          (At(p, x)' <=> At(p, x))
    OBVIOUS
<1>1. /\ p[1] \in PoolPlaces => p = <<p[1], NoTunnel>>
      /\ p[1] = "user" => p[2] \in Users
      /\ {"idle", "offered", "stream", "queued", "accepted"} \subseteq PoolPlaces
    BY Spots DEF PoolPlaces
<1>2. CASE p \in {"idle", "offered", "stream", "queued", "accepted"} \X {NoTunnel}
    BY <1>2 DEF At
<1>3. CASE p \notin {"idle", "offered", "stream", "queued", "accepted"} \X {NoTunnel}
    <2>1. p[1] = "user" => (InHand(p[2], x)' <=> InHand(p[2], x))
        BY <1>1 DEF InHand
    <2>2. p[1] \notin {"idle", "offered", "stream", "queued", "accepted"}
        BY <1>1, <1>3
    <2>3. At(p, x)' <=> At(p, x)
        BY <2>1, <2>2 DEF At
    <2> QED BY <1>3, <2>3
<1> QED BY <1>2, <1>3

\* Where nothing of all this moves.
LEMMA NobodyMoves ==
    ASSUME TypeOK, Hands, Links, Queue, Apart, Held, Fresh, TunnelsKeep({}),
           \A u \in Users : user'[u].pc = user[u].pc /\ user'[u].t = user[u].t,
           UNCHANGED <<idle, inUse, worker, pending, handler, sv, con, acc>>, ev'.out = ev.out
    PROVE  Queue' /\ Apart' /\ Held' /\ Fresh'
<1>1. \A x \in Tunnels : \A p \in Spot : At(p, x)' <=> At(p, x)
    <2>1. \A x \in Tunnels : Queued(x)' <=> Queued(x)
        BY DEF Queued
    <2>2. ASSUME NEW x \in Tunnels, NEW p \in Spot PROVE At(p, x)' <=> At(p, x)
        BY <2>1, ServerPlaces
    <2> QED BY <2>2
<1>2. Apart' /\ Held' /\ Fresh'
    BY <1>1, Stays
<1>3. Queue'
    BY DEF Queue, TunnelsKeep
<1> QED BY <1>2, <1>3

\* A tunnel put into the pool from some place that it leaves.
LEMMA ServerPuts ==
    ASSUME TypeOK, Links, Queue, Apart, Held, Fresh, TunnelsKeep({}),
           \A u \in Users : user'[u].pc = user[u].pc /\ user'[u].t = user[u].t,
           NEW t \in Tunnels, con.t = t, con'.t \notin Tunnels,
           UNCHANGED <<inUse, worker, pending, handler, sv, acc>>, ev'.out = ev.out,
           idle' = idle \cup {t} \/ (idle' = idle /\ ~(tun'[t].state = "idle"))
    PROVE  Queue' /\ Apart' /\ Held' /\ Fresh'
<1> DEFINE I == <<"idle", NoTunnel>>
           C == <<"accepted", NoTunnel>>
<1>1. I \in Spot /\ C \in Spot /\ I # C
    BY Spots DEF PoolPlaces
<1>2. \A x \in Tunnels : Queued(x)' <=> Queued(x)
    BY DEF Queued
<1>3. Queue'
    BY DEF Queue, TunnelsKeep
<1>4. CASE idle' = idle \cup {t}
    <2>1. At(C, t) /\ At(I, t)'
        BY <1>1, <1>4, ServerPlaces
    <2>2. \A x \in Tunnels : \A p \in Spot :
             At(p, x)' => (At(p, x) /\ ~(x = t /\ p = C)) \/ (x = t /\ p = I)
        BY <1>2, <1>4, ServerPlaces
    <2>3. \A x \in Tunnels : Open(x)' /\ x # t => \A p \in Spot : At(p, x) => At(p, x)'
        BY <1>1, <1>2, <1>4, ServerPlaces
    <2>4. Apart' /\ Held' /\ Fresh'
        <3> HIDE DEF I, C
        <3> QED BY <1>1, <2>1, <2>2, <2>3, OneMoves
    <2> QED BY <1>3, <2>4
<1>5. CASE idle' = idle /\ ~(tun'[t].state = "idle")
    <2>1. \A x \in Tunnels : \A p \in Spot : At(p, x)' => At(p, x)
        BY <1>2, <1>5, ServerPlaces
    <2>2. \A x \in Tunnels : Open(x)' => \A p \in Spot : At(p, x) => At(p, x)'
        BY <1>2, <1>5, ServerPlaces DEF Open
    <2> QED BY <1>3, <2>1, <2>2, Stays
<1> QED BY <1>4, <1>5

\* No step of the acceptor puts a tunnel in two places or loses an open one, and the
\* queue stays what it is.
LEMMA ServerApart ==
    ASSUME TypeOK, Hands, Links, Queue, Apart, Held, Fresh, ServerStep
    PROVE  Queue' /\ Apart' /\ Held' /\ Fresh'
<1> DEFINE O == <<"offered", NoTunnel>>
           S == <<"stream", NoTunnel>>
           Q == <<"queued", NoTunnel>>
           C == <<"accepted", NoTunnel>>
           Others == /\ UNCHANGED <<user, poolVars, ev, agentVars>>
<1>0. /\ O \in Spot /\ S \in Spot /\ Q \in Spot /\ C \in Spot
      /\ O # S /\ O # Q /\ O # C /\ S # Q /\ S # C /\ Q # C
    BY Spots DEF PoolPlaces
<1>1. /\ tun \in [Tunnels -> TunnelType] /\ NoTunnel \notin Tunnels
      /\ pending \in Seq(Tunnels)
      /\ handler \in [Tunnels -> {"none", "offering", "serving", "ended"}]
      /\ \A x \in Tunnels : Sound(tun[x])
      /\ sv.pc = "offering" <=> sv.t \in Tunnels
      /\ con.pc \in {"taken", "putting"} <=> con.t \in Tunnels
      /\ sv \in SvType /\ con \in ConType
    BY Types, PoolConstants DEF TypeOK, Hands, Links, SvType, ConType
<1>2. Others => /\ \A u \in Users : user'[u].pc = user[u].pc /\ user'[u].t = user[u].t
                /\ UNCHANGED <<idle, inUse, worker>> /\ ev'.out = ev.out
    BY DEF poolVars, agentVars
<1>3. pending' = pending => \A x \in Tunnels : Queued(x)' <=> Queued(x)
    BY DEF Queued
<1>4. ASSUME NEW t \in Tunnels, Accept(t) PROVE Queue' /\ Apart' /\ Held' /\ Fresh'
    <2>1. TunnelsKeep({t}) /\ Open(t)' /\ Others /\ UNCHANGED <<con, pending, handler>>
        BY <1>4, NewTunnels DEF Accept
    <2>2. sv' = [pc |-> "offering", t |-> t] /\ sv.t \notin Tunnels /\ acc = "open" /\ acc' = acc
        BY <1>1, <1>4 DEF Accept
    <2>3. At(O, t)'
        BY <1>0, <1>2, <2>1, <2>2, ServerPlaces
    <2>4. \A x \in Tunnels : \A p \in Spot : At(p, x)' => At(p, x) \/ (x = t /\ p = O)
        BY <1>2, <1>3, <2>1, <2>2, ServerPlaces
    <2>5. \A x \in Tunnels : x # t /\ Open(x)' => \A p \in Spot : At(p, x) => At(p, x)'
        BY <1>2, <1>3, <2>1, <2>2, ServerPlaces
    <2>6. Apart' /\ Held' /\ Fresh'
        BY <1>0, <2>1, <2>3, <2>4, <2>5, Begins
    <2>7. Queue'
        BY <2>1, <2>2 DEF Queue, TunnelsKeep
    <2> QED BY <2>6, <2>7
<1>5. ASSUME NEW t \in Tunnels, HandleTunnelStream(t) PROVE Queue' /\ Apart' /\ Held' /\ Fresh'
    <2>1. TunnelsKeep({t}) /\ Open(t)' /\ Others /\ UNCHANGED <<con, pending, sv, acc>>
        BY <1>5, NewTunnels DEF HandleTunnelStream
    <2>2. handler' = [handler EXCEPT ![t] = "offering"] /\ side.kind = "grpc"
        BY <1>5 DEF HandleTunnelStream
    <2>3. At(S, t)'
        BY <1>0, <1>1, <1>2, <2>1, <2>2, ServerPlaces
    <2>4. \A x \in Tunnels : \A p \in Spot : At(p, x)' => At(p, x) \/ (x = t /\ p = S)
        BY <1>1, <1>2, <1>3, <2>1, <2>2, ServerPlaces
    <2>5. \A x \in Tunnels : x # t /\ Open(x)' => \A p \in Spot : At(p, x) => At(p, x)'
        BY <1>1, <1>2, <1>3, <2>1, <2>2, ServerPlaces
    <2>6. Apart' /\ Held' /\ Fresh'
        BY <1>0, <2>1, <2>3, <2>4, <2>5, Begins
    <2>7. Queue'
        BY <2>1, <2>2 DEF Queue, TunnelsKeep
    <2> QED BY <2>6, <2>7
<1>6. ASSUME NEW t \in Tunnels, ~Queued(t), pending' = Append(pending, t)
      PROVE  /\ \A x \in Tunnels : Queued(x)' <=> (Queued(x) \/ x = t)
             /\ (\A i, j \in DOMAIN pending : pending[i] = pending[j] => i = j)
                => (\A i, j \in DOMAIN pending' : pending'[i] = pending'[j] => i = j)
    <2>1. /\ DOMAIN pending = 1..Len(pending) /\ Len(pending) \in Nat
          /\ DOMAIN pending' = 1..Len(pending)+1
          /\ \A i \in 1..Len(pending) : pending'[i] = pending[i]
          /\ pending'[Len(pending) + 1] = t
        BY <1>6, QueueJoined
    <2>2. \A i \in DOMAIN pending : pending[i] # t
        BY <1>6 DEF Queued
    <2>3. Len(pending) + 1 \in 1..Len(pending)+1
        BY <2>1
    <2>4. \A i \in 1..Len(pending)+1 : i \in 1..Len(pending) \/ i = Len(pending)+1
        BY <2>1
    <2>5. \A x \in Tunnels : Queued(x)' <=> (Queued(x) \/ x = t)
        BY <2>1, <2>3, <2>4 DEF Queued
    <2> QED BY <2>1, <2>2, <2>4, <2>5
<1>7. ASSUME NEW t \in Tunnels, OfferStream(t) PROVE Queue' /\ Apart' /\ Held' /\ Fresh'
    <2>1. TunnelsKeep({}) /\ Others /\ UNCHANGED <<con, acc, sv>>
        BY <1>7, ServerTunnels DEF OfferStream
    <2>2. /\ handler[t] = "offering" /\ handler' = [handler EXCEPT ![t] = "serving"]
          /\ pending' = Append(pending, t)
        BY <1>7 DEF OfferStream
    <2>3. At(S, t)
        BY <1>0, <1>2, <2>1, <2>2, ServerPlaces
    <2>4. ~Queued(t)
        BY <1>0, <1>2, <2>1, <2>3, ServerPlaces DEF Apart
    <2>5. \A x \in Tunnels : Queued(x)' <=> (Queued(x) \/ x = t)
        BY <1>6, <2>2, <2>4
    <2>6. At(Q, t)'
        BY <1>0, <1>2, <2>1, <2>5, ServerPlaces
    <2>7. \A x \in Tunnels : \A p \in Spot :
             At(p, x)' => (At(p, x) /\ ~(x = t /\ p = S)) \/ (x = t /\ p = Q)
        BY <1>1, <1>2, <2>1, <2>2, <2>5, ServerPlaces
    <2>8. \A x \in Tunnels : Open(x)' /\ x # t => \A p \in Spot : At(p, x) => At(p, x)'
        BY <1>0, <1>1, <1>2, <2>1, <2>2, <2>5, ServerPlaces
    <2>9. Apart' /\ Held' /\ Fresh'
        <3> HIDE DEF O, S, Q, C, Others
        <3> QED BY <1>0, <2>1, <2>3, <2>6, <2>7, <2>8, OneMoves
    <2>10. side.kind = "grpc"
        BY <2>2 DEF Queue
    <2>11. \A i, j \in DOMAIN pending' : pending'[i] = pending'[j] => i = j
        BY <1>6, <2>2, <2>4 DEF Queue
    <2>12. Queue'
        BY <2>1, <2>10, <2>11 DEF Queue, TunnelsKeep
    <2> QED BY <2>9, <2>12
<1>8. ASSUME NEW t \in Tunnels, HandlerEnds(t) PROVE Queue' /\ Apart' /\ Held' /\ Fresh'
    <2>1. TunnelsKeep({}) /\ Others /\ UNCHANGED <<con, acc, sv, pending>>
        BY <1>8, ServerTunnels DEF HandlerEnds
    <2>2. /\ handler[t] \in {"offering", "serving"} /\ handler' = [handler EXCEPT ![t] = "ended"]
          /\ handler[t] = "serving" \/ tun'[t].state # "idle"
        BY <1>1, <1>8, Endings DEF HandlerEnds
    <2>3. \A x \in Tunnels : \A p \in Spot : At(p, x)' => At(p, x)
        BY <1>1, <1>2, <1>3, <2>1, <2>2, ServerPlaces
    <2>4. \A x \in Tunnels : Open(x)' => \A p \in Spot : At(p, x) => At(p, x)'
        BY <1>1, <1>2, <1>3, <2>1, <2>2, ServerPlaces DEF Open
    <2>5. Apart' /\ Held' /\ Fresh'
        BY <2>1, <2>3, <2>4, Stays
    <2>6. Queue'
        BY <2>1, <2>2 DEF Queue, TunnelsKeep
    <2> QED BY <2>5, <2>6
<1>9. CASE Offer
    <2>1. TunnelsKeep({}) /\ Others /\ UNCHANGED <<con, acc, handler>> /\ sv.t \in Tunnels
        BY <1>1, <1>9, ServerTunnels DEF Offer
    <2>p. PICK t \in Tunnels : t = sv.t
        BY <2>1
    <2>2. At(O, t) /\ sv.pc = "offering"
        BY <1>0, <1>2, <1>9, <2>1, <2>p, ServerPlaces DEF Offer
    <2>3. CASE /\ tun' = [tun EXCEPT ![t] = Closed(tun[t])] /\ pending' = pending
               /\ sv' = [pc |-> "ended", t |-> NoTunnel]
        <3>1. tun'[t].state # "idle"
            BY <1>1, <2>3, Endings
        <3>2. \A x \in Tunnels : \A p \in Spot : At(p, x)' => At(p, x)
            BY <1>1, <1>2, <1>3, <2>1, <2>3, ServerPlaces
        <3>3. \A x \in Tunnels : Open(x)' => \A p \in Spot : At(p, x) => At(p, x)'
            BY <1>1, <1>2, <1>3, <2>1, <2>p, <2>3, <3>1, ServerPlaces DEF Open
        <3>4. Apart' /\ Held' /\ Fresh'
            BY <2>1, <3>2, <3>3, Stays
        <3>5. Queue'
            BY <2>1, <2>2, <2>3 DEF Queue, TunnelsKeep
        <3> QED BY <3>4, <3>5
    <2>4. CASE /\ pending' = Append(pending, t)
               /\ sv' = [pc |-> IF side.kind = "tcp" THEN "sent" ELSE "accepting", t |-> NoTunnel]
        <3>1. ~Queued(t)
            BY <1>0, <1>2, <2>1, <2>2, ServerPlaces DEF Apart
        <3>2. \A x \in Tunnels : Queued(x)' <=> (Queued(x) \/ x = t)
            BY <1>6, <2>4, <3>1
        <3>3. At(Q, t)'
            BY <1>0, <1>2, <2>1, <3>2, ServerPlaces
        <3>4. \A x \in Tunnels : \A p \in Spot :
                 At(p, x)' => (At(p, x) /\ ~(x = t /\ p = O)) \/ (x = t /\ p = Q)
            BY <1>1, <1>2, <2>1, <2>4, <3>2, ServerPlaces
        <3>5. \A x \in Tunnels : Open(x)' /\ x # t => \A p \in Spot : At(p, x) => At(p, x)'
            BY <1>0, <1>1, <1>2, <2>1, <2>p, <2>4, <3>2, ServerPlaces
        <3>6. Apart' /\ Held' /\ Fresh'
            <4> HIDE DEF O, S, Q, C, Others
            <4> QED BY <1>0, <2>1, <2>2, <3>3, <3>4, <3>5, OneMoves
        <3>7. \A i, j \in DOMAIN pending' : pending'[i] = pending'[j] => i = j
            BY <1>6, <2>4, <3>1 DEF Queue
        <3>8. Queue'
            BY <2>1, <2>4, <3>7 DEF Queue, TunnelsKeep
        <3> QED BY <3>6, <3>8
    <2> QED BY <1>9, <2>p, <2>3, <2>4 DEF Offer
<1>10. CASE CheckDone \/ ServeEnds \/ CloseAcceptor \/ CloseConn
    <2>1. /\ TunnelsKeep({}) /\ Others /\ UNCHANGED <<con, handler, pending>>
          /\ sv'.t = sv.t
        BY <1>1, <1>10, ServerTunnels
           DEF CheckDone, ServeEnds, CloseAcceptor, CloseConn, serverVars, SvType
    <2>2. \A x \in Tunnels : \A p \in Spot : At(p, x)' <=> At(p, x)
        BY <1>2, <1>3, <2>1, ServerPlaces
    <2>3. Apart' /\ Held' /\ Fresh'
        BY <2>1, <2>2, Stays
    <2>4. side.kind = "tcp" /\ acc' = "closed" /\ sv'.pc \notin {"sent", "draining"} =>
                acc = "closed" /\ sv.pc \notin {"sent", "draining"}
        BY <1>1, <1>10 DEF CheckDone, ServeEnds, CloseAcceptor, CloseConn, serverVars, SvType
    <2>5. Queue'
        BY <2>1, <2>4 DEF Queue, TunnelsKeep
    <2> QED BY <2>3, <2>5
<1>11. ASSUME pending # <<>>, pending' = Tail(pending),
              \A i, j \in DOMAIN pending : pending[i] = pending[j] => i = j
       PROVE  /\ \A x \in Tunnels : Queued(x)' <=> (Queued(x) /\ x # Head(pending))
              /\ \A i, j \in DOMAIN pending' : pending'[i] = pending'[j] => i = j
    <2>1. /\ DOMAIN pending = 1..Len(pending) /\ Len(pending) \in Nat /\ Len(pending) > 0
          /\ DOMAIN pending' = 1..Len(pending)-1
          /\ \A i \in 1..Len(pending)-1 : pending'[i] = pending[i + 1]
          /\ Head(pending) = pending[1]
        BY <1>11, HeadAndTail
    <2>2. \A i \in 1..Len(pending)-1 : i + 1 \in 1..Len(pending) /\ i + 1 # 1
        BY <2>1
    <2>3. ASSUME NEW x \in Tunnels PROVE Queued(x)' <=> (Queued(x) /\ x # Head(pending))
        <3>1. Queued(x)' => Queued(x) /\ x # Head(pending)
            BY <1>11, <2>1, <2>2 DEF Queued
        <3>2. ASSUME Queued(x), x # Head(pending) PROVE Queued(x)'
            <4>1. PICK i \in 1..Len(pending) : pending[i] = x
                BY <2>1, <3>2 DEF Queued
            <4>2. i # 1
                BY <2>1, <3>2, <4>1
            <4>3. i - 1 \in 1..Len(pending)-1 /\ (i - 1) + 1 = i
                BY <2>1, <4>1, <4>2
            <4> QED BY <2>1, <4>1, <4>3 DEF Queued
        <3> QED BY <3>1, <3>2
    <2>4. ASSUME NEW i \in DOMAIN pending', NEW j \in DOMAIN pending', pending'[i] = pending'[j]
          PROVE  i = j
        <3>1. i + 1 = j + 1
            BY <1>11, <2>1, <2>2, <2>4
        <3> QED BY <2>1, <3>1
    <2> QED BY <2>3, <2>4
<1>12. CASE DrainPending
    <2>1. TunnelsKeep({}) /\ Others /\ UNCHANGED <<con, handler>>
        BY <1>12, ServerTunnels DEF DrainPending
    <2>2. CASE /\ pending # <<>> /\ tun' = [tun EXCEPT ![Head(pending)] = Closed(@)]
               /\ pending' = Tail(pending) /\ UNCHANGED <<acc, sv>>
        <3>p. PICK h \in Tunnels : h = Head(pending)
            BY <2>2, HeadAndTail
        <3>1. tun'[h].state # "idle"
            BY <1>1, <2>2, <3>p, Endings
        <3>2. /\ \A x \in Tunnels : Queued(x)' <=> (Queued(x) /\ x # h)
              /\ \A i, j \in DOMAIN pending' : pending'[i] = pending'[j] => i = j
            BY <1>11, <2>2, <3>p DEF Queue
        <3>3. \A x \in Tunnels : \A p \in Spot : At(p, x)' => At(p, x)
            BY <1>2, <2>1, <2>2, <3>2, ServerPlaces
        <3>4. \A x \in Tunnels : Open(x)' => \A p \in Spot : At(p, x) => At(p, x)'
            BY <1>2, <2>1, <2>2, <3>1, <3>2, ServerPlaces DEF Open
        <3>5. Apart' /\ Held' /\ Fresh'
            BY <2>1, <3>3, <3>4, Stays
        <3>6. Queue'
            BY <2>1, <2>2, <3>2 DEF Queue, TunnelsKeep
        <3> QED BY <3>5, <3>6
    <2>3. CASE pending = <<>> /\ UNCHANGED <<tun, pending>>
        <3>1. sv'.t = sv.t
            BY <1>1, <1>12, <2>3 DEF DrainPending, Drain, SvType
        <3>2. \A x \in Tunnels : \A p \in Spot : At(p, x)' <=> At(p, x)
            BY <1>2, <1>3, <2>1, <2>3, <3>1, ServerPlaces
        <3>3. Apart' /\ Held' /\ Fresh'
            BY <2>1, <3>2, Stays
        <3>4. Queue'
            BY <2>1, <2>3 DEF Queue, TunnelsKeep
        <3> QED BY <3>3, <3>4
    <2> QED BY <1>12, <2>2, <2>3 DEF DrainPending, Drain
<1>13. CASE TakePending
    <2>1. /\ TunnelsKeep({}) /\ Others /\ UNCHANGED <<acc, sv, handler>>
          /\ con.t \notin Tunnels
        BY <1>1, <1>13, ServerTunnels DEF TakePending
    <2>2. CASE con' = [pc |-> "ended", t |-> NoTunnel] /\ pending' = pending
        <3>1. \A x \in Tunnels : \A p \in Spot : At(p, x)' <=> At(p, x)
            BY <1>1, <1>2, <1>3, <2>1, <2>2, ServerPlaces
        <3>2. Apart' /\ Held' /\ Fresh'
            BY <2>1, <3>1, Stays
        <3>3. Queue'
            BY <2>1, <2>2 DEF Queue, TunnelsKeep
        <3> QED BY <3>2, <3>3
    <2>3. CASE /\ pending # <<>> /\ con' = [pc |-> "taken", t |-> Head(pending)]
               /\ pending' = Tail(pending)
        <3>p. PICK h \in Tunnels : h = Head(pending) /\ Queued(h)
            BY <2>3, HeadAndTail
        <3>1. /\ \A x \in Tunnels : Queued(x)' <=> (Queued(x) /\ x # h)
              /\ \A i, j \in DOMAIN pending' : pending'[i] = pending'[j] => i = j
            BY <1>11, <2>3, <3>p DEF Queue
        <3>2. At(Q, h) /\ At(C, h)'
            BY <1>0, <1>2, <2>1, <2>3, <3>p, ServerPlaces
        <3>3. \A x \in Tunnels : \A p \in Spot :
                 At(p, x)' => (At(p, x) /\ ~(x = h /\ p = Q)) \/ (x = h /\ p = C)
            BY <1>2, <2>1, <2>3, <3>p, <3>1, ServerPlaces
        <3>4. \A x \in Tunnels : Open(x)' /\ x # h => \A p \in Spot : At(p, x) => At(p, x)'
            BY <1>0, <1>2, <2>1, <2>3, <3>p, <3>1, ServerPlaces
        <3>5. Apart' /\ Held' /\ Fresh'
            BY <1>0, <2>1, <3>2, <3>3, <3>4, OneMoves
        <3>6. Queue'
            BY <2>1, <2>3, <3>1 DEF Queue, TunnelsKeep
        <3> QED BY <3>5, <3>6
    <2> QED BY <1>13, <2>2, <2>3 DEF TakePending
<1>14. CASE CheckTaken
    <2>1. /\ TunnelsKeep({}) /\ Others /\ UNCHANGED <<acc, sv, handler, pending>>
          /\ con.t \in Tunnels
        BY <1>1, <1>14, ServerTunnels DEF CheckTaken
    <2>2. \/ con'.t = con.t
          \/ con'.t \notin Tunnels /\ tun'[con.t].state # "idle"
        BY <1>1, <1>14, <2>1, Endings DEF CheckTaken, Terminal, ConType
    <2>3. \A x \in Tunnels : \A p \in Spot : At(p, x)' => At(p, x)
        BY <1>2, <1>3, <2>1, <2>2, ServerPlaces
    <2>4. \A x \in Tunnels : Open(x)' => \A p \in Spot : At(p, x) => At(p, x)'
        BY <1>2, <1>3, <2>1, <2>2, ServerPlaces DEF Open
    <2>5. Apart' /\ Held' /\ Fresh'
        BY <2>1, <2>3, <2>4, Stays
    <2>6. Queue'
        BY <2>1 DEF Queue, TunnelsKeep
    <2> QED BY <2>5, <2>6
<1>15. CASE PutAccepted
    <2>p. PICK t \in Tunnels : t = con.t
        BY <1>1, <1>15 DEF PutAccepted
    <2>1. /\ TunnelsKeep({}) /\ UNCHANGED <<worker, acc, sv, handler, pending>>
          /\ con'.t = NoTunnel
        BY <1>15, ServerTunnels DEF PutAccepted, agentVars
    <2>2. CASE PutIdle(t, user)
        <3>1. user \in [Users -> UserType]
            BY Types
        <3>2. /\ idle' = idle \cup {t} /\ inUse' = inUse /\ ev'.out = ev.out
              /\ \A u \in Users : user'[u].pc = user[u].pc /\ user'[u].t = user[u].t
            BY <2>2, <3>1, PutIdleGives
        <3> QED BY <1>1, <2>p, <2>1, <3>2, ServerPuts
    <2>3. CASE tun' = [tun EXCEPT ![t] = Broken(tun[t])] /\ UNCHANGED <<poolVars, user, ev>>
        <3>1. tun'[t].state # "idle"
            BY <1>1, <2>3, Endings
        <3>2. UNCHANGED <<idle, inUse, user, ev>>
            BY <2>3 DEF poolVars
        <3> QED BY <1>1, <2>p, <2>1, <3>1, <3>2, ServerPuts
    <2> QED BY <1>15, <2>p, <2>2, <2>3 DEF PutAccepted
<1> QED
    BY <1>4, <1>5, <1>7, <1>8, <1>9, <1>10, <1>12, <1>13, <1>14, <1>15 DEF ServerStep

\* The places of a refill, when only the idle map and the hands of one worker change.
LEMMA WorkerPlaces ==
    ASSUME \A u \in Users : user'[u].pc = user[u].pc /\ user'[u].t = user[u].t,
           UNCHANGED <<inUse, serverVars>>, ev'.out = ev.out,
           NEW w \in Workers, \A v \in Workers : v # w => worker'[v].t = worker[v].t
    PROVE  \A x \in Tunnels : \A p \in Spot :
              /\ p = <<"idle", NoTunnel>> =>
                    (At(p, x) <=> x \in idle) /\ (At(p, x)' <=> x \in idle')
              /\ p = <<"worker", w>> =>
                    (At(p, x) <=> worker[w].t = x) /\ (At(p, x)' <=> worker'[w].t = x)
              /\ p \notin {<<"idle", NoTunnel>>, <<"worker", w>>} => (At(p, x)' <=> At(p, x))
<1> SUFFICES ASSUME NEW x \in Tunnels, NEW p \in Spot
             PROVE  /\ p = <<"idle", NoTunnel>> =>
                          (At(p, x) <=> x \in idle) /\ (At(p, x)' <=> x \in idle')
                    /\ p = <<"worker", w>> =>
                          (At(p, x) <=> worker[w].t = x) /\ (At(p, x)' <=> worker'[w].t = x)
                    /\ p \notin {<<"idle", NoTunnel>>, <<"worker", w>>} => (At(p, x)' <=> At(p, x))
    OBVIOUS
<1>1. /\ p[1] \in PoolPlaces => p = <<p[1], NoTunnel>>
      /\ p[1] = "user" => p[2] \in Users
      /\ p[1] = "worker" => p[2] \in Workers /\ p = <<"worker", p[2]>>
      /\ "idle" \in PoolPlaces
    BY Spots DEF PoolPlaces
<1>2. CASE p \in {<<"idle", NoTunnel>>, <<"worker", w>>}
    BY <1>2 DEF At
<1>3. CASE p \notin {<<"idle", NoTunnel>>, <<"worker", w>>}
    <2>1. p[1] = "user" => (InHand(p[2], x)' <=> InHand(p[2], x))
        BY <1>1 DEF InHand
    <2>2. p[1] # "idle" /\ (p[1] = "worker" => (worker'[p[2]].t = worker[p[2]].t))
        BY <1>1, <1>3
    <2>3. UNCHANGED <<sv, pending, con, handler>> /\ (Queued(x)' <=> Queued(x))
        BY DEF serverVars, Queued
    <2>4. At(p, x)' <=> At(p, x)
        BY <2>1, <2>2, <2>3 DEF At
    <2> QED BY <1>3, <2>4
<1> QED BY <1>2, <1>3

\* Where the acceptor does nothing the queue stays what it is.
LEMMA QueueStays ==
    ASSUME Queue, side' = side, UNCHANGED serverVars
    PROVE  Queue'
    BY DEF Queue, serverVars

\* No step of a refill puts a tunnel in two places or loses an open one.
LEMMA AgentApart ==
    ASSUME TypeOK, Hands, Links, Queue, Apart, Held, Fresh, AgentStep
    PROVE  Queue' /\ Apart' /\ Held' /\ Fresh'
<1> DEFINE I == <<"idle", NoTunnel>>
           W(w) == <<"worker", w>>
<1>0. I \in Spot /\ \A w \in Workers : W(w) \in Spot /\ W(w) # I
    BY Spots DEF PoolPlaces
<1>1. /\ worker \in [Workers -> [pc : {"free", "putting"}, t : Tunnels \cup {NoTunnel}]]
      /\ \A w \in Workers : worker[w].pc = "putting" <=> worker[w].t \in Tunnels
      /\ tun \in [Tunnels -> TunnelType] /\ NoTunnel \notin Tunnels
      /\ \A x \in Tunnels : Sound(tun[x])
      /\ user \in [Users -> UserType]
    BY Types, PoolConstants DEF TypeOK, Hands, Links
<1>2. /\ UNCHANGED serverVars
      /\ UNCHANGED <<sv, pending, acc, con, handler>>
    BY DEF AgentStep, HandleRefillRequest, RefillToTarget, RefillDone, OpenTunnel, PutOpened,
           serverVars
<1>3. CASE (\E q \in Requests : HandleRefillRequest(q)) \/ RefillToTarget \/ RefillDone
    <2>1. TunnelsKeep({})
        BY <1>3, RefillTunnels
    <2>2. UNCHANGED <<user, idle, inUse, worker, ev>>
        BY <1>3 DEF HandleRefillRequest, RefillToTarget, RefillDone, poolVars
    <2> QED BY <1>2, <2>1, <2>2, NobodyMoves
<1>4. ASSUME NEW w \in Workers, NEW t \in Tunnels, OpenTunnel(w, t)
      PROVE  Queue' /\ Apart' /\ Held' /\ Fresh'
    <2>1. UNCHANGED <<user, idle, inUse, ev>> /\ worker[w].t \notin Tunnels
        BY <1>1, <1>4 DEF OpenTunnel, poolVars
    <2>2. CASE UNCHANGED <<tun, worker>>
        <3>1. TunnelsKeep({})
            BY <1>1, <1>4, <2>2, NoneChanges DEF OpenTunnel
        <3> QED BY <1>2, <2>1, <2>2, <3>1, NobodyMoves
    <2>3. CASE worker' = [worker EXCEPT ![w] = [pc |-> "putting", t |-> t]]
               /\ tun' = [tun EXCEPT ![t] = NewTunnel] /\ tun[t].state = "none"
        <3>1. TunnelsKeep({t}) /\ Open(t)'
            <4>1. side' = side
                BY <1>4 DEF OpenTunnel
            <4>2. TunnelsKeep({t}) /\ tun'[t].state = "idle"
                BY <1>1, <2>3, <4>1, OneIsNew
            <4> QED BY <4>2 DEF Open
        <3>2. worker'[w].t = t /\ \A v \in Workers : v # w => worker'[v].t = worker[v].t
            BY <1>1, <2>3
        <3>3. At(W(w), t)'
            BY <1>0, <1>2, <2>1, <3>2, WorkerPlaces
        <3>4. \A x \in Tunnels : \A p \in Spot : At(p, x)' => At(p, x) \/ (x = t /\ p = W(w))
            BY <1>2, <2>1, <3>2, WorkerPlaces
        <3>5. \A x \in Tunnels : x # t /\ Open(x)' => \A p \in Spot : At(p, x) => At(p, x)'
            BY <1>2, <2>1, <3>2, WorkerPlaces
        <3>6. Apart' /\ Held' /\ Fresh'
            <4> HIDE DEF W
            <4> QED BY <1>0, <3>1, <3>3, <3>4, <3>5, Begins
        <3>7. Queue'
            BY <1>2, <3>1, QueueStays DEF TunnelsKeep
        <3> QED BY <3>6, <3>7
    <2> QED BY <1>4, <2>2, <2>3 DEF OpenTunnel
<1>5. ASSUME NEW w \in Workers, PutOpened(w) PROVE Queue' /\ Apart' /\ Held' /\ Fresh'
    <2>p. PICK t \in Tunnels : t = worker[w].t
        BY <1>1, <1>5 DEF PutOpened
    <2>1. TunnelsKeep({})
        BY <1>5, RefillTunnels
    <2>2. worker'[w].t = NoTunnel /\ \A v \in Workers : v # w => worker'[v].t = worker[v].t
        BY <1>1, <1>5 DEF PutOpened
    <2>3. Queue'
        BY <1>2, <2>1, QueueStays DEF TunnelsKeep
    <2>4. CASE PutIdle(t, user)
        <3>1. /\ idle' = idle \cup {t} /\ inUse' = inUse /\ ev'.out = ev.out
              /\ \A u \in Users : user'[u].pc = user[u].pc /\ user'[u].t = user[u].t
            BY <1>1, <2>4, PutIdleGives
        <3>2. At(W(w), t) /\ At(I, t)'
            BY <1>0, <1>2, <2>p, <2>2, <3>1, WorkerPlaces
        <3>3. \A x \in Tunnels : \A p \in Spot :
                 At(p, x)' => (At(p, x) /\ ~(x = t /\ p = W(w))) \/ (x = t /\ p = I)
            BY <1>1, <1>2, <2>2, <3>1, WorkerPlaces
        <3>4. \A x \in Tunnels : Open(x)' /\ x # t => \A p \in Spot : At(p, x) => At(p, x)'
            BY <1>2, <2>p, <2>2, <3>1, WorkerPlaces
        <3>5. Apart' /\ Held' /\ Fresh'
            <4> HIDE DEF W, I
            <4> QED BY <1>0, <2>1, <3>2, <3>3, <3>4, OneMoves
        <3> QED BY <2>3, <3>5
    <2>5. CASE tun' = [tun EXCEPT ![t] = Closed(tun[t])] /\ UNCHANGED <<poolVars, user, ev>>
        <3>1. tun'[t].state # "idle"
            BY <1>1, <2>5, Endings
        <3>2. UNCHANGED <<idle, inUse, user, ev>>
            BY <2>5 DEF poolVars
        <3>3. \A x \in Tunnels : \A p \in Spot : At(p, x)' => At(p, x)
            BY <1>1, <1>2, <2>2, <3>2, WorkerPlaces
        <3>4. \A x \in Tunnels : Open(x)' => \A p \in Spot : At(p, x) => At(p, x)'
            BY <1>1, <1>2, <2>p, <2>2, <3>1, <3>2, WorkerPlaces DEF Open
        <3> QED BY <2>1, <2>3, <3>3, <3>4, Stays
    <2> QED BY <1>5, <2>p, <2>4, <2>5 DEF PutOpened
<1> QED BY <1>3, <1>4, <1>5 DEF AgentStep

\* The places of the maintenance.
LEMMA MaintenancePlaces ==
    ASSUME UNCHANGED <<inUse, user, serverVars, worker>>
    PROVE  \A x \in Tunnels : \A p \in Spot :
              /\ p = <<"idle", NoTunnel>> =>
                    (At(p, x) <=> x \in idle) /\ (At(p, x)' <=> x \in idle')
              /\ p = <<"evicted", NoTunnel>> =>
                    (At(p, x) <=> x \in ev.out) /\ (At(p, x)' <=> x \in ev'.out)
              /\ p \notin {<<"idle", NoTunnel>>, <<"evicted", NoTunnel>>} => (At(p, x)' <=> At(p, x))
<1> SUFFICES ASSUME NEW x \in Tunnels, NEW p \in Spot
             PROVE  /\ p = <<"idle", NoTunnel>> =>
                          (At(p, x) <=> x \in idle) /\ (At(p, x)' <=> x \in idle')
                    /\ p = <<"evicted", NoTunnel>> =>
                          (At(p, x) <=> x \in ev.out) /\ (At(p, x)' <=> x \in ev'.out)
                    /\ p \notin {<<"idle", NoTunnel>>, <<"evicted", NoTunnel>>} =>
                          (At(p, x)' <=> At(p, x))
    OBVIOUS
<1>1. /\ p[1] \in PoolPlaces => p = <<p[1], NoTunnel>>
      /\ "idle" \in PoolPlaces /\ "evicted" \in PoolPlaces
    BY Spots DEF PoolPlaces
<1>2. CASE p \in {<<"idle", NoTunnel>>, <<"evicted", NoTunnel>>}
    BY <1>2 DEF At
<1>3. CASE p \notin {<<"idle", NoTunnel>>, <<"evicted", NoTunnel>>}
    <2>1. InHand(p[2], x)' <=> InHand(p[2], x)
        BY DEF InHand
    <2>2. p[1] # "idle" /\ p[1] # "evicted"
        BY <1>1, <1>3
    <2>3. UNCHANGED <<sv, pending, con, handler>> /\ (Queued(x)' <=> Queued(x))
        BY DEF serverVars, Queued
    <2>4. At(p, x)' <=> At(p, x)
        BY <2>1, <2>2, <2>3 DEF At
    <2> QED BY <1>3, <2>4
<1> QED BY <1>2, <1>3

\* Nor does a step of the maintenance.
LEMMA MaintenanceApart ==
    ASSUME TypeOK, Hands, Links, Queue, Swept, Apart, Held, Fresh, Maintenance
    PROVE  Queue' /\ Apart' /\ Held' /\ Fresh'
<1> DEFINE I == <<"idle", NoTunnel>>
           E == <<"evicted", NoTunnel>>
<1>0. I \in Spot /\ E \in Spot /\ I # E
    BY Spots DEF PoolPlaces
<1>1. UNCHANGED <<inUse, user, serverVars, worker>> /\ TunnelsKeep({})
    <2>1. UNCHANGED <<inUse, user, serverVars, worker>>
        BY DEF Maintenance, EvictExpired, Snapshot, Scan, EvictCandidates, CloseEvicted, Age, TakeIdle,
               agentVars, poolVars
    <2> QED BY <2>1, MaintenanceTunnels
<1>2. Queue'
    BY <1>1, QueueStays DEF TunnelsKeep
<1>3. ASSUME NEW gone, gone \subseteq idle, idle' = idle \ gone, ev.out = {}, ev'.out = gone
      PROVE  Apart' /\ Held' /\ Fresh'
    <2>1. \A x \in Tunnels : x \in gone => At(I, x)
        BY <1>0, <1>1, <1>3, MaintenancePlaces
    <2>2. \A x \in Tunnels : \A p \in Spot :
             At(p, x)' => (At(p, x) /\ ~(x \in gone /\ p = I)) \/ (x \in gone /\ p = E)
        BY <1>1, <1>3, MaintenancePlaces
    <2>3. \A x \in Tunnels : Open(x)' =>
             IF x \in gone THEN At(E, x)' ELSE \A p \in Spot : At(p, x) => At(p, x)'
        BY <1>0, <1>1, <1>3, MaintenancePlaces
    <2> HIDE DEF I, E
    <2> QED BY <1>0, <1>1, <2>1, <2>2, <2>3, Moves
<1>4. CASE EvictExpired
    <2>1. idle' = idle \ (aged \cap idle) /\ ev.pc = "rest"
        BY <1>4 DEF EvictExpired, TakeIdle
    <2>2. ev'.out = aged \cap idle
        BY <1>4, EvMoves
    <2>3. ev.out = {}
        BY <2>1 DEF Swept
    <2> QED BY <1>2, <1>3, <2>1, <2>2, <2>3
<1>5. CASE EvictCandidates
    <2> DEFINE gone == {t \in ev.cand : StillThere(t)}
    <2>1. idle' = idle \ gone /\ ev.pc = "scanning" /\ gone \subseteq idle
        BY <1>5 DEF EvictCandidates, TakeIdle, StillThere
    <2>2. ev'.out = gone
        BY <1>5, EvMoves
    <2>3. ev.out = {}
        BY <2>1 DEF Swept
    <2> HIDE DEF gone
    <2> QED BY <1>2, <1>3, <2>1, <2>2, <2>3
<1>6. CASE idle' = idle /\ ev'.out = ev.out
    <2>1. \A x \in Tunnels : \A p \in Spot : At(p, x)' <=> At(p, x)
        BY <1>1, <1>6, MaintenancePlaces
    <2> QED BY <1>1, <1>2, <2>1, Stays
<1>7. CASE Snapshot
    <2>1. ev'.out = {} /\ ev.out = {} /\ idle' = idle
        BY <1>7, EvMoves DEF Swept, Snapshot, poolVars
    <2> QED BY <1>6, <2>1
<1>8. CASE \E t \in Tunnels : Scan(t) \/ Age(t)
    <2>1. ev'.out = ev.out /\ idle' = idle
        BY <1>8, EvMoves DEF Scan, Age, poolVars
    <2> QED BY <1>6, <2>1
<1>9. ASSUME NEW t \in Tunnels, CloseEvicted(t) PROVE Apart' /\ Held' /\ Fresh'
    <2>1. ev'.out = ev.out \ {t} /\ idle' = idle
        BY <1>9, EvMoves DEF CloseEvicted
    <2>2. ~Open(t)'
        <3>1. tun \in [Tunnels -> TunnelType] /\ Sound(tun[t])
            BY Types DEF Links
        <3>2. \/ tun' = [tun EXCEPT ![t] = Closed(tun[t])]
              \/ tun' = [tun EXCEPT ![t] = Broken(tun[t])]
            BY <1>9 DEF CloseEvicted
        <3> QED BY <3>1, <3>2, Endings DEF Open
    <2>3. \A x \in Tunnels : \A p \in Spot : At(p, x)' => At(p, x)
        BY <1>1, <2>1, MaintenancePlaces
    <2>4. \A x \in Tunnels : Open(x)' => \A p \in Spot : At(p, x) => At(p, x)'
        BY <1>1, <2>1, <2>2, MaintenancePlaces
    <2> QED BY <1>1, <2>3, <2>4, Stays
<1> QED BY <1>2, <1>4, <1>5, <1>7, <1>8, <1>9 DEF Maintenance

\* Nor do the peers.
LEMMA NetworkApart ==
    ASSUME TypeOK, Hands, Links, Queue, Apart, Held, Fresh, Network
    PROVE  Queue' /\ Apart' /\ Held' /\ Fresh'
<1>1. UNCHANGED <<idle, inUse, worker, pending, handler, sv, con, acc, user, ev>>
    BY DEF Network, PeerSend, PeerEnds, StreamContextDone, poolVars, serverVars, agentVars
<1> QED BY <1>1, NetworkTunnels, NobodyMoves

(***************************************************************************)
(* What the maintenance holds for old has been idle for a TTL.             *)
(***************************************************************************)
\* A step beside the maintenance: it puts nothing back that the sweep knows, and what
\* is no longer old is out of the sweep's reach.
LEMMA SweptKeeps ==
    ASSUME Swept, ev'.pc = ev.pc, ev'.out = ev.out, ev'.expired = ev.expired,
           ev'.same \subseteq ev.same, ev.out \subseteq Tunnels, ev.same \subseteq Tunnels,
           \A x \in Tunnels : x \in ev'.same /\ Waiting(x)' => Waiting(x),
           \A x \in Tunnels : x \in aged => \/ x \in aged'
                                            \/ x \notin ev.out /\ ~(x \in ev'.same /\ Waiting(x)')
    PROVE  Swept'
<1>1. ev'.pc # "closing" => ev'.out = {}
    BY DEF Swept
<1>2. ASSUME ev'.pc = "scanning", NEW x \in ev'.expired \cap ev'.same, Waiting(x)'
      PROVE  x \in aged'
    <2>1. x \in Tunnels /\ x \in ev.expired \cap ev.same /\ Waiting(x)
        BY <1>2
    <2>2. x \in aged
        BY <1>2, <2>1 DEF Swept
    <2> QED BY <1>2, <2>1, <2>2
<1>3. ASSUME NEW x \in ev'.out \cap ev'.expired PROVE x \in aged'
    <2>1. x \in aged /\ x \in Tunnels /\ x \in ev.out
        BY DEF Swept
    <2> QED BY <2>1
<1> QED BY <1>1, <1>2, <1>3 DEF Swept

\* A tunnel in the hands of a user is in nobody else's, nor idle, nor evicted.
LEMMA InHandOnly ==
    ASSUME Apart, NEW u \in Users, NEW t \in Tunnels, InHand(u, t)
    PROVE  /\ t \notin idle /\ t \notin ev.out
           /\ \A v \in Users : v # u => ~InHand(v, t)
<1>1. At(<<"user", u>>, t) /\ <<"user", u>> \in Spot
    BY Spots DEF At
<1>2. /\ <<"idle", NoTunnel>> \in Spot /\ <<"evicted", NoTunnel>> \in Spot
      /\ t \in idle => At(<<"idle", NoTunnel>>, t)
      /\ t \in ev.out => At(<<"evicted", NoTunnel>>, t)
    BY Spots DEF At, PoolPlaces
<1>3. ASSUME NEW v \in Users, v # u, InHand(v, t) PROVE FALSE
    <2>1. At(<<"user", v>>, t) /\ <<"user", v>> \in Spot
        BY <1>3, Spots DEF At
    <2> QED BY <1>1, <1>3, <2>1 DEF Apart
<1>4. t \notin idle /\ t \notin ev.out
    BY <1>1, <1>2 DEF Apart
<1> QED BY <1>3, <1>4

\* No step of a user lets the sweep hold a tunnel for older than it is.
LEMMA UserSwept ==
    ASSUME TypeOK, Hands, Links, Swept, Apart, NEW u \in Users, UserStep(u)
    PROVE  Swept'
<1>t. PICK t : t = user[u].t
    OBVIOUS
<1>1. /\ user \in [Users -> UserType] /\ NoTunnel \notin Tunnels
      /\ user[u].pc \in {"probing", "probed", "using", "reading", "putting"} <=> t \in Tunnels
      /\ ev.out \subseteq Tunnels /\ ev.same \subseteq Tunnels /\ idle \subseteq Tunnels
    BY <1>t, Types, EvFields, PoolConstants DEF TypeOK, Hands
<1>2. ASSUME NEW pc, NEW s, UserGoes(user', u, pc, s), ev' = ev, aged' = aged,
             \A x \in Tunnels : x \in idle' => Waiting(x),
             s \in Tunnels /\ pc \in {"probing", "probed"} => Waiting(s)
      PROVE  Swept'
    <2>1. \A x \in Tunnels : Waiting(x)' => Waiting(x)
        BY <1>2 DEF Waiting, UserGoes
    <2> QED BY <1>1, <1>2, <2>1, SweptKeeps
<1>3. CASE StartAcquire(u) \/ Wake(u) \/ StartRead(u) \/ EndRead(u) \/ StartRecycle(u)
              \/ Remove(u)
    <2>1. \E pc, s : UserGoes(user', u, pc, s) /\ pc \notin {"probing", "probed"}
        BY <1>3, UserMoves
    <2>2. idle' \subseteq idle /\ UNCHANGED <<aged, ev>>
        BY <1>3 DEF StartAcquire, Wake, StartRead, EndRead, StartRecycle, Remove, poolVars
    <2> QED BY <1>2, <2>1, <2>2 DEF Waiting
<1>4. CASE UserWrites(u)
    <2>1. UNCHANGED <<user, idle, aged, ev>>
        BY <1>4 DEF UserWrites, poolVars
    <2> QED BY <1>1, <2>1, SweptKeeps DEF Waiting
<1>5. CASE Pop(u)
    <2>1. UNCHANGED <<aged, ev>>
        BY <1>5 DEF Pop
    <2>2. \/ UserGoes(user', u, "waiting", NoTunnel) /\ idle' = idle
          \/ \E s \in idle : UserGoes(user', u, "probing", s) /\ idle' = idle \ {s}
        BY <1>5, UserMoves
    <2> QED BY <1>2, <2>1, <2>2 DEF Waiting
<1>6. ASSUME user[u].pc \in {"probing", "probed"}, aged' = aged \ {t}, idle' = idle, ev' = ev,
             NEW pc, NEW s, UserGoes(user', u, pc, s), pc \notin {"probing", "probed"}
      PROVE  Swept'
    <2>1. InHand(u, t) /\ t \in Tunnels
        BY <1>t, <1>1, <1>6 DEF InHand
    <2>2. t \notin idle /\ t \notin ev.out /\ \A v \in Users : v # u => ~InHand(v, t)
        BY <2>1, InHandOnly
    <2>3. \A x \in Tunnels : Waiting(x)' => Waiting(x)
        BY <1>6 DEF Waiting, UserGoes
    <2>4. ~Waiting(t)'
        BY <1>6, <2>2 DEF Waiting, UserGoes, InHand
    <2>5. \A x \in Tunnels : x \in aged => x \in aged' \/ x = t
        BY <1>6
    <2> QED BY <1>1, <1>6, <2>2, <2>3, <2>4, <2>5, SweptKeeps
<1>7. CASE ProbePopped(u)
    <2>1. user[u].pc = "probing" /\ UNCHANGED <<idle, ev>> /\ user[u] \in UserType
        BY <1>1, <1>7 DEF ProbePopped
    <2>2. CASE user' = Set(u, "probed", t) /\ aged' = aged
        <3>1. UserGoes(user', u, "probed", t) \/ UserGoes(user', u, "popping", NoTunnel)
            BY <1>7, <1>t, UserMoves
        <3>2. Waiting(t)
            BY <1>t, <2>1 DEF Waiting
        <3> QED BY <1>2, <2>1, <2>2, <3>1, <3>2 DEF Waiting
    <2>3. CASE user' = Set(u, "popping", NoTunnel) /\ aged' = aged \ {t}
        <3>1. UserGoes(user', u, "probed", t) \/ UserGoes(user', u, "popping", NoTunnel)
            BY <1>7, <1>t, UserMoves
        <3>2. With(user[u], "popping", NoTunnel).pc = "popping"
            BY <2>1, RecordGoes DEF Points
        <3>3. user'[u].pc = "popping"
            BY <1>1, <2>3, <3>2 DEF Set, With
        <3>4. UserGoes(user', u, "popping", NoTunnel)
            BY <3>1, <3>3 DEF UserGoes
        <3> QED BY <1>6, <2>1, <2>3, <3>4
    <2> QED BY <1>7, <1>t, <2>2, <2>3 DEF ProbePopped
<1>8. CASE Settle(u)
    <2>1. user[u].pc = "probed" /\ UNCHANGED <<idle, ev>> /\ aged' = aged \ {t}
        BY <1>8, <1>t DEF Settle
    <2>2. \E pc, s : UserGoes(user', u, pc, s) /\ pc \notin {"probing", "probed"}
        BY <1>8, UserMoves
    <2> QED BY <1>6, <2>1, <2>2
<1>9. CASE PushBack(u)
    <2>1. user[u].pc = "probed" /\ UNCHANGED <<aged, ev>> /\ idle' = idle \cup {t}
        BY <1>9, <1>t DEF PushBack
    <2>2. UserGoes(user', u, "out", NoTunnel) /\ Waiting(t)
        BY <1>9, <1>t, <2>1, UserMoves DEF Waiting
    <2> QED BY <1>2, <2>1, <2>2 DEF Waiting
<1>10. CASE PutRecycled(u)
    <2>1. UserGoes(user', u, "out", NoTunnel) /\ user[u].pc = "putting" /\ t \in Tunnels
        BY <1>1, <1>10, UserMoves DEF PutRecycled
    <2>2. CASE UNCHANGED <<poolVars, ev>>
        BY <1>2, <2>1, <2>2 DEF Waiting, poolVars
    <2>3. CASE PutIdle(t, Set(u, "out", NoTunnel))
        <3>1. /\ ev'.pc = ev.pc /\ ev'.same = ev.same \ {t} /\ ev'.expired = ev.expired
              /\ ev'.out = ev.out /\ idle' = idle \cup {t} /\ aged' = aged \ {t}
            <4>1. With(user[u], "out", NoTunnel) \in UserType
                BY <1>1, RecordGoes DEF Points
            <4>2. Set(u, "out", NoTunnel) \in [Users -> UserType]
                BY <1>1, <4>1 DEF Set, With
            <4> QED BY <2>1, <2>3, <4>2, PutIdleGives
        <3>2. t \notin ev.out
            BY <1>t, <2>1, InHandOnly DEF InHand
        <3>3. \A x \in Tunnels : x \in ev'.same /\ Waiting(x)' => Waiting(x)
            BY <2>1, <3>1 DEF Waiting, UserGoes
        <3> QED BY <1>1, <3>1, <3>2, <3>3, SweptKeeps
    <2> QED BY <1>10, <1>t, <2>2, <2>3 DEF PutRecycled
<1> QED BY <1>3, <1>4, <1>5, <1>7, <1>8, <1>9, <1>10 DEF UserStep

\* Nor does a tunnel put in by the acceptor or by a refill.
LEMMA PutSwept ==
    ASSUME TypeOK, Swept, NEW t \in Tunnels, t \notin ev.out, PutIdle(t, user)
    PROVE  Swept'
<1>1. user \in [Users -> UserType] /\ ev.out \subseteq Tunnels /\ ev.same \subseteq Tunnels
    BY Types, EvFields
<1>2. /\ ev'.pc = ev.pc /\ ev'.same = ev.same \ {t} /\ ev'.expired = ev.expired
      /\ ev'.out = ev.out /\ idle' = idle \cup {t} /\ aged' = aged \ {t}
      /\ \A u \in Users : user'[u].pc = user[u].pc /\ user'[u].t = user[u].t
    BY <1>1, PutIdleGives
<1>3. \A x \in Tunnels : x \in ev'.same /\ Waiting(x)' => Waiting(x)
    BY <1>2 DEF Waiting
<1> QED BY <1>1, <1>2, <1>3, SweptKeeps

\* Nor do the steps of the maintenance itself.
LEMMA MaintenanceSwept ==
    ASSUME TypeOK, Swept, Maintenance
    PROVE  Swept'
<1>1. user' = user
    BY DEF Maintenance, EvictExpired, Snapshot, EvictCandidates, Scan, CloseEvicted, Age
<1>2. CASE EvictExpired
    <2>1. /\ ev'.pc = "closing" /\ ev'.out = aged \cap idle /\ ev'.expired = aged \cap idle
          /\ aged' = aged
        BY <1>2, EvMoves DEF EvictExpired, TakeIdle
    <2> QED BY <2>1 DEF Swept
<1>3. CASE Snapshot
    <2>1. /\ ev'.pc = "scanning" /\ ev'.expired = aged \cap idle /\ ev'.out = {}
          /\ aged' = aged
        BY <1>3, EvMoves DEF Snapshot, poolVars
    <2> QED BY <2>1 DEF Swept
<1>4. ASSUME NEW t \in Tunnels, Scan(t) \/ Age(t) PROVE Swept'
    <2>1. /\ ev'.pc = ev.pc /\ ev'.same = ev.same /\ ev'.expired = ev.expired
          /\ ev'.out = ev.out /\ idle' = idle /\ aged \subseteq aged'
        BY <1>4, EvMoves DEF Scan, Age, poolVars
    <2>2. \A x : Waiting(x)' <=> Waiting(x)
        BY <1>1, <2>1 DEF Waiting
    <2> QED BY <2>1, <2>2, SweptKeeps, EvFields
<1>5. CASE EvictCandidates
    <2> DEFINE gone == {t \in ev.cand : StillThere(t)}
    <2>1. aged' = aged /\ ev.pc = "scanning"
        BY <1>5 DEF EvictCandidates, TakeIdle
    <2>2. /\ ev'.out = gone /\ ev'.pc # "scanning"
          /\ ev'.expired \subseteq ev.expired /\ (gone # {} => ev'.pc = "closing")
        BY <1>5, EvMoves
    <2>3. \A t \in gone : t \in ev.same /\ Waiting(t)
        BY DEF StillThere, Waiting
    <2> HIDE DEF gone
    <2>4. \A t \in ev'.out \cap ev'.expired : t \in aged'
        BY <2>1, <2>2, <2>3 DEF Swept
    <2> QED BY <2>2, <2>4 DEF Swept
<1>6. ASSUME NEW t \in Tunnels, CloseEvicted(t) PROVE Swept'
    <2>1. /\ ev'.out = ev.out \ {t} /\ ev'.expired \subseteq ev.expired
          /\ ev'.pc # "scanning" /\ (ev'.pc # "closing" => ev'.out = {})
        BY <1>6, EvMoves
    <2>2. aged' = aged \ {t}
        BY <1>6 DEF CloseEvicted
    <2> QED BY <2>1, <2>2 DEF Swept
<1> QED BY <1>2, <1>3, <1>4, <1>5, <1>6 DEF Maintenance

\* No step at all.
LEMMA SweptStep ==
    ASSUME TypeOK, Hands, Links, Swept, Apart, Next
    PROVE  Swept'
<1>1. CASE UNCHANGED <<idle, aged, ev, user>>
    BY <1>1 DEF Swept, Waiting
<1>2. CASE ServerStep
    <2>1. CASE PutAccepted /\ PutIdle(con.t, user)
        <3>1. con.t \in Tunnels
            BY <2>1 DEF PutAccepted, Hands
        <3>2. con.t \notin ev.out
            <4>1. /\ <<"accepted", NoTunnel>> \in Spot /\ <<"evicted", NoTunnel>> \in Spot
                  /\ At(<<"accepted", NoTunnel>>, con.t)
                  /\ con.t \in ev.out => At(<<"evicted", NoTunnel>>, con.t)
                BY Spots DEF At, PoolPlaces
            <4> QED BY <3>1, <4>1 DEF Apart
        <3> QED BY <2>1, <3>1, <3>2, PutSwept
    <2> QED BY <1>1, <1>2, <2>1
            DEF ServerStep, PutAccepted, Accept, HandleTunnelStream, OfferStream, HandlerEnds, Offer,
                CheckDone, ServeEnds, CloseAcceptor, CloseConn, DrainPending, TakePending, CheckTaken,
                poolVars
<1>3. CASE AgentStep
    <2>1. ASSUME NEW w \in Workers, PutOpened(w), PutIdle(worker[w].t, user) PROVE Swept'
        <3>1. worker[w].t \in Tunnels
            BY <2>1 DEF PutOpened, Hands
        <3>2. worker[w].t \notin ev.out
            <4>1. /\ <<"worker", w>> \in Spot /\ <<"evicted", NoTunnel>> \in Spot
                  /\ At(<<"worker", w>>, worker[w].t)
                  /\ worker[w].t \in ev.out => At(<<"evicted", NoTunnel>>, worker[w].t)
                BY Spots DEF At, PoolPlaces
            <4> QED BY <3>1, <4>1 DEF Apart
        <3> QED BY <2>1, <3>1, <3>2, PutSwept
    <2> QED BY <1>1, <1>3, <2>1
            DEF AgentStep, PutOpened, HandleRefillRequest, RefillToTarget, RefillDone, OpenTunnel,
                poolVars
<1>4. CASE Network
    BY <1>1, <1>4 DEF Network, PeerSend, PeerEnds, StreamContextDone, poolVars
<1> QED BY <1>2, <1>3, <1>4, UserSwept, MaintenanceSwept DEF Next

(***************************************************************************)
(* The theorems.                                                           *)
(***************************************************************************)
\* The invariant holds at the start.
LEMMA InitLemma ==
    ASSUME Init
    PROVE  IInv
<1>1. /\ Absent \in TunnelType /\ Absent.state = "none" /\ Absent.inbox = "empty"
    BY DEF Absent, TunnelType
<1>2. \A t \in Tunnels : tun[t] = Absent
    BY DEF Init
<1>3. Resting \in EvType /\ Resting.pc = "rest" /\ Resting.out = {}
    BY DEF Resting, EvType
<1>4. NoTunnel \notin Tunnels /\ side \in SideType
    BY PoolConstants DEF Init
<1>5. TypeOK
    <2>1. side.sends \in Nat /\ side.sweeps \in Nat
        BY <1>4 DEF SideType
    <2>2. 0 \in 0..side.sends /\ 0 \in 0..side.sweeps
        BY <2>1
    <2>3. tun \in [Tunnels -> TunnelType] /\ ev \in EvType
        BY <1>1, <1>3 DEF Init
    <2>4. user \in [Users -> UserType]
        BY DEF Init, UserType
    <2> QED BY <2>2, <2>3, <2>4 DEF Init, TypeOK, TunnelType, EvType, UserType
<1>6. Hands
    BY <1>4 DEF Init, Hands
<1>7. Links
    BY <1>1, <1>2 DEF Links, Sound
<1>8. NoMissedWakeup /\ Covered
    BY DEF Init, NoMissedWakeup, Covered
<1>9. Swept
    BY <1>3 DEF Init, Swept
<1>10. Queue
    BY DEF Init, Queue
<1>11. ASSUME NEW t \in Tunnels, NEW p \in Spot PROVE ~At(p, t)
    <2>1. /\ p[1] = "user" => p[2] \in Users
          /\ p[1] = "worker" => p[2] \in Workers
        BY Spots
    <2>2. t # NoTunnel
        BY <1>4
    <2>3. /\ t \notin idle /\ t \notin inUse /\ sv.t # t /\ con.t # t
          /\ handler[t] # "offering" /\ ~Queued(t)
        BY <2>2 DEF Init, Queued
    <2>4. t \notin ev.out
        BY <1>3 DEF Init
    <2>5. p[1] = "user" => ~InHand(p[2], t)
        BY <2>1, <2>2 DEF Init, InHand
    <2>6. p[1] = "worker" => worker[p[2]].t # t
        BY <2>1, <2>2 DEF Init
    <2> QED BY <2>3, <2>4, <2>5, <2>6 DEF At
<1>12. \A t \in Tunnels : ~Open(t)
    BY <1>1, <1>2 DEF Open
<1>13. Apart /\ Held /\ Fresh
    BY <1>11, <1>12 DEF Apart, Held, Fresh
<1> QED BY <1>5, <1>6, <1>7, <1>8, <1>9, <1>10, <1>13 DEF IInv

\* And every step keeps it.
LEMMA StepLemma ==
    ASSUME IInv, [Next]_vars
    PROVE  IInv'
<1>0. TypeOK /\ Hands /\ Links /\ NoMissedWakeup /\ Covered /\ Swept /\ Queue
          /\ Apart /\ Held /\ Fresh
    BY DEF IInv
<1>1. CASE UNCHANGED vars
    <2>1. UNCHANGED <<side, tun, idle, order, inUse, aged, user, sv, pending, acc, con, handler,
                      ev, refill, worker, seen, sends, sweeps>>
        BY <1>1 DEF vars, poolVars, serverVars, agentVars, boundVars
    <2>2. TypeOK'
        BY <1>0, <2>1 DEF TypeOK
    <2>3. Hands' /\ Links' /\ Covered' /\ Queue'
        BY <1>0, <2>1 DEF Hands, Links, Sound, Covered, Queue
    <2>4. NoMissedWakeup' /\ Swept'
        BY <1>0, <2>1 DEF NoMissedWakeup, Swept, Waiting
    <2>5. \A t \in Tunnels : \A p \in Spot : At(p, t)' <=> At(p, t)
        BY <2>1 DEF At, InHand, Queued
    <2>6. Apart' /\ Held' /\ Fresh'
        BY <1>0, <2>1, <2>5 DEF Apart, Held, Fresh, Open
    <2> QED BY <2>2, <2>3, <2>4, <2>6 DEF IInv
<1>2. CASE Next
    <2>1. NoMissedWakeup' /\ Covered'
        BY <1>0, <1>2, WakeupStep
    <2>2. Swept'
        BY <1>0, <1>2, SweptStep
    <2>3. ASSUME NEW u \in Users, UserStep(u)
          PROVE  TypeOK' /\ Hands' /\ Links' /\ Queue' /\ Apart' /\ Held' /\ Fresh'
        <3>1. TunnelsKeep({})
            BY <1>0, <2>3, UserTunnels
        <3>2. UNCHANGED serverVars /\ side' = side
            BY <2>3, <3>1 DEF UserStep, StartAcquire, Pop, Wake, ProbePopped, PushBack, Settle, StartRead,
                   EndRead, UserWrites, StartRecycle, PutRecycled, Remove, TunnelsKeep
        <3> QED BY <1>0, <2>3, <3>1, <3>2, UserTypes, UserApart, KeepLinks, QueueStays
    <2>4. CASE ServerStep
        <3>1. Links'
            BY <1>0, <2>4, ServerTunnels, NewTunnels, KeepLinks DEF ServerStep
        <3> QED BY <1>0, <2>1, <2>2, <2>4, <3>1, ServerTypes, ServerApart DEF IInv
    <2>5. CASE AgentStep
        <3>1. Links'
            BY <1>0, <2>5, RefillTunnels, NewTunnels, KeepLinks DEF AgentStep
        <3> QED BY <1>0, <2>1, <2>2, <2>5, <3>1, AgentTypes, AgentApart DEF IInv
    <2>6. CASE Maintenance
        <3>1. Links'
            BY <1>0, <2>6, MaintenanceTunnels, KeepLinks
        <3> QED BY <1>0, <2>1, <2>2, <2>6, <3>1, MaintenanceTypes, MaintenanceApart DEF IInv
    <2>7. CASE Network
        <3>1. Links'
            BY <1>0, <2>7, NetworkTunnels, KeepLinks
        <3> QED BY <1>0, <2>1, <2>2, <2>7, <3>1, NetworkTypes, NetworkApart DEF IInv
    <2> QED BY <1>2, <2>1, <2>2, <2>3, <2>4, <2>5, <2>6, <2>7 DEF Next, IInv
<1> QED BY <1>1, <1>2

\* A tunnel that is somewhere is in a place that counts: what is in the acceptor's
\* queue will still be taken from it.
LEMMA PlacesAreSpots ==
    ASSUME Queue, side.kind \in {"tcp", "grpc", "quic"}, NEW t \in Tunnels
    PROVE  Places(t) = {p \in Spot : At(p, t)}
<1>1. Queued(t) => QueueServed
    <2>1. Queued(t) => pending # <<>>
        BY DEF Queued
    <2> QED BY <2>1 DEF Queue, QueueServed, ByKind
<1>2. ASSUME NEW k \in PoolPlaces PROVE Kept(k, t) <=> At(<<k, NoTunnel>>, t)
    BY <1>1, <1>2 DEF Kept, At, PoolPlaces
<1>3. \A u \in Users : InHand(u, t) <=> At(<<"user", u>>, t)
    BY DEF At
<1>4. \A w \in Workers : (worker[w].t = t) <=> At(<<"worker", w>>, t)
    BY DEF At
<1>5. \A p : p \in Places(t) <=>
               \/ \E k \in PoolPlaces : p = <<k, NoTunnel>> /\ Kept(k, t)
               \/ \E u \in Users : p = <<"user", u>> /\ InHand(u, t)
               \/ \E w \in Workers : p = <<"worker", w>> /\ worker[w].t = t
    BY DEF Places, PoolPlaces
<1>6. \A p : p \in Spot <=>
               \/ \E k \in PoolPlaces : p = <<k, NoTunnel>>
               \/ \E u \in Users : p = <<"user", u>>
               \/ \E w \in Workers : p = <<"worker", w>>
    BY DEF Spot
<1>7. \A p : p \in Places(t) <=> (p \in Spot /\ At(p, t))
    BY <1>2, <1>3, <1>4, <1>5, <1>6
<1> QED BY <1>7

\* The invariant says what the properties do.
LEMMA InvariantSuffices ==
    ASSUME IInv
    PROVE  TypeOK /\ NoMissedWakeup /\ WellKept
<1>1. ASSUME NEW t \in Tunnels, Open(t) PROVE Cardinality(Places(t)) = 1
    <2>1. PICK p \in Spot : At(p, t)
        BY <1>1 DEF IInv, Held
    <2>2. \A q \in Spot : At(q, t) => q = p
        BY <2>1 DEF IInv, Apart
    <2>3. Places(t) = {p}
        BY <2>1, <2>2, PlacesAreSpots, Types DEF IInv
    <2> QED BY <2>3, FS_Singleton
<1>2. \A t \in ev.out : t \in ev.expired => t \in aged
    BY DEF IInv, Swept
<1> QED BY <1>1, <1>2 DEF IInv, WellKept, OnePlace

\* The invariant of the pool: for every number of tunnels, users and workers, and
\* every interleaving of their steps with the acceptor, the refill, the maintenance
\* and the network.
THEOREM InductiveInvariant == Spec => []IInv
<1>1. Init => IInv
    BY InitLemma
<1>2. IInv /\ [Next]_vars => IInv'
    BY StepLemma
<1> QED BY <1>1, <1>2, PTL DEF Spec

\* Every variable keeps its type.
THEOREM TypeCorrect == Spec => []TypeOK
<1>1. IInv => TypeOK
    BY DEF IInv
<1> QED BY <1>1, InductiveInvariant, PTL

\* No Acquire waits, untold, while a tunnel is idle: the empty pop and the capture of
\* the channel are one critical section, and every path that makes an idle map grow
\* closes the channel of the moment.
THEOREM NoMissedWakeupHolds == Spec => []NoMissedWakeup
<1>1. IInv => NoMissedWakeup
    BY DEF IInv
<1> QED BY <1>1, InductiveInvariant, PTL

\* No tunnel with an open connection is forgotten or handed out twice, and the
\* maintenance closes for its age only what has been idle for a TTL.
THEOREM WellKeptHolds == Spec => []WellKept
<1>1. IInv => WellKept
    BY InvariantSuffices
<1> QED BY <1>1, InductiveInvariant, PTL

(***************************************************************************)
(* The control channel: its inductive invariant.                           *)
(***************************************************************************)
\* What the variables of the channel hold.
Levels == {"high", "normal", "low"}

FrameSet == [of : Writes, part : Nat \ {0}, whole : BOOLEAN]

OpSet == [left : Int, active : BOOLEAN, finished : BOOLEAN, err : BOOLEAN]

\* The write loop has a frame.
Busy == loop \in {"write", "wrote", "marked"}

ChannelTypes ==
    /\ binding \in Bindings
    /\ writer \in [Writes -> {"idle", "prepared", "waiting", "locking", "sending", "sent", "failed"}]
    /\ op \in [Writes -> OpSet]
    /\ queue \in [Levels -> Seq(FrameSet)]
    /\ ready \in {0, 1}
    /\ loop \in {"wait", "pop", "write", "wrote", "marked", "ended"}
    /\ Busy => current \in FrameSet
    /\ channel \in {"open", "closing", "closed"}
    /\ wire \in Seq(FrameSet)
    /\ entered \in Seq(Writes)
    /\ delivered \in Seq(Writes)

\* What belongs to one binding only.
BindingFits ==
    /\ \A w \in Writes : /\ writer[w] \in {"prepared", "waiting"} => binding = "tcp"
                         /\ writer[w] \in {"locking", "sending"} => binding # "tcp"
                         /\ writer[w] = "sending" <=> mutex = w
    /\ loop # "wait" => binding = "tcp"
    /\ binding # "tcp" => \A p \in Levels : queue[p] = <<>>

\* The writes that have taken their place, each once, and those that have not.
HasEntered(w) == \E i \in DOMAIN entered : entered[i] = w

EntriesFit ==
    /\ \A i, j \in DOMAIN entered : entered[i] = entered[j] => i = j
    /\ \A w \in Writes : writer[w] \in {"idle", "prepared", "locking"} =>
          ~HasEntered(w) /\ op[w].left = Channel!FramesOf(w)
    /\ \A w \in Writes : writer[w] \in {"waiting", "sending"} => HasEntered(w)

\* The frames of a message are in the queue of its priority in their order, those the
\* loop has not taken; the one it has taken is the one before them.
Rest(w) == {queue[Priority[w]][j].part : j \in {i \in DOMAIN queue[Priority[w]] : queue[Priority[w]][i].of = w}}

InHandOf(w) == Busy /\ current.of = w

QueueFits ==
    /\ \A p \in Levels : \A i \in DOMAIN queue[p] :
          /\ Priority[queue[p][i].of] = p
          /\ queue[p][i].whole
          /\ queue[p][i].part \in 1..Channel!FramesOf(queue[p][i].of)
    /\ Busy => /\ HasEntered(current.of) /\ current.whole
               /\ current.part \in 1..Channel!FramesOf(current.of)
    /\ \A w \in Writes : writer[w] = "waiting" /\ ~op[w].finished /\ channel = "open" =>
          /\ op[w].left \in 1..Channel!FramesOf(w)
          /\ InHandOf(w) => current.part = Channel!FramesOf(w) - op[w].left + 1
          /\ Rest(w) = IF InHandOf(w) THEN Channel!FramesOf(w) - op[w].left + 2 .. Channel!FramesOf(w)
                       ELSE Channel!FramesOf(w) - op[w].left + 1 .. Channel!FramesOf(w)

LoopFits ==
    /\ loop = "wait" /\ ready = 0 => \A p \in Levels : queue[p] = <<>>
    /\ loop = "ended" => channel # "open"

\* The order of the frames: by the place of their writes, and within a write.
Earlier(v, w) == \E i, j \in DOMAIN entered : i < j /\ entered[i] = v /\ entered[j] = w

Precedes(f, g) == Earlier(f.of, g.of) \/ (f.of = g.of /\ f.part < g.part)

Alike(v, w) == Priority[v] = Priority[w] \/ binding # "tcp"

\* The frame that is written next: the loop's, or that of the write that has the mutex.
NextOf(w) == [of |-> w, part |-> Channel!FramesOf(w) - op[w].left + 1, whole |-> TRUE]

InWriting == (IF loop = "write" THEN {current} ELSE {})
             \cup {NextOf(w) : w \in {v \in Writes : writer[v] = "sending"}}

InQueue == UNION {{queue[p][i] : i \in DOMAIN queue[p]} : p \in Levels}

Unwritten == InWriting \cup InQueue

QueueOrdered ==
    /\ \A p \in Levels : \A i, j \in DOMAIN queue[p] : i < j => Precedes(queue[p][i], queue[p][j])
    /\ \A f \in InWriting, g \in InQueue : Alike(f.of, g.of) => Precedes(f, g)

WireOrdered ==
    /\ \A i, j \in DOMAIN wire : i < j /\ Alike(wire[i].of, wire[j].of) => Precedes(wire[i], wire[j])
    /\ \A i \in DOMAIN wire, g \in Unwritten : Alike(wire[i].of, g.of) => Precedes(wire[i], g)

Coming == {wire[i] : i \in DOMAIN wire} \cup Unwritten

ComingFits ==
    \A f \in Coming : f \in FrameSet /\ HasEntered(f.of) /\ f.part \in 1..Channel!FramesOf(f.of)

ReaderFits ==
    /\ \A d \in DOMAIN delivered : HasEntered(delivered[d])
    /\ \A d, e \in DOMAIN delivered :
          d < e /\ Alike(delivered[d], delivered[e]) => Earlier(delivered[d], delivered[e])
    /\ \A d \in DOMAIN delivered, f \in Coming :
          Alike(delivered[d], f.of) => Earlier(delivered[d], f.of)
    /\ \A w \in DOMAIN parts : w \in Writes /\ HasEntered(w) /\ parts[w] \subseteq 1..Channel!FramesOf(w)
    /\ \A f \in Coming : f.of \in DOMAIN parts => \A k \in parts[f.of] : k < f.part

TornFits ==
    binding # "quic" => \A j \in DOMAIN wire :
        ~wire[j].whole => j = Len(wire) /\ binding = "tcp" /\ loop = "ended"

ChannelInv ==
    /\ ChannelTypes /\ BindingFits /\ EntriesFit /\ QueueFits /\ LoopFits
    /\ QueueOrdered /\ WireOrdered /\ ComingFits /\ ReaderFits /\ TornFits

(***************************************************************************)
(* What is on its way, when it stays, grows, moves to the wire and is read.*)
(***************************************************************************)
\* The line of frames does not change but by what leaves it.
LEMMA LineKeeps ==
    ASSUME ChannelInv, Unwritten' \subseteq Unwritten,
           UNCHANGED <<binding, entered, wire, delivered, parts>>
    PROVE  WireOrdered' /\ ComingFits' /\ ReaderFits'
  <1> USE DEF ChannelInv
  <1>1. Coming' \subseteq Coming
        BY DEF Coming
  <1>2. \A v, w : /\ (Alike(v, w))' <=> Alike(v, w)
                  /\ (Earlier(v, w))' <=> Earlier(v, w)
                  /\ (HasEntered(w))' <=> HasEntered(w)
        BY DEF Alike, Earlier, HasEntered
  <1>3. \A f, g : (Precedes(f, g))' <=> Precedes(f, g)
        BY <1>2 DEF Precedes
  <1>4. WireOrdered'
        BY <1>2, <1>3 DEF WireOrdered
  <1>5. ComingFits'
        BY <1>1, <1>2 DEF ComingFits, Channel!FramesOf
  <1>6. ReaderFits'
    <2>1. \A d \in DOMAIN delivered', f \in Coming' :
             (Alike(delivered[d], f.of))' => (Earlier(delivered[d], f.of))'
          BY <1>1, <1>2 DEF ReaderFits
    <2>2. \A f \in Coming' : f.of \in DOMAIN parts' => \A k \in parts'[f.of] : k < f.part
          BY <1>1 DEF ReaderFits
    <2> QED BY <1>2, <2>1, <2>2 DEF ReaderFits, Channel!FramesOf
  <1> QED BY <1>4, <1>5, <1>6

\* A write that takes its place comes after all that is on its way.
LEMMA LineGrows ==
    ASSUME ChannelInv, NEW w \in Writes, ~HasEntered(w), entered' = Append(entered, w),
           UNCHANGED <<binding, wire, delivered, parts>>,
           \A g \in Unwritten' : \/ g \in Unwritten
                                 \/ g \in FrameSet /\ g.of = w /\ g.part \in 1..Channel!FramesOf(w)
    PROVE  /\ WireOrdered' /\ ComingFits' /\ ReaderFits'
           /\ \A v, u : Earlier(v, u) => (Earlier(v, u))'
           /\ \A v : HasEntered(v) => (Earlier(v, w))' /\ (HasEntered(v))'
           /\ \A v : (HasEntered(v))' => HasEntered(v) \/ v = w
           /\ (HasEntered(w))'
           /\ (\A i, j \in DOMAIN entered : entered[i] = entered[j] => i = j)'
  <1> USE DEF ChannelInv
  <1>1. /\ DOMAIN entered = 1 .. Len(entered) /\ Len(entered) \in Nat
        /\ DOMAIN entered' = 1 .. Len(entered) + 1
        /\ \A i \in 1 .. Len(entered) : entered'[i] = entered[i]
        /\ entered'[Len(entered) + 1] = w
        BY DEF ChannelTypes
  <1>2. \A v, u : Earlier(v, u) => (Earlier(v, u))'
        BY <1>1 DEF Earlier
  <1>3. \A v : HasEntered(v) => (Earlier(v, w))' /\ (HasEntered(v))'
    <2>1. ASSUME NEW v, NEW i \in 1 .. Len(entered), entered[i] = v
          PROVE  i < Len(entered) + 1 /\ entered'[i] = v /\ i \in DOMAIN entered'
          BY <1>1, <2>1
    <2>2. Len(entered) + 1 \in DOMAIN entered'
          BY <1>1
    <2> QED BY <1>1, <2>1, <2>2 DEF HasEntered, Earlier
  <1>4. (HasEntered(w))' /\ \A v : (HasEntered(v))' => HasEntered(v) \/ v = w
        BY <1>1 DEF HasEntered
  <1>5. \A i \in 1 .. Len(entered) : entered[i] # w
        BY <1>1 DEF HasEntered
  <1>6. (\A i, j \in DOMAIN entered : entered[i] = entered[j] => i = j)'
    <2>1. ASSUME NEW i \in 1 .. Len(entered) + 1, NEW j \in 1 .. Len(entered) + 1,
                 entered'[i] = entered'[j]
          PROVE  i = j
      <3>1. CASE i \in 1 .. Len(entered) /\ j \in 1 .. Len(entered)
            BY <1>1, <2>1, <3>1 DEF EntriesFit
      <3>2. CASE i = Len(entered) + 1 \/ j = Len(entered) + 1
            BY <1>1, <1>5, <2>1, <3>2
      <3> QED BY <1>1, <3>1, <3>2
    <2> QED BY <1>1, <2>1
  <1>7. \A v, u : (Alike(v, u))' <=> Alike(v, u)
        BY DEF Alike
  <1>8. \A f, g : Precedes(f, g) => (Precedes(f, g))'
        BY <1>2 DEF Precedes
  <1>9. \A i \in DOMAIN wire : HasEntered(wire[i].of)
        BY DEF ComingFits, Coming
  <1>10. WireOrdered'
    <2>1. ASSUME NEW i \in DOMAIN wire, NEW g \in Unwritten', Alike(wire[i].of, g.of)
          PROVE  (Precedes(wire[i], g))'
      <3>1. CASE g \in Unwritten
            BY <1>8, <2>1, <3>1 DEF WireOrdered
      <3>2. CASE g.of = w
            BY <1>3, <1>9, <3>2 DEF Precedes
      <3> QED BY <3>1, <3>2
    <2> QED BY <1>7, <1>8, <2>1 DEF WireOrdered
  <1>11. \A g \in Coming' :
            \/ g \in Coming
            \/ g \in FrameSet /\ g.of = w /\ g.part \in 1..Channel!FramesOf(w)
         BY DEF Coming
  <1>12. ComingFits'
         BY <1>3, <1>4, <1>11 DEF ComingFits, Channel!FramesOf
  <1>13. ReaderFits'
    <2>1. ASSUME NEW d \in DOMAIN delivered, NEW f \in Coming', Alike(delivered[d], f.of)
          PROVE  (Earlier(delivered[d], f.of))'
          BY <1>2, <1>3, <1>11, <2>1 DEF ReaderFits
    <2>2. ASSUME NEW f \in Coming', f.of \in DOMAIN parts, NEW k \in parts[f.of]
          PROVE  k < f.part
          BY <1>11, <2>2 DEF ReaderFits
    <2>3. \A d \in DOMAIN delivered : (HasEntered(delivered[d]))'
          BY <1>3 DEF ReaderFits
    <2>4. \A d, e \in DOMAIN delivered :
             d < e /\ Alike(delivered[d], delivered[e]) => (Earlier(delivered[d], delivered[e]))'
          BY <1>2 DEF ReaderFits
    <2>5. \A u \in DOMAIN parts : /\ u \in Writes /\ (HasEntered(u))'
                                  /\ parts[u] \subseteq 1 .. (Channel!FramesOf(u))'
          BY <1>3 DEF ReaderFits, Channel!FramesOf
    <2> QED BY <1>7, <2>1, <2>2, <2>3, <2>4, <2>5 DEF ReaderFits
  <1> QED BY <1>2, <1>3, <1>4, <1>6, <1>10, <1>12, <1>13

\* A frame that is put on the wire was the next one; what is written after it of the same
\* message has a greater part.
LEMMA LinePuts ==
    ASSUME ChannelInv, NEW g \in InWriting, NEW f \in FrameSet,
           f.of = g.of, f.part = g.part, wire' = Append(wire, f),
           UNCHANGED <<binding, entered, delivered, parts>>,
           \A h \in Unwritten' : Alike(g.of, h.of) => Precedes(g, h),
           \A h \in Unwritten' :
              \/ h \in Unwritten
              \/ /\ h \in FrameSet /\ h.of = g.of /\ h.part > g.part
                 /\ h.part \in 1..Channel!FramesOf(h.of)
    PROVE  WireOrdered' /\ ComingFits' /\ ReaderFits'
  <1> USE DEF ChannelInv
  <1>1. /\ DOMAIN wire = 1 .. Len(wire) /\ Len(wire) \in Nat
        /\ DOMAIN wire' = 1 .. Len(wire) + 1
        /\ \A i \in 1 .. Len(wire) : wire'[i] = wire[i]
        /\ wire'[Len(wire) + 1] = f
        BY DEF ChannelTypes
  <1>2. \A v, w : /\ (Alike(v, w))' <=> Alike(v, w)
                  /\ (Earlier(v, w))' <=> Earlier(v, w)
                  /\ (HasEntered(w))' <=> HasEntered(w)
        BY DEF Alike, Earlier, HasEntered
  <1>3. \A h, k : (Precedes(h, k))' <=> Precedes(h, k)
        BY <1>2 DEF Precedes
  <1>4. g \in Unwritten /\ g \in Coming
        BY DEF Unwritten, Coming
  <1>5. \A h : /\ Precedes(f, h) <=> Precedes(g, h)
               /\ Precedes(h, f) <=> Precedes(h, g)
               /\ Alike(f.of, h.of) <=> Alike(g.of, h.of)
               /\ Alike(h.of, f.of) <=> Alike(h.of, g.of)
        BY DEF Precedes, Alike
  <1>6. g \in FrameSet /\ HasEntered(g.of) /\ g.part \in 1..Channel!FramesOf(g.of)
        BY <1>4 DEF ComingFits
  <1>7. WireOrdered'
    <2>1. ASSUME NEW i \in 1 .. Len(wire) + 1, NEW j \in 1 .. Len(wire) + 1, i < j,
                 Alike(wire'[i].of, wire'[j].of)
          PROVE  Precedes(wire'[i], wire'[j])
      <3>1. i \in 1 .. Len(wire)
            BY <1>1, <2>1
      <3>2. CASE j \in 1 .. Len(wire)
            BY <1>1, <2>1, <3>1, <3>2 DEF WireOrdered
      <3>3. CASE j = Len(wire) + 1
        <4>1. Alike(wire[i].of, g.of) => Precedes(wire[i], g)
              BY <1>1, <1>4, <3>1 DEF WireOrdered
        <4> QED BY <1>1, <1>5, <2>1, <3>1, <3>3, <4>1
      <3> QED BY <2>1, <3>2, <3>3
    <2>2. ASSUME NEW i \in 1 .. Len(wire) + 1, NEW h \in Unwritten', Alike(wire'[i].of, h.of)
          PROVE  Precedes(wire'[i], h)
      <3>1. CASE i = Len(wire) + 1
            BY <1>1, <1>5, <2>2, <3>1
      <3>2. CASE i \in 1 .. Len(wire) /\ h \in Unwritten
            BY <1>1, <2>2, <3>2 DEF WireOrdered
      <3>3. CASE i \in 1 .. Len(wire) /\ h.of = g.of /\ h.part > g.part /\ h \in FrameSet
        <4>1. Precedes(wire[i], g)
              BY <1>1, <1>4, <2>2, <3>3 DEF WireOrdered
        <4>2. wire[i] \in FrameSet
              BY <1>1, <3>3 DEF ChannelTypes
        <4>3. wire[i].part \in Nat /\ g.part \in Nat /\ h.part \in Nat
              BY <1>6, <3>3, <4>2 DEF FrameSet
        <4>4. wire'[i] = wire[i]
              BY <1>1, <3>3
        <4> QED BY <3>3, <4>1, <4>3, <4>4 DEF Precedes
      <3> QED BY <2>2, <3>1, <3>2, <3>3
    <2> QED BY <1>1, <1>2, <1>3, <2>1, <2>2 DEF WireOrdered
  <1>8. \A h \in Coming' :
           \/ h \in Coming
           \/ h = f
           \/ /\ h \in FrameSet /\ h.of = g.of /\ h.part > g.part
              /\ h.part \in 1..Channel!FramesOf(h.of)
        BY <1>1 DEF Coming
  <1>9. ComingFits'
        BY <1>2, <1>6, <1>8 DEF ComingFits, Channel!FramesOf
  <1>10. ReaderFits'
    <2>1. ASSUME NEW d \in DOMAIN delivered, NEW h \in Coming', Alike(delivered[d], h.of)
          PROVE  Earlier(delivered[d], h.of)
          BY <1>4, <1>8, <2>1 DEF ReaderFits
    <2>2. ASSUME NEW h \in Coming', h.of \in DOMAIN parts, NEW k \in parts[h.of]
          PROVE  k < h.part
      <3>1. h.of = g.of => k < g.part
            BY <1>4, <2>2 DEF ReaderFits
      <3>2. k \in Nat /\ g.part \in Nat /\ h.part \in Nat
        <4>1. k \in 1..Channel!FramesOf(h.of)
              BY <2>2 DEF ReaderFits
        <4>2. h \in FrameSet
              BY <1>8 DEF ComingFits
        <4> QED BY <1>6, <4>1, <4>2 DEF FrameSet
      <3> QED BY <1>8, <2>2, <3>1, <3>2 DEF ReaderFits
    <2> QED BY <1>2, <2>1, <2>2 DEF ReaderFits, Channel!FramesOf
  <1> QED BY <1>7, <1>9, <1>10

\* A frame that is read is the first of those to come, and what it completes or is kept
\* with fits: the reader has a whole message only with its last frame.
LEMMA LineReads ==
    ASSUME ChannelInv, ChannelAssumption, Channel!ReadFrame
    PROVE  /\ WireOrdered' /\ ComingFits' /\ ReaderFits' /\ TornFits'
           /\ wire' \in Seq(FrameSet) /\ delivered' \in Seq(Writes)
  <1> USE DEF ChannelInv
  <1> DEFINE f == Head(wire)
             w == f.of
             F == Channel!FramesOf(w)
  <1>1. /\ wire # <<>> /\ wire' = Tail(wire)
        /\ UNCHANGED <<binding, writer, op, entered, queue, loop, current>>
        BY DEF Channel!ReadFrame, Channel!senderVars, Channel!tcpVars
  <1>2. /\ DOMAIN wire = 1 .. Len(wire) /\ Len(wire) \in Nat /\ Len(wire) > 0
        /\ DOMAIN wire' = 1 .. Len(wire) - 1
        /\ \A i \in 1 .. Len(wire) - 1 : wire'[i] = wire[i + 1]
        /\ f = wire[1] /\ 1 \in DOMAIN wire
        /\ wire' \in Seq(FrameSet)
        /\ Len(wire') = Len(wire) - 1
        BY <1>1 DEF ChannelTypes
  <1>3. f \in Coming
        BY <1>2 DEF Coming
  <1>4. f \in FrameSet /\ w \in Writes /\ HasEntered(w) /\ f.part \in 1..F /\ F \in Nat
    <2>1. f \in FrameSet /\ HasEntered(w) /\ f.part \in 1..F
          BY <1>3 DEF ComingFits
    <2>2. w \in Writes
          BY <2>1 DEF FrameSet
    <2>3. F \in Nat
          BY <2>2, ChannelAssumption DEF Channel!FramesOf, ChannelAssumption
    <2> QED BY <2>1, <2>2, <2>3
  <1>5. Unwritten' = Unwritten
        BY <1>1 DEF Unwritten, InWriting, InQueue, NextOf, Channel!FramesOf
  <1>6. \A i \in DOMAIN wire' : i + 1 \in DOMAIN wire /\ i + 1 > 1 /\ wire'[i] = wire[i + 1]
        BY <1>2
  <1>7. Coming' \subseteq Coming
    <2>1. \A h \in Coming' : h \in Unwritten \/ \E i \in DOMAIN wire' : h = wire'[i]
          BY <1>5 DEF Coming
    <2> QED BY <1>6, <2>1 DEF Coming
  <1>8. \A v, u : /\ (Alike(v, u))' <=> Alike(v, u)
                  /\ (Earlier(v, u))' <=> Earlier(v, u)
                  /\ (HasEntered(u))' <=> HasEntered(u)
        BY <1>1 DEF Alike, Earlier, HasEntered
  <1>9. \A h, k : (Precedes(h, k))' <=> Precedes(h, k)
        BY <1>8 DEF Precedes
  <1>10. \A h \in Coming' : Alike(w, h.of) => Precedes(f, h)
    <2>1. ASSUME NEW h \in Coming', Alike(w, h.of)
          PROVE  Precedes(f, h)
      <3>1. CASE h \in Unwritten
            BY <1>2, <2>1, <3>1 DEF WireOrdered
      <3>2. CASE \E i \in DOMAIN wire' : h = wire'[i]
        <4>1. PICK i \in DOMAIN wire' : h = wire'[i]
              BY <3>2
        <4>2. i + 1 \in DOMAIN wire /\ 1 < i + 1 /\ h = wire[i + 1]
              BY <1>6, <4>1
        <4>3. Alike(wire[1].of, wire[i + 1].of)
              BY <1>2, <2>1, <4>2
        <4> QED BY <1>2, <4>2, <4>3 DEF WireOrdered
      <3> QED BY <1>5, <2>1, <3>1, <3>2 DEF Coming
    <2> QED BY <2>1
  <1>11. WireOrdered'
    <2>1. ASSUME NEW i \in DOMAIN wire', NEW j \in DOMAIN wire', i < j,
                 Alike(wire'[i].of, wire'[j].of)
          PROVE  Precedes(wire'[i], wire'[j])
      <3>1. i + 1 < j + 1
            BY <1>2, <2>1
      <3> QED BY <1>6, <2>1, <3>1 DEF WireOrdered
    <2>2. ASSUME NEW i \in DOMAIN wire', NEW h \in Unwritten, Alike(wire'[i].of, h.of)
          PROVE  Precedes(wire'[i], h)
          BY <1>6, <2>2 DEF WireOrdered
    <2> QED BY <1>5, <1>8, <1>9, <2>1, <2>2 DEF WireOrdered
  <1>12. ComingFits'
         BY <1>1, <1>7, <1>8 DEF ComingFits, Channel!FramesOf
  <1>13. TornFits'
    <2>1. ASSUME NEW j \in DOMAIN wire', ~wire'[j].whole, binding # "quic"
          PROVE  j = Len(wire') /\ binding = "tcp" /\ loop = "ended"
      <3>1. j + 1 = Len(wire) /\ binding = "tcp" /\ loop = "ended"
            BY <1>6, <2>1 DEF TornFits
      <3> QED BY <1>2, <3>1
    <2> QED BY <1>1, <2>1 DEF TornFits
  <1>14. PICK gone : /\ gone \in (IF F = 1 THEN {{}} ELSE SUBSET DOMAIN parts)
                    /\ Channel!Reassemble(f, gone)
         BY DEF Channel!ReadFrame
  <1> DEFINE kept == Channel!Kept(gone)
             got == (IF w \in DOMAIN kept THEN kept[w] ELSE {}) \cup {f.part}
  <1>15. \A u \in DOMAIN kept : u \in DOMAIN parts /\ kept[u] = parts[u]
         BY DEF Channel!Kept
  <1>16. w \in DOMAIN parts => \A k \in parts[w] : k < f.part
         BY <1>3 DEF ReaderFits
  <1>17. \/ delivered' = Append(delivered, w) /\ parts' = parts /\ F = 1
         \/ parts' = kept /\ delivered' = delivered
         \/ /\ Channel!Complete(w, got)
            /\ delivered' = Append(delivered, w)
            /\ parts' = [x \in DOMAIN kept \ {w} |-> kept[x]]
         \/ /\ parts' = [x \in DOMAIN kept \cup {w} |-> IF x = w THEN got ELSE kept[x]]
            /\ delivered' = delivered
    <2> HIDE DEF f
    <2> QED BY <1>14 DEF Channel!Reassemble
  <1>18. \A u \in DOMAIN parts' :
            \/ u \in DOMAIN parts /\ parts'[u] = parts[u]
            \/ u = w /\ \A k \in parts'[u] : k = f.part \/ (w \in DOMAIN parts /\ k \in parts[w])
    <2>1. \A k \in got : k = f.part \/ (w \in DOMAIN parts /\ k \in parts[w])
          BY <1>15
    <2> HIDE DEF kept, got, f
    <2> QED BY <1>15, <1>17, <2>1
  <1>19. delivered' = delivered \/ (delivered' = Append(delivered, w) /\ f.part = F)
    <2>1. F = 1 => f.part = F
          BY <1>4
    <2>2. ASSUME Channel!Complete(w, got)
          PROVE  f.part = F
      <3>1. got = 1..F
            BY <2>2 DEF Channel!Complete
      <3>2. F \in got
            BY <1>4, <3>1
      <3>3. F = f.part \/ (w \in DOMAIN parts /\ F \in parts[w])
            BY <1>15, <3>2
      <3> HIDE DEF f, F
      <3> QED BY <1>4, <1>16, <3>3
    <2> HIDE DEF kept, got, f, F
    <2> QED BY <1>17, <2>1, <2>2
  <1>20. \A h \in Coming' : h.of \in DOMAIN parts' => \A k \in parts'[h.of] : k < h.part
    <2>1. ASSUME NEW h \in Coming', h.of \in DOMAIN parts', NEW k \in parts'[h.of]
          PROVE  k < h.part
      <3>1. CASE h.of \in DOMAIN parts /\ parts'[h.of] = parts[h.of]
            BY <1>7, <2>1, <3>1 DEF ReaderFits
      <3>2. CASE h.of = w /\ w \in DOMAIN parts /\ k \in parts[w]
            BY <1>7, <2>1, <3>2 DEF ReaderFits
      <3>3. CASE h.of = w /\ k = f.part
        <4>1. Precedes(f, h)
              BY <1>10, <2>1, <3>3 DEF Alike
        <4>2. ~Earlier(w, w)
              BY DEF Earlier, EntriesFit, ChannelTypes
        <4> QED BY <3>3, <4>1, <4>2 DEF Precedes
      <3> QED BY <1>18, <2>1, <3>1, <3>2, <3>3
    <2> QED BY <2>1
  <1>21. \A u \in DOMAIN parts' : u \in Writes /\ HasEntered(u) /\ parts'[u] \subseteq 1..Channel!FramesOf(u)
    <2>1. \A u \in DOMAIN parts : u \in Writes /\ HasEntered(u) /\ parts[u] \subseteq 1..Channel!FramesOf(u)
          BY DEF ReaderFits
    <2> HIDE DEF f
    <2> QED BY <1>4, <1>18, <2>1
  <1>22. \A u, v \in Writes : Alike(u, v) => Alike(v, u)
         BY DEF Alike
  <1>23. \A d \in DOMAIN delivered : Alike(delivered[d], w) => Earlier(delivered[d], w)
         BY <1>3 DEF ReaderFits
  <1>24. f.part = F => \A h \in Coming' : Alike(w, h.of) => Earlier(w, h.of)
    <2>1. ASSUME f.part = F, NEW h \in Coming', Alike(w, h.of)
          PROVE  Earlier(w, h.of)
      <3>1. Precedes(f, h)
            BY <1>10, <2>1
      <3>2. h.of = w => h.part \in 1..F
            BY <1>7 DEF ComingFits
      <3> HIDE DEF F
      <3> QED BY <1>4, <2>1, <3>1, <3>2 DEF Precedes
    <2> QED BY <2>1
  <1>25. /\ delivered' \in Seq(Writes)
         /\ \A d \in DOMAIN delivered' : \/ d \in DOMAIN delivered /\ delivered'[d] = delivered[d]
                                        \/ /\ delivered'[d] = w /\ f.part = F
                                           /\ \A e \in DOMAIN delivered' : e < d => e \in DOMAIN delivered
                                           /\ d \notin DOMAIN delivered
    <2>1. CASE delivered' = delivered
          BY <2>1 DEF ChannelTypes
    <2>2. CASE delivered' = Append(delivered, w) /\ f.part = F
      <3>1. delivered \in Seq(Writes)
            BY DEF ChannelTypes
      <3> HIDE DEF f, F
      <3>2. /\ DOMAIN delivered = 1 .. Len(delivered) /\ Len(delivered) \in Nat
            /\ DOMAIN delivered' = 1 .. Len(delivered) + 1
            /\ \A i \in 1 .. Len(delivered) : delivered'[i] = delivered[i]
            /\ delivered'[Len(delivered) + 1] = w
            BY <1>4, <2>2, <3>1
      <3>3. delivered' \in Seq(Writes)
            BY <1>4, <2>2, <3>1
      <3> QED BY <2>2, <3>2, <3>3
    <2> QED BY <1>19, <2>1, <2>2
  <1>26. \A d \in DOMAIN delivered' : HasEntered(delivered'[d])
         BY <1>4, <1>25 DEF ReaderFits
  <1>27. \A d, e \in DOMAIN delivered' :
            d < e /\ Alike(delivered'[d], delivered'[e]) => Earlier(delivered'[d], delivered'[e])
    <2>1. ASSUME NEW d \in DOMAIN delivered', NEW e \in DOMAIN delivered', d < e,
                 Alike(delivered'[d], delivered'[e])
          PROVE  Earlier(delivered'[d], delivered'[e])
      <3>1. d \in Nat /\ e \in Nat
            BY <1>25
      <3>2. d \in DOMAIN delivered /\ delivered'[d] = delivered[d]
        <4> HIDE DEF f, F
        <4>1. CASE e \in DOMAIN delivered
          <5>1. delivered \in Seq(Writes)
                BY DEF ChannelTypes
          <5>2. d \in DOMAIN delivered
                BY <1>25, <2>1, <4>1, <5>1
          <5> QED BY <1>25, <5>2
        <4>2. CASE e \notin DOMAIN delivered
              BY <1>25, <2>1, <4>2
        <4> QED BY <4>1, <4>2
      <3>3. CASE e \in DOMAIN delivered /\ delivered'[e] = delivered[e]
            BY <2>1, <3>2, <3>3 DEF ReaderFits
      <3>4. CASE delivered'[e] = w
            BY <1>23, <2>1, <3>2, <3>4
      <3> QED BY <1>25, <3>3, <3>4
    <2> QED BY <2>1
  <1>28. \A d \in DOMAIN delivered', h \in Coming' :
            Alike(delivered'[d], h.of) => Earlier(delivered'[d], h.of)
    <2>1. ASSUME NEW d \in DOMAIN delivered', NEW h \in Coming', Alike(delivered'[d], h.of)
          PROVE  Earlier(delivered'[d], h.of)
      <3>1. CASE d \in DOMAIN delivered /\ delivered'[d] = delivered[d]
            BY <1>7, <2>1, <3>1 DEF ReaderFits
      <3>2. CASE delivered'[d] = w /\ f.part = F
            BY <1>24, <2>1, <3>2
      <3> QED BY <1>25, <3>1, <3>2
    <2> QED BY <2>1
  <1>29. ReaderFits'
    <2>1. \A u : (Channel!FramesOf(u))' = Channel!FramesOf(u)
          BY <1>1 DEF Channel!FramesOf
    <2> QED BY <1>8, <1>20, <1>21, <1>26, <1>27, <1>28, <2>1 DEF ReaderFits
  <1> QED BY <1>2, <1>11, <1>12, <1>13, <1>25, <1>29

\* A step that changes neither the writes nor the queue.
LEMMA WritesKept ==
    ASSUME ChannelInv,
           UNCHANGED <<binding, writer, op, entered, queue, ready, loop, current, mutex, channel>>
    PROVE  /\ BindingFits' /\ EntriesFit' /\ QueueFits' /\ LoopFits' /\ QueueOrdered'
           /\ Unwritten' = Unwritten
           /\ wire' \in Seq(FrameSet) /\ delivered' \in Seq(Writes) => ChannelTypes'
  <1> USE DEF ChannelInv
  <1>1. \A w : /\ (Channel!FramesOf(w))' = Channel!FramesOf(w)
               /\ (HasEntered(w))' <=> HasEntered(w)
               /\ (InHandOf(w))' <=> InHandOf(w)
               /\ (Rest(w))' = Rest(w)
               /\ (NextOf(w))' = NextOf(w)
        BY DEF Channel!FramesOf, HasEntered, InHandOf, Busy, Rest, NextOf
  <1>2. \A v, w : /\ (Alike(v, w))' <=> Alike(v, w)
                  /\ (Earlier(v, w))' <=> Earlier(v, w)
        BY DEF Alike, Earlier
  <1>3. Unwritten' = Unwritten /\ InWriting' = InWriting /\ InQueue' = InQueue
        BY <1>1 DEF Unwritten, InWriting, InQueue
  <1>4. BindingFits'
        BY DEF BindingFits
  <1>5. EntriesFit'
        BY <1>1 DEF EntriesFit
  <1>6. QueueFits'
        BY <1>1 DEF QueueFits, Busy
  <1>7. LoopFits'
        BY DEF LoopFits
  <1>8. QueueOrdered'
        BY <1>2, <1>3 DEF QueueOrdered, Precedes, Alike, Earlier
  <1>9. wire' \in Seq(FrameSet) /\ delivered' \in Seq(Writes) => ChannelTypes'
        BY DEF ChannelTypes, Busy
  <1> QED BY <1>3, <1>4, <1>5, <1>6, <1>7, <1>8, <1>9

\* The steps of the reader, and those that change the connection only.
LEMMA ReaderSteps ==
    ASSUME ChannelInv, ChannelAssumption
    PROVE  /\ Channel!ReadFrame => ChannelInv'
           /\ Channel!ReadFails => ChannelInv'
           /\ \A w \in Writes : Channel!ContextEnds(w) \/ Channel!CancelStream(w) => ChannelInv'
  <1> USE DEF Channel!senderVars, Channel!tcpVars, Channel!wireVars, Channel!readerVars
  <1>1. ASSUME Channel!ReadFrame
        PROVE  ChannelInv'
    <2>1. UNCHANGED <<binding, writer, op, entered, queue, ready, loop, current, mutex, channel>>
          BY <1>1 DEF Channel!ReadFrame
    <2> QED BY <1>1, <2>1, LineReads, WritesKept DEF ChannelInv
  <1>2. ASSUME UNCHANGED <<binding, writer, op, entered, queue, ready, loop, current, mutex, channel,
                           wire, delivered, parts>>
        PROVE  ChannelInv'
    <2>1. wire' \in Seq(FrameSet) /\ delivered' \in Seq(Writes)
          BY <1>2 DEF ChannelInv, ChannelTypes
    <2>2. TornFits'
          BY <1>2 DEF ChannelInv, TornFits
    <2> QED BY <1>2, <2>1, <2>2, LineKeeps, WritesKept DEF ChannelInv
  <1>3. Channel!ReadFails => ChannelInv'
        BY <1>2 DEF Channel!ReadFails
  <1>4. ASSUME NEW w \in Writes, Channel!ContextEnds(w) \/ Channel!CancelStream(w)
        PROVE  ChannelInv'
        BY <1>2, <1>4 DEF Channel!ContextEnds, Channel!CancelStream
  <1> QED BY <1>1, <1>3, <1>4

\* What depends on the binding and the places only.
LEMMA PlacesKept ==
    ASSUME UNCHANGED <<binding, entered>>
    PROVE  /\ \A w : /\ (Channel!FramesOf(w))' = Channel!FramesOf(w)
                     /\ (HasEntered(w))' <=> HasEntered(w)
           /\ \A v, w : /\ (Alike(v, w))' <=> Alike(v, w)
                        /\ (Earlier(v, w))' <=> Earlier(v, w)
           /\ \A f, g : (Precedes(f, g))' <=> Precedes(f, g)
  BY DEF Channel!FramesOf, HasEntered, Alike, Earlier, Precedes

\* The queue stays, and no frame becomes the next one.
LEMMA QueueUnmoved ==
    ASSUME ChannelInv, UNCHANGED <<binding, entered, queue>>, InWriting' \subseteq InWriting
    PROVE  QueueOrdered' /\ Unwritten' \subseteq Unwritten
  <1>1. InQueue' = InQueue
        BY DEF InQueue
  <1>2. QueueOrdered'
        BY <1>1, PlacesKept DEF ChannelInv, QueueOrdered
  <1> QED BY <1>1, <1>2 DEF Unwritten

\* The frames a write that goes on sending has.
LEMMA WritingStays ==
    ASSUME ChannelInv, UNCHANGED binding, loop' = "write" => loop = "write" /\ current' = current,
           \A w \in Writes : writer'[w] = "sending" => writer[w] = "sending" /\ op'[w].left = op[w].left
    PROVE  InWriting' \subseteq InWriting
  <1>1. \A w \in Writes : writer'[w] = "sending" => (NextOf(w))' = NextOf(w)
        BY DEF NextOf, Channel!FramesOf
  <1> QED BY <1>1 DEF InWriting

\* A write that starts, and one that is told how it ended.
LEMMA CallerSteps ==
    ASSUME ChannelInv, ChannelAssumption, NEW w \in Writes, Channel!StartWrite(w) \/ Channel!Return(w)
    PROVE  ChannelInv'
  <1> USE DEF ChannelInv, Channel!senderVars, Channel!tcpVars, Channel!wireVars, Channel!readerVars
  <1>1. /\ UNCHANGED <<binding, op, entered, queue, ready, loop, current, mutex, channel,
                       wire, delivered, parts>>
        /\ writer' = [writer EXCEPT ![w] = writer'[w]]
        /\ \/ writer[w] = "idle" /\ writer'[w] = "failed"
           \/ writer[w] = "idle" /\ writer'[w] = "prepared" /\ binding = "tcp"
           \/ writer[w] = "idle" /\ writer'[w] = "locking" /\ binding # "tcp"
           \/ writer[w] = "waiting" /\ writer'[w] \in {"sent", "failed"}
    <2>1. writer \in [Writes -> {"idle", "prepared", "waiting", "locking", "sending", "sent", "failed"}]
          BY DEF ChannelTypes
    <2> QED BY <2>1 DEF Channel!StartWrite, Channel!Return, Channel!Answer
  <1>2. /\ ChannelTypes'
        /\ \A v \in Writes : v # w => writer'[v] = writer[v]
    <2>1. /\ writer' \in [Writes -> {"idle", "prepared", "waiting", "locking", "sending", "sent", "failed"}]
          /\ \A v \in Writes : v # w => writer'[v] = writer[v]
      <3>1. writer \in [Writes -> {"idle", "prepared", "waiting", "locking", "sending", "sent", "failed"}]
            BY DEF ChannelTypes
      <3>2. writer'[w] \in {"idle", "prepared", "waiting", "locking", "sending", "sent", "failed"}
            BY <1>1
      <3> QED BY <1>1, <3>1, <3>2
    <2> QED BY <1>1, <2>1 DEF ChannelTypes, Busy
  <1>3. InWriting' \subseteq InWriting
        BY <1>1, <1>2, WritingStays
  <1>4. BindingFits'
        BY <1>1, <1>2 DEF BindingFits
  <1>5. EntriesFit'
        BY <1>1, <1>2, PlacesKept DEF EntriesFit
  <1>6. QueueFits'
    <2>1. \A v \in Writes : (InHandOf(v))' = InHandOf(v) /\ (Rest(v))' = Rest(v)
          BY <1>1 DEF InHandOf, Busy, Rest
    <2> QED BY <1>1, <1>2, <2>1, PlacesKept DEF QueueFits, Busy
  <1>7. LoopFits' /\ TornFits'
        BY <1>1 DEF LoopFits, TornFits
  <1> QED BY <1>1, <1>2, <1>3, <1>4, <1>5, <1>6, <1>7, QueueUnmoved, LineKeeps

\* The frames of a write at the end of its queue.
LEMMA QueuedFrames ==
    ASSUME ChannelInv, ChannelAssumption, NEW w \in Writes, queue' = Channel!Queued(queue, w)
    PROVE  /\ queue' \in [Levels -> Seq(FrameSet)]
           /\ \A p \in Levels : p # Priority[w] => queue'[p] = queue[p]
           /\ Len(queue[Priority[w]]) \in Nat
           /\ DOMAIN queue[Priority[w]] = 1 .. Len(queue[Priority[w]])
           /\ DOMAIN queue'[Priority[w]] = 1 .. Len(queue[Priority[w]]) + Channel!FramesOf(w)
           /\ \A i \in DOMAIN queue'[Priority[w]] :
                 IF i <= Len(queue[Priority[w]]) THEN queue'[Priority[w]][i] = queue[Priority[w]][i]
                 ELSE queue'[Priority[w]][i] = [of |-> w, part |-> i - Len(queue[Priority[w]]), whole |-> TRUE]
  <1> DEFINE P == Priority[w]
             F == Channel!FramesOf(w)
             fs == Channel!Frames(w)
             q == queue[P]
  <1>1. P \in Levels /\ F \in Nat /\ F > 0
        BY ChannelAssumption DEF ChannelAssumption, Levels, Channel!FramesOf
  <1>2. fs \in Seq(FrameSet) /\ Len(fs) = F /\ \A i \in 1..F : fs[i] = [of |-> w, part |-> i, whole |-> TRUE]
    <2>1. fs = [k \in 1..F |-> [of |-> w, part |-> k, whole |-> TRUE]]
          BY DEF Channel!Frames
    <2>2. \A k \in 1..F : [of |-> w, part |-> k, whole |-> TRUE] \in FrameSet
          BY <1>1 DEF FrameSet
    <2> HIDE DEF fs, F
    <2> QED BY <1>1, <2>1, <2>2
  <1>3. q \in Seq(FrameSet) /\ queue \in [Levels -> Seq(FrameSet)]
        BY <1>1 DEF ChannelInv, ChannelTypes
  <1>4. queue' = [queue EXCEPT ![P] = q \o fs]
        BY DEF Channel!Queued
  <1> HIDE DEF P, F, fs
  <1>5. /\ q \o fs \in Seq(FrameSet) /\ Len(q \o fs) = Len(q) + F /\ Len(q) \in Nat
        /\ \A i \in 1 .. Len(q) + F : (q \o fs)[i] = IF i <= Len(q) THEN q[i] ELSE fs[i - Len(q)]
    <2> HIDE DEF q
    <2>1. q \in Seq(FrameSet)
          BY <1>3
    <2>2. /\ q \o fs \in Seq(FrameSet)
          /\ Len(q \o fs) = Len(q) + Len(fs)
          /\ \A i \in 1 .. Len(q) + Len(fs) : (q \o fs)[i] = IF i <= Len(q) THEN q[i] ELSE fs[i - Len(q)]
      <3>1. fs \in Seq(FrameSet)
            BY <1>2
      <3> QED BY <2>1, <3>1, ConcatProperties
    <2>3. Len(q) \in Nat
          BY <2>1
    <2> QED BY <1>2, <2>2, <2>3
  <1>6. /\ queue'[P] = q \o fs
        /\ queue' \in [Levels -> Seq(FrameSet)]
        /\ \A p \in Levels : p # P => queue'[p] = queue[p]
        BY <1>1, <1>3, <1>4, <1>5
  <1> HIDE DEF q
  <1>7. DOMAIN queue'[P] = 1 .. Len(q) + F /\ DOMAIN q = 1 .. Len(q)
        BY <1>3, <1>5, <1>6
  <1>8. ASSUME NEW i \in DOMAIN queue'[P]
        PROVE  IF i <= Len(q) THEN queue'[P][i] = q[i]
               ELSE queue'[P][i] = [of |-> w, part |-> i - Len(q), whole |-> TRUE]
    <2>1. i \in 1 .. Len(q) + F
          BY <1>7
    <2>2. CASE i <= Len(q)
          BY <1>5, <1>6, <2>1, <2>2
    <2>3. CASE ~(i <= Len(q))
      <3>1. i - Len(q) \in 1..F
            BY <1>1, <1>5, <2>1, <2>3
      <3> QED BY <1>2, <1>5, <1>6, <2>1, <2>3, <3>1
    <2> QED BY <2>2, <2>3
  <1> QED BY <1>5, <1>6, <1>7, <1>8 DEF P, q, F

\* A write that queues its frames: they come after all there is, in their order.
LEMMA EnqueueStep ==
    ASSUME ChannelInv, ChannelAssumption, NEW w \in Writes, Channel!Enqueue(w)
    PROVE  ChannelInv'
  <1> USE DEF Channel!wireVars, Channel!readerVars
  <1> DEFINE P == Priority[w]
             F == Channel!FramesOf(w)
             n == Len(queue[P])
  <1>1. /\ UNCHANGED <<binding, op, loop, current, mutex, channel, wire, delivered, parts>>
        /\ writer[w] = "prepared" /\ writer' = [writer EXCEPT ![w] = "waiting"]
        /\ entered' = Append(entered, w) /\ ready' = 1
        /\ queue' = Channel!Queued(queue, w)
        BY DEF Channel!Enqueue, Channel!Notify
  <1>2. /\ queue' \in [Levels -> Seq(FrameSet)]
        /\ \A p \in Levels : p # P => queue'[p] = queue[p]
        /\ n \in Nat
        /\ DOMAIN queue[P] = 1 .. n
        /\ DOMAIN queue'[P] = 1 .. n + F
        /\ \A i \in DOMAIN queue'[P] :
              IF i <= n THEN queue'[P][i] = queue[P][i]
              ELSE queue'[P][i] = [of |-> w, part |-> i - n, whole |-> TRUE]
        BY <1>1, QueuedFrames
  <1>3. /\ P \in Levels /\ F \in Nat /\ F > 0 /\ binding = "tcp" /\ ~HasEntered(w) /\ op[w].left = F
        /\ \A v \in Writes : v # w => writer'[v] = writer[v]
        /\ writer'[w] = "waiting"
        BY <1>1, ChannelAssumption
        DEF ChannelAssumption, Levels, Channel!FramesOf, ChannelInv, BindingFits, EntriesFit, ChannelTypes
  <1>4. \A v : (Channel!FramesOf(v))' = Channel!FramesOf(v)
        BY <1>1 DEF Channel!FramesOf
  <1>5. \A p \in Levels : \A i \in DOMAIN queue'[p] :
           \/ i \in DOMAIN queue[p] /\ queue'[p][i] = queue[p][i]
           \/ /\ p = P /\ i \in n + 1 .. n + F
              /\ queue'[p][i] = [of |-> w, part |-> i - n, whole |-> TRUE]
    <2>1. ASSUME NEW i \in DOMAIN queue'[P]
          PROVE  \/ i \in DOMAIN queue[P] /\ queue'[P][i] = queue[P][i]
                 \/ /\ i \in n + 1 .. n + F
                    /\ queue'[P][i] = [of |-> w, part |-> i - n, whole |-> TRUE]
      <3> HIDE DEF P, n, F
      <3> QED BY <1>2, <1>3
    <2> QED BY <1>2, <2>1
  <1>6. InWriting' \subseteq InWriting
        BY <1>1, <1>3, WritingStays
  <1>7. \A g \in Unwritten' : \/ g \in Unwritten
                              \/ g \in FrameSet /\ g.of = w /\ g.part \in 1..F
    <2>1. ASSUME NEW g \in InQueue'
          PROVE  \/ g \in Unwritten
                 \/ g \in FrameSet /\ g.of = w /\ g.part \in 1..F
      <3>0. PICK p \in Levels : \E i \in DOMAIN queue'[p] : g = queue'[p][i]
            BY DEF InQueue
      <3>1. PICK i \in DOMAIN queue'[p] : g = queue'[p][i]
            BY <3>0
      <3>2. CASE i \in DOMAIN queue[p] /\ queue'[p][i] = queue[p][i]
            BY <3>1, <3>2 DEF Unwritten, InQueue
      <3>3. CASE p = P /\ i \in n + 1 .. n + F /\ queue'[p][i] = [of |-> w, part |-> i - n, whole |-> TRUE]
        <4> HIDE DEF n, F
        <4> QED BY <1>2, <1>3, <3>1, <3>3 DEF FrameSet
      <3> QED BY <1>5, <3>1, <3>2, <3>3
    <2> QED BY <1>6, <2>1 DEF Unwritten
  <1>8. /\ WireOrdered' /\ ComingFits' /\ ReaderFits'
        /\ \A v, u : Earlier(v, u) => (Earlier(v, u))'
        /\ \A v : HasEntered(v) => (Earlier(v, w))' /\ (HasEntered(v))'
        /\ \A v : (HasEntered(v))' => HasEntered(v) \/ v = w
        /\ (HasEntered(w))'
        /\ (\A i, j \in DOMAIN entered : entered[i] = entered[j] => i = j)'
        BY <1>1, <1>3, <1>7, LineGrows
  <1>9. ChannelTypes'
    <2>1. entered' \in Seq(Writes)
          BY <1>1 DEF ChannelInv, ChannelTypes
    <2>2. writer' \in [Writes -> {"idle", "prepared", "waiting", "locking", "sending", "sent", "failed"}]
          BY <1>1 DEF ChannelInv, ChannelTypes
    <2> QED BY <1>1, <1>2, <2>1, <2>2 DEF ChannelInv, ChannelTypes, Busy
  <1>10. BindingFits'
         BY <1>1, <1>3 DEF ChannelInv, BindingFits
  <1>11. EntriesFit'
    <2>1. \A v \in Writes : writer'[v] \in {"idle", "prepared", "locking"} =>
             ~(HasEntered(v))' /\ op'[v].left = (Channel!FramesOf(v))'
          BY <1>1, <1>3, <1>4, <1>8 DEF ChannelInv, EntriesFit
    <2>2. \A v \in Writes : writer'[v] \in {"waiting", "sending"} => (HasEntered(v))'
          BY <1>1, <1>3, <1>8 DEF ChannelInv, EntriesFit
    <2> QED BY <1>8, <2>1, <2>2 DEF EntriesFit
  <1>12. LoopFits' /\ TornFits'
         BY <1>1 DEF ChannelInv, LoopFits, TornFits
  <1>13. \A g \in InWriting \cup InQueue : g \in FrameSet /\ HasEntered(g.of)
         BY DEF ChannelInv, ComingFits, Coming, Unwritten
  <1>14. \A p \in Levels : \A i \in DOMAIN queue[p] : queue[p][i] \in InQueue
         BY DEF InQueue
  <1>15. QueueFits'
    <2>1. ASSUME NEW p \in Levels, NEW i \in DOMAIN queue'[p]
          PROVE  /\ Priority[queue'[p][i].of] = p
                 /\ queue'[p][i].whole
                 /\ queue'[p][i].part \in 1..Channel!FramesOf(queue'[p][i].of)
      <3>1. CASE i \in DOMAIN queue[p] /\ queue'[p][i] = queue[p][i]
            BY <3>1 DEF ChannelInv, QueueFits
      <3>2. CASE p = P /\ i \in n + 1 .. n + F /\ queue'[p][i] = [of |-> w, part |-> i - n, whole |-> TRUE]
        <4>1. i - n \in 1..F
          <5> HIDE DEF n, F
          <5> QED BY <1>2, <1>3, <3>2
        <4> QED BY <3>2, <4>1
      <3> QED BY <1>5, <3>1, <3>2
    <2>2. ASSUME Busy'
          PROVE  (HasEntered(current.of))' /\ current'.whole
                 /\ current'.part \in 1..Channel!FramesOf(current'.of)
          BY <1>1, <1>8, <2>2 DEF ChannelInv, QueueFits, Busy
    <2>3. \A v : (InHandOf(v))' = InHandOf(v)
          BY <1>1 DEF InHandOf, Busy
    <2>4. ASSUME NEW v \in Writes, v # w
          PROVE  (Rest(v))' = Rest(v)
      <3>1. CASE Priority[v] # P
            BY <1>2, <3>1, ChannelAssumption DEF Rest, ChannelAssumption, Levels
      <3>2. CASE Priority[v] = P
        <4>1. ASSUME NEW i \in DOMAIN queue'[P], queue'[P][i].of = v
              PROVE  i \in DOMAIN queue[P] /\ queue'[P][i] = queue[P][i]
          <5>1. \/ i \in DOMAIN queue[P] /\ queue'[P][i] = queue[P][i]
                \/ queue'[P][i] = [of |-> w, part |-> i - n, whole |-> TRUE]
                BY <1>3, <1>5
          <5> QED BY <2>4, <4>1, <5>1
        <4> HIDE DEF P, n, F
        <4>2. \A i \in DOMAIN queue[P] : i \in DOMAIN queue'[P] /\ queue'[P][i] = queue[P][i]
              BY <1>2, <1>3
        <4> QED BY <3>2, <4>1, <4>2 DEF Rest
      <3> QED BY <3>1, <3>2
    <2>5. (Rest(w))' = 1..F
      <3>1. \A i \in DOMAIN queue[P] : queue[P][i].of # w
            BY <1>3, <1>13, <1>14
      <3>2. \A i \in DOMAIN queue'[P] : queue'[P][i].of = w => queue'[P][i].part \in 1..F
        <4>1. ASSUME NEW i \in DOMAIN queue'[P], queue'[P][i].of = w
              PROVE  queue'[P][i].part \in 1..F
          <5>1. \/ i \in DOMAIN queue[P] /\ queue'[P][i] = queue[P][i]
                \/ i \in n + 1 .. n + F /\ queue'[P][i] = [of |-> w, part |-> i - n, whole |-> TRUE]
                BY <1>3, <1>5
          <5>2. i \in n + 1 .. n + F => i - n \in 1..F
            <6> HIDE DEF n, F
            <6> QED BY <1>2, <1>3
          <5>3. ~(i \in DOMAIN queue[P] /\ queue'[P][i] = queue[P][i])
                BY <3>1, <4>1
          <5> QED BY <5>1, <5>2, <5>3
        <4> QED BY <4>1
      <3>3. \A k \in 1..F : \E i \in DOMAIN queue'[P] : queue'[P][i].of = w /\ queue'[P][i].part = k
        <4> HIDE DEF P, n, F
        <4>1. ASSUME NEW k \in 1..F
              PROVE  \E i \in DOMAIN queue'[P] : queue'[P][i] = [of |-> w, part |-> k, whole |-> TRUE]
          <5>1. n + k \in DOMAIN queue'[P] /\ ~(n + k <= n) /\ n + k - n = k /\ n \in Nat /\ k \in Nat
                BY <1>2, <1>3
          <5>2. PICK i \in DOMAIN queue'[P] : ~(i <= n) /\ i - n = k
                BY <5>1
          <5>3. queue'[P][i] = [of |-> w, part |-> k, whole |-> TRUE]
                BY <1>2, <5>2
          <5> QED BY <5>2, <5>3
        <4>2. ASSUME NEW k \in 1..F
              PROVE  \E i \in DOMAIN queue'[P] : queue'[P][i].of = w /\ queue'[P][i].part = k
          <5>1. PICK i \in DOMAIN queue'[P] : queue'[P][i] = [of |-> w, part |-> k, whole |-> TRUE]
                BY <4>1
          <5> QED BY <5>1
        <4> QED BY <4>2
      <3> QED BY <3>2, <3>3 DEF Rest
    <2>6. ASSUME NEW v \in Writes, writer'[v] = "waiting", ~op'[v].finished, channel' = "open"
          PROVE  /\ op'[v].left \in 1..Channel!FramesOf(v)
                 /\ (InHandOf(v))' => current'.part = Channel!FramesOf(v) - op'[v].left + 1
                 /\ (Rest(v))' = IF (InHandOf(v))' THEN Channel!FramesOf(v) - op'[v].left + 2 .. Channel!FramesOf(v)
                                 ELSE Channel!FramesOf(v) - op'[v].left + 1 .. Channel!FramesOf(v)
      <3>1. CASE v = w
        <4>1. ~InHandOf(w)
              BY <1>3 DEF ChannelInv, QueueFits, InHandOf
        <4>2. op'[w].left = F
              BY <1>1, <1>3
        <4> HIDE DEF F
        <4>3. F - F + 1 .. F = 1 .. F
              BY <1>3
        <4> QED BY <1>1, <1>3, <2>3, <2>5, <3>1, <4>1, <4>2, <4>3 DEF F
      <3>2. CASE v # w
            BY <1>1, <1>3, <2>3, <2>4, <2>6, <3>2 DEF ChannelInv, QueueFits
      <3> QED BY <3>1, <3>2
    <2> QED BY <1>1, <1>4, <2>1, <2>2, <2>6 DEF QueueFits
  <1>16. QueueOrdered'
    <2>1. \A f, g : Precedes(f, g) => (Precedes(f, g))'
          BY <1>8 DEF Precedes
    <2>2. ASSUME NEW p \in Levels, NEW i \in DOMAIN queue'[p], NEW j \in DOMAIN queue'[p], i < j
          PROVE  (Precedes(queue[p][i], queue[p][j]))'
      <3>1. CASE j \in DOMAIN queue[p] /\ queue'[p][j] = queue[p][j]
        <4>1. i \in DOMAIN queue[p] /\ queue'[p][i] = queue[p][i]
          <5> HIDE DEF n, F
          <5> QED BY <1>2, <1>3, <1>5, <2>2, <3>1
        <4> QED BY <2>1, <2>2, <3>1, <4>1 DEF ChannelInv, QueueOrdered
      <3>2. CASE p = P /\ j \in n + 1 .. n + F /\ queue'[p][j] = [of |-> w, part |-> j - n, whole |-> TRUE]
        <4>1. CASE i \in DOMAIN queue[p] /\ queue'[p][i] = queue[p][i]
              BY <1>8, <1>13, <1>14, <3>2, <4>1 DEF Precedes
        <4>2. CASE i \in n + 1 .. n + F /\ queue'[p][i] = [of |-> w, part |-> i - n, whole |-> TRUE]
          <5>1. i - n < j - n
            <6> HIDE DEF n, F
            <6> QED BY <1>2, <1>3, <2>2, <3>2, <4>2
          <5> QED BY <3>2, <4>2, <5>1 DEF Precedes
        <4> QED BY <1>5, <4>1, <4>2
      <3> QED BY <1>5, <3>1, <3>2
    <2>3. ASSUME NEW f \in InWriting', NEW g \in InQueue', (Alike(f.of, g.of))'
          PROVE  (Precedes(f, g))'
      <3>1. f \in InWriting /\ HasEntered(f.of)
            BY <1>6, <1>13
      <3>2. CASE g.of = w
            BY <1>8, <3>1, <3>2 DEF Precedes
      <3>3. CASE g \in InQueue
        <4>1. Alike(f.of, g.of)
              BY <1>1, <2>3 DEF Alike
        <4> QED BY <2>1, <3>1, <3>3, <4>1 DEF ChannelInv, QueueOrdered
      <3>4. g \in InQueue \/ g.of = w
        <4>1. PICK p \in Levels : \E i \in DOMAIN queue'[p] : g = queue'[p][i]
              BY DEF InQueue
        <4>2. PICK i \in DOMAIN queue'[p] : g = queue'[p][i]
              BY <4>1
        <4>3. \/ i \in DOMAIN queue[p] /\ queue'[p][i] = queue[p][i]
              \/ queue'[p][i] = [of |-> w, part |-> i - n, whole |-> TRUE]
              BY <1>5
        <4> QED BY <1>14, <4>2, <4>3
      <3> QED BY <3>2, <3>3, <3>4
    <2> QED BY <2>2, <2>3 DEF QueueOrdered
  <1> QED BY <1>8, <1>9, <1>10, <1>11, <1>12, <1>15, <1>16 DEF ChannelInv

\* The frames in the queue of each write, while the queue stays.
LEMMA QueueKept ==
    ASSUME ChannelInv, UNCHANGED <<binding, entered, queue, current>>,
           Busy' = Busy
    PROVE  /\ \A w : (InHandOf(w))' = InHandOf(w) /\ (Rest(w))' = Rest(w)
           /\ \A p \in Levels : \A i \in DOMAIN queue'[p] :
                 /\ Priority[queue'[p][i].of] = p
                 /\ queue'[p][i].whole
                 /\ queue'[p][i].part \in 1..(Channel!FramesOf(queue[p][i].of))'
           /\ Busy' => /\ (HasEntered(current.of))' /\ current'.whole
                       /\ current'.part \in 1..(Channel!FramesOf(current.of))'
  <1>1. \A w : (InHandOf(w))' = InHandOf(w)
        BY DEF InHandOf
  <1>2. \A w : (Rest(w))' = Rest(w)
        BY DEF Rest
  <1> QED BY <1>1, <1>2 DEF ChannelInv, QueueFits, Channel!FramesOf, HasEntered

\* The watcher of a write, which gives it up or takes the channel down.
LEMMA WatchStep ==
    ASSUME ChannelInv, ChannelAssumption, NEW w \in Writes, Channel!Watch(w)
    PROVE  ChannelInv'
  <1> USE DEF ChannelInv, Channel!readerVars
  <1>1. /\ UNCHANGED <<binding, writer, entered, queue, loop, current, mutex, wire, delivered, parts>>
        /\ \/ op' = op /\ ready' = ready
           \/ op' = [op EXCEPT ![w] = [@ EXCEPT !.active = FALSE, !.finished = TRUE, !.err = TRUE]] /\ ready' = 1
        /\ channel' \in {"open", "closing", "closed"} /\ (channel' = "open" => channel = "open")
        BY DEF Channel!Watch, Channel!Finish, Channel!Shutdown, Channel!Notify, ChannelTypes
  <1>2. /\ op' \in [Writes -> OpSet]
        /\ \A v \in Writes : /\ op'[v].left = op[v].left
                             /\ op[v].finished => op'[v].finished
    <2>1. PICK o : o = [op[w] EXCEPT !.active = FALSE, !.finished = TRUE, !.err = TRUE]
          OBVIOUS
    <2>2. op \in [Writes -> OpSet] /\ op[w] \in OpSet
          BY DEF ChannelTypes
    <2>3. o \in OpSet /\ o.left = op[w].left /\ o.finished = TRUE
          BY <2>1, <2>2 DEF OpSet
    <2>4. op' = op \/ op' = [op EXCEPT ![w] = o]
          BY <1>1, <2>1
    <2> QED BY <2>2, <2>3, <2>4
  <1>3. ChannelTypes'
        BY <1>1, <1>2 DEF ChannelTypes, Busy
  <1>4. InWriting' \subseteq InWriting
        BY <1>1, <1>2, WritingStays
  <1>5. BindingFits' /\ TornFits'
        BY <1>1 DEF BindingFits, TornFits
  <1>6. EntriesFit'
        BY <1>1, <1>2, PlacesKept DEF EntriesFit
  <1>7. QueueFits'
    <2>1. Busy' = Busy
          BY <1>1 DEF Busy
    <2> QED BY <1>1, <1>2, <2>1, QueueKept, PlacesKept DEF QueueFits
  <1>8. LoopFits'
        BY <1>1 DEF LoopFits
  <1> QED BY <1>1, <1>3, <1>4, <1>5, <1>6, <1>7, <1>8, QueueUnmoved, LineKeeps

\* The channel is closed.
LEMMA CloseStep ==
    ASSUME ChannelInv, ChannelAssumption, Channel!CloseStream
    PROVE  ChannelInv'
  <1> USE DEF ChannelInv, Channel!readerVars, Channel!senderVars, Channel!tcpVars
  <1>1. /\ UNCHANGED <<binding, writer, op, entered, queue, ready, loop, current, mutex,
                       wire, delivered, parts>>
        /\ channel' \in {"open", "closing", "closed"} /\ (channel' = "open" => channel = "open")
        BY DEF Channel!CloseStream, Channel!Shutdown, ChannelTypes
  <1>2. ChannelTypes'
        BY <1>1 DEF ChannelTypes, Busy
  <1>3. InWriting' \subseteq InWriting
        BY <1>1, WritingStays
  <1>4. BindingFits' /\ TornFits' /\ LoopFits'
        BY <1>1 DEF BindingFits, TornFits, LoopFits
  <1>5. EntriesFit'
        BY <1>1, PlacesKept DEF EntriesFit
  <1>6. QueueFits'
    <2>1. Busy' = Busy
          BY <1>1 DEF Busy
    <2> QED BY <1>1, <2>1, QueueKept, PlacesKept DEF QueueFits
  <1> QED BY <1>1, <1>2, <1>3, <1>4, <1>5, <1>6, QueueUnmoved, LineKeeps

\* The write loop wakes up, or sees that the channel is closed.
LEMMA WakeStep ==
    ASSUME ChannelInv, ChannelAssumption, Channel!Wake
    PROVE  ChannelInv'
  <1> USE DEF ChannelInv, Channel!readerVars, Channel!senderVars, Channel!wireVars
  <1>1. /\ UNCHANGED <<binding, writer, op, entered, queue, current, mutex, channel,
                       wire, delivered, parts>>
        /\ binding = "tcp" /\ loop = "wait"
        /\ \/ ready' = 0 /\ loop' = "pop"
           \/ channel # "open" /\ loop' = "ended" /\ ready' = ready
        BY DEF Channel!Wake
  <1>2. ChannelTypes'
        BY <1>1 DEF ChannelTypes, Busy
  <1>3. InWriting' \subseteq InWriting
        BY <1>1, WritingStays
  <1>4. BindingFits' /\ TornFits' /\ LoopFits'
        BY <1>1 DEF BindingFits, TornFits, LoopFits
  <1>5. EntriesFit'
        BY <1>1, PlacesKept DEF EntriesFit
  <1>6. QueueFits'
    <2>1. Busy' = Busy
          BY <1>1 DEF Busy
    <2> QED BY <1>1, <2>1, QueueKept, PlacesKept DEF QueueFits
  <1> QED BY <1>1, <1>2, <1>3, <1>4, <1>5, <1>6, QueueUnmoved, LineKeeps

\* The frame is written, and the write is not being written any more.
LEMMA MarkStep ==
    ASSUME ChannelInv, ChannelAssumption, Channel!MarkIdle
    PROVE  ChannelInv'
  <1> USE DEF ChannelInv, Channel!readerVars, Channel!wireVars
  <1>1. /\ UNCHANGED <<binding, writer, entered, queue, ready, current, mutex, channel,
                       wire, delivered, parts>>
        /\ loop = "wrote" /\ loop' = "marked"
        /\ op' = [op EXCEPT ![current.of].active = FALSE]
        BY DEF Channel!MarkIdle
  <1>2. /\ op' \in [Writes -> OpSet]
        /\ \A v \in Writes : op'[v].left = op[v].left /\ op'[v].finished = op[v].finished
    <2> DEFINE w == current.of
    <2>1. PICK o : o = [op[w] EXCEPT !.active = FALSE]
          OBVIOUS
    <2>2. w \in Writes
          BY <1>1 DEF ChannelTypes, Busy, FrameSet
    <2>3. op \in [Writes -> OpSet] /\ op[w] \in OpSet
          BY <2>2 DEF ChannelTypes
    <2>4. o \in OpSet /\ o.left = op[w].left /\ o.finished = op[w].finished
          BY <2>1, <2>3 DEF OpSet
    <2>5. op' = [op EXCEPT ![w] = o]
          BY <1>1, <2>1
    <2> HIDE DEF w
    <2> QED BY <2>2, <2>3, <2>4, <2>5
  <1>3. ChannelTypes'
        BY <1>1, <1>2 DEF ChannelTypes, Busy
  <1>4. InWriting' \subseteq InWriting
        BY <1>1, <1>2, WritingStays
  <1>5. BindingFits' /\ TornFits' /\ LoopFits'
        BY <1>1 DEF BindingFits, TornFits, LoopFits
  <1>6. EntriesFit'
        BY <1>1, <1>2, PlacesKept DEF EntriesFit
  <1>7. QueueFits'
    <2>1. Busy' = Busy
          BY <1>1 DEF Busy
    <2> QED BY <1>1, <1>2, <2>1, QueueKept, PlacesKept DEF QueueFits
  <1> QED BY <1>1, <1>3, <1>4, <1>5, <1>6, <1>7, QueueUnmoved, LineKeeps

\* The frame that was written is no longer owed.
LEMMA CompleteStep ==
    ASSUME ChannelInv, ChannelAssumption, Channel!CompleteFragment
    PROVE  ChannelInv'
  <1> USE DEF ChannelInv, Channel!readerVars, Channel!wireVars
  <1> DEFINE c == current.of
             F == Channel!FramesOf(c)
  <1>1. /\ UNCHANGED <<binding, writer, entered, queue, ready, mutex, channel, wire, delivered, parts>>
        /\ loop = "marked" /\ loop' = "pop"
        /\ op' = [op EXCEPT ![c] = IF @.finished THEN @ ELSE Channel!Completed(@)]
        BY DEF Channel!CompleteFragment
  <1>2. c \in Writes /\ HasEntered(c) /\ binding = "tcp" /\ Busy
        BY <1>1 DEF ChannelTypes, Busy, FrameSet, QueueFits, BindingFits
  <1>3. /\ op' \in [Writes -> OpSet]
        /\ \A v \in Writes : v # c => op'[v] = op[v]
        /\ op[c].finished => op'[c] = op[c]
        /\ ~op[c].finished => op'[c].left = op[c].left - 1 /\ op'[c].finished = (op[c].left = 1)
    <2>1. op \in [Writes -> OpSet] /\ op[c] \in OpSet
          BY <1>2 DEF ChannelTypes
    <2>2. PICK o : o = IF op[c].finished THEN op[c]
                       ELSE [op[c] EXCEPT !.left = op[c].left - 1, !.finished = op[c].left = 1]
          OBVIOUS
    <2>3. /\ o \in OpSet
          /\ op[c].finished => o = op[c]
          /\ ~op[c].finished => o.left = op[c].left - 1 /\ o.finished = (op[c].left = 1)
      <3>1. CASE op[c].finished
            BY <2>1, <2>2, <3>1
      <3>2. CASE ~op[c].finished
        <4> HIDE DEF c
        <4>1. o = [op[c] EXCEPT !.left = op[c].left - 1, !.finished = op[c].left = 1]
              BY <2>2, <3>2
        <4>2. PICK b \in BOOLEAN : b = (op[c].left = 1)
              OBVIOUS
        <4>3. o = [op[c] EXCEPT !.left = op[c].left - 1, !.finished = b]
              BY <4>1, <4>2
        <4>4. op[c].left \in Int /\ op[c].left - 1 \in Int
              BY <2>1 DEF OpSet
        <4>5. o \in OpSet
              BY <2>1, <4>3, <4>4 DEF OpSet
        <4>6. o.left = op[c].left - 1 /\ o.finished = b
              BY <2>1, <4>3 DEF OpSet
        <4> QED BY <3>2, <4>2, <4>5, <4>6
      <3> QED BY <3>1, <3>2
    <2>4. op' = [op EXCEPT ![c] = o]
          BY <1>1, <2>1, <2>2 DEF Channel!Completed
    <2> HIDE DEF c
    <2> QED BY <1>2, <2>1, <2>3, <2>4
  <1>4. ChannelTypes'
        BY <1>1, <1>3 DEF ChannelTypes, Busy
  <1>5. InWriting' \subseteq InWriting
    <2>1. \A v \in Writes : writer'[v] # "sending"
          BY <1>1, <1>2 DEF BindingFits
    <2> QED BY <1>1, <2>1, WritingStays
  <1>6. BindingFits' /\ TornFits' /\ LoopFits'
        BY <1>1 DEF BindingFits, TornFits, LoopFits
  <1>7. EntriesFit'
        BY <1>1, <1>2, <1>3, PlacesKept DEF EntriesFit
  <1>8. QueueFits'
    <2>1. \A v \in Writes : ~(InHandOf(v))' /\ (Rest(v))' = Rest(v)
          BY <1>1 DEF InHandOf, Busy, Rest
    <2>2. ASSUME NEW v \in Writes, writer[v] = "waiting", ~op'[v].finished, channel = "open"
          PROVE  /\ op'[v].left \in 1..Channel!FramesOf(v)
                 /\ Rest(v) = Channel!FramesOf(v) - op'[v].left + 1 .. Channel!FramesOf(v)
      <3>1. CASE v # c
        <4>1. ~InHandOf(v)
              BY <3>1 DEF InHandOf
        <4> QED BY <1>3, <2>2, <3>1, <4>1 DEF QueueFits
      <3>2. CASE v = c
        <4>1. ~op[c].finished /\ op'[c].left = op[c].left - 1 /\ op[c].left # 1
              BY <1>3, <2>2, <3>2
        <4>2. InHandOf(c)
              BY <1>2 DEF InHandOf
        <4>3. op[c].left \in 1..F /\ Rest(c) = F - op[c].left + 2 .. F
              BY <2>2, <3>2, <4>1, <4>2 DEF QueueFits
        <4>4. F \in Nat
              BY <1>2, ChannelAssumption DEF ChannelAssumption, Channel!FramesOf
        <4> HIDE DEF F, c
        <4>5. op'[c].left \in 1..F /\ F - op[c].left + 2 = F - op'[c].left + 1
              BY <4>1, <4>3, <4>4
        <4> QED BY <3>2, <4>3, <4>5 DEF F
      <3> QED BY <3>1, <3>2
    <2>3. ~Busy'
          BY <1>1 DEF Busy
    <2> QED BY <1>1, <2>1, <2>2, <2>3, PlacesKept DEF QueueFits
  <1> QED BY <1>1, <1>4, <1>5, <1>6, <1>7, <1>8, QueueUnmoved, LineKeeps

\* The writes of a closed channel are failed, and its queue emptied.
LEMMA FailStep ==
    ASSUME ChannelInv, ChannelAssumption, Channel!FailPending
    PROVE  ChannelInv'
  <1> USE DEF ChannelInv, Channel!readerVars, Channel!wireVars
  <1>1. /\ UNCHANGED <<binding, writer, entered, ready, loop, current, mutex, wire, delivered, parts>>
        /\ channel' = "closed" /\ channel = "closing"
        /\ queue' = [p \in DOMAIN queue |-> <<>>]
        BY DEF Channel!FailPending
  <1>2. op' \in [Writes -> OpSet] /\ \A v \in Writes : op'[v].left = op[v].left
    <2>1. PICK S : op' = [w \in Writes |-> IF w \in S /\ ~ op[w].finished
                          THEN [op[w] EXCEPT !.active = FALSE, !.finished = TRUE, !.err = TRUE]
                          ELSE op[w]]
          BY DEF Channel!FailPending
    <2>2. ASSUME NEW v \in Writes
          PROVE  op'[v] \in OpSet /\ op'[v].left = op[v].left
      <3>1. op[v] \in OpSet
            BY DEF ChannelTypes
      <3>2. op'[v] = op[v] \/ op'[v] = [op[v] EXCEPT !.active = FALSE, !.finished = TRUE, !.err = TRUE]
            BY <2>1
      <3> QED BY <3>1, <3>2 DEF OpSet
    <2> QED BY <2>1, <2>2
  <1>3. queue' \in [Levels -> Seq(FrameSet)] /\ \A p \in Levels : queue'[p] = <<>>
        BY <1>1 DEF ChannelTypes
  <1>4. ChannelTypes'
        BY <1>1, <1>2, <1>3 DEF ChannelTypes, Busy
  <1>5. InWriting' \subseteq InWriting
        BY <1>1, <1>2, WritingStays
  <1>6. BindingFits' /\ TornFits' /\ LoopFits'
        BY <1>1, <1>3 DEF BindingFits, TornFits, LoopFits
  <1>7. EntriesFit'
        BY <1>1, <1>2, PlacesKept DEF EntriesFit
  <1>8. QueueFits'
    <2>1. Busy' = Busy
          BY <1>1 DEF Busy
    <2>2. \A p \in Levels : DOMAIN queue'[p] = {}
          BY <1>3
    <2> QED BY <1>1, <2>1, <2>2, PlacesKept DEF QueueFits
  <1>9. InQueue' = {} /\ QueueOrdered'
    <2>1. \A p \in Levels : DOMAIN queue'[p] = {}
          BY <1>3
    <2> QED BY <2>1 DEF InQueue, QueueOrdered
  <1>10. Unwritten' \subseteq Unwritten
         BY <1>5, <1>9 DEF Unwritten
  <1> QED BY <1>1, <1>4, <1>6, <1>7, <1>8, <1>9, <1>10, LineKeeps

\* A sequence with one more element.
LEMMA OneMore ==
    ASSUME NEW S, NEW s \in Seq(S), NEW x \in S, NEW t, t = Append(s, x)
    PROVE  /\ t \in Seq(S) /\ Len(t) = Len(s) + 1 /\ Len(s) \in Nat
           /\ DOMAIN s = 1 .. Len(s) /\ DOMAIN t = 1 .. Len(s) + 1
           /\ \A i \in DOMAIN t : \/ i \in DOMAIN s /\ t[i] = s[i]
                                  \/ i = Len(t) /\ t[i] = x
  OBVIOUS

\* The write loop puts its frame on the wire, whole or cut short.
LEMMA WriteSteps ==
    ASSUME ChannelInv, ChannelAssumption, Channel!WriteFrame \/ Channel!WriteFails
    PROVE  ChannelInv'
  <1> USE DEF ChannelInv, Channel!readerVars, Channel!senderVars
  <1> DEFINE c == current.of
  <1>1. /\ UNCHANGED <<binding, writer, entered, queue, ready, mutex, delivered, parts>>
        /\ loop = "write"
        /\ \/ /\ wire' = Append(wire, current) /\ loop' = "wrote"
              /\ UNCHANGED <<op, current, channel>>
           \/ /\ wire' = wire \/ wire' = Append(wire, [current EXCEPT !.whole = FALSE])
              /\ op' = [op EXCEPT ![c] = IF @.finished THEN @
                                         ELSE [@ EXCEPT !.active = FALSE, !.finished = TRUE, !.err = TRUE]]
              /\ channel' \in {"closing", "closed"} /\ loop' = "ended"
    <2>1. channel \in {"open", "closing", "closed"}
          BY DEF ChannelTypes
    <2>2. CASE Channel!WriteFrame
          BY <2>2 DEF Channel!WriteFrame
    <2>3. CASE Channel!WriteFails
      <3>1. channel' \in {"closing", "closed"}
            BY <2>1, <2>3 DEF Channel!WriteFails, Channel!Shutdown
      <3>2. wire' = wire \/ wire' = Append(wire, [current EXCEPT !.whole = FALSE])
            BY <2>3 DEF Channel!WriteFails, Channel!Torn
      <3> QED BY <2>3, <3>1, <3>2 DEF Channel!WriteFails, Channel!Finish
    <2> QED BY <2>2, <2>3
  <1>2. /\ current \in FrameSet /\ c \in Writes /\ HasEntered(c) /\ binding = "tcp" /\ Busy
        /\ current.whole
        BY <1>1 DEF ChannelTypes, Busy, FrameSet, QueueFits, BindingFits
  <1>3. /\ op' \in [Writes -> OpSet]
        /\ \A v \in Writes : op'[v].left = op[v].left /\ (op[v].finished => op'[v].finished)
    <2>1. op \in [Writes -> OpSet] /\ op[c] \in OpSet
          BY <1>2 DEF ChannelTypes
    <2>2. PICK o : o = [op[c] EXCEPT !.active = FALSE, !.finished = TRUE, !.err = TRUE]
          OBVIOUS
    <2>3. o \in OpSet /\ o.left = op[c].left /\ o.finished = TRUE
          BY <2>1, <2>2 DEF OpSet
    <2>4. op' = op \/ op' = [op EXCEPT ![c] = o]
          BY <1>1, <2>1, <2>2
    <2> HIDE DEF c
    <2> QED BY <1>2, <2>1, <2>3, <2>4
  <1>4. PICK f \in FrameSet : /\ f.of = current.of /\ f.part = current.part
                              /\ \/ wire' = wire
                                 \/ wire' = Append(wire, f) /\ (~f.whole => loop' = "ended")
    <2>1. CASE wire' = wire \/ wire' = Append(wire, current)
          BY <1>1, <1>2, <2>1
    <2>2. CASE wire' = Append(wire, [current EXCEPT !.whole = FALSE]) /\ loop' = "ended"
      <3>1. PICK f : f = [current EXCEPT !.whole = FALSE]
            OBVIOUS
      <3>2. f \in FrameSet /\ f.of = current.of /\ f.part = current.part
            BY <1>2, <3>1 DEF FrameSet
      <3> QED BY <2>2, <3>1, <3>2
    <2> QED BY <1>1, <2>1, <2>2
  <1>5. wire' \in Seq(FrameSet) /\ TornFits'
    <2>1. CASE wire' = wire
          BY <1>1, <1>2, <2>1 DEF ChannelTypes, TornFits
    <2>2. CASE wire' = Append(wire, f) /\ (~f.whole => loop' = "ended")
      <3>1. wire \in Seq(FrameSet)
            BY DEF ChannelTypes
      <3>2. /\ wire' \in Seq(FrameSet)
            /\ \A i \in DOMAIN wire' : \/ i \in DOMAIN wire /\ wire'[i] = wire[i]
                                       \/ i = Len(wire') /\ wire'[i] = f
            BY <2>2, <3>1, OneMore
      <3>3. \A i \in DOMAIN wire : wire[i].whole
            BY <1>1, <1>2 DEF TornFits
      <3> QED BY <1>1, <1>2, <2>2, <3>2, <3>3 DEF TornFits
    <2> QED BY <1>4, <2>1, <2>2
  <1>6. ChannelTypes'
        BY <1>1, <1>2, <1>3, <1>5 DEF ChannelTypes, Busy
  <1>7. \A v \in Writes : writer[v] # "sending"
        BY <1>2 DEF BindingFits
  <1>8. InWriting' = {} /\ InWriting = {current} /\ InQueue' = InQueue
        BY <1>1, <1>7 DEF InWriting, InQueue
  <1>9. BindingFits' /\ LoopFits'
        BY <1>1, <1>2 DEF BindingFits, LoopFits
  <1>10. EntriesFit'
         BY <1>1, <1>3, PlacesKept DEF EntriesFit
  <1>11. QueueFits'
    <2>1. CASE loop' = "wrote" /\ UNCHANGED <<op, current, channel>>
      <3>1. Busy' = Busy
            BY <1>1, <2>1 DEF Busy
      <3> QED BY <1>1, <2>1, <3>1, QueueKept, PlacesKept DEF QueueFits
    <2>2. CASE loop' = "ended" /\ channel' # "open"
      <3>1. ~Busy'
            BY <2>2 DEF Busy
      <3> QED BY <1>1, <2>2, <3>1, PlacesKept DEF QueueFits
    <2> QED BY <1>1, <2>1, <2>2
  <1>12. QueueOrdered'
         BY <1>1, <1>8, QueueUnmoved
  <1>13. WireOrdered' /\ ComingFits' /\ ReaderFits'
    <2>1. CASE wire' = wire
      <3>1. Unwritten' \subseteq Unwritten
            BY <1>8 DEF Unwritten
      <3> QED BY <1>1, <2>1, <3>1, LineKeeps
    <2>2. CASE wire' = Append(wire, f)
      <3>1. \A h \in Unwritten' : h \in InQueue /\ h \in Unwritten
            BY <1>8 DEF Unwritten
      <3>2. \A h \in Unwritten' : Alike(c, h.of) => Precedes(current, h)
            BY <1>8, <3>1 DEF QueueOrdered
      <3> QED BY <1>1, <1>4, <1>8, <2>2, <3>1, <3>2, LinePuts
    <2> QED BY <1>4, <2>1, <2>2
  <1> QED BY <1>5, <1>6, <1>9, <1>10, <1>11, <1>12, <1>13

\* Without a write queue: nothing is queued, and the one that sends has the mutex.
LEMMA Serial ==
    ASSUME ChannelInv, binding # "tcp"
    PROVE  /\ loop = "wait" /\ ~Busy
           /\ \A p \in Levels : DOMAIN queue[p] = {}
           /\ InQueue = {}
           /\ \A w \in Writes : writer[w] # "waiting" /\ (writer[w] = "sending" <=> mutex = w)
  <1>1. /\ loop = "wait" /\ ~Busy
        /\ \A p \in Levels : queue[p] = <<>>
        /\ \A w \in Writes : writer[w] # "waiting" /\ (writer[w] = "sending" <=> mutex = w)
        BY DEF ChannelInv, BindingFits, Busy
  <1>2. \A p \in Levels : DOMAIN queue[p] = {}
        BY <1>1
  <1> QED BY <1>1, <1>2 DEF InQueue

\* A write that gets the mutex takes its place.
LEMMA LockStep ==
    ASSUME ChannelInv, ChannelAssumption, NEW w \in Writes, Channel!Lock(w)
    PROVE  ChannelInv'
  <1> USE DEF ChannelInv, Channel!readerVars, Channel!tcpVars, Channel!wireVars
  <1> DEFINE F == Channel!FramesOf(w)
  <1>1. /\ UNCHANGED <<binding, op, queue, ready, loop, current, channel, wire, delivered, parts>>
        /\ writer[w] = "locking" /\ mutex = NoTunnel
        /\ \/ writer' = [writer EXCEPT ![w] = "failed"] /\ UNCHANGED <<mutex, entered>>
           \/ /\ writer' = [writer EXCEPT ![w] = "sending"] /\ mutex' = w
              /\ entered' = Append(entered, w)
        BY DEF Channel!Lock
  <1>2. /\ binding # "tcp" /\ ~HasEntered(w) /\ op[w].left = F /\ F \in Nat /\ F > 0
        /\ \A v \in Writes : v # w => writer'[v] = writer[v]
        /\ \A v \in Writes : mutex # v
        /\ writer'[w] \in {"failed", "sending"}
        BY <1>1, ChannelAssumption
        DEF BindingFits, EntriesFit, ChannelTypes, ChannelAssumption, Channel!FramesOf
  <1>3. /\ loop = "wait" /\ ~Busy /\ InQueue = {}
        /\ \A p \in Levels : DOMAIN queue[p] = {}
        /\ \A v \in Writes : writer[v] # "waiting" /\ writer[v] # "sending"
        BY <1>2, Serial
  <1>4. InQueue' = {} /\ InWriting' \subseteq {g \in FrameSet : writer'[w] = "sending" /\ g.of = w /\ g.part \in 1..F}
    <2>1. InQueue' = {}
          BY <1>1, <1>3 DEF InQueue
    <2>2. \A v \in Writes : writer'[v] = "sending" => v = w
          BY <1>2, <1>3
    <2>3. (NextOf(w))' = [of |-> w, part |-> 1, whole |-> TRUE]
      <3>1. (Channel!FramesOf(w))' = F
            BY <1>1 DEF Channel!FramesOf
      <3>2. F - op'[w].left + 1 = 1
            BY <1>1, <1>2
      <3> QED BY <3>1, <3>2 DEF NextOf
    <2>4. [of |-> w, part |-> 1, whole |-> TRUE] \in FrameSet
          BY DEF FrameSet
    <2>5. 1 \in 1..F
          BY <1>2
    <2>6. \A g \in InWriting' : writer'[w] = "sending" /\ g = [of |-> w, part |-> 1, whole |-> TRUE]
      <3>1. loop' # "write"
            BY <1>1, <1>3
      <3>2. InWriting' = {(NextOf(v))' : v \in {u \in Writes : writer'[u] = "sending"}}
            BY <3>1 DEF InWriting
      <3> QED BY <2>2, <2>3, <3>2
    <2> HIDE DEF F
    <2>7. PICK e : e = [of |-> w, part |-> 1, whole |-> TRUE]
          OBVIOUS
    <2>8. e \in FrameSet /\ e.of = w /\ e.part \in 1..F
          BY <2>4, <2>5, <2>7
    <2>9. \A g \in InWriting' : writer'[w] = "sending" /\ g = e
          BY <2>6, <2>7
    <2> QED BY <2>1, <2>8, <2>9
  <1>5. ChannelTypes'
    <2>1. entered' \in Seq(Writes)
      <3>1. entered \in Seq(Writes)
            BY DEF ChannelTypes
      <3>2. entered' = entered \/ entered' = Append(entered, w)
            BY <1>1
      <3> QED BY <3>1, <3>2, OneMore
    <2>2. writer' \in [Writes -> {"idle", "prepared", "waiting", "locking", "sending", "sent", "failed"}]
          BY <1>1 DEF ChannelTypes
    <2> QED BY <1>1, <2>1, <2>2 DEF ChannelTypes, Busy
  <1>6. BindingFits'
    <2>1. \A v \in Writes : writer'[v] = "sending" <=> mutex' = v
      <3>1. CASE writer' = [writer EXCEPT ![w] = "failed"] /\ mutex' = mutex
            BY <1>2, <1>3, <3>1 DEF ChannelTypes
      <3>2. CASE writer' = [writer EXCEPT ![w] = "sending"] /\ mutex' = w
            BY <1>2, <1>3, <3>2 DEF ChannelTypes
      <3> QED BY <1>1, <3>1, <3>2
    <2> QED BY <1>1, <1>2, <1>3, <2>1 DEF BindingFits
  <1>7. LoopFits' /\ TornFits'
        BY <1>1 DEF LoopFits, TornFits
  <1>8. QueueFits'
    <2>1. ~Busy' /\ \A v \in Writes : writer'[v] # "waiting"
          BY <1>1, <1>2, <1>3 DEF Busy
    <2>2. \A p \in Levels : DOMAIN queue'[p] = {}
          BY <1>1, <1>3
    <2> QED BY <2>1, <2>2 DEF QueueFits
  <1>9. QueueOrdered'
    <2>1. \A p \in Levels : DOMAIN queue'[p] = {}
          BY <1>1, <1>3
    <2> QED BY <1>4, <2>1 DEF QueueOrdered
  <1>10. EntriesFit' /\ WireOrdered' /\ ComingFits' /\ ReaderFits'
    <2>1. CASE writer' = [writer EXCEPT ![w] = "failed"] /\ UNCHANGED <<mutex, entered>>
      <3>1. writer'[w] = "failed"
            BY <2>1 DEF ChannelTypes
      <3>2. Unwritten' \subseteq Unwritten
            BY <1>4, <3>1 DEF Unwritten
      <3>3. EntriesFit'
            BY <1>1, <1>2, <2>1, <3>1, PlacesKept DEF EntriesFit
      <3> QED BY <1>1, <2>1, <3>2, <3>3, LineKeeps
    <2>2. CASE writer' = [writer EXCEPT ![w] = "sending"] /\ entered' = Append(entered, w)
      <3>1. writer'[w] = "sending"
            BY <2>2 DEF ChannelTypes
      <3>2. \A g \in Unwritten' : g \in FrameSet /\ g.of = w /\ g.part \in 1..F
            BY <1>4 DEF Unwritten
      <3>3. /\ WireOrdered' /\ ComingFits' /\ ReaderFits'
            /\ \A v : HasEntered(v) => (HasEntered(v))'
            /\ \A v : (HasEntered(v))' => HasEntered(v) \/ v = w
            /\ (HasEntered(w))'
            /\ (\A i, j \in DOMAIN entered : entered[i] = entered[j] => i = j)'
            BY <1>1, <1>2, <2>2, <3>2, LineGrows
      <3>4. \A v : (Channel!FramesOf(v))' = Channel!FramesOf(v)
            BY <1>1 DEF Channel!FramesOf
      <3>5. \A v \in Writes : writer'[v] \in {"idle", "prepared", "locking"} =>
               ~(HasEntered(v))' /\ op'[v].left = (Channel!FramesOf(v))'
            BY <1>1, <1>2, <3>1, <3>3, <3>4 DEF EntriesFit
      <3>6. \A v \in Writes : writer'[v] \in {"waiting", "sending"} => (HasEntered(v))'
            BY <1>2, <1>3, <3>3
      <3>7. EntriesFit'
            BY <3>3, <3>5, <3>6 DEF EntriesFit
      <3> QED BY <3>3, <3>7
    <2> QED BY <1>1, <2>1, <2>2
  <1> QED BY <1>5, <1>6, <1>7, <1>8, <1>9, <1>10

\* The steps of the write that has the mutex: it sends a frame, or fails.
LEMMA SendSteps ==
    ASSUME ChannelInv, ChannelAssumption, NEW w \in Writes,
           Channel!SendFrame(w) \/ Channel!SendTimesOut(w) \/ Channel!SendFails(w)
    PROVE  ChannelInv'
  <1> USE DEF ChannelInv, Channel!readerVars, Channel!tcpVars
  <1> DEFINE F == Channel!FramesOf(w)
             g == NextOf(w)
  <1>1. writer[w] = "sending" /\ binding # "tcp" /\ mutex = w
        BY DEF Channel!SendFrame, Channel!SendTimesOut, Channel!SendFails, BindingFits
  <1>2. /\ loop = "wait" /\ ~Busy /\ InQueue = {}
        /\ \A p \in Levels : DOMAIN queue[p] = {}
        /\ \A v \in Writes : writer[v] # "waiting" /\ (writer[v] = "sending" => v = w)
        BY <1>1, Serial
  <1>3. /\ g \in InWriting /\ g \in FrameSet /\ HasEntered(w) /\ g.part \in 1..F
        /\ g.of = w /\ g.part = F - op[w].left + 1 /\ g.whole /\ F \in Nat
        /\ op[w].left \in Int
    <2>1. g \in InWriting
          BY <1>1 DEF InWriting
    <2>2. g \in FrameSet /\ HasEntered(g.of) /\ g.part \in 1..Channel!FramesOf(g.of)
          BY <2>1 DEF ComingFits, Coming, Unwritten
    <2>3. g.of = w /\ g.part = F - op[w].left + 1 /\ g.whole
          BY DEF NextOf
    <2>4. F \in Nat /\ op[w].left \in Int
          BY ChannelAssumption DEF ChannelAssumption, Channel!FramesOf, ChannelTypes, OpSet
    <2> QED BY <2>1, <2>2, <2>3, <2>4
  <1>4. Channel!Frames(w)[F - op[w].left + 1] = g
    <2>1. F - op[w].left + 1 \in 1..F
          BY <1>3
    <2> QED BY <2>1 DEF Channel!Frames, NextOf
  <1> HIDE DEF g
  <1>5. /\ UNCHANGED <<binding, entered, queue, ready, loop, current, delivered, parts>>
        /\ channel' \in {"open", "closing", "closed"}
        /\ \/ /\ wire' = Append(wire, g) /\ op' = [op EXCEPT ![w].left = @ - 1]
              /\ \/ /\ op[w].left = 1
                    /\ writer' = [writer EXCEPT ![w] = "sent"] /\ mutex' = NoTunnel
                 \/ op[w].left # 1 /\ UNCHANGED <<writer, mutex>>
           \/ /\ wire' = wire \/ (binding = "quic" /\ wire' = Append(wire, [g EXCEPT !.whole = FALSE]))
              /\ op' = op
              /\ writer' = [writer EXCEPT ![w] = "failed"] /\ mutex' = NoTunnel
    <2>1. channel \in {"open", "closing", "closed"}
          BY DEF ChannelTypes
    <2>2. CASE Channel!SendFrame(w)
          BY <1>4, <2>1, <2>2 DEF Channel!SendFrame
    <2>3. CASE Channel!SendTimesOut(w)
          BY <1>4, <2>1, <2>3 DEF Channel!SendTimesOut, Channel!Torn
    <2>4. CASE Channel!SendFails(w)
          BY <2>1, <2>4 DEF Channel!SendFails, Channel!Shutdown
    <2> QED BY <2>2, <2>3, <2>4
  <1>6. /\ op' \in [Writes -> OpSet]
        /\ \A v \in Writes : v # w => op'[v] = op[v]
        /\ op' = op \/ op'[w].left = op[w].left - 1
    <2>1. op \in [Writes -> OpSet] /\ op[w] \in OpSet
          BY DEF ChannelTypes
    <2>2. PICK o : o = [op[w] EXCEPT !.left = op[w].left - 1]
          OBVIOUS
    <2>3. o \in OpSet /\ o.left = op[w].left - 1
          BY <1>3, <2>1, <2>2 DEF OpSet
    <2>4. op' = op \/ op' = [op EXCEPT ![w] = o]
          BY <1>5, <2>1, <2>2
    <2> QED BY <2>1, <2>3, <2>4
  <1>7. /\ writer' \in [Writes -> {"idle", "prepared", "waiting", "locking", "sending", "sent", "failed"}]
        /\ \A v \in Writes : v # w => writer'[v] = writer[v]
        /\ \/ writer'[w] = "sending" /\ mutex' = w /\ op'[w].left = op[w].left - 1 /\ op[w].left # 1
              /\ wire' = Append(wire, g)
           \/ writer'[w] \in {"sent", "failed"} /\ mutex' = NoTunnel
    <2>1. writer \in [Writes -> {"idle", "prepared", "waiting", "locking", "sending", "sent", "failed"}]
          BY DEF ChannelTypes
    <2>2. CASE writer' = writer /\ mutex' = mutex /\ op[w].left # 1 /\ op' = [op EXCEPT ![w].left = @ - 1]
               /\ wire' = Append(wire, g)
      <3>1. op'[w].left = op[w].left - 1
            BY <2>2 DEF ChannelTypes, OpSet
      <3> QED BY <1>1, <2>1, <2>2, <3>1
    <2>3. CASE writer' = [writer EXCEPT ![w] = "sent"] /\ mutex' = NoTunnel
          BY <2>1, <2>3
    <2>4. CASE writer' = [writer EXCEPT ![w] = "failed"] /\ mutex' = NoTunnel
          BY <2>1, <2>4
    <2> QED BY <1>5, <2>2, <2>3, <2>4
  <1>8. PICK f \in FrameSet : /\ f.of = w /\ f.part = g.part
                              /\ \/ wire' = wire
                                 \/ wire' = Append(wire, f) /\ (f.whole \/ binding = "quic")
    <2>1. CASE wire' = wire \/ wire' = Append(wire, g)
          BY <1>3, <2>1
    <2>2. CASE wire' = Append(wire, [g EXCEPT !.whole = FALSE]) /\ binding = "quic"
      <3>1. PICK f : f = [g EXCEPT !.whole = FALSE]
            OBVIOUS
      <3>2. f \in FrameSet /\ f.of = w /\ f.part = g.part
            BY <1>3, <3>1 DEF FrameSet
      <3> QED BY <2>2, <3>1, <3>2
    <2> QED BY <1>5, <2>1, <2>2
  <1>9. wire' \in Seq(FrameSet) /\ TornFits'
    <2>1. CASE wire' = wire
          BY <1>1, <1>5, <2>1 DEF ChannelTypes, TornFits
    <2>2. CASE wire' = Append(wire, f) /\ (f.whole \/ binding = "quic")
      <3>1. wire \in Seq(FrameSet)
            BY DEF ChannelTypes
      <3>2. /\ wire' \in Seq(FrameSet)
            /\ \A i \in DOMAIN wire' : \/ i \in DOMAIN wire /\ wire'[i] = wire[i]
                                       \/ i = Len(wire') /\ wire'[i] = f
            BY <2>2, <3>1, OneMore
      <3>3. binding # "quic" => \A i \in DOMAIN wire : wire[i].whole
            BY <1>1 DEF TornFits
      <3> QED BY <1>5, <2>2, <3>2, <3>3 DEF TornFits
    <2> QED BY <1>8, <2>1, <2>2
  <1>10. ChannelTypes'
         BY <1>5, <1>6, <1>7, <1>9, <1>2 DEF ChannelTypes, Busy
  <1>11. InQueue' = {} /\ ~Busy' /\ \A p \in Levels : DOMAIN queue'[p] = {}
         BY <1>2, <1>5 DEF InQueue, Busy
  <1>12. \A h \in Unwritten' :
            /\ wire' = Append(wire, g)
            /\ h \in FrameSet /\ h.of = w /\ h.part > g.part /\ h.part \in 1..F
    <2>1. ASSUME NEW h \in Unwritten'
          PROVE  /\ wire' = Append(wire, g)
                 /\ h \in FrameSet /\ h.of = w /\ h.part > g.part /\ h.part \in 1..F
      <3>1. loop' # "write"
            BY <1>2, <1>5
      <3>2. PICK v \in Writes : writer'[v] = "sending" /\ h = (NextOf(v))'
            BY <1>11, <3>1 DEF Unwritten, InWriting
      <3>3. v = w
            BY <1>2, <1>7, <3>2
      <3>4. op'[w].left = op[w].left - 1 /\ op[w].left # 1 /\ wire' = Append(wire, g)
            BY <1>7, <3>2, <3>3
      <3>5. (Channel!FramesOf(w))' = F
            BY <1>5 DEF Channel!FramesOf
      <3>6. h = [of |-> w, part |-> F - op'[w].left + 1, whole |-> TRUE]
            BY <3>2, <3>3, <3>5 DEF NextOf
      <3> HIDE DEF F
      <3>7. PICK k : k = F - op'[w].left + 1
            OBVIOUS
      <3>8. k \in 1..F /\ k > g.part /\ k \in Nat \ {0}
        <4>1. PICK l \in Int : l = op[w].left
              BY <1>3
        <4>2. F - l + 1 \in 1..F /\ g.part = F - l + 1 /\ F \in Nat /\ l # 1 /\ k = F - (l - 1) + 1
              BY <1>3, <3>4, <3>7, <4>1
        <4> QED BY <4>2
      <3>9. h = [of |-> w, part |-> k, whole |-> TRUE]
            BY <3>6, <3>7
      <3> QED BY <3>4, <3>8, <3>9 DEF FrameSet
    <2> QED BY <2>1
  <1>13. BindingFits'
    <2>1. \A v \in Writes : writer'[v] = "sending" <=> mutex' = v
          BY <1>2, <1>7, ChannelAssumption DEF ChannelAssumption
    <2>2. \A p \in Levels : queue'[p] = <<>>
          BY <1>1, <1>5 DEF BindingFits
    <2> QED BY <1>1, <1>2, <1>5, <1>7, <2>1, <2>2 DEF BindingFits
  <1>14. LoopFits'
         BY <1>2, <1>5, <1>11 DEF LoopFits, BindingFits
  <1>15. QueueFits'
    <2>1. \A v \in Writes : writer'[v] # "waiting"
          BY <1>2, <1>7
    <2> QED BY <1>11, <2>1 DEF QueueFits
  <1>16. QueueOrdered'
         BY <1>11 DEF QueueOrdered
  <1>17. EntriesFit'
         BY <1>3, <1>5, <1>6, <1>7, PlacesKept DEF EntriesFit
  <1>18. WireOrdered' /\ ComingFits' /\ ReaderFits'
    <2>1. CASE wire' = wire
      <3>1. Unwritten' = {}
        <4>1. wire # Append(wire, g)
              BY <1>3 DEF ChannelTypes
        <4> QED BY <1>12, <2>1, <4>1
      <3> QED BY <1>5, <2>1, <3>1, LineKeeps
    <2>2. CASE wire' = Append(wire, f)
      <3>1. \A h \in Unwritten' : Precedes(g, h)
            BY <1>3, <1>12 DEF Precedes
      <3> QED BY <1>3, <1>5, <1>8, <1>12, <2>2, <3>1, LinePuts
    <2> QED BY <1>8, <2>1, <2>2
  <1> QED BY <1>9, <1>10, <1>13, <1>14, <1>15, <1>16, <1>17, <1>18

\* The first frame of a queue is taken: the rest of it moves up by one.
LEMMA DequeuedFrame ==
    ASSUME ChannelInv, NEW p \in Levels, queue[p] # <<>>, queue' = [queue EXCEPT ![p] = Tail(@)]
    PROVE  /\ queue' \in [Levels -> Seq(FrameSet)]
           /\ \A r \in Levels : r # p => queue'[r] = queue[r]
           /\ Len(queue[p]) \in Nat \ {0} /\ DOMAIN queue[p] = 1 .. Len(queue[p])
           /\ Head(queue[p]) = queue[p][1] /\ 1 \in DOMAIN queue[p]
           /\ DOMAIN queue'[p] = 1 .. Len(queue[p]) - 1
           /\ \A i \in DOMAIN queue'[p] : i + 1 \in DOMAIN queue[p] /\ queue'[p][i] = queue[p][i + 1]
  <1>1. PICK q \in Seq(FrameSet) : q = queue[p]
        BY DEF ChannelInv, ChannelTypes
  <1>2. /\ Tail(q) \in Seq(FrameSet) /\ Len(q) \in Nat \ {0} /\ DOMAIN q = 1 .. Len(q)
        /\ Head(q) = q[1] /\ 1 \in DOMAIN q
        /\ DOMAIN Tail(q) = 1 .. Len(q) - 1
        /\ \A i \in 1 .. Len(q) - 1 : Tail(q)[i] = q[i + 1]
        BY <1>1
  <1>3. queue \in [Levels -> Seq(FrameSet)]
        BY DEF ChannelInv, ChannelTypes
  <1>4. queue'[p] = Tail(q) /\ \A r \in Levels : r # p => queue'[r] = queue[r]
        BY <1>1, <1>3
  <1>5. queue' \in [Levels -> Seq(FrameSet)]
        BY <1>1, <1>2, <1>3
  <1>6. \A i \in DOMAIN queue'[p] : i + 1 \in DOMAIN q /\ queue'[p][i] = q[i + 1]
        BY <1>2, <1>4
  <1> QED BY <1>1, <1>2, <1>4, <1>5, <1>6

\* The most urgent queue has a frame, if any queue has.
LEMMA UrgentIsPending ==
    ASSUME Channel!Pending # {}
    PROVE  Channel!Urgent \in Levels /\ queue[Channel!Urgent] # <<>>
  BY DEF Channel!Pending, Channel!Urgent, Levels

\* The write loop takes the first frame of its most urgent queue: the next one its write
\* owes.
LEMMA DequeueStep ==
    ASSUME ChannelInv, ChannelAssumption, Channel!Dequeue
    PROVE  ChannelInv'
  <1> USE DEF ChannelInv, Channel!readerVars, Channel!wireVars
  <1>1. /\ UNCHANGED <<binding, writer, entered, ready, mutex, channel, wire, delivered, parts>>
        /\ loop = "pop" /\ ~Busy /\ binding = "tcp"
        BY DEF Channel!Dequeue, Busy, BindingFits
  <1>2. \A v \in Writes : writer'[v] # "sending" /\ writer[v] # "sending"
        BY <1>1 DEF BindingFits
  <1>3. CASE Channel!Pending = {}
    <2>1. UNCHANGED <<queue, current, op>> /\ loop' = "wait"
          BY <1>3 DEF Channel!Dequeue
    <2>2. \A p \in Levels : queue'[p] = <<>>
          BY <1>3, <2>1 DEF Channel!Pending, Levels
    <2>3. ChannelTypes'
          BY <1>1, <2>1 DEF ChannelTypes, Busy
    <2>4. InWriting' \subseteq InWriting
          BY <1>1, <1>2, <2>1, WritingStays
    <2>5. BindingFits' /\ TornFits' /\ LoopFits'
          BY <1>1, <2>1, <2>2 DEF BindingFits, TornFits, LoopFits
    <2>6. EntriesFit'
          BY <1>1, <2>1, PlacesKept DEF EntriesFit
    <2>7. QueueFits'
      <3>1. Busy' = Busy
            BY <1>1, <2>1 DEF Busy
      <3> QED BY <1>1, <2>1, <3>1, QueueKept, PlacesKept DEF QueueFits
    <2> QED BY <1>1, <2>1, <2>3, <2>4, <2>5, <2>6, <2>7, QueueUnmoved, LineKeeps
  <1>4. CASE Channel!Pending # {}
    <2> DEFINE p == Channel!Urgent
               f == Head(queue[p])
               c == f.of
    <2>1. p \in Levels /\ queue[p] # <<>>
          BY <1>4, UrgentIsPending
    <2>2. /\ queue' = [queue EXCEPT ![p] = Tail(@)]
          /\ \/ op[c].finished /\ UNCHANGED <<loop, current, op>>
             \/ /\ ~op[c].finished /\ loop' = "write" /\ current' = f
                /\ op' = [op EXCEPT ![c].active = TRUE]
          BY <1>4 DEF Channel!Dequeue
    <2> HIDE DEF p
    <2>3. /\ queue' \in [Levels -> Seq(FrameSet)]
          /\ \A r \in Levels : r # p => queue'[r] = queue[r]
          /\ Len(queue[p]) \in Nat \ {0} /\ DOMAIN queue[p] = 1 .. Len(queue[p])
          /\ f = queue[p][1] /\ 1 \in DOMAIN queue[p]
          /\ DOMAIN queue'[p] = 1 .. Len(queue[p]) - 1
          /\ \A i \in DOMAIN queue'[p] : i + 1 \in DOMAIN queue[p] /\ queue'[p][i] = queue[p][i + 1]
          BY <2>1, <2>2, DequeuedFrame
    <2> HIDE DEF f
    <2>4. \A i \in DOMAIN queue'[p] : 1 < i + 1 /\ Precedes(f, queue'[p][i])
      <3>1. ASSUME NEW i \in DOMAIN queue'[p]
            PROVE  1 < i + 1 /\ Precedes(f, queue'[p][i])
        <4>1. 1 < i + 1 /\ i + 1 \in DOMAIN queue[p] /\ queue'[p][i] = queue[p][i + 1]
              BY <2>3
        <4> QED BY <2>1, <2>3, <4>1 DEF QueueOrdered
      <3> QED BY <3>1
    <2>5. /\ f \in FrameSet /\ c \in Writes /\ HasEntered(c) /\ f.whole /\ Priority[c] = p
          /\ f.part \in 1..Channel!FramesOf(c) /\ f \in InQueue /\ Channel!FramesOf(c) \in Nat
      <3>1. f \in FrameSet /\ f \in InQueue
        <4>1. queue[p] \in Seq(FrameSet)
              BY <2>1 DEF ChannelTypes
        <4>2. queue[p][1] \in FrameSet
              BY <2>3, <4>1
        <4> QED BY <2>1, <2>3, <4>2 DEF InQueue
      <3>2. HasEntered(c)
            BY <3>1 DEF ComingFits, Coming, Unwritten
      <3>3. c \in Writes
            BY <3>1 DEF FrameSet
      <3>4. Channel!FramesOf(c) \in Nat
            BY <3>3, ChannelAssumption DEF ChannelAssumption, Channel!FramesOf
      <3> QED BY <2>1, <2>3, <3>1, <3>2, <3>3, <3>4 DEF QueueFits
    <2>6. /\ op' \in [Writes -> OpSet]
          /\ \A v \in Writes : op'[v].left = op[v].left /\ op'[v].finished = op[v].finished
      <3>1. op \in [Writes -> OpSet] /\ op[c] \in OpSet
            BY <2>5 DEF ChannelTypes
      <3>2. PICK o : o = [op[c] EXCEPT !.active = TRUE]
            OBVIOUS
      <3>3. o \in OpSet /\ o.left = op[c].left /\ o.finished = op[c].finished
            BY <3>1, <3>2 DEF OpSet
      <3>4. op' = op \/ op' = [op EXCEPT ![c] = o]
            BY <2>2, <3>1, <3>2
      <3> HIDE DEF c
      <3> QED BY <2>5, <3>1, <3>3, <3>4
    <2>7. ChannelTypes'
          BY <1>1, <2>2, <2>3, <2>5, <2>6 DEF ChannelTypes, Busy
    <2>8. InQueue' \subseteq InQueue
      <3>1. ASSUME NEW r \in Levels, NEW i \in DOMAIN queue'[r]
            PROVE  queue'[r][i] \in InQueue
        <4>1. \E j \in DOMAIN queue[r] : queue'[r][i] = queue[r][j]
          <5>1. CASE r = p
                BY <2>3, <5>1
          <5>2. CASE r # p
                BY <2>3, <5>2
          <5> QED BY <5>1, <5>2
        <4> QED BY <4>1 DEF InQueue
      <3> QED BY <3>1 DEF InQueue
    <2>9. InWriting' \subseteq {f} /\ (InWriting' # {} => loop' = "write")
          BY <1>1, <1>2, <2>2 DEF InWriting
    <2>10. Unwritten' \subseteq Unwritten
           BY <2>5, <2>8, <2>9 DEF Unwritten
    <2>11. WireOrdered' /\ ComingFits' /\ ReaderFits'
           BY <1>1, <2>10, LineKeeps
    <2>12. TornFits' /\ LoopFits'
           BY <1>1, <2>2 DEF TornFits, LoopFits
    <2>13. BindingFits'
           BY <1>1, <2>2 DEF BindingFits
    <2>14. EntriesFit'
           BY <1>1, <2>6, PlacesKept DEF EntriesFit
    <2>15. \A r \in Levels : \A i \in DOMAIN queue'[r] : \E j \in DOMAIN queue[r] : queue'[r][i] = queue[r][j]
      <3>1. ASSUME NEW r \in Levels, NEW i \in DOMAIN queue'[r]
            PROVE  \E j \in DOMAIN queue[r] : queue'[r][i] = queue[r][j]
        <4>1. CASE r = p
              BY <2>3, <4>1
        <4>2. CASE r # p
              BY <2>3, <4>2
        <4> QED BY <4>1, <4>2
      <3> QED BY <3>1
    <2>16. QueueOrdered'
      <3>1. ASSUME NEW r \in Levels, NEW i \in DOMAIN queue'[r], NEW j \in DOMAIN queue'[r], i < j
            PROVE  Precedes(queue'[r][i], queue'[r][j])
        <4>1. CASE r # p
              BY <2>3, <3>1, <4>1 DEF QueueOrdered
        <4>2. CASE r = p
          <5>1. /\ i + 1 \in DOMAIN queue[p] /\ queue'[p][i] = queue[p][i + 1]
                /\ j + 1 \in DOMAIN queue[p] /\ queue'[p][j] = queue[p][j + 1]
                /\ i + 1 < j + 1
                BY <2>3, <3>1, <4>2
          <5> QED BY <2>1, <4>2, <5>1 DEF QueueOrdered
        <4> QED BY <4>1, <4>2
      <3>2. ASSUME NEW h \in InWriting', NEW g \in InQueue', Alike(h.of, g.of)
            PROVE  Precedes(h, g)
        <4>1. h = f
              BY <2>9
        <4>2. PICK r \in Levels : \E i \in DOMAIN queue'[r] : g = queue'[r][i]
              BY DEF InQueue
        <4>3. PICK i \in DOMAIN queue'[r] : g = queue'[r][i]
              BY <4>2
        <4>4. Priority[g.of] = r
              BY <2>15, <4>3 DEF QueueFits
        <4>5. r = p
              BY <1>1, <2>5, <3>2, <4>1, <4>4 DEF Alike
        <4> QED BY <2>4, <4>1, <4>3, <4>5
      <3> QED BY <1>1, <3>1, <3>2, PlacesKept DEF QueueOrdered
    <2>17. QueueFits'
      <3>1. \A r \in Levels : \A i \in DOMAIN queue'[r] :
               /\ Priority[queue'[r][i].of] = r
               /\ queue'[r][i].whole
               /\ queue'[r][i].part \in 1..Channel!FramesOf(queue'[r][i].of)
            BY <2>15 DEF QueueFits
      <3>2. Busy' => loop' = "write" /\ current' = f
            BY <1>1, <2>2 DEF Busy
      <3>3. \A v : (InHandOf(v))' = (loop' = "write" /\ v = c) /\ ~InHandOf(v)
            BY <1>1, <2>2, <3>2 DEF InHandOf, Busy
      <3>4. ASSUME NEW v \in Writes, v # c
            PROVE  (Rest(v))' = Rest(v)
        <4>1. CASE Priority[v] # p
              BY <2>3, <4>1, ChannelAssumption DEF Rest, ChannelAssumption, Levels
        <4>2. CASE Priority[v] = p
          <5>1. \A i \in DOMAIN queue'[p] : \E j \in DOMAIN queue[p] : queue'[p][i] = queue[p][j]
                BY <2>1, <2>15
          <5>2. ASSUME NEW j \in DOMAIN queue[p], queue[p][j].of = v
                PROVE  \E i \in DOMAIN queue'[p] : queue'[p][i] = queue[p][j]
            <6>1. j # 1
                  BY <2>3, <3>4, <5>2
            <6>2. j - 1 \in DOMAIN queue'[p] /\ j - 1 + 1 = j
                  BY <2>3, <6>1
            <6> QED BY <2>3, <6>2
          <5> QED BY <4>2, <5>1, <5>2 DEF Rest
        <4> QED BY <4>1, <4>2
      <3>5. ASSUME NEW v \in Writes, writer[v] = "waiting", ~op[v].finished, channel = "open"
            PROVE  /\ op[v].left \in 1..Channel!FramesOf(v)
                   /\ (InHandOf(v))' => current'.part = Channel!FramesOf(v) - op[v].left + 1
                   /\ (Rest(v))' = IF (InHandOf(v))' THEN Channel!FramesOf(v) - op[v].left + 2 .. Channel!FramesOf(v)
                                   ELSE Channel!FramesOf(v) - op[v].left + 1 .. Channel!FramesOf(v)
        <4>1. /\ op[v].left \in 1..Channel!FramesOf(v)
              /\ Rest(v) = Channel!FramesOf(v) - op[v].left + 1 .. Channel!FramesOf(v)
              BY <3>3, <3>5 DEF QueueFits
        <4>2. CASE v # c
              BY <3>3, <3>4, <4>1, <4>2
        <4>3. CASE v = c
          <5> DEFINE F == Channel!FramesOf(v)
                     k == F - op[v].left + 1
          <5>1. loop' = "write" /\ current' = f /\ (InHandOf(v))'
                BY <2>2, <3>3, <3>5, <4>3
          <5>2. F \in Nat /\ op[v].left \in 1..F /\ k \in 1..F /\ Rest(v) = k..F
                BY <2>5, <4>1, <4>3
          <5>3. F - op[v].left + 2 = k + 1
                BY <5>2
          <5> HIDE DEF k, F
          <5>4. Rest(v) = {queue[p][j].part : j \in {i \in DOMAIN queue[p] : queue[p][i].of = v}}
                BY <2>5, <4>3 DEF Rest
          <5>5. ~Earlier(v, v)
                BY DEF EntriesFit, Earlier, ChannelTypes
          <5>6. \A i \in DOMAIN queue'[p] : queue'[p][i].of = v => f.part < queue'[p][i].part
                BY <2>4, <4>3, <5>5 DEF Precedes
          <5>7. ASSUME NEW j \in DOMAIN queue[p], queue[p][j].of = v, j # 1
                PROVE  \E i \in DOMAIN queue'[p] : queue'[p][i] = queue[p][j]
            <6>1. j - 1 \in DOMAIN queue'[p] /\ j - 1 + 1 = j
                  BY <2>3, <5>7
            <6> QED BY <2>3, <6>1
          <5>8. f.part = k
            <6>1. f.part \in Rest(v) /\ k \in Rest(v)
              <7>1. queue[p][1].of = v /\ queue[p][1].part = f.part
                    BY <2>3, <4>3
              <7>2. k \in k..F
                    BY <5>2
              <7> QED BY <2>3, <5>2, <5>4, <7>1, <7>2
            <6>2. f.part \in k..F
                  BY <5>2, <6>1
            <6>3. PICK j \in DOMAIN queue[p] : queue[p][j].of = v /\ queue[p][j].part = k
                  BY <5>4, <6>1
            <6>4. CASE j = 1
                  BY <2>3, <6>3, <6>4
            <6>5. CASE j # 1
              <7>1. f.part < k
                    BY <5>6, <5>7, <6>3, <6>5
              <7> QED BY <5>2, <6>2, <7>1
            <6> QED BY <6>4, <6>5
          <5>9. (Rest(v))' = {queue'[p][j].part : j \in {i \in DOMAIN queue'[p] : queue'[p][i].of = v}}
                BY <2>5, <4>3 DEF Rest
          <5>10. ASSUME NEW m \in (Rest(v))'
                 PROVE  m \in k + 1 .. F
            <6>1. PICK i \in DOMAIN queue'[p] : queue'[p][i].of = v /\ queue'[p][i].part = m
                  BY <5>9
            <6>2. k < m
                  BY <5>6, <5>8, <6>1
            <6>3. PICK j \in DOMAIN queue[p] : queue'[p][i] = queue[p][j]
                  BY <2>1, <2>15
            <6>4. m \in Rest(v)
                  BY <5>4, <6>1, <6>3
            <6> QED BY <5>2, <6>2, <6>4
          <5>11. ASSUME NEW m \in k + 1 .. F
                 PROVE  m \in (Rest(v))'
            <6>1. m \in k..F /\ m # k
                  BY <5>2
            <6>2. PICK j \in DOMAIN queue[p] : queue[p][j].of = v /\ queue[p][j].part = m
              <7>1. m \in Rest(v)
                    BY <5>2, <6>1
              <7> QED BY <5>4, <7>1
            <6>3. j # 1
                  BY <2>3, <5>8, <6>1, <6>2
            <6> QED BY <5>7, <5>9, <6>2, <6>3
          <5>12. (Rest(v))' = k + 1 .. F
                 BY <5>10, <5>11
          <5> QED BY <4>3, <5>1, <5>2, <5>3, <5>8, <5>12 DEF k, F
        <4> QED BY <4>2, <4>3
      <3>6. Busy' => /\ HasEntered(current'.of) /\ current'.whole
                     /\ current'.part \in 1..Channel!FramesOf(current'.of)
            BY <2>5, <3>2
      <3>7. \A v : (Channel!FramesOf(v))' = Channel!FramesOf(v) /\ ((HasEntered(v))' <=> HasEntered(v))
            BY <1>1 DEF Channel!FramesOf, HasEntered
      <3>8. Busy' => (HasEntered(current.of))'
            BY <1>1, <3>6 DEF HasEntered
      <3> QED BY <1>1, <2>6, <3>1, <3>5, <3>6, <3>7, <3>8 DEF QueueFits
    <2> QED BY <2>7, <2>11, <2>12, <2>13, <2>14, <2>16, <2>17
  <1> QED BY <1>3, <1>4

\* Every step of the channel keeps the invariant.
LEMMA ChannelSteps ==
    ASSUME ChannelInv, ChannelAssumption, Channel!Next
    PROVE  ChannelInv'
  <1>1. CASE \E w \in Writes :
                \/ Channel!ContextEnds(w) \/ Channel!StartWrite(w) \/ Channel!Enqueue(w)
                \/ Channel!Return(w) \/ Channel!Watch(w)
                \/ Channel!Lock(w) \/ Channel!SendFrame(w) \/ Channel!SendTimesOut(w)
                \/ Channel!CancelStream(w) \/ Channel!SendFails(w)
    <2>1. PICK w \in Writes :
                \/ Channel!ContextEnds(w) \/ Channel!StartWrite(w) \/ Channel!Enqueue(w)
                \/ Channel!Return(w) \/ Channel!Watch(w)
                \/ Channel!Lock(w) \/ Channel!SendFrame(w) \/ Channel!SendTimesOut(w)
                \/ Channel!CancelStream(w) \/ Channel!SendFails(w)
          BY <1>1
    <2>2. CASE Channel!ContextEnds(w) \/ Channel!CancelStream(w)
          BY <2>2, ReaderSteps
    <2>3. CASE Channel!StartWrite(w) \/ Channel!Return(w)
          BY <2>3, CallerSteps
    <2>4. CASE Channel!Enqueue(w)
          BY <2>4, EnqueueStep
    <2>5. CASE Channel!Watch(w)
          BY <2>5, WatchStep
    <2>6. CASE Channel!Lock(w)
          BY <2>6, LockStep
    <2>7. CASE Channel!SendFrame(w) \/ Channel!SendTimesOut(w) \/ Channel!SendFails(w)
          BY <2>7, SendSteps
    <2> QED BY <2>1, <2>2, <2>3, <2>4, <2>5, <2>6, <2>7
  <1>2. CASE Channel!Wake
        BY <1>2, WakeStep
  <1>3. CASE Channel!Dequeue
        BY <1>3, DequeueStep
  <1>4. CASE Channel!WriteFrame \/ Channel!WriteFails
        BY <1>4, WriteSteps
  <1>5. CASE Channel!MarkIdle
        BY <1>5, MarkStep
  <1>6. CASE Channel!CompleteFragment
        BY <1>6, CompleteStep
  <1>7. CASE Channel!FailPending
        BY <1>7, FailStep
  <1>8. CASE Channel!CloseStream
        BY <1>8, CloseStep
  <1>9. CASE Channel!ReadFrame \/ Channel!ReadFails
        BY <1>9, ReaderSteps
  <1> QED BY <1>1, <1>2, <1>3, <1>4, <1>5, <1>6, <1>7, <1>8, <1>9 DEF Channel!Next

\* A channel at rest satisfies it.
LEMMA ChannelStarts ==
    ASSUME ChannelAssumption, Channel!Init
    PROVE  ChannelInv
  <1> USE DEF Channel!Init
  <1>1. /\ entered = <<>> /\ wire = <<>> /\ delivered = <<>> /\ parts = <<>>
        /\ DOMAIN entered = {} /\ DOMAIN wire = {} /\ DOMAIN delivered = {} /\ DOMAIN parts = {}
        /\ entered \in Seq(Writes) /\ wire \in Seq(FrameSet) /\ delivered \in Seq(Writes)
        OBVIOUS
  <1>2. queue \in [Levels -> Seq(FrameSet)] /\ \A p \in Levels : queue[p] = <<>> /\ DOMAIN queue[p] = {}
        BY DEF Levels
  <1>3. ~Busy /\ loop = "wait" /\ \A w \in Writes : writer[w] = "idle" /\ mutex # w
        BY ChannelAssumption DEF Busy, ChannelAssumption
  <1>4. \A w \in Writes : op[w].left = Channel!FramesOf(w) /\ Channel!FramesOf(w) \in Int
        BY ChannelAssumption DEF ChannelAssumption, Channel!FramesOf
  <1>5. op \in [Writes -> OpSet]
        BY <1>4 DEF OpSet
  <1>6. ChannelTypes
        BY <1>1, <1>2, <1>3, <1>5 DEF ChannelTypes
  <1>7. BindingFits /\ LoopFits /\ TornFits
        BY <1>1, <1>2, <1>3 DEF BindingFits, LoopFits, TornFits
  <1>8. EntriesFit
        BY <1>1, <1>3, <1>4 DEF EntriesFit, HasEntered
  <1>9. QueueFits
        BY <1>2, <1>3 DEF QueueFits
  <1>10. Unwritten = {} /\ InWriting = {} /\ InQueue = {} /\ Coming = {}
         BY <1>1, <1>2, <1>3 DEF Unwritten, InWriting, InQueue, Coming
  <1>11. QueueOrdered /\ WireOrdered /\ ComingFits /\ ReaderFits
         BY <1>1, <1>2, <1>10 DEF QueueOrdered, WireOrdered, ComingFits, ReaderFits
  <1> QED BY <1>6, <1>7, <1>8, <1>9, <1>11 DEF ChannelInv

\* The inductive invariant of the control channel.
THEOREM ChannelSafe == Channel!Spec => []ChannelInv
  <1>1. Channel!Init => ChannelInv
        BY ChannelStarts, ChannelAssumption
  <1>2. ChannelInv /\ [Channel!Next]_Channel!vars => ChannelInv'
    <2>1. ASSUME ChannelInv, UNCHANGED Channel!vars
          PROVE  ChannelInv'
      <3>1. UNCHANGED <<binding, writer, op, entered, queue, ready, loop, current, mutex, channel,
                        wire, delivered, parts>>
            BY <2>1 DEF Channel!vars, Channel!senderVars, Channel!tcpVars, Channel!wireVars,
                        Channel!readerVars
      <3>2. wire' \in Seq(FrameSet) /\ delivered' \in Seq(Writes)
            BY <2>1, <3>1 DEF ChannelInv, ChannelTypes
      <3>3. TornFits'
            BY <2>1, <3>1 DEF ChannelInv, TornFits
      <3> QED BY <2>1, <3>1, <3>2, <3>3, LineKeeps, WritesKept DEF ChannelInv
    <2> QED BY <2>1, ChannelSteps, ChannelAssumption
  <1> QED BY <1>1, <1>2, PTL DEF Channel!Spec

\* A place that comes earlier has the smaller number.
LEMMA EarlierPosition ==
    ASSUME ChannelInv, NEW v, NEW w, Earlier(v, w)
    PROVE  Channel!Position(v) < Channel!Position(w)
  <1>1. PICK i, j \in DOMAIN entered : i < j /\ entered[i] = v /\ entered[j] = w
        BY DEF Earlier
  <1>2. Channel!Position(v) = i
        BY <1>1 DEF Channel!Position, ChannelInv, EntriesFit
  <1>3. Channel!Position(w) = j
        BY <1>1 DEF Channel!Position, ChannelInv, EntriesFit
  <1> QED BY <1>1, <1>2, <1>3

LEMMA ChannelInOrder ==
    ASSUME ChannelInv
    PROVE  InOrder
  <1>1. \A d, e \in DOMAIN delivered :
           d < e /\ (Priority[delivered[d]] = Priority[delivered[e]] \/ binding # "tcp") =>
              Channel!Position(delivered[d]) < Channel!Position(delivered[e])
    <2>1. ASSUME NEW d \in DOMAIN delivered, NEW e \in DOMAIN delivered, d < e,
                 Priority[delivered[d]] = Priority[delivered[e]] \/ binding # "tcp"
          PROVE  Channel!Position(delivered[d]) < Channel!Position(delivered[e])
      <3>1. Earlier(delivered[d], delivered[e])
            BY <2>1 DEF ChannelInv, ReaderFits, Alike
      <3> QED BY <3>1, EarlierPosition
    <2> QED BY <2>1
  <1>2. Channel!TornIsLast
        BY DEF ChannelInv, TornFits, Channel!TornIsLast
  <1> QED BY <1>1, <1>2 DEF InOrder, Channel!InOrder

LEMMA ChannelNoLostWrite ==
    ASSUME ChannelInv, ChannelAssumption
    PROVE  NoLostWrite
  <1> USE DEF ChannelInv
  <1>1. ASSUME NEW w \in Writes, writer[w] = "waiting", Channel!Answer(w) = {}
        PROVE  /\ loop # "ended" /\ (loop = "wait" => ready = 1)
               /\ \E k \in 1..Channel!FramesOf(w) :
                     \/ loop \in {"write", "wrote", "marked"} /\ current = Channel!Frames(w)[k]
                     \/ \E j \in DOMAIN queue[Priority[w]] : queue[Priority[w]][j] = Channel!Frames(w)[k]
    <2> DEFINE F == Channel!FramesOf(w)
               k == F - op[w].left + 1
               q == queue[Priority[w]]
    <2>1. channel = "open" /\ ~op[w].finished
      <3>1. "failed" \notin Channel!Answer(w) /\ "sent" \notin Channel!Answer(w)
            BY <1>1
      <3>2. op[w].err \in BOOLEAN
            BY DEF ChannelTypes, OpSet
      <3> QED BY <3>1, <3>2 DEF Channel!Answer
    <2>2. /\ op[w].left \in 1..F
          /\ InHandOf(w) => current.part = k
          /\ Rest(w) = IF InHandOf(w) THEN F - op[w].left + 2 .. F ELSE k .. F
          BY <1>1, <2>1 DEF QueueFits
    <2>3. F \in Nat /\ k \in 1..F /\ k \in k..F
      <3>1. F \in Nat
            BY ChannelAssumption DEF ChannelAssumption, Channel!FramesOf
      <3> QED BY <2>2, <3>1
    <2>4. Channel!Frames(w)[k] = [of |-> w, part |-> k, whole |-> TRUE]
          BY <2>3 DEF Channel!Frames
    <2>5. Priority[w] \in Levels
          BY ChannelAssumption DEF ChannelAssumption, Levels
    <2> HIDE DEF k, F
    <2>6. loop # "ended"
          BY <2>1 DEF LoopFits
    <2>7. CASE InHandOf(w)
      <3>1. Busy /\ current \in FrameSet /\ current.of = w /\ current.part = k /\ current.whole
            BY <2>2, <2>7 DEF InHandOf, ChannelTypes, QueueFits
      <3>2. current = [of |-> w, part |-> k, whole |-> TRUE]
            BY <3>1 DEF FrameSet
      <3> QED BY <2>3, <2>4, <2>6, <3>1, <3>2 DEF Busy, F
    <2>8. CASE ~InHandOf(w)
      <3>1. k \in Rest(w)
            BY <2>2, <2>3, <2>8
      <3>2. PICK j \in DOMAIN q : q[j].of = w /\ q[j].part = k
            BY <3>1 DEF Rest
      <3>3. q[j].whole /\ q[j] \in FrameSet
            BY <2>5, <3>2 DEF QueueFits, ChannelTypes
      <3>4. q[j] = [of |-> w, part |-> k, whole |-> TRUE]
            BY <3>2, <3>3 DEF FrameSet
      <3>5. loop = "wait" => ready = 1
        <4>1. q # <<>>
              BY <3>2
        <4> QED BY <2>5, <4>1 DEF LoopFits, ChannelTypes
      <3> QED BY <2>3, <2>4, <2>6, <3>2, <3>4, <3>5 DEF F
    <2> QED BY <2>7, <2>8
  <1> QED BY <1>1 DEF NoLostWrite, Channel!NoLostWrite

(***************************************************************************)
(* The transport.                                                          *)
(***************************************************************************)
\* A behaviour of the transport is one of its pool and one of its channel.
THEOREM TransportRuns == TransportSpec => Spec /\ Channel!Spec
  <1>1. TransportInit => Init /\ Channel!Init
        BY DEF TransportInit
  <1>2. [TransportNext]_allVars => [Next]_vars /\ [Channel!Next]_Channel!vars
    <2> USE DEF allVars, channelVars, Channel!vars, Channel!senderVars, Channel!tcpVars,
                Channel!wireVars, Channel!readerVars
    <2>1. UNCHANGED channelVars => UNCHANGED Channel!vars
          OBVIOUS
    <2>2. UNCHANGED allVars => UNCHANGED vars /\ UNCHANGED channelVars
          OBVIOUS
    <2> QED BY <2>1, <2>2 DEF TransportNext
  <1> QED BY <1>1, <1>2, PTL DEF TransportSpec, Spec, Channel!Spec

\* Messages arrive in order.
THEOREM TransportInOrder == TransportSpec => []InOrder
  <1>1. ChannelInv => InOrder
        BY ChannelInOrder
  <1> QED BY <1>1, TransportRuns, ChannelSafe, PTL

\* No writer waits for nothing.
THEOREM TransportNoLostWrite == TransportSpec => []NoLostWrite
  <1>1. ChannelInv => NoLostWrite
        BY ChannelNoLostWrite, ChannelAssumption
  <1> QED BY <1>1, TransportRuns, ChannelSafe, PTL

=============================================================================
