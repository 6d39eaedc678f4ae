------------------------- MODULE BridgeIngress_proofs -------------------------
(***************************************************************************)
(* Proofs about the Bridge's ingress: the resolver (RouteResolver), for any *)
(* lookups, instances and sessions, any route tables and policies, and an   *)
(* affinity table of any size; the endpoint cache (DirectProxy), for any    *)
(* requests, targets and ages; the table of owners (TrafficOwnership), for  *)
(* any traffics and a table of any size; and the calls (IngressProxy), for  *)
(* any calls of any kinds and any numbers of attempts.                      *)
(***************************************************************************)
EXTENDS BridgeIngress, FiniteSetTheorems, SequenceTheorems, WellFoundedInduction, TLAPS

(***************************************************************************)
(* The order of the candidates.                                            *)
(***************************************************************************)
\* A nonempty set of natural numbers has a least one.
LEMMA LeastNumber ==
    ASSUME NEW S \in SUBSET Nat, S # {}
    PROVE  \E n \in S : \A m \in S : n <= m
  <1>1. PICK n \in S : \A m \in S : ~(<<m, n>> \in OpToRel(<, Nat))
        BY NatLessThanWellFounded, WFMin
  <1>2. ASSUME NEW m \in S, m < n
        PROVE  FALSE
        BY <1>1, <1>2 DEF OpToRel
  <1> QED BY <1>2

\* A finite set with a transitive relation between any two of its elements has a first
\* one.
LEMMA FirstExists ==
    ASSUME NEW S, IsFiniteSet(S), S # {}, NEW R,
           \A x, y \in S : x # y => <<x, y>> \in R \/ <<y, x>> \in R,
           \A x, y, z \in S : <<x, y>> \in R /\ <<y, z>> \in R => <<x, z>> \in R
    PROVE  \E x \in S : \A y \in S \ {x} : <<x, y>> \in R
  <1> DEFINE Has(T) == \E x \in T : \A y \in T \ {x} : <<x, y>> \in R
             Bad == {T \in SUBSET S : T # {} /\ ~Has(T)}
             Sizes == {Cardinality(T) : T \in Bad}
  <1> SUFFICES ASSUME Bad # {} PROVE FALSE
      OBVIOUS
  <1>1. \A T \in SUBSET S : IsFiniteSet(T) /\ Cardinality(T) \in Nat
        BY FS_Subset, FS_CardinalityType
  <1>2. PICK T \in Bad : \A U \in Bad : Cardinality(T) <= Cardinality(U)
    <2>1. Sizes \in SUBSET Nat /\ Sizes # {}
          BY <1>1
    <2>2. PICK n \in Sizes : \A m \in Sizes : n <= m
          BY <2>1, LeastNumber
    <2> QED BY <2>2
  <1>3. PICK x : x \in T
        OBVIOUS
  <1>4. T \in SUBSET S /\ T \ {x} \in SUBSET S /\ Cardinality(T \ {x}) < Cardinality(T)
    <2>1. IsFiniteSet(T) /\ Cardinality(T) \in Nat
          BY <1>1
    <2>2. Cardinality(T \ {x}) = Cardinality(T) - 1
          BY <1>3, <2>1, FS_RemoveElement
    <2> QED BY <2>1, <2>2
  <1>5. T \ {x} \notin Bad
    <2>1. T \ {x} \in Bad => Cardinality(T) <= Cardinality(T \ {x})
          BY <1>2
    <2>2. Cardinality(T) \in Nat /\ Cardinality(T \ {x}) \in Nat
          BY <1>1, <1>4
    <2> HIDE DEF Bad
    <2> QED BY <1>4, <2>1, <2>2
  <1>6. T \ {x} # {}
        BY <1>3
  <1>7. PICK y \in T \ {x} : \A z \in (T \ {x}) \ {y} : <<y, z>> \in R
        BY <1>4, <1>5, <1>6
  <1>8. CASE <<x, y>> \in R
    <2>1. \A z \in T \ {x} : <<x, z>> \in R
          BY <1>3, <1>7, <1>8
    <2> QED BY <1>3, <2>1
  <1>9. CASE <<y, x>> \in R
    <2>1. \A z \in T \ {y} : <<y, z>> \in R
          BY <1>3, <1>7, <1>9
    <2> QED BY <1>7, <2>1
  <1> QED BY <1>3, <1>7, <1>8, <1>9

\* The route table is finite, its routes are numbers, and a route's score is a number.
LEMMA Routes ==
    ASSUME config \in Configs
    PROVE  /\ DOMAIN config.route \in SUBSET Int /\ IsFiniteSet(DOMAIN config.route)
           /\ \A r \in DOMAIN config.route :
                 /\ Route(r).priority \in Int
                 /\ Route(r).kind \in {"connector", "external"}
                 /\ Score(r) \in Int
  <1>1. /\ DOMAIN config.route \in SUBSET Int /\ IsFiniteSet(DOMAIN config.route)
        /\ \A r \in DOMAIN config.route :
              /\ Route(r).priority \in Int
              /\ Route(r).kind \in {"connector", "external"}
              /\ IsFiniteSet(Route(r).match)
        BY ConfigAssumption DEF Route
  <1>2. ASSUME NEW r \in DOMAIN config.route
        PROVE  Score(r) \in Int
    <2> DEFINE asked(w) == {c \in Route(r).match : Weight(c) = w}
    <2>1. \A w : Cardinality(asked(w)) \in Nat
      <3> SUFFICES ASSUME NEW w PROVE Cardinality(asked(w)) \in Nat
          OBVIOUS
      <3>1. asked(w) \in SUBSET Route(r).match /\ IsFiniteSet(Route(r).match)
            BY <1>1
      <3> QED BY <3>1, FS_Subset, FS_CardinalityType
    <2> HIDE DEF asked
    <2>2. /\ Cardinality(asked(10)) \in Nat /\ Cardinality(asked(8)) \in Nat
          /\ Cardinality(asked(6)) \in Nat /\ Cardinality(asked(5)) \in Nat
          BY <2>1
    <2>3. Score(r) = 10 * Cardinality(asked(10)) + 8 * Cardinality(asked(8))
                     + 6 * Cardinality(asked(6)) + 5 * Cardinality(asked(5))
          BY DEF Score, asked
    <2> QED BY <2>2, <2>3
  <1> QED BY <1>1, <1>2

\* A place in a chain is a positive number.
LEMMA Indexes ==
    ASSUME config \in Configs, NEW q \in Lookups, NEW r \in DOMAIN config.route
    PROVE  ScopeIndex(q, r) \in Nat \ {0}
  <1> DEFINE s == EffectiveScope(q, r)
             tail == IF Policy(s).enabled THEN Policy(s).chain ELSE <<>>
             chain == ScopeChain(s)
             before == {n \in DOMAIN chain : \A m \in 1..n : chain[m] # Route(r).scope}
             scopes == {chain[n] : n \in before}
  <1>1. s.namespace \in DOMAIN config.policy
        BY ConfigAssumption, ResolverAssumption DEF EffectiveScope, Route, Request
  <1>2. Policy(s).chain \in Seq(Range(Policy(s).chain))
        BY <1>1, ConfigAssumption DEF Policy
  <1> HIDE DEF s
  <1>3. PICK S : chain \in Seq(S)
    <2>1. tail \in Seq(Range(Policy(s).chain) \cup {s}) /\ <<s>> \in Seq(Range(Policy(s).chain) \cup {s})
          BY <1>2
    <2>2. chain \in Seq(Range(Policy(s).chain) \cup {s})
          BY <2>1 DEF ScopeChain
    <2> QED BY <2>2
  <1> HIDE DEF chain
  <1>4. IsFiniteSet(before)
    <2>1. before \in SUBSET (1 .. Len(chain)) /\ Len(chain) \in Nat
          BY <1>3
    <2>2. IsFiniteSet(1 .. Len(chain))
          BY <2>1, FS_Interval
    <2> QED BY <2>1, <2>2, FS_Subset
  <1> HIDE DEF before
  <1>5. IsFiniteSet(scopes)
    <2>1. [n \in before |-> chain[n]] \in Surjection(before, scopes)
          BY DEF Surjection
    <2> QED BY <1>4, <2>1, FS_Surjection
  <1>6. Cardinality(scopes) \in Nat
        BY <1>5, FS_CardinalityType
  <1> QED BY <1>6 DEF ScopeIndex, s, chain, before

\* Of two routes one is before the other, never both.
LEMMA BeforeOrders ==
    ASSUME config \in Configs, NEW q \in Lookups,
           NEW r \in DOMAIN config.route, NEW s \in DOMAIN config.route
    PROVE  /\ r # s => Before(q, r, s) \/ Before(q, s, r)
           /\ ~(Before(q, r, s) /\ Before(q, s, r))
           /\ ~(Better(r, s) /\ Better(s, r))
           /\ \A t \in DOMAIN config.route :
                 Before(q, r, s) /\ Before(q, s, t) => Before(q, r, t)
  <1> USE Routes
  <1>1. \A x \in DOMAIN config.route : ScopeIndex(q, x) \in Nat
        BY Indexes
  <1> DEFINE i(x) == ScopeIndex(q, x)
             p(x) == Route(x).priority
             c(x) == Score(x)
  <1>2. \A x \in DOMAIN config.route : x \in Int /\ i(x) \in Int /\ p(x) \in Int /\ c(x) \in Int
        BY <1>1
  <1>3. /\ r # s => Before(q, r, s) \/ Before(q, s, r)
        /\ ~(Before(q, r, s) /\ Before(q, s, r))
        /\ ~(Better(r, s) /\ Better(s, r))
        BY <1>2 DEF Before, Better
  <1>4. ASSUME NEW t \in DOMAIN config.route, Before(q, r, s), Before(q, s, t)
        PROVE  Before(q, r, t)
        BY <1>2, <1>4 DEF Before, Better
  <1> QED BY <1>3, <1>4

\* The first of some routes is one of them, and before all others.
LEMMA FirstIsFirst ==
    ASSUME config \in Configs, NEW q \in Lookups,
           NEW rs \in SUBSET DOMAIN config.route, rs # {}
    PROVE  /\ First(q, rs) \in rs
           /\ \A s \in rs \ {First(q, rs)} : Before(q, First(q, rs), s)
  <1> DEFINE R == {p \in rs \X rs : Before(q, p[1], p[2])}
  <1>1. \A x, y \in rs : <<x, y>> \in R <=> Before(q, x, y)
        OBVIOUS
  <1>2. IsFiniteSet(rs)
        BY Routes, FS_Subset
  <1>3. \A x, y \in rs : x # y => <<x, y>> \in R \/ <<y, x>> \in R
        BY <1>1, BeforeOrders
  <1>4. \A x, y, z \in rs : <<x, y>> \in R /\ <<y, z>> \in R => <<x, z>> \in R
        BY <1>1, BeforeOrders
  <1> HIDE DEF R
  <1>5. \E x \in rs : \A y \in rs \ {x} : <<x, y>> \in R
        BY <1>2, <1>3, <1>4, FirstExists
  <1>6. \E x \in rs : \A y \in rs \ {x} : Before(q, x, y)
        BY <1>1, <1>5
  <1> QED BY <1>6 DEF First

\* What only the configuration says stays as it is.
LEMMA ConfigStays ==
    ASSUME config \in Configs, config' = config, NEW q \in Lookups
    PROVE  /\ \A r : Route(r)' = Route(r)
           /\ \A r \in DOMAIN config.route : ScopeIndex(q, r)' = ScopeIndex(q, r)
           /\ \A rs \in SUBSET DOMAIN config.route : rs # {} => First(q, rs)' = First(q, rs)
  <1>1. \A r : Route(r)' = Route(r)
        BY DEF Route
  <1>2. ASSUME NEW r
        PROVE  EffectiveScope(q, r)' = EffectiveScope(q, r)
        BY <1>1 DEF EffectiveScope, Request
  <1>3. ASSUME NEW r
        PROVE  ScopeIndex(q, r)' = ScopeIndex(q, r)
    <2>1. PICK chain : chain = ScopeChain(EffectiveScope(q, r))
          OBVIOUS
    <2>2. ScopeChain(EffectiveScope(q, r))' = chain
      <3>1. PICK s : s = EffectiveScope(q, r) /\ s = EffectiveScope(q, r)'
            BY <1>2
      <3>2. chain = ScopeChain(s)
            BY <2>1, <3>1
      <3> QED BY <3>1, <3>2, Zenon DEF ScopeChain, Policy
    <2>3. PICK scope : scope = Route(r).scope /\ scope = Route(r)'.scope
          BY <1>1
    <2> DEFINE before == {n \in DOMAIN chain : \A m \in 1..n : chain[m] # scope}
    <2>4. ScopeIndex(q, r) = Cardinality({chain[n] : n \in before}) + 1
          BY <2>1, <2>3, Zenon DEF ScopeIndex
    <2>5. ScopeIndex(q, r)' = Cardinality({chain[n] : n \in before}) + 1
          BY <2>2, <2>3, Zenon DEF ScopeIndex
    <2> QED BY <2>4, <2>5
  <1>4. ASSUME NEW r
        PROVE  Score(r)' = Score(r)
        BY <1>1 DEF Score, Weight
  <1>5. ASSUME NEW r, NEW s
        PROVE  Before(q, r, s)' <=> Before(q, r, s)
        BY <1>1, <1>3, <1>4 DEF Before, Better
  <1>6. ASSUME NEW rs \in SUBSET DOMAIN config.route, rs # {}
        PROVE  First(q, rs)' = First(q, rs)
    <2>1. PICK f : f = First(q, rs)
          OBVIOUS
    <2>2. PICK g : g = CHOOSE r \in rs : \A s \in rs \ {r} : Before(q, r, s)'
          OBVIOUS
    <2>3. f \in rs /\ \A s \in rs \ {f} : Before(q, f, s)
          BY <1>6, <2>1, FirstIsFirst
    <2>4. g \in rs /\ \A s \in rs \ {g} : Before(q, g, s)'
      <3>1. \E r \in rs : \A s \in rs \ {r} : Before(q, r, s)'
            BY <1>5, <2>3
      <3> QED BY <2>2, <3>1, Zenon
    <2>5. \A s \in rs \ {g} : Before(q, g, s)
          BY <1>5, <2>4
    <2>6. f = g
          BY <2>3, <2>4, <2>5, BeforeOrders
    <2>7. First(q, rs)' = g
          BY <2>2, Zenon DEF First
    <2> QED BY <2>1, <2>6, <2>7
  <1> QED BY <1>1, <1>3, <1>6

(***************************************************************************)
(* The inductive invariant.                                                *)
(***************************************************************************)
\* Lookups of one traffic come one after the other.
OneByOne ==
    \A p, q \in Lookups : Running(p) /\ Running(q) /\ TrafficOf[p] = TrafficOf[q] => p = q

\* What a lookup under way has found and what it has left of it.
Found(q) == Running(q) =>
    /\ lookup[q].rest \subseteq past[q].all
    /\ \A r \in past[q].all : Route(r).kind = "connector"
    /\ \A r \in lookup[q].external : Route(r).kind = "external"
    /\ lookup[q].rest = {} <=> lookup[q].pc = "external"

\* A route that a lookup is done with could not be served all the time, or there is one
\* of its scope that could not and the lookup is done with the scope.
Settled(q, r) ==
    \/ r \notin Steady(q)
    \/ /\ \E s \in past[q].all \ Steady(q) : ScopeIndex(q, s) = ScopeIndex(q, r)
       /\ \A s \in lookup[q].rest : ScopeIndex(q, s) # ScopeIndex(q, r)

AllSettled(q) == Running(q) => \A r \in past[q].all \ lookup[q].rest : Settled(q, r)

\* What is steady is fit, and a lookup that is at its service finds it.
SteadyIsFit(q) == \A i \in past[q].steady : Fit(i)

Seen(q) == lookup[q].pc \in {"sessions", "select"} =>
    \A i \in past[q].steady : ServiceOf[i] = Route(Current(q)).service =>
        \/ i \in lookup[q].usable
        \/ lookup[q].pc = "sessions" /\ <<i, instance[i].session>> \in lookup[q].unread

\* The traffic of a lookup under way is held by the instance that held it when it
\* began, or by none; and by none when the lookup is to store another.
HeldAsThen(q) ==
    /\ Running(q) /\ Held(TrafficOf[q]) => past[q].held = affinity[TrafficOf[q]].instance
    /\ lookup[q].pc = "store" => ~Held(TrafficOf[q]) /\ lookup[q].pick # None

Good(q) ==
    Found(q) /\ AllSettled(q) /\ SteadyIsFit(q) /\ Seen(q) /\ HeldAsThen(q)

\* The service of an instance is known.
Registered == \A i \in Instances : instance[i].status # "absent" => ServiceOf[i] \in known

IInv == TypeOK /\ Registered /\ OneByOne /\ \A q \in Lookups : Good(q)

(***************************************************************************)
(* What a step leaves alone.                                               *)
(***************************************************************************)
\* Nothing of a lookup changes, and its traffic is at most let go.
LEMMA GoodStays ==
    ASSUME TypeOK, NEW q \in Lookups, Good(q), UNCHANGED registryVars,
           lookup'[q] = lookup[q], past'[q] = past[q],
           Running(q) => affinity'[TrafficOf[q]] \in {affinity[TrafficOf[q]], None}
    PROVE  Good(q)'
  <1> USE DEF registryVars
  <1>0. config \in Configs /\ lookup[q] \in LookupType /\ past[q].all \in SUBSET DOMAIN config.route
        BY DEF TypeOK
  <1>1. /\ \A r : Route(r)' = Route(r)
        /\ \A r \in DOMAIN config.route : ScopeIndex(q, r)' = ScopeIndex(q, r)
        /\ Running(q)' <=> Running(q)
        /\ Steady(q)' = Steady(q)
    <2>1. \A r : Route(r)' = Route(r)
          BY <1>0, ConfigStays
    <2>2. \A r \in DOMAIN config.route : ScopeIndex(q, r)' = ScopeIndex(q, r)
          BY <1>0, ConfigStays
    <2> QED BY <2>1, <2>2 DEF Running, Steady
  <1>2. Found(q)'
        BY <1>1 DEF Good, Found
  <1>3. AllSettled(q)'
    <2> SUFFICES ASSUME Running(q), NEW r \in past[q].all \ lookup[q].rest
                 PROVE  Settled(q, r)'
        BY <1>1 DEF AllSettled
    <2>1. Settled(q, r)
          BY DEF Good, AllSettled
    <2>2. lookup[q].rest \in SUBSET DOMAIN config.route /\ r \in DOMAIN config.route
          BY <1>0 DEF LookupType
    <2> QED BY <1>0, <1>1, <2>1, <2>2 DEF Settled
  <1>4. SteadyIsFit(q)'
        BY DEF Good, SteadyIsFit, Fit
  <1>5. Seen(q)'
    <2> SUFFICES ASSUME lookup[q].pc \in {"sessions", "select"} PROVE Seen(q)'
        BY DEF Seen
    <2>1. lookup[q].rest # {} /\ lookup[q].rest \in SUBSET DOMAIN config.route
          BY <1>0 DEF Good, Found, Running, LookupType
    <2>2. Current(q)' = Current(q)
          BY <1>0, <2>1, ConfigStays DEF Current
    <2> QED BY <1>1, <2>2 DEF Good, Seen
  <1>6. HeldAsThen(q)'
        BY <1>1 DEF Good, HeldAsThen, Held, Running
  <1> QED BY <1>2, <1>3, <1>4, <1>5, <1>6 DEF Good

(***************************************************************************)
(* A step of a lookup.                                                     *)
(***************************************************************************)
\* It keeps the types.
LEMMA TypesStay ==
    ASSUME TypeOK, NEW q \in Lookups, NEW l \in LookupType, Step(q, l),
           UNCHANGED registryVars,
           affinity' \in [Traffics -> {None} \cup [instance : Instances, expires : Nat]]
    PROVE  TypeOK'
  <1> USE DEF registryVars
  <1>1. lookup' \in [Lookups -> LookupType]
        BY DEF Step, TypeOK
  <1>2. past' \in [Lookups -> [all : SUBSET DOMAIN config.route, steady : SUBSET Instances,
                               held : Instances \cup {None}]]
    <2>1. Nothing \in [all : SUBSET DOMAIN config.route, steady : SUBSET Instances,
                       held : Instances \cup {None}]
          BY DEF Nothing
    <2> QED BY <2>1 DEF Step, TypeOK
  <1>3. LookupType' = LookupType
        BY DEF LookupType
  <1> QED BY <1>1, <1>2, <1>3 DEF TypeOK

\* It leaves the other lookups as good as they were: they are for other traffics.
LEMMA OthersStay ==
    ASSUME IInv, NEW q \in Lookups, NEW l, lookup' = [lookup EXCEPT ![q] = l],
           \A p \in Lookups \ {q} : past'[p] = past[p],
           UNCHANGED registryVars,
           \/ UNCHANGED affinity
           \/ /\ Running(q)
              /\ \A t \in Traffics \ {TrafficOf[q]} : affinity'[t] \in {affinity[t], None}
    PROVE  \A p \in Lookups \ {q} : Good(p)'
  <1> SUFFICES ASSUME NEW p \in Lookups \ {q} PROVE Good(p)'
      OBVIOUS
  <1>1. lookup'[p] = lookup[p] /\ past'[p] = past[p]
        BY DEF IInv, TypeOK
  <1>2. ASSUME Running(p)
        PROVE  affinity'[TrafficOf[p]] \in {affinity[TrafficOf[p]], None}
    <2>1. Running(q) => TrafficOf[p] # TrafficOf[q]
          BY <1>2 DEF IInv, OneByOne
    <2>2. TrafficOf[p] \in Traffics
          BY ResolverAssumption
    <2> QED BY <2>1, <2>2
  <1>3. Good(p) /\ TypeOK
        BY DEF IInv
  <1> QED BY <1>1, <1>2, <1>3, GoodStays

\* It leaves one lookup per traffic.
LEMMA OneStays ==
    ASSUME IInv, NEW q \in Lookups, NEW l, lookup' = [lookup EXCEPT ![q] = l],
           Running(q) \/ \A p \in Lookups : TrafficOf[p] = TrafficOf[q] => ~Running(p)
    PROVE  OneByOne'
  <1>1. \A p \in Lookups \ {q} : lookup'[p] = lookup[p]
        BY DEF IInv, TypeOK
  <1>2. \A p \in Lookups \ {q} : Running(p)' => Running(p)
        BY <1>1 DEF Running
  <1> QED BY <1>2 DEF IInv, OneByOne

\* A lookup that has ended has nothing more to be good for.
LEMMA DoneIsGood ==
    ASSUME IInv, NEW q \in Lookups, NEW l, Step(q, l), l.pc = "done"
    PROVE  Good(q)'
  <1>1. lookup'[q].pc = "done" /\ past'[q] = Nothing
        BY DEF Step, IInv, TypeOK
  <1> QED BY <1>1 DEF Good, Found, AllSettled, SteadyIsFit, Seen, HeldAsThen, Running, Nothing

\* One that goes on is good if what it drops is settled, it still sees what is steady,
\* and its traffic is let go before it stores.
LEMMA GoesOn ==
    ASSUME IInv, NEW q \in Lookups, Running(q), NEW l \in LookupType, Step(q, l),
           UNCHANGED registryVars,
           l.pc \notin {"idle", "done"}, l.external = lookup[q].external,
           l.rest \subseteq lookup[q].rest, l.rest = {} <=> l.pc = "external",
           \A r \in lookup[q].rest \ l.rest :
              \/ r \notin Steady(q)
              \/ /\ \E s \in past[q].all \ Steady(q) : ScopeIndex(q, s) = ScopeIndex(q, r)
                 /\ \A s \in l.rest : ScopeIndex(q, s) # ScopeIndex(q, r),
           l.pc \in {"sessions", "select"} =>
              /\ l.rest = lookup[q].rest
              /\ \A i \in past[q].steady : ServiceOf[i] = Route(Current(q)).service =>
                    \/ i \in l.usable
                    \/ l.pc = "sessions" /\ <<i, instance[i].session>> \in l.unread,
           affinity'[TrafficOf[q]] \in {affinity[TrafficOf[q]], None},
           l.pc = "store" => affinity'[TrafficOf[q]] = None /\ l.pick # None
    PROVE  Good(q)'
  <1> USE DEF registryVars
  <1>0. /\ config \in Configs /\ lookup[q] \in LookupType
        /\ past[q].all \in SUBSET DOMAIN config.route
        BY DEF IInv, TypeOK
  <1>1. lookup'[q] = l /\ past'[q] = past[q]
        BY DEF Step, IInv, TypeOK
  <1>2. /\ \A r : Route(r)' = Route(r)
        /\ \A r \in DOMAIN config.route : ScopeIndex(q, r)' = ScopeIndex(q, r)
    <2>1. \A r : Route(r)' = Route(r)
          BY <1>0, ConfigStays
    <2> QED BY <1>0, <2>1, ConfigStays
  <1>3. Steady(q)' = Steady(q)
        BY <1>1, <1>2 DEF Steady
  <1>4. Good(q)
        BY DEF IInv
  <1>5. Found(q)'
        BY <1>1, <1>2, <1>4 DEF Good, Found, Running
  <1>6. AllSettled(q)'
    <2> SUFFICES ASSUME NEW r \in past[q].all \ l.rest
                 PROVE  Settled(q, r)'
        BY <1>1 DEF AllSettled
    <2>1. r \in DOMAIN config.route /\ l.rest \in SUBSET DOMAIN config.route
          BY <1>0 DEF LookupType
    <2>2. \/ r \notin Steady(q)
          \/ /\ \E s \in past[q].all \ Steady(q) : ScopeIndex(q, s) = ScopeIndex(q, r)
             /\ \A s \in l.rest : ScopeIndex(q, s) # ScopeIndex(q, r)
          BY <1>4 DEF Good, AllSettled, Settled
    <2> QED BY <1>0, <1>1, <1>2, <1>3, <2>1, <2>2 DEF Settled
  <1>7. SteadyIsFit(q)'
        BY <1>1, <1>4 DEF Good, SteadyIsFit, Fit
  <1>8. Seen(q)'
    <2> SUFFICES ASSUME l.pc \in {"sessions", "select"} PROVE Seen(q)'
        BY <1>1 DEF Seen
    <2>1. l.rest = lookup[q].rest /\ l.rest # {} /\ l.rest \in SUBSET DOMAIN config.route
          BY DEF LookupType
    <2>2. Current(q)' = Current(q)
          BY <1>0, <1>1, <2>1, ConfigStays DEF Current
    <2> QED BY <1>1, <1>2, <2>2 DEF Seen
  <1>9. HeldAsThen(q)'
        BY <1>1, <1>4 DEF Good, HeldAsThen, Held
  <1> QED BY <1>5, <1>6, <1>7, <1>8, <1>9 DEF Good

(***************************************************************************)
(* What a lookup may become.                                               *)
(***************************************************************************)
\* A lookup with routes left is at the first of them.
LEMMA CurrentIs ==
    ASSUME IInv, NEW q \in Lookups,
           lookup[q].pc \in {"service", "instances", "sessions", "select", "store"}
    PROVE  /\ Running(q) /\ lookup[q].rest # {}
           /\ lookup[q].rest \in SUBSET past[q].all
           /\ Current(q) \in past[q].all /\ Current(q) \in lookup[q].rest
           /\ Current(q) \in DOMAIN config.route
           /\ \A r \in lookup[q].rest \ {Current(q)} : Before(q, Current(q), r)
  <1>1. config \in Configs /\ lookup[q].rest \in SUBSET DOMAIN config.route
        BY DEF IInv, TypeOK, LookupType
  <1>2. Running(q) /\ lookup[q].rest # {} /\ lookup[q].rest \in SUBSET past[q].all
        BY DEF IInv, Good, Found, Running
  <1> QED BY <1>1, <1>2, FirstIsFirst DEF Current

\* After a service that is not found it has that route less.
LEMMA NotFoundIs ==
    ASSUME IInv, NEW q \in Lookups
    PROVE  /\ NotFound(q) \in LookupType
           /\ NotFound(q).rest = lookup[q].rest \ {Current(q)}
           /\ NotFound(q).external = lookup[q].external
           /\ NotFound(q).pc = IF NotFound(q).rest = {} THEN "external" ELSE "service"
  <1>1. lookup[q] \in LookupType
        BY DEF IInv, TypeOK
  <1>2. PICK c : c = Current(q)
        OBVIOUS
  <1> QED BY <1>1, <1>2 DEF NotFound, Onward, LookupType

\* After another failure it has the routes of that scope less.
LEMMA FailIs ==
    ASSUME IInv, NEW q \in Lookups
    PROVE  /\ Fail(q) \in LookupType
           /\ Fail(q).rest = {r \in lookup[q].rest : ScopeIndex(q, r) # ScopeIndex(q, Current(q))}
           /\ Fail(q).external = lookup[q].external
           /\ Fail(q).pc = IF Fail(q).rest = {} THEN "external" ELSE "service"
  <1>1. lookup[q] \in LookupType
        BY DEF IInv, TypeOK
  <1>2. PICK rest \in SUBSET lookup[q].rest :
            rest = {r \in lookup[q].rest : ScopeIndex(q, r) # ScopeIndex(q, Current(q))}
        OBVIOUS
  <1>3. Fail(q) = Onward([lookup[q] EXCEPT !.rest = rest, !.unread = {}, !.usable = {},
                                           !.error = "unavailable"])
        BY <1>2 DEF Fail
  <1>4. rest \in SUBSET DOMAIN config.route
        BY <1>1 DEF LookupType
  <1>5. /\ Fail(q) \in LookupType /\ Fail(q).rest = rest
        /\ Fail(q).external = lookup[q].external
        /\ Fail(q).pc = IF rest = {} THEN "external" ELSE "service"
        BY <1>1, <1>3, <1>4 DEF Onward, LookupType
  <1> QED BY <1>2, <1>5

\* It goes on well from a route that could not be served all the time.
LEMMA NotFoundIsGood ==
    ASSUME IInv, NEW q \in Lookups, lookup[q].pc \in {"service", "instances"},
           Current(q) \notin Steady(q), Step(q, NotFound(q)),
           UNCHANGED registryVars, UNCHANGED affinity
    PROVE  Good(q)' /\ TypeOK'
  <1>1. PICK l : l = NotFound(q)
        OBVIOUS
  <1>2. /\ l \in LookupType /\ l.rest = lookup[q].rest \ {Current(q)}
        /\ l.external = lookup[q].external
        /\ l.pc = IF l.rest = {} THEN "external" ELSE "service"
        BY <1>1, NotFoundIs
  <1>3. Running(q)
        BY DEF Running
  <1>4. Good(q)'
        BY <1>1, <1>2, <1>3, GoesOn
  <1>5. TypeOK'
        BY <1>1, <1>2, TypesStay DEF IInv, TypeOK
  <1> QED BY <1>4, <1>5

\* And from a scope of which a route could not.
LEMMA FailIsGood ==
    ASSUME IInv, NEW q \in Lookups,
           lookup[q].pc \in {"service", "instances", "sessions", "select"},
           Current(q) \notin Steady(q), Step(q, Fail(q)),
           UNCHANGED registryVars,
           affinity'[TrafficOf[q]] \in {affinity[TrafficOf[q]], None},
           affinity' \in [Traffics -> {None} \cup [instance : Instances, expires : Nat]]
    PROVE  Good(q)' /\ TypeOK'
  <1>1. PICK l : l = Fail(q)
        OBVIOUS
  <1>2. /\ l \in LookupType
        /\ l.rest = {r \in lookup[q].rest : ScopeIndex(q, r) # ScopeIndex(q, Current(q))}
        /\ l.external = lookup[q].external
        /\ l.pc = IF l.rest = {} THEN "external" ELSE "service"
        BY <1>1, FailIs
  <1>3. Running(q)
        BY DEF Running
  <1>4. ASSUME NEW r \in lookup[q].rest \ l.rest
        PROVE  /\ \E s \in past[q].all \ Steady(q) : ScopeIndex(q, s) = ScopeIndex(q, r)
               /\ \A s \in l.rest : ScopeIndex(q, s) # ScopeIndex(q, r)
        BY <1>2, CurrentIs
  <1>5. Good(q)'
        BY <1>1, <1>2, <1>3, <1>4, GoesOn
  <1>6. TypeOK'
        BY <1>1, <1>2, TypesStay DEF IInv
  <1> QED BY <1>5, <1>6

\* The end of a lookup.
LEMMA DoneIs ==
    ASSUME NEW l, l.error \in {None, "mismatch", "unavailable"},
           NEW t \in {None} \cup ((DOMAIN config.route) \X (Instances \cup {None}))
    PROVE  Done(l, t) \in LookupType /\ Done(l, t).pc = "done" /\ Done(l, t).target = t
  BY DEF Done, Idle, LookupType

\* It ends well.
LEMMA EndIsGood ==
    ASSUME IInv, NEW q \in Lookups, NEW l, l.error \in {None, "mismatch", "unavailable"},
           NEW t \in {None} \cup ((DOMAIN config.route) \X (Instances \cup {None})),
           Step(q, Done(l, t)), UNCHANGED registryVars,
           affinity' \in [Traffics -> {None} \cup [instance : Instances, expires : Nat]]
    PROVE  Good(q)' /\ TypeOK'
  <1>1. PICK d : d = Done(l, t)
        OBVIOUS
  <1>2. d \in LookupType /\ d.pc = "done"
        BY <1>1, DoneIs
  <1> QED BY <1>1, <1>2, DoneIsGood, TypesStay DEF IInv

(***************************************************************************)
(* The steps of Resolve.                                                   *)
(***************************************************************************)
\* A service that is not there, or not active, has no instance that is fit.
LEMMA ReadServiceKeeps ==
    ASSUME IInv, NEW q \in Lookups, ReadService(q)
    PROVE  Good(q)' /\ TypeOK'
  <1> DEFINE k == Route(Current(q)).service
  <1>1. lookup[q].pc = "service" /\ UNCHANGED registryVars /\ UNCHANGED affinity
        BY DEF ReadService
  <1>2. CASE k \notin known /\ Step(q, NotFound(q))
    <2>1. Current(q) \notin Steady(q)
          BY <1>2 DEF Steady, IInv, Registered, Good, SteadyIsFit, Fit, TypeOK
    <2> QED BY <1>1, <1>2, <2>1, NotFoundIsGood
  <1>3. CASE ~Active(k) /\ Step(q, Fail(q))
    <2>1. Current(q) \notin Steady(q)
          BY <1>3 DEF Active, Steady, IInv, Good, SteadyIsFit, Fit, TypeOK
    <2>2. affinity' \in [Traffics -> {None} \cup [instance : Instances, expires : Nat]]
          BY <1>1 DEF IInv, TypeOK
    <2> QED BY <1>1, <1>3, <2>1, <2>2, FailIsGood
  <1>4. CASE Step(q, [lookup[q] EXCEPT !.pc = "instances"])
    <2>1. PICK l : l = [lookup[q] EXCEPT !.pc = "instances"]
          OBVIOUS
    <2>2. /\ l \in LookupType /\ l.rest = lookup[q].rest /\ l.external = lookup[q].external
          /\ l.pc = "instances"
      <3>1. lookup[q] \in LookupType
            BY DEF IInv, TypeOK
      <3> QED BY <2>1, <3>1 DEF LookupType
    <2>3. Running(q) /\ lookup[q].rest # {}
          BY <1>1, CurrentIs
    <2>4. Good(q)'
          BY <1>1, <1>4, <2>1, <2>2, <2>3, GoesOn
    <2>5. TypeOK'
          BY <1>1, <1>4, <2>1, <2>2, TypesStay DEF IInv, TypeOK
    <2> QED BY <2>4, <2>5
  <1> QED BY <1>2, <1>3, <1>4 DEF ReadService

\* A service none of whose instances is there, or well, has none that is fit; of the
\* others all that are fit are to be looked at.
LEMMA ListInstancesKeeps ==
    ASSUME IInv, NEW q \in Lookups, ListInstances(q)
    PROVE  Good(q)' /\ TypeOK'
  <1> DEFINE k    == Route(Current(q)).service
             all  == {i \in Instances : ServiceOf[i] = k /\ instance[i].status # "absent"}
             well == {i \in all : instance[i].status = "up"}
             unread == {<<i, instance[i].session>> : i \in well}
  <1>1. lookup[q].pc = "instances" /\ UNCHANGED registryVars /\ UNCHANGED affinity
        BY DEF ListInstances
  <1>2. \A i \in past[q].steady : i \in Instances /\ instance[i].status = "up"
        BY DEF IInv, Good, SteadyIsFit, Fit, TypeOK
  <1>3. CASE all = {} /\ Step(q, NotFound(q))
    <2>1. Current(q) \notin Steady(q)
          BY <1>2, <1>3 DEF Steady
    <2> QED BY <1>1, <1>3, <2>1, NotFoundIsGood
  <1>4. CASE well = {} /\ Step(q, Fail(q))
    <2>1. Current(q) \notin Steady(q)
          BY <1>2, <1>4 DEF Steady
    <2>2. affinity' \in [Traffics -> {None} \cup [instance : Instances, expires : Nat]]
          BY <1>1 DEF IInv, TypeOK
    <2> QED BY <1>1, <1>4, <2>1, <2>2, FailIsGood
  <1>5. CASE well # {} /\ Step(q, [lookup[q] EXCEPT !.pc = "sessions", !.unread = unread])
    <2>1. PICK u : u = unread
          OBVIOUS
    <2>2. PICK l : l = [lookup[q] EXCEPT !.pc = "sessions", !.unread = u]
          OBVIOUS
    <2>3. u \in SUBSET (Instances \X (Sessions \cup {None}))
          BY <2>1 DEF IInv, TypeOK
    <2>4. /\ l \in LookupType /\ l.rest = lookup[q].rest /\ l.external = lookup[q].external
          /\ l.pc = "sessions" /\ l.unread = u
      <3>1. lookup[q] \in LookupType
            BY DEF IInv, TypeOK
      <3> QED BY <2>2, <2>3, <3>1 DEF LookupType
    <2>5. Running(q) /\ lookup[q].rest # {}
          BY <1>1, CurrentIs
    <2>6. \A i \in past[q].steady : ServiceOf[i] = k => <<i, instance[i].session>> \in l.unread
          BY <1>2, <2>1, <2>4
    <2>7. Step(q, l)
          BY <1>5, <2>1, <2>2
    <2> HIDE DEF k, unread
    <2>8. Good(q)'
          BY <1>1, <2>4, <2>5, <2>6, <2>7, GoesOn DEF k
    <2>9. TypeOK'
          BY <1>1, <2>4, <2>7, TypesStay DEF IInv, TypeOK
    <2> QED BY <2>8, <2>9
  <1> QED BY <1>3, <1>4, <1>5 DEF ListInstances

\* An instance that is fit is usable once its session has been read.
LEMMA ReadSessionKeeps ==
    ASSUME IInv, NEW q \in Lookups, ReadSession(q)
    PROVE  Good(q)' /\ TypeOK'
  <1>1. lookup[q].pc = "sessions" /\ UNCHANGED registryVars /\ UNCHANGED affinity
        BY DEF ReadSession
  <1>2. PICK u \in lookup[q].unread :
            LET l == [lookup[q] EXCEPT !.unread = @ \ {u},
                                       !.usable = @ \cup IF u[2] \in live THEN {u[1]} ELSE {}]
            IN Step(q, IF l.unread # {} THEN l
                       ELSE IF l.usable = {} THEN Fail(q)
                       ELSE [l EXCEPT !.pc = "select"])
        BY Zenon DEF ReadSession
  <1>3. lookup[q] \in LookupType /\ u \in Instances \X (Sessions \cup {None})
        BY DEF IInv, TypeOK, LookupType
  <1>4. PICK l : l = [lookup[q] EXCEPT !.unread = @ \ {u},
                                       !.usable = @ \cup IF u[2] \in live THEN {u[1]} ELSE {}]
        OBVIOUS
  <1>5. /\ l \in LookupType /\ l.rest = lookup[q].rest /\ l.external = lookup[q].external
        /\ l.pc = "sessions" /\ l.unread = lookup[q].unread \ {u}
        /\ l.usable = lookup[q].usable \cup IF u[2] \in live THEN {u[1]} ELSE {}
        BY <1>1, <1>3, <1>4 DEF LookupType
  <1>6. \A i \in past[q].steady : ServiceOf[i] = Route(Current(q)).service =>
            i \in l.usable \/ <<i, instance[i].session>> \in l.unread
    <2> SUFFICES ASSUME NEW i \in past[q].steady, ServiceOf[i] = Route(Current(q)).service
                 PROVE  i \in l.usable \/ <<i, instance[i].session>> \in l.unread
        OBVIOUS
    <2>1. i \in lookup[q].usable \/ <<i, instance[i].session>> \in lookup[q].unread
          BY <1>1 DEF IInv, Good, Seen
    <2>2. instance[i].session \in live
          BY DEF IInv, Good, SteadyIsFit, Fit
    <2> QED BY <1>5, <2>1, <2>2
  <1>7. Running(q) /\ lookup[q].rest # {}
        BY <1>1, CurrentIs
  <1>8. CASE l.unread # {} /\ Step(q, l)
    <2>1. Good(q)'
          BY <1>1, <1>5, <1>6, <1>7, <1>8, GoesOn
    <2>2. TypeOK'
          BY <1>1, <1>5, <1>8, TypesStay DEF IInv, TypeOK
    <2> QED BY <2>1, <2>2
  <1>9. CASE l.unread = {} /\ l.usable = {} /\ Step(q, Fail(q))
    <2>1. Current(q) \notin Steady(q)
          BY <1>6, <1>9 DEF Steady
    <2>2. affinity' \in [Traffics -> {None} \cup [instance : Instances, expires : Nat]]
          BY <1>1 DEF IInv, TypeOK
    <2> QED BY <1>1, <1>9, <2>1, <2>2, FailIsGood
  <1>10. CASE l.unread = {} /\ Step(q, [l EXCEPT !.pc = "select"])
    <2>1. PICK m : m = [l EXCEPT !.pc = "select"]
          OBVIOUS
    <2>2. /\ m \in LookupType /\ m.rest = lookup[q].rest /\ m.external = lookup[q].external
          /\ m.pc = "select" /\ m.usable = l.usable
          BY <1>5, <2>1 DEF LookupType
    <2>3. Step(q, m)
          BY <1>10, <2>1
    <2>4. \A i \in past[q].steady : ServiceOf[i] = Route(Current(q)).service => i \in m.usable
          BY <1>6, <1>10, <2>2
    <2>5. Good(q)'
          BY <1>1, <1>7, <2>2, <2>3, <2>4, GoesOn
    <2>6. TypeOK'
          BY <1>1, <2>2, <2>3, TypesStay DEF IInv, TypeOK
    <2> QED BY <2>5, <2>6
  <1> QED BY <1>2, <1>4, <1>8, <1>9, <1>10

\* A traffic that is held by an unusable instance could not have been served by this
\* route; one that is not held is let go before an instance is stored.
LEMMA SelectKeeps ==
    ASSUME IInv, NEW q \in Lookups, Select(q)
    PROVE  /\ Good(q)' /\ TypeOK'
           /\ \A t \in Traffics \ {TrafficOf[q]} : affinity'[t] = affinity[t]
  <1> DEFINE t == TrafficOf[q]
             l == lookup[q]
  <1>1. lookup[q].pc = "select" /\ UNCHANGED registryVars
        BY DEF Select
  <1>2. /\ t \in Traffics /\ l \in LookupType
        /\ affinity \in [Traffics -> {None} \cup [instance : Instances, expires : Nat]]
        BY ResolverAssumption DEF IInv, TypeOK
  <1>3. affinity' = [affinity EXCEPT ![t] = IF Held(t) THEN @ ELSE None]
        BY DEF Select
  <1>4. /\ affinity'[t] = IF Held(t) THEN affinity[t] ELSE None
        /\ affinity' \in [Traffics -> {None} \cup [instance : Instances, expires : Nat]]
        /\ \A u \in Traffics \ {t} : affinity'[u] = affinity[u]
        BY <1>2, <1>3
  <1>5. /\ Running(q) /\ lookup[q].rest # {} /\ Current(q) \in DOMAIN config.route
        BY <1>1, CurrentIs
  <1>6. CASE Held(t) /\ Step(q, IF affinity[t].instance \in l.usable
                                THEN Done(l, <<Current(q), affinity[t].instance>>)
                                ELSE Fail(q))
    <2>1. affinity[t].instance \in Instances
          BY <1>2, <1>6 DEF Held
    <2>2. CASE affinity[t].instance \in l.usable
      <3>1. l.error \in {None, "mismatch", "unavailable"}
            BY <1>2 DEF LookupType
      <3>2. <<Current(q), affinity[t].instance>> \in (DOMAIN config.route) \X (Instances \cup {None})
            BY <1>5, <2>1
      <3> HIDE DEF l, t
      <3>3. PICK target : target = <<Current(q), affinity[t].instance>>
            OBVIOUS
      <3>4. Step(q, Done(l, target))
            BY <1>6, <2>2, <3>3
      <3> QED BY <1>1, <1>4, <3>1, <3>2, <3>3, <3>4, EndIsGood DEF t
    <2>3. CASE affinity[t].instance \notin l.usable
      <3>1. past[q].held = affinity[t].instance
            BY <1>5, <1>6 DEF IInv, Good, HeldAsThen
      <3>2. past[q].held # None
            BY <2>1, <3>1, ResolverAssumption
      <3>3. Current(q) \notin Steady(q)
            BY <1>1, <2>3, <3>1, <3>2 DEF Steady, IInv, Good, Seen
      <3>4. Step(q, Fail(q))
            BY <1>6, <2>3
      <3>5. affinity'[t] = affinity[t]
            BY <1>4, <1>6
      <3> QED BY <1>1, <1>4, <3>3, <3>4, <3>5, FailIsGood
    <2> QED BY <2>2, <2>3
  <1>7. ASSUME ~Held(t),
               NEW i \in Picks(q, l.usable), Step(q, [l EXCEPT !.pc = "store", !.pick = i])
        PROVE  Good(q)' /\ TypeOK'
    <2>1. i \in Instances
      <3>1. l.usable \in SUBSET Instances
            BY <1>2 DEF LookupType
      <3>2. i \in l.usable
            BY <1>7 DEF Picks
      <3> QED BY <3>1, <3>2
    <2>2. PICK m : m = [l EXCEPT !.pc = "store", !.pick = i]
          OBVIOUS
    <2>3. /\ m \in LookupType /\ m.rest = lookup[q].rest /\ m.external = lookup[q].external
          /\ m.pc = "store" /\ m.pick # None
          BY <1>2, <2>1, <2>2, ResolverAssumption DEF LookupType
    <2>4. Step(q, m)
          BY <1>7, <2>2
    <2>5. affinity'[t] = None
          BY <1>4, <1>7
    <2>6. Good(q)'
          BY <1>1, <1>5, <2>3, <2>4, <2>5, GoesOn
    <2>7. TypeOK'
          BY <1>1, <1>4, <2>3, <2>4, TypesStay DEF IInv
    <2> QED BY <2>6, <2>7
  <1>8. Good(q)' /\ TypeOK'
        BY <1>6, <1>7 DEF Select
  <1> QED BY <1>4, <1>8

\* Storing ends the lookup and lets go of other traffics at most.
LEMMA StoreKeeps ==
    ASSUME IInv, NEW q \in Lookups, Store(q)
    PROVE  /\ Good(q)' /\ TypeOK'
           /\ \A t \in Traffics \ {TrafficOf[q]} : affinity'[t] \in {affinity[t], None}
  <1> DEFINE t == TrafficOf[q]
             l == lookup[q]
             full == affinity[t] = None /\ Cardinality({u \in Traffics : affinity[u] # None}) >= Capacity
  <1>1. /\ lookup[q].pc = "store" /\ UNCHANGED registryVars
        /\ Step(q, Done(l, <<Current(q), l.pick>>))
        BY DEF Store
  <1>2. PICK out : affinity' = [u \in Traffics |->
                      CASE u = t -> [instance |-> l.pick, expires |-> now + TTL]
                        [] u # t /\ full /\ u \in out \cup (Traffics \ Kept) -> None
                        [] OTHER -> affinity[u]]
        BY DEF Store
  <1>3. /\ l \in LookupType /\ now + TTL \in Nat
        /\ affinity \in [Traffics -> {None} \cup [instance : Instances, expires : Nat]]
        BY ResolverAssumption DEF IInv, TypeOK
  <1>4. l.pick \in Instances
        BY <1>1, <1>3 DEF IInv, Good, HeldAsThen, LookupType
  <1>5. PICK e : e = [instance |-> l.pick, expires |-> now + TTL]
        OBVIOUS
  <1>6. e \in [instance : Instances, expires : Nat]
        BY <1>3, <1>4, <1>5
  <1> HIDE DEF full
  <1>7. \A u \in Traffics : affinity'[u] \in IF u = t THEN {e} ELSE {affinity[u], None}
        BY <1>2, <1>5
  <1>8. affinity' \in [Traffics -> {None} \cup [instance : Instances, expires : Nat]]
    <2>1. affinity' = [u \in Traffics |-> affinity'[u]]
          BY <1>2
    <2>2. \A u \in Traffics : affinity'[u] \in {None} \cup [instance : Instances, expires : Nat]
          BY <1>3, <1>6, <1>7
    <2> QED BY <2>1, <2>2
  <1>9. Good(q)' /\ TypeOK'
    <2>1. Current(q) \in DOMAIN config.route
          BY <1>1, CurrentIs
    <2>2. PICK target : target = <<Current(q), l.pick>>
          OBVIOUS
    <2>3. target \in (DOMAIN config.route) \X (Instances \cup {None})
          BY <1>4, <2>1, <2>2
    <2>4. l.error \in {None, "mismatch", "unavailable"}
          BY <1>3 DEF LookupType
    <2>5. Step(q, Done(l, target))
          BY <1>1, <2>2
    <2> HIDE DEF l
    <2> QED BY <1>1, <1>8, <2>3, <2>4, <2>5, EndIsGood
  <1> QED BY <1>7, <1>9

\* An external route, or none, ends the lookup.
LEMMA ExternalKeeps ==
    ASSUME IInv, NEW q \in Lookups, External(q)
    PROVE  Good(q)' /\ TypeOK'
  <1> DEFINE l       == lookup[q]
             allowed == {r \in l.external : ExternalAllowed(q, r)}
  <1>1. /\ lookup[q].pc = "external" /\ UNCHANGED registryVars /\ UNCHANGED affinity
        BY DEF External
  <1>2. /\ l \in LookupType /\ config \in Configs
        /\ affinity' \in [Traffics -> {None} \cup [instance : Instances, expires : Nat]]
        BY <1>1 DEF IInv, TypeOK
  <1>3. allowed \in SUBSET DOMAIN config.route /\ l.error \in {None, "mismatch", "unavailable"}
        BY <1>2 DEF LookupType
  <1>4. CASE allowed # {} /\ Step(q, Done(l, <<First(q, allowed), None>>))
    <2>1. PICK target : target = <<First(q, allowed), None>>
          OBVIOUS
    <2>2. First(q, allowed) \in DOMAIN config.route
      <3> HIDE DEF allowed
      <3> QED BY <1>2, <1>3, <1>4, FirstIsFirst
    <2>3. target \in (DOMAIN config.route) \X (Instances \cup {None})
          BY <2>1, <2>2
    <2>4. Step(q, Done(l, target))
          BY <1>4, <2>1
    <2> HIDE DEF l
    <2> QED BY <1>1, <1>2, <1>3, <2>3, <2>4, EndIsGood
  <1>5. CASE Step(q, Done([l EXCEPT !.error = IF @ = None THEN "mismatch" ELSE @], None))
    <2>1. PICK m : m = [l EXCEPT !.error = IF @ = None THEN "mismatch" ELSE @]
          OBVIOUS
    <2>2. m.error \in {None, "mismatch", "unavailable"}
          BY <1>2, <2>1 DEF LookupType
    <2>3. Step(q, Done(m, None))
          BY <1>5, <2>1
    <2> QED BY <1>1, <1>2, <2>2, <2>3, EndIsGood
  <1> QED BY <1>4, <1>5 DEF External

\* A lookup begins with all its routes, and with what is fit and held now.
LEMMA BeginKeeps ==
    ASSUME IInv, NEW q \in Lookups, Begin(q)
    PROVE  /\ Good(q)' /\ TypeOK'
           /\ \A p \in Lookups \ {q} : past'[p] = past[p]
  <1> DEFINE t == TrafficOf[q]
  <1>1. /\ lookup[q].pc = "idle" /\ UNCHANGED registryVars /\ UNCHANGED affinity
        /\ UNCHANGED <<config, routes, known, instance, live, now, changes>>
        BY DEF Begin, registryVars
  <1>2. PICK c, e : c = Candidates(q, "connector") /\ e = Candidates(q, "external")
        OBVIOUS
  <1>3. /\ config \in Configs /\ past \in [Lookups -> [all : SUBSET DOMAIN config.route,
              steady : SUBSET Instances, held : Instances \cup {None}]]
        /\ affinity' \in [Traffics -> {None} \cup [instance : Instances, expires : Nat]]
        /\ lookup \in [Lookups -> LookupType]
        BY <1>1 DEF IInv, TypeOK
  <1>4. /\ c \in SUBSET DOMAIN config.route /\ e \in SUBSET DOMAIN config.route
        /\ \A r \in c : Route(r).kind = "connector"
        /\ \A r \in e : Route(r).kind = "external"
        BY <1>2 DEF Candidates, IInv, TypeOK
  <1>5. CASE Step(q, Done([Idle EXCEPT !.error = "mismatch"], None))
    <2>1. PICK m : m = [Idle EXCEPT !.error = "mismatch"]
          OBVIOUS
    <2>2. m.error \in {None, "mismatch", "unavailable"}
          BY <2>1 DEF Idle
    <2>3. Step(q, Done(m, None))
          BY <1>5, <2>1
    <2>4. Good(q)' /\ TypeOK'
          BY <1>1, <1>3, <2>2, <2>3, EndIsGood
    <2>5. \A p \in Lookups \ {q} : past'[p] = past[p]
          BY <1>3, <2>3 DEF Step
    <2> QED BY <2>4, <2>5
  <1>6. ASSUME lookup' = [lookup EXCEPT ![q] = Onward([Idle EXCEPT !.rest = c, !.external = e])],
               past' = [past EXCEPT ![q] =
                  [all    |-> c,
                   steady |-> {i \in Instances : Fit(i)},
                   held   |-> IF Held(t) THEN affinity[t].instance ELSE None]]
        PROVE  /\ Good(q)' /\ TypeOK'
               /\ \A p \in Lookups \ {q} : past'[p] = past[p]
    <2>1. PICK l : l = Onward([Idle EXCEPT !.rest = c, !.external = e])
          OBVIOUS
    <2>2. /\ l \in LookupType /\ l.rest = c /\ l.external = e
          /\ l.pc = IF c = {} THEN "external" ELSE "service"
          BY <1>4, <2>1 DEF Onward, Idle, LookupType
    <2>3. PICK h : h = [all    |-> c,
                        steady |-> {i \in Instances : Fit(i)},
                        held   |-> IF Held(t) THEN affinity[t].instance ELSE None]
          OBVIOUS
    <2>4. /\ h \in [all : SUBSET DOMAIN config.route, steady : SUBSET Instances,
                    held : Instances \cup {None}]
          /\ h.all = c /\ \A i \in h.steady : Fit(i)
          /\ Held(t) => h.held = affinity[t].instance
      <3>1. Held(t) => affinity[t].instance \in Instances
            BY ResolverAssumption DEF Held, IInv, TypeOK
      <3> QED BY <1>4, <2>3, <3>1
    <2>5. /\ lookup' = [lookup EXCEPT ![q] = l] /\ past' = [past EXCEPT ![q] = h]
          BY <1>6, <2>1, <2>3
    <2>6. lookup'[q] = l /\ past'[q] = h /\ \A p \in Lookups \ {q} : past'[p] = past[p]
          BY <1>3, <2>5
    <2>7. TypeOK'
      <3>1. LookupType' = LookupType
            BY <1>1 DEF LookupType
      <3>2. lookup' \in [Lookups -> LookupType']
            BY <1>3, <2>2, <2>5, <3>1
      <3>3. past' \in [Lookups -> [all : SUBSET DOMAIN config.route, steady : SUBSET Instances,
                                   held : Instances \cup {None}]]
            BY <1>3, <2>4, <2>5
      <3> QED BY <1>1, <3>2, <3>3 DEF IInv, TypeOK
    <2>8. \A r : Route(r)' = Route(r)
          BY <1>1, <1>3, ConfigStays
    <2>9. Found(q)' /\ AllSettled(q)'
          BY <1>4, <2>2, <2>4, <2>6, <2>8 DEF Found, AllSettled, Running
    <2>10. SteadyIsFit(q)'
          BY <1>1, <2>4, <2>6 DEF SteadyIsFit, Fit
    <2>11. Seen(q)'
          BY <2>2, <2>6 DEF Seen
    <2>12. HeldAsThen(q)'
          BY <1>1, <2>2, <2>4, <2>6 DEF HeldAsThen, Held
    <2> QED BY <2>6, <2>7, <2>9, <2>10, <2>11, <2>12 DEF Good
  <1> QED BY <1>2, <1>5, <1>6 DEF Begin

(***************************************************************************)
(* The other steps.                                                        *)
(***************************************************************************)
\* Whatever the control plane writes, what stays steady is fit as it was.
LEMMA ControlPlaneKeeps ==
    ASSUME IInv, ControlPlane
    PROVE  IInv'
  <1>1. /\ UNCHANGED <<config, affinity, now, lookup>> /\ Note
        /\ changes' = changes + 1
        BY DEF ControlPlane, Change
  <1> DEFINE Fine ==
          /\ instance' \in [Instances -> [status : {"absent", "up", "ill", "down"},
                                         session : Sessions \cup {None}]]
          /\ live' \in SUBSET Sessions /\ routes' \in SUBSET DOMAIN config.route
          /\ Registered'
  <1>2. Fine
    <2> USE DEF IInv, TypeOK, Registered
    <2>1. ASSUME NEW i \in Instances, NEW s \in Sessions, UpsertInstance(i, s)
          PROVE  Fine
          BY <2>1 DEF UpsertInstance
    <2>2. ASSUME NEW i \in Instances, MarkLifecycle(i)
          PROVE  Fine
          BY <2>2 DEF MarkLifecycle
    <2>3. ASSUME NEW i \in Instances, RemoveInstance(i)
          PROVE  Fine
          BY <2>3 DEF RemoveInstance, Absent
    <2>4. ASSUME NEW s \in Sessions, MarkState(s)
          PROVE  Fine
          BY <2>4 DEF MarkState
    <2>5. ASSUME NEW r \in DOMAIN config.route, ToggleRoute(r)
          PROVE  Fine
          BY <2>5 DEF ToggleRoute
    <2> QED BY <2>1, <2>2, <2>3, <2>4, <2>5 DEF ControlPlane
  <1>3. \A q \in Lookups :
           /\ past'[q].all = past[q].all /\ past'[q].held = past[q].held
           /\ past'[q].steady = {i \in past[q].steady :
                                    Fit(i)' /\ instance'[i].session = instance[i].session}
           /\ past'[q].steady \in SUBSET Instances
           /\ past'[q] \in [all : SUBSET DOMAIN config.route, steady : SUBSET Instances,
                            held : Instances \cup {None}]
        BY <1>1 DEF Note, IInv, TypeOK
  <1>4. TypeOK'
    <2>1. LookupType' = LookupType
          BY <1>1 DEF LookupType
    <2>2. past' \in [Lookups -> [all : SUBSET DOMAIN config.route, steady : SUBSET Instances,
                                 held : Instances \cup {None}]]
          BY <1>1, <1>3 DEF Note
    <2>3. changes' \in Nat
          BY <1>1 DEF IInv, TypeOK
    <2> QED BY <1>1, <1>2, <2>1, <2>2, <2>3 DEF IInv, TypeOK
  <1>5. OneByOne'
        BY <1>1 DEF IInv, OneByOne, Running
  <1>6. ASSUME NEW q \in Lookups
        PROVE  Good(q)'
    <2>0. /\ config \in Configs /\ lookup[q] \in LookupType /\ Good(q)
          /\ past[q].all \in SUBSET DOMAIN config.route
          BY DEF IInv, TypeOK
    <2>1. \A r : Route(r)' = Route(r)
          BY <1>1, <2>0, ConfigStays
    <2>2. \A r \in DOMAIN config.route : ScopeIndex(q, r)' = ScopeIndex(q, r)
          BY <1>1, <2>0, ConfigStays
    <2>3. Steady(q)' \subseteq Steady(q) /\ (Running(q)' <=> Running(q))
          BY <1>1, <1>3, <2>1 DEF Steady, Running
    <2>4. Found(q)'
          BY <1>1, <1>3, <2>0, <2>1, <2>3 DEF Good, Found
    <2>5. AllSettled(q)'
      <3> SUFFICES ASSUME Running(q), NEW r \in past[q].all \ lookup[q].rest
                   PROVE  Settled(q, r)'
          BY <1>1, <1>3, <2>3 DEF AllSettled
      <3>1. Settled(q, r)
            BY <2>0 DEF Good, AllSettled
      <3>2. lookup[q].rest \in SUBSET DOMAIN config.route /\ r \in DOMAIN config.route
            BY <2>0 DEF LookupType
      <3> QED BY <1>1, <1>3, <2>0, <2>2, <2>3, <3>1, <3>2 DEF Settled
    <2>6. SteadyIsFit(q)'
          BY <1>3 DEF SteadyIsFit
    <2>7. Seen(q)'
      <3> SUFFICES ASSUME lookup[q].pc \in {"sessions", "select"} PROVE Seen(q)'
          BY <1>1 DEF Seen
      <3>1. lookup[q].rest # {} /\ lookup[q].rest \in SUBSET DOMAIN config.route
            BY <2>0 DEF Good, Found, Running, LookupType
      <3>2. Current(q)' = Current(q)
            BY <1>1, <2>0, <3>1, ConfigStays DEF Current
      <3> QED BY <1>1, <1>3, <2>0, <2>1, <3>2 DEF Good, Seen
    <2>8. HeldAsThen(q)'
          BY <1>1, <1>3, <2>0, <2>3 DEF Good, HeldAsThen, Held
    <2> QED BY <2>4, <2>5, <2>6, <2>7, <2>8 DEF Good
  <1> QED BY <1>2, <1>4, <1>5, <1>6 DEF IInv

\* Time passes and only makes the table let go.
LEMMA TickKeeps ==
    ASSUME IInv, Tick
    PROVE  IInv'
  <1>1. /\ UNCHANGED <<config, routes, known, instance, live, affinity, changes, lookup, past>>
        /\ now' = now + 1 /\ now \in Nat
        BY DEF Tick, IInv, TypeOK
  <1>2. TypeOK'
    <2>1. LookupType' = LookupType
          BY <1>1 DEF LookupType
    <2> QED BY <1>1, <2>1 DEF IInv, TypeOK
  <1>3. OneByOne' /\ Registered'
        BY <1>1 DEF IInv, OneByOne, Registered, Running
  <1>4. ASSUME NEW q \in Lookups
        PROVE  Good(q)'
    <2>0. /\ config \in Configs /\ lookup[q] \in LookupType /\ Good(q)
          /\ past[q].all \in SUBSET DOMAIN config.route
          BY DEF IInv, TypeOK
    <2>1. \A r : Route(r)' = Route(r)
          BY <1>1, <2>0, ConfigStays
    <2>2. \A r \in DOMAIN config.route : ScopeIndex(q, r)' = ScopeIndex(q, r)
          BY <1>1, <2>0, ConfigStays
    <2>3. Steady(q)' = Steady(q) /\ (Running(q)' <=> Running(q))
          BY <1>1, <2>1 DEF Steady, Running
    <2>4. Found(q)' /\ SteadyIsFit(q)'
          BY <1>1, <2>0, <2>1, <2>3 DEF Good, Found, SteadyIsFit, Fit
    <2>5. AllSettled(q)'
      <3> SUFFICES ASSUME Running(q), NEW r \in past[q].all \ lookup[q].rest
                   PROVE  Settled(q, r)'
          BY <1>1, <2>3 DEF AllSettled
      <3>1. Settled(q, r)
            BY <2>0 DEF Good, AllSettled
      <3>2. lookup[q].rest \in SUBSET DOMAIN config.route /\ r \in DOMAIN config.route
            BY <2>0 DEF LookupType
      <3> QED BY <1>1, <2>0, <2>2, <2>3, <3>1, <3>2 DEF Settled
    <2>6. Seen(q)'
      <3> SUFFICES ASSUME lookup[q].pc \in {"sessions", "select"} PROVE Seen(q)'
          BY <1>1 DEF Seen
      <3>1. lookup[q].rest # {} /\ lookup[q].rest \in SUBSET DOMAIN config.route
            BY <2>0 DEF Good, Found, Running, LookupType
      <3>2. Current(q)' = Current(q)
            BY <1>1, <2>0, <3>1, ConfigStays DEF Current
      <3> QED BY <1>1, <2>0, <2>1, <3>2 DEF Good, Seen
    <2>7. HeldAsThen(q)'
      <3>1. TrafficOf[q] \in Traffics
            BY ResolverAssumption
      <3>2. Held(TrafficOf[q])' => Held(TrafficOf[q])
            BY <1>1, <3>1 DEF Held, IInv, TypeOK
      <3> QED BY <1>1, <2>0, <2>3, <3>2 DEF Good, HeldAsThen
    <2> QED BY <2>4, <2>5, <2>6, <2>7 DEF Good
  <1> QED BY <1>2, <1>3, <1>4 DEF IInv

\* A step of a lookup keeps the invariant if it keeps the types and the lookup good.
LEMMA LookupKeeps ==
    ASSUME IInv, NEW q \in Lookups, Good(q)', TypeOK', UNCHANGED registryVars,
           NEW l, lookup' = [lookup EXCEPT ![q] = l],
           \A p \in Lookups \ {q} : past'[p] = past[p],
           \/ /\ UNCHANGED affinity
              /\ Running(q) \/ \A p \in Lookups : TrafficOf[p] = TrafficOf[q] => ~Running(p)
           \/ /\ Running(q)
              /\ \A t \in Traffics \ {TrafficOf[q]} : affinity'[t] \in {affinity[t], None}
    PROVE  IInv'
  <1>1. \A p \in Lookups \ {q} : Good(p)'
        BY OthersStay
  <1>2. OneByOne'
        BY OneStays
  <1>3. Registered'
        BY DEF IInv, Registered, registryVars
  <1> QED BY <1>1, <1>2, <1>3 DEF IInv

(***************************************************************************)
(* The theorems.                                                           *)
(***************************************************************************)
\* Every step of a lookup keeps the invariant.
LEMMA ResolveKeeps ==
    ASSUME IInv, NEW q \in Lookups,
           \/ Begin(q) \/ ReadService(q) \/ ListInstances(q) \/ ReadSession(q)
           \/ Select(q) \/ Store(q) \/ External(q)
    PROVE  IInv'
  <1>1. ASSUME NEW l, Step(q, l)
        PROVE  /\ lookup' = [lookup EXCEPT ![q] = l]
               /\ \A p \in Lookups \ {q} : past'[p] = past[p]
        BY <1>1 DEF Step, IInv, TypeOK
  <1>2. CASE Begin(q)
    <2>1. /\ UNCHANGED registryVars /\ UNCHANGED affinity
          /\ \A p \in Lookups : TrafficOf[p] = TrafficOf[q] => ~Running(p)
          /\ \E l : lookup' = [lookup EXCEPT ![q] = l]
          BY <1>2, <1>1 DEF Begin
    <2> QED BY <1>2, <2>1, BeginKeeps, LookupKeeps
  <1>3. CASE ReadService(q) \/ ListInstances(q) \/ ReadSession(q) \/ External(q)
    <2>1. /\ UNCHANGED registryVars /\ UNCHANGED affinity /\ Running(q)
      <3>1. /\ UNCHANGED registryVars /\ UNCHANGED affinity
            /\ lookup[q].pc \in {"service", "instances", "sessions", "external"}
            BY <1>3, Zenon DEF ReadService, ListInstances, ReadSession, External
      <3> QED BY <3>1 DEF Running
    <2>2. \E l : Step(q, l)
          BY <1>3, Zenon DEF ReadService, ListInstances, ReadSession, External
    <2>3. Good(q)' /\ TypeOK'
          BY <1>3, ReadServiceKeeps, ListInstancesKeeps, ReadSessionKeeps, ExternalKeeps
    <2> QED BY <1>1, <2>1, <2>2, <2>3, LookupKeeps
  <1>4. CASE Select(q) \/ Store(q)
    <2>1. /\ UNCHANGED registryVars /\ Running(q) /\ \E l : Step(q, l)
          BY <1>4 DEF Select, Store, Running
    <2>2. /\ Good(q)' /\ TypeOK'
          /\ \A t \in Traffics \ {TrafficOf[q]} : affinity'[t] \in {affinity[t], None}
          BY <1>4, SelectKeeps, StoreKeeps
    <2> QED BY <1>1, <2>1, <2>2, LookupKeeps
  <1> QED BY <1>2, <1>3, <1>4

\* The inductive invariant holds in every reachable state: what a lookup has passed
\* over could not be served all the time, and its traffic is held as when it began.
THEOREM InductiveInvariant == Spec => []IInv
  <1>1. Init => IInv
    <2> SUFFICES ASSUME Init PROVE IInv
        OBVIOUS
    <2>1. TypeOK
      <3>1. Idle \in LookupType /\ [Idle EXCEPT !.pc = "done"] \in LookupType
            BY DEF Idle, LookupType
      <3>2. lookup \in [Lookups -> LookupType]
            BY <3>1 DEF Init
      <3>3. past \in [Lookups -> [all : SUBSET DOMAIN config.route, steady : SUBSET Instances,
                                  held : Instances \cup {None}]]
            BY DEF Init, Nothing
      <3>4. instance \in [Instances -> [status : {"absent", "up", "ill", "down"},
                                        session : Sessions \cup {None}]]
            BY DEF Init, Absent
      <3> QED BY <3>2, <3>3, <3>4 DEF Init, TypeOK
    <2>2. Registered
          BY DEF Init, Registered, Absent
    <2>3. \A q \in Lookups : ~Running(q) /\ lookup[q].pc \in {"idle", "done"} /\ past[q].steady = {}
          BY DEF Init, Running, Idle, Nothing
    <2>4. OneByOne /\ \A q \in Lookups : Good(q)
          BY <2>3 DEF OneByOne, Good, Found, AllSettled, SteadyIsFit, Seen, HeldAsThen
    <2> QED BY <2>1, <2>2, <2>4 DEF IInv
  <1>2. IInv /\ [Next]_vars => IInv'
    <2> SUFFICES ASSUME IInv, [Next]_vars PROVE IInv'
        OBVIOUS
    <2>1. CASE ControlPlane
          BY <2>1, ControlPlaneKeeps
    <2>2. CASE Tick
          BY <2>2, TickKeeps
    <2>3. ASSUME NEW q \in Lookups,
                 \/ Begin(q) \/ ReadService(q) \/ ListInstances(q) \/ ReadSession(q)
                 \/ Select(q) \/ Store(q) \/ External(q)
          PROVE  IInv'
          BY <2>3, ResolveKeeps
    <2>4. CASE UNCHANGED vars
      <3>1. UNCHANGED registryVars /\ UNCHANGED <<lookup, past, affinity>>
            BY <2>4 DEF vars, registryVars
      <3>2. \A q \in Lookups : Good(q)'
            BY <3>1, GoodStays DEF IInv
      <3>3. TypeOK' /\ OneByOne' /\ Registered'
            BY <3>1 DEF IInv, TypeOK, LookupType, OneByOne, Running, Registered, registryVars
      <3> QED BY <3>2, <3>3 DEF IInv
    <2> QED BY <2>1, <2>2, <2>3, <2>4 DEF Next
  <1> QED BY <1>1, <1>2, PTL DEF Spec

\* The types hold in every reachable state.
THEOREM TypeCorrect == Spec => []TypeOK
  <1>1. IInv => TypeOK
        BY DEF IInv
  <1> QED BY <1>1, InductiveInvariant, PTL

(***************************************************************************)
(* Where a lookup ends.                                                    *)
(***************************************************************************)
\* A lookup is sent where its affinity or its pick says, by the route it is at; or, when
\* none is left, out by an external route.
LEMMA EndsAt ==
    ASSUME IInv, [Next]_vars, NEW q \in Lookups, Ends(q)
    PROVE  \/ /\ lookup[q].pc \in {"select", "store"}
              /\ lookup'[q].target[1] = Current(q)
              /\ Held(TrafficOf[q]) => lookup'[q].target[2] = affinity[TrafficOf[q]].instance
           \/ /\ lookup[q].pc = "external"
              /\ lookup'[q].target[1] \in lookup[q].external
              /\ lookup'[q].target[2] = None
  <1> DEFINE Goal ==
          \/ /\ lookup[q].pc \in {"select", "store"}
             /\ lookup'[q].target[1] = Current(q)
             /\ Held(TrafficOf[q]) => lookup'[q].target[2] = affinity[TrafficOf[q]].instance
          \/ /\ lookup[q].pc = "external"
             /\ lookup'[q].target[1] \in lookup[q].external
             /\ lookup'[q].target[2] = None
  <1>1. lookup \in [Lookups -> LookupType] /\ config \in Configs /\ TrafficOf[q] \in Traffics
        BY ResolverAssumption DEF IInv, TypeOK
  <1>2. ASSUME NEW p \in Lookups, NEW l, Step(p, l)
        PROVE  p = q /\ lookup'[q] = l /\ l.pc = "done" /\ l.target # None
        BY <1>1, <1>2 DEF Step, Ends
  <1>3. ASSUME NEW l, NEW t, Step(q, Done(l, t))
        PROVE  lookup'[q].target = t /\ t # None
    <2>1. Done(l, t).target = t
          BY DEF Done, Idle
    <2> QED BY <1>2, <1>3, <2>1
  <1>4. ~Step(q, NotFound(q)) /\ ~Step(q, Fail(q))
        BY <1>2, NotFoundIs, FailIs
  <1>5. ASSUME NEW p \in Lookups,
               \/ Begin(p) \/ ReadService(p) \/ ListInstances(p) \/ ReadSession(p)
               \/ Select(p) \/ Store(p) \/ External(p)
        PROVE  p = q
    <2>1. Begin(p) => \E l : lookup' = [lookup EXCEPT ![p] = l]
          BY DEF Begin, Step
    <2>2. Begin(p) \/ \E l : Step(p, l)
          BY <1>5, Zenon DEF ReadService, ListInstances, ReadSession, Select, Store, External
    <2>3. \E l : lookup' = [lookup EXCEPT ![p] = l]
          BY <2>1, <2>2 DEF Step
    <2> QED BY <1>1, <2>3 DEF Ends
  <1>6. ~Begin(q)
    <2> SUFFICES ASSUME Begin(q) PROVE FALSE
        OBVIOUS
    <2>1. PICK c, e : c = Candidates(q, "connector") /\ e = Candidates(q, "external")
          OBVIOUS
    <2>2. PICK l : l = Onward([Idle EXCEPT !.rest = c, !.external = e])
          OBVIOUS
    <2>3. l.pc # "done"
          BY <2>2 DEF Onward, Idle
    <2>4. lookup' # [lookup EXCEPT ![q] = l]
          BY <1>1, <2>3 DEF Ends
    <2>5. ~Step(q, Done([Idle EXCEPT !.error = "mismatch"], None))
          BY <1>3
    <2> QED BY <2>1, <2>2, <2>4, <2>5 DEF Begin
  <1>7. ~ReadService(q)
    <2>1. PICK l : l = [lookup[q] EXCEPT !.pc = "instances"]
          OBVIOUS
    <2>2. l.pc = "instances"
          BY <1>1, <2>1 DEF LookupType
    <2>3. ~Step(q, l)
          BY <1>2, <2>2
    <2> QED BY <1>4, <2>1, <2>3 DEF ReadService
  <1>8. ~ListInstances(q)
    <2> SUFFICES ASSUME ListInstances(q) PROVE FALSE
        OBVIOUS
    <2>1. PICK u : Step(q, [lookup[q] EXCEPT !.pc = "sessions", !.unread = u])
          BY <1>4 DEF ListInstances
    <2>2. PICK l : l = [lookup[q] EXCEPT !.pc = "sessions", !.unread = u]
          OBVIOUS
    <2>3. l.pc = "sessions"
          BY <1>1, <2>2 DEF LookupType
    <2> QED BY <1>2, <2>1, <2>2, <2>3
  <1>9. ~ReadSession(q)
    <2> SUFFICES ASSUME ReadSession(q) PROVE FALSE
        OBVIOUS
    <2>1. PICK u, v, l : /\ lookup[q].pc = "sessions"
                         /\ l = [lookup[q] EXCEPT !.unread = u, !.usable = v]
                         /\ Step(q, l) \/ Step(q, [l EXCEPT !.pc = "select"])
          BY <1>4 DEF ReadSession
    <2>2. PICK m : m = [l EXCEPT !.pc = "select"]
          OBVIOUS
    <2>3. l.pc = "sessions" /\ m.pc = "select"
          BY <1>1, <2>1, <2>2 DEF LookupType
    <2> QED BY <1>2, <2>1, <2>2, <2>3
  <1>10. ASSUME Select(q)
         PROVE  Goal
    <2>1. CASE /\ Held(TrafficOf[q])
               /\ Step(q, Done(lookup[q], <<Current(q), affinity[TrafficOf[q]].instance>>))
      <3>1. lookup'[q].target = <<Current(q), affinity[TrafficOf[q]].instance>>
            BY <1>3, <2>1
      <3>2. lookup[q].pc = "select"
            BY <1>10 DEF Select
      <3> QED BY <3>1, <3>2
    <2>2. ASSUME NEW i, Step(q, [lookup[q] EXCEPT !.pc = "store", !.pick = i])
          PROVE  FALSE
      <3>1. PICK l : l = [lookup[q] EXCEPT !.pc = "store", !.pick = i]
            OBVIOUS
      <3>2. l.pc = "store"
            BY <1>1, <3>1 DEF LookupType
      <3> QED BY <1>2, <2>2, <3>1, <3>2
    <2> QED BY <1>4, <1>10, <2>1, <2>2 DEF Select
  <1>11. ASSUME Store(q)
         PROVE  Goal
    <2>1. lookup[q].pc = "store" /\ Step(q, Done(lookup[q], <<Current(q), lookup[q].pick>>))
          BY <1>11 DEF Store
    <2>2. lookup'[q].target = <<Current(q), lookup[q].pick>>
          BY <1>3, <2>1
    <2>3. ~Held(TrafficOf[q])
          BY <2>1 DEF IInv, Good, HeldAsThen
    <2> QED BY <2>1, <2>2, <2>3
  <1>12. ASSUME External(q)
         PROVE  Goal
    <2> DEFINE allowed == {r \in lookup[q].external : ExternalAllowed(q, r)}
    <2>1. lookup[q].pc = "external"
          BY <1>12 DEF External
    <2>2. \A l : ~Step(q, Done(l, None))
          BY <1>3
    <2>3. allowed # {} /\ Step(q, Done(lookup[q], <<First(q, allowed), None>>))
          BY <1>12, <2>2 DEF External
    <2>4. lookup'[q].target = <<First(q, allowed), None>>
          BY <1>3, <2>3
    <2>5. allowed \in SUBSET DOMAIN config.route
          BY <1>1 DEF LookupType
    <2>6. First(q, allowed) \in allowed
      <3> HIDE DEF allowed
      <3> QED BY <1>1, <2>3, <2>5, FirstIsFirst
    <2> QED BY <2>1, <2>4, <2>6
  <1>13. ~(ControlPlane \/ Tick \/ UNCHANGED vars)
        BY DEF ControlPlane, Tick, vars, Ends
  <1> HIDE DEF Goal
  <1>14. Goal
        BY <1>5, <1>6, <1>7, <1>8, <1>9, <1>10, <1>11, <1>12, <1>13 DEF Next
  <1> QED BY <1>14 DEF Goal

\* While the table holds a traffic, no lookup for it ends at another instance: a lookup
\* that stores another began when the table held none, and no other lookup stores.
THEOREM TrafficStaysHolds == Spec => TrafficStays
  <1>1. ASSUME IInv, [Next]_vars, NEW q \in Lookups,
               Ends(q), Held(TrafficOf[q]), lookup'[q].target[2] # None
        PROVE  lookup'[q].target[2] = affinity[TrafficOf[q]].instance
        BY <1>1, EndsAt
  <1>2. IInv /\ [Next]_vars =>
            [\A q \in Lookups :
                Ends(q) /\ Held(TrafficOf[q]) /\ lookup'[q].target[2] # None
                   => lookup'[q].target[2] = affinity[TrafficOf[q]].instance]_vars
        BY <1>1
  <1> QED BY <1>2, InductiveInvariant, PTL DEF Spec, TrafficStays

\* What a lookup leaves behind when it ends could not be served all the time.
LEMMA LeftBehind ==
    ASSUME IInv, [Next]_vars, NEW q \in Lookups, Ends(q),
           NEW chosen, chosen = lookup'[q].target[1],
           NEW n, n = IF Route(chosen).kind = "external" THEN 0 ELSE ScopeIndex(q, chosen)
    PROVE  /\ \A m \in Above(q, n) : \E r \in past[q].all \ Steady(q) : ScopeIndex(q, r) = m
           /\ n # 0 => ~\E r \in Steady(q) : ScopeIndex(q, r) = n /\ Better(r, chosen)
  <1>1. /\ config \in Configs /\ past[q].all \in SUBSET DOMAIN config.route
        /\ lookup[q] \in LookupType
        BY DEF IInv, TypeOK
  <1>2. \A r \in past[q].all : ScopeIndex(q, r) \in Nat \ {0}
        BY <1>1, Indexes
  <1>3. Found(q) /\ AllSettled(q)
        BY DEF IInv, Good
  <1>4. CASE lookup[q].pc \in {"select", "store"} /\ chosen = Current(q)
    <2>1. /\ Running(q) /\ chosen \in lookup[q].rest /\ chosen \in past[q].all
          /\ \A r \in lookup[q].rest \ {chosen} : Before(q, chosen, r)
          BY <1>4, CurrentIs
    <2>2. n = ScopeIndex(q, chosen)
          BY <1>3, <2>1 DEF Found
    <2>3. ASSUME NEW r \in past[q].all, ScopeIndex(q, r) < n
          PROVE  \E s \in past[q].all \ Steady(q) : ScopeIndex(q, s) = ScopeIndex(q, r)
      <3>1. r \notin lookup[q].rest
            BY <1>2, <2>1, <2>2, <2>3 DEF Before
      <3>2. Settled(q, r)
            BY <1>3, <2>1, <3>1 DEF AllSettled
      <3> QED BY <3>2 DEF Settled
    <2>4. ASSUME NEW r \in Steady(q), ScopeIndex(q, r) = n, Better(r, chosen)
          PROVE  FALSE
      <3>1. r \in past[q].all
            BY DEF Steady
      <3>2. Before(q, r, chosen) /\ r # chosen
            BY <1>1, <2>1, <2>2, <2>4, <3>1, BeforeOrders DEF Before
      <3>3. r \notin lookup[q].rest
            BY <1>1, <2>1, <3>1, <3>2, BeforeOrders
      <3>4. Settled(q, r)
            BY <1>3, <2>1, <3>1, <3>3 DEF AllSettled
      <3> QED BY <2>1, <2>2, <2>4, <3>4 DEF Settled
    <2>5. n \in Nat \ {0}
          BY <1>2, <2>1, <2>2
    <2> QED BY <2>3, <2>4, <2>5 DEF Above
  <1>5. CASE lookup[q].pc = "external" /\ chosen \in lookup[q].external
    <2>1. Running(q)
          BY <1>5 DEF Running
    <2>2. n = 0 /\ lookup[q].rest = {}
          BY <1>3, <1>5, <2>1 DEF Found
    <2>3. ASSUME NEW r \in past[q].all
          PROVE  \E s \in past[q].all \ Steady(q) : ScopeIndex(q, s) = ScopeIndex(q, r)
      <3>1. Settled(q, r)
            BY <1>3, <2>1, <2>2 DEF AllSettled
      <3> QED BY <3>1 DEF Settled
    <2> QED BY <2>2, <2>3 DEF Above
  <1> QED BY <1>4, <1>5, EndsAt

\* A request is not sent past a scope whose connector routes could all be served all the
\* time, nor, in the scope it ends in, to a route when a better one could: the lookup
\* drops a route, or the rest of its scope, only for a failure of that route.
THEOREM NothingSkippedHolds == Spec => NothingSkipped
  <1>1. ASSUME IInv, [Next]_vars, NEW q \in Lookups, Ends(q)
        PROVE  LET chosen == lookup'[q].target[1]
                   n      == IF Route(chosen).kind = "external" THEN 0 ELSE ScopeIndex(q, chosen)
               IN /\ \A m \in Above(q, n) : \E r \in past[q].all \ Steady(q) : ScopeIndex(q, r) = m
                  /\ n # 0 => ~\E r \in Steady(q) : ScopeIndex(q, r) = n /\ Better(r, chosen)
    <2>1. PICK chosen : chosen = lookup'[q].target[1]
          OBVIOUS
    <2>2. PICK n : n = IF Route(chosen).kind = "external" THEN 0 ELSE ScopeIndex(q, chosen)
          OBVIOUS
    <2> QED BY <1>1, <2>1, <2>2, LeftBehind
  <1>2. IInv /\ [Next]_vars =>
            [\A q \in Lookups : Ends(q) =>
                LET chosen == lookup'[q].target[1]
                    n      == IF Route(chosen).kind = "external" THEN 0 ELSE ScopeIndex(q, chosen)
                IN /\ \A m \in Above(q, n) : \E r \in past[q].all \ Steady(q) : ScopeIndex(q, r) = m
                   /\ n # 0 => ~\E r \in Steady(q) : ScopeIndex(q, r) = n /\ Better(r, chosen)]_vars
        BY <1>1
  <1> QED BY <1>2, InductiveInvariant, PTL DEF Spec, NothingSkipped

-----------------------------------------------------------------------------
\* The endpoint cache (DirectProxy).

RequestFields == {"pc", "at", "from", "refused", "left"}

\* A request, the clock as it has read it.
ReadAt(q, t) == q = [f \in RequestFields |-> q[f]] /\ q.at = t

\* No request has read the clock ahead of its time.
DirectInv ==
    /\ clock \in Nat
    /\ record = [k \in Targets |-> record[k]]
    /\ \A k \in Targets : record[k] # None => record[k] \in Nat
    /\ request = [r \in ProxyRequests |-> request[r]]
    /\ \A r \in ProxyRequests : /\ request[r] = [f \in RequestFields |-> request[r][f]]
                                /\ request[r].at \in 0..clock

\* Every step leaves the times where they are in the order they were read.
LEMMA DirectStep ==
    ASSUME DirectInv, [Direct!Next]_Direct!vars
    PROVE  DirectInv'
  <1> USE SideAssumption
  <1>1. CASE UNCHANGED Direct!vars
        BY <1>1 DEF DirectInv, Direct!vars
  <1>2. ASSUME NEW r \in ProxyRequests, NEW q, request' = [request EXCEPT ![r] = q],
               q = [f \in RequestFields |-> q[f]], q.at \in 0..clock, clock' = clock,
               \/ record' = record
               \/ record' = [record EXCEPT ![TargetOf[r]] = None]
               \/ record' = [record EXCEPT ![TargetOf[r]] = clock]
        PROVE  DirectInv'
        BY <1>2 DEF DirectInv
  <1>3. CASE Direct!Tick
        BY <1>3 DEF DirectInv, Direct!Tick
  <1>4. ASSUME NEW r \in ProxyRequests, Direct!Begin(r) PROVE DirectInv'
    <2>1. PICK q : q = [Direct!Idle EXCEPT !.pc = "get"]
          OBVIOUS
    <2>2. q = [f \in RequestFields |-> q[f]] /\ q.at = 0
          BY <2>1 DEF Direct!Idle, RequestFields
    <2>3. request' = [request EXCEPT ![r] = q] /\ clock' = clock /\ record' = record
          BY <1>4, <2>1 DEF Direct!Begin, Direct!Step
    <2>4. q.at \in 0..clock
          BY <2>2 DEF DirectInv
    <2> QED BY <1>2, <2>2, <2>3, <2>4
  \* A record of a request that was changed keeps its fields.
  <1>a. ASSUME NEW r \in ProxyRequests, NEW t
        PROVE  ReadAt(Direct!Miss(r, t), t)
    <2>1. PICK q : q = Direct!Miss(r, t)
          OBVIOUS
    <2>2. q = [f \in RequestFields |-> q[f]] /\ q.at = t
          BY <2>1 DEF DirectInv, RequestFields, Direct!Miss
    <2> QED BY <2>1, <2>2 DEF ReadAt
  <1>b. ASSUME NEW r \in ProxyRequests, NEW put, NEW t
        PROVE  ReadAt(Direct!Hit(r, put, t), t)
    <2>1. PICK q : q = Direct!Hit(r, put, t)
          OBVIOUS
    <2>2. q = [f \in RequestFields |-> q[f]] /\ q.at = t
          BY <2>1 DEF DirectInv, RequestFields, Direct!Hit
    <2> QED BY <2>1, <2>2 DEF ReadAt
  <1>c. ASSUME NEW r \in ProxyRequests, NEW t, NEW p
        PROVE  ReadAt([request[r] EXCEPT !.at = t, !.pc = p], t)
    <2>1. PICK q : q = [request[r] EXCEPT !.at = t, !.pc = p]
          OBVIOUS
    <2>2. q = [f \in RequestFields |-> q[f]] /\ q.at = t
          BY <2>1 DEF DirectInv, RequestFields
    <2> QED BY <2>1, <2>2 DEF ReadAt
  <1>d. ASSUME NEW r \in ProxyRequests, NEW p
        PROVE  ReadAt([request[r] EXCEPT !.pc = p], request[r].at)
    <2>1. PICK q : q = [request[r] EXCEPT !.pc = p]
          OBVIOUS
    <2>2. q = [f \in RequestFields |-> q[f]] /\ q.at = request[r].at
          BY <2>1 DEF DirectInv, RequestFields
    <2> QED BY <2>1, <2>2 DEF ReadAt
  <1>e. ASSUME NEW r \in ProxyRequests, NEW p, NEW b
        PROVE  ReadAt([request[r] EXCEPT !.pc = p, !.refused = b], request[r].at)
    <2>1. PICK q : q = [request[r] EXCEPT !.pc = p, !.refused = b]
          OBVIOUS
    <2>2. q = [f \in RequestFields |-> q[f]] /\ q.at = request[r].at
          BY <2>1 DEF DirectInv, RequestFields
    <2> QED BY <2>1, <2>2 DEF ReadAt
  <1>f. ASSUME NEW r \in ProxyRequests, NEW p, NEW n, NEW u
        PROVE  ReadAt([request[r] EXCEPT !.pc = p, !.from = n, !.left = u], request[r].at)
    <2>1. PICK q : q = [request[r] EXCEPT !.pc = p, !.from = n, !.left = u]
          OBVIOUS
    <2>2. q = [f \in RequestFields |-> q[f]] /\ q.at = request[r].at
          BY <2>1 DEF DirectInv, RequestFields
    <2> QED BY <2>1, <2>2 DEF ReadAt
  <1>g. ASSUME NEW r \in ProxyRequests, NEW u
        PROVE  ReadAt([request[r] EXCEPT !.left = u], request[r].at)
    <2>1. PICK q : q = [request[r] EXCEPT !.left = u]
          OBVIOUS
    <2>2. q = [f \in RequestFields |-> q[f]] /\ q.at = request[r].at
          BY <2>1 DEF DirectInv, RequestFields
    <2> QED BY <2>1, <2>2 DEF ReadAt
  <1>h. ASSUME NEW r \in ProxyRequests
        PROVE  ReadAt(Direct!Over, 0)
    <2>1. PICK q : q = Direct!Over
          OBVIOUS
    <2>2. q = [f \in RequestFields |-> q[f]] /\ q.at = 0
          BY <2>1 DEF DirectInv, RequestFields, Direct!Over, Direct!Idle
    <2> QED BY <2>1, <2>2 DEF ReadAt
  <1>i. clock \in 0..clock /\ 0 \in 0..clock /\ \A r \in ProxyRequests : request[r].at \in 0..clock
        BY DEF DirectInv
  <1>5. ASSUME NEW r \in ProxyRequests, Direct!Get(r) PROVE DirectInv'
    <2>1. clock' = clock /\ record' = record
          BY <1>5 DEF Direct!Get
    <2>2. PICK put : put = record[TargetOf[r]]
          OBVIOUS
    <2>3. \/ Direct!Step(r, Direct!Miss(r, clock))
          \/ Direct!Step(r, [request[r] EXCEPT !.at = clock, !.pc = "recheck"])
          \/ Direct!Step(r, Direct!Hit(r, put, clock))
          BY <1>5, <2>2 DEF Direct!Get
    <2>4. PICK q : Direct!Step(r, q) /\ ReadAt(q, clock)
          BY <1>a, <1>b, <1>c, <2>3, Zenon
    <2> QED BY <1>2, <1>i, <2>1, <2>4 DEF Direct!Step, ReadAt
  <1>6. ASSUME NEW r \in ProxyRequests, Direct!Recheck(r) PROVE DirectInv'
    <2>1. clock' = clock /\ (record' = record \/ record' = [record EXCEPT ![TargetOf[r]] = None])
          BY <1>6 DEF DirectInv, Direct!Recheck
    <2>2. PICK put, t : put = record[TargetOf[r]] /\ t = request[r].at
          OBVIOUS
    <2>3. \/ Direct!Step(r, Direct!Miss(r, t))
          \/ Direct!Step(r, Direct!Hit(r, put, t))
          BY <1>6, <2>2 DEF Direct!Recheck
    <2>4. PICK q : Direct!Step(r, q) /\ ReadAt(q, t)
          BY <1>a, <1>b, <2>3, Zenon
    <2> QED BY <1>2, <1>i, <2>1, <2>2, <2>4 DEF Direct!Step, ReadAt
  <1>7. ASSUME NEW r \in ProxyRequests, Direct!Discover(r) \/ Direct!Dial(r) \/ Direct!Relay(r)
        PROVE  DirectInv'
    <2>1. clock' = clock /\ record' = record
          BY <1>7 DEF Direct!Discover, Direct!Dial, Direct!Relay
    <2>2. PICK u : u = request[r].left - 1
          OBVIOUS
    <2>3. \/ Direct!Step(r, [request[r] EXCEPT !.pc = "put"])
          \/ Direct!Step(r, [request[r] EXCEPT !.pc = "relay"])
          \/ Direct!Step(r, [request[r] EXCEPT !.pc = "dial", !.refused = TRUE])
          \/ Direct!Step(r, [request[r] EXCEPT !.left = u])
          \/ Direct!Step(r, Direct!Over)
          BY <1>7, <2>2 DEF Direct!Discover, Direct!Dial, Direct!Relay
    <2>4. PICK q : Direct!Step(r, q) /\ (ReadAt(q, request[r].at) \/ ReadAt(q, 0))
          BY <1>d, <1>e, <1>g, <1>h, <2>3, Zenon
    <2> QED BY <1>2, <1>i, <2>1, <2>4 DEF Direct!Step, ReadAt
  <1>8. ASSUME NEW r \in ProxyRequests, Direct!Put(r) PROVE DirectInv'
    <2>1. clock' = clock /\ record' = [record EXCEPT ![TargetOf[r]] = clock]
          BY <1>8 DEF Direct!Put
    <2>2. Direct!Step(r, [request[r] EXCEPT !.pc = "dial", !.from = None, !.left = Width])
          BY <1>8 DEF Direct!Put
    <2>3. PICK q : Direct!Step(r, q) /\ ReadAt(q, request[r].at)
          BY <1>f, <2>2, Zenon
    <2> QED BY <1>2, <1>i, <2>1, <2>3 DEF Direct!Step, ReadAt
  <1> QED BY <1>1, <1>3, <1>4, <1>5, <1>6, <1>7, <1>8, Zenon DEF Direct!Next

\* The invariant of the endpoint cache.
THEOREM DirectSafe == Direct!Spec => []DirectInv
  <1>1. ASSUME Direct!Init PROVE DirectInv
    <2>1. PICK q : q = Direct!Idle
          OBVIOUS
    <2>2. q = [f \in RequestFields |-> q[f]] /\ q.at = 0
          BY <2>1 DEF Direct!Idle, RequestFields
    <2>3. record = [k \in Targets |-> None] /\ request = [r \in ProxyRequests |-> q] /\ clock = 0
          BY <1>1, <2>1 DEF Direct!Init
    <2> QED BY <2>2, <2>3 DEF DirectInv
  <1>2. DirectInv /\ [Direct!Next]_Direct!vars => DirectInv'
        BY DirectStep
  <1> QED BY <1>1, <1>2, PTL DEF Direct!Spec

\* A record that leaves the cache is too old for everyone, whatever clock it was judged by.
LEMMA DirectKept ==
    ASSUME DirectInv, [Direct!Next]_Direct!vars, NEW k \in Targets,
           record[k] # None, record'[k] = None
    PROVE  clock - record[k] > Fresh + Stale
  <1> USE SideAssumption
  <1>1. ASSUME NEW r \in ProxyRequests, Direct!Recheck(r)
        PROVE  clock - record[k] > Fresh + Stale
    <2>1. /\ TargetOf[r] = k
          /\ request[r].at - record[k] > Fresh + Stale
          BY <1>1 DEF DirectInv, Direct!Recheck, Direct!Age
    <2> QED BY <2>1 DEF DirectInv
  <1>2. ASSUME NEW r \in ProxyRequests, Direct!Put(r) PROVE FALSE
        BY <1>2 DEF DirectInv, Direct!Put
  <1>3. ASSUME record' = record PROVE FALSE
        BY <1>3
  <1> QED BY <1>1, <1>2, <1>3 DEF Direct!Next, Direct!vars, Direct!Tick, Direct!Begin, Direct!Get,
          Direct!Discover, Direct!Dial, Direct!Relay

-----------------------------------------------------------------------------
\* The calls (IngressProxy).

CallFields == {"pc", "attempt", "tries", "target", "heads", "failures", "got"}

\* Where a call is before the head of its response, and where it is after it.
Unanswered == {"resolve", "pause", "open", "send", "trip", "read", "dial", "exchange", "head"}
Committed  == {"copy", "recycle", "forward", "body", "close", "done"}

CallFits(l) ==
    /\ l = [f \in CallFields |-> l[f]]
    /\ l.heads \in {0, 1}
    /\ \/ l.pc \in Unanswered /\ l.heads = 0
       \/ l.pc \in Committed /\ l.heads = 1
       \/ l.pc = "abort"

CallsInv ==
    /\ call = [c \in Calls |-> call[c]]
    /\ \A c \in Calls : CallFits(call[c])

\* How a call goes on when an attempt failed, and how it ends.
LEMMA CallEnds ==
    ASSUME CallsInv, NEW c \in Calls, NEW eof \in BOOLEAN
    PROVE  /\ Ingress!Fail(c) => \E l : Ingress!Step(c, l) /\ CallFits(l)
           /\ Ingress!AttemptFailed(c, eof) => \E l : Ingress!Step(c, l) /\ CallFits(l)
           /\ call[c].heads = 0 /\ Ingress!Answer(c) => \E l : Ingress!Step(c, l) /\ CallFits(l)
           /\ call[c].heads = 1 /\ Ingress!Finish(c) => \E l : Ingress!Step(c, l) /\ CallFits(l)
  <1> USE DEF CallsInv
  <1>1. CallFits(call[c])
        OBVIOUS
  <1>2. ASSUME call[c].heads = 0, Ingress!Answer(c)
        PROVE  \E l : Ingress!Step(c, l) /\ CallFits(l)
    <2>1. PICK l : l = [call[c] EXCEPT !.pc = "done", !.heads = @ + 1, !.failures = @ + 1]
          OBVIOUS
    <2>2. l = [f \in CallFields |-> l[f]]
          BY <1>1, <2>1 DEF CallFits, CallFields
    <2>3. l.pc = "done" /\ l.heads = 0 + 1
          BY <1>1, <1>2, <2>1 DEF CallFits, CallFields
    <2>4. CallFits(l)
          BY <2>2, <2>3 DEF CallFits, Committed
    <2> QED BY <1>2, <2>1, <2>4 DEF Ingress!Answer
  <1>3. ASSUME call[c].heads = 1, Ingress!Finish(c)
        PROVE  \E l : Ingress!Step(c, l) /\ CallFits(l)
    <2>1. PICK l : l = [call[c] EXCEPT !.pc = "done"]
          OBVIOUS
    <2>2. CallFits(l)
          BY <1>1, <1>3, <2>1 DEF CallFits, CallFields, Committed
    <2> QED BY <1>3, <2>1, <2>2 DEF Ingress!Finish, Ingress!Goto
  <1>4. ASSUME Ingress!Fail(c)
        PROVE  \E l : Ingress!Step(c, l) /\ CallFits(l)
    <2>1. call[c].heads = 0 \/ call[c].heads = 1
          BY <1>1 DEF CallFits
    <2> QED BY <1>2, <1>3, <1>4, <2>1 DEF Ingress!Fail
  <1>5. ASSUME Ingress!AttemptFailed(c, eof)
        PROVE  \E l : Ingress!Step(c, l) /\ CallFits(l)
    <2>1. CASE Ingress!Retry(c, eof)
      <3>1. PICK l : l = [call[c] EXCEPT !.pc = "open", !.attempt = @ + 1]
            OBVIOUS
      <3>2. call[c].heads = 0
            BY <2>1 DEF Ingress!Retry
      <3>3. l = [f \in CallFields |-> l[f]]
            BY <1>1, <3>1 DEF CallFits, CallFields
      <3>4. l.pc = "open" /\ l.heads = 0
            BY <1>1, <3>1, <3>2 DEF CallFits, CallFields
      <3>6. CallFits(l)
            BY <3>3, <3>4 DEF CallFits, Unanswered
      <3> QED BY <1>5, <2>1, <3>1, <3>6 DEF Ingress!AttemptFailed
    <2>2. CASE ~Ingress!Retry(c, eof)
          BY <1>4, <1>5, <2>2 DEF Ingress!AttemptFailed
    <2> QED BY <2>1, <2>2
  <1> QED BY <1>2, <1>3, <1>4, <1>5

\* A call that goes on to another place.
LEMMA CallGoes ==
    ASSUME CallsInv, NEW c \in Calls, NEW pc, Ingress!Goto(c, pc),
           \/ pc \in Unanswered /\ call[c].heads = 0
           \/ pc \in Committed /\ call[c].heads = 1
           \/ pc = "abort"
    PROVE  \E l : Ingress!Step(c, l) /\ CallFits(l)
  <1>1. CallFits(call[c])
        BY DEF CallsInv
  <1>2. PICK l : l = [call[c] EXCEPT !.pc = pc]
        OBVIOUS
  <1>3. l = [f \in CallFields |-> l[f]] /\ l.pc = pc /\ l.heads = call[c].heads
        BY <1>1, <1>2 DEF CallFits, CallFields
  <1>4. CallFits(l)
        BY <1>1, <1>3 DEF CallFits
  <1> QED BY <1>2, <1>4 DEF Ingress!Goto

\* A call that has the head of its response.
LEMMA CallIsAnswered ==
    ASSUME CallsInv, NEW c \in Calls, NEW pc \in Committed, call[c].pc \in Unanswered,
           Ingress!Step(c, [call[c] EXCEPT !.pc = pc, !.heads = @ + 1])
    PROVE  \E l : Ingress!Step(c, l) /\ CallFits(l)
  <1>1. CallFits(call[c])
        BY DEF CallsInv
  <1>2. PICK l : l = [call[c] EXCEPT !.pc = pc, !.heads = @ + 1]
        OBVIOUS
  <1>3. call[c].heads = 0
        BY <1>1 DEF CallFits, Unanswered, Committed
  <1>4. l = [f \in CallFields |-> l[f]] /\ l.pc = pc
        BY <1>1, <1>2 DEF CallFits, CallFields
  <1>5. l.heads = call[c].heads + 1
        BY <1>1, <1>2 DEF CallFits, CallFields
  <1>6. CallFits(l)
        BY <1>3, <1>4, <1>5 DEF CallFits
  <1> QED BY <1>2, <1>6

\* Whatever a handler does, its call fits.
LEMMA HandlerFits ==
    ASSUME CallsInv, NEW c \in Calls, Ingress!Handler(c)
    PROVE  \E l : Ingress!Step(c, l) /\ CallFits(l)
  <1> DEFINE Fits == \E l : Ingress!Step(c, l) /\ CallFits(l)
  <1>1. CallFits(call[c])
        BY DEF CallsInv
  <1>2. call[c].pc \in Unanswered => call[c].heads = 0
        BY <1>1 DEF CallFits, Unanswered, Committed
  <1>3. call[c].pc \in Committed => call[c].heads = 1
        BY <1>1 DEF CallFits, Unanswered, Committed
  <1>4. /\ Ingress!Fail(c) => Fits
        /\ \A eof \in BOOLEAN : Ingress!AttemptFailed(c, eof) => Fits
        /\ call[c].heads = 0 /\ Ingress!Answer(c) => Fits
        /\ call[c].heads = 1 /\ Ingress!Finish(c) => Fits
        BY CallEnds
  <1>5. ASSUME NEW target, call[c].pc = "resolve", Ingress!Resolved(c, target)
        PROVE  Fits
    <2>1. PICK l : l = [call[c] EXCEPT !.target = target,
                                       !.pc = IF target = "connector" THEN "open" ELSE "dial"]
          OBVIOUS
    <2>2. call[c].heads = 0
          BY <1>2, <1>5 DEF Unanswered
    <2>3. l = [f \in CallFields |-> l[f]] /\ l.pc \in Unanswered /\ l.heads = 0
          BY <1>1, <2>1, <2>2 DEF CallFits, CallFields, Unanswered
    <2>4. CallFits(l)
          BY <2>3 DEF CallFits
    <2> QED BY <1>5, <2>1, <2>4 DEF Ingress!Resolved
  <1>6. ASSUME Ingress!ResolveHTTP(c) \/ Ingress!ResolveGRPC(c)
        PROVE  Fits
    <2>1. call[c].pc = "resolve" /\ call[c].heads = 0
          BY <1>2, <1>6 DEF Ingress!ResolveHTTP, Ingress!ResolveGRPC, Unanswered
    <2>2. \/ \E target \in {"connector", "external"} : Ingress!Resolved(c, target)
          \/ Ingress!Answer(c)
          \/ Ingress!Goto(c, "pause")
          BY <1>6, Zenon DEF Ingress!ResolveHTTP, Ingress!ResolveGRPC, Ingress!Refused
    <2>3. "pause" \in Unanswered
          BY DEF Unanswered
    <2> QED BY <1>4, <1>5, <2>1, <2>2, <2>3, CallGoes
  <1>7. ASSUME Ingress!Pause(c)
        PROVE  Fits
    <2>1. call[c].pc = "pause" /\ call[c].heads = 0
          BY <1>2, <1>7 DEF Ingress!Pause, Unanswered
    <2>2. CASE Ingress!Answer(c)
          BY <1>4, <2>1, <2>2
    <2>3. CASE Ingress!Step(c, [call[c] EXCEPT !.pc = "resolve", !.tries = @ + 1])
      <3>1. PICK l : l = [call[c] EXCEPT !.pc = "resolve", !.tries = @ + 1]
            OBVIOUS
      <3>2. l = [f \in CallFields |-> l[f]] /\ l.pc = "resolve" /\ l.heads = 0
            BY <1>1, <2>1, <3>1 DEF CallFits, CallFields
      <3>3. CallFits(l)
            BY <3>2 DEF CallFits, Unanswered
      <3> QED BY <2>3, <3>1, <3>3
    <2> QED BY <1>7, <2>2, <2>3, Zenon DEF Ingress!Pause
  <1>8. ASSUME Ingress!Open(c)
        PROVE  Fits
    <2>1. call[c].heads = 0
          BY <1>2, <1>8 DEF Ingress!Open, Unanswered
    <2>2. \/ \E pc \in {"send", "trip"} : Ingress!Goto(c, pc)
          \/ \E eof \in BOOLEAN : Ingress!AttemptFailed(c, eof)
          BY <1>8 DEF Ingress!Open
    <2>3. {"send", "trip"} \subseteq Unanswered
          BY DEF Unanswered
    <2> QED BY <1>4, <2>1, <2>2, <2>3, CallGoes
  <1>9. ASSUME Ingress!Send(c)
        PROVE  Fits
    <2>1. call[c].heads = 0
          BY <1>2, <1>9 DEF Ingress!Send, Unanswered
    <2>2. \/ Ingress!Goto(c, "read")
          \/ \E eof \in BOOLEAN : Ingress!AttemptFailed(c, eof)
          BY <1>9, Zenon DEF Ingress!Send
    <2>3. "read" \in Unanswered
          BY DEF Unanswered
    <2> QED BY <1>4, <2>1, <2>2, <2>3, CallGoes
  <1>10. ASSUME Ingress!Read(c)
         PROVE  Fits
    <2>1. "copy" \in Committed /\ call[c].pc \in Unanswered
          BY <1>10 DEF Ingress!Read, Unanswered, Committed
    <2>2. \/ Ingress!Step(c, [call[c] EXCEPT !.pc = "copy", !.heads = @ + 1])
          \/ \E eof \in BOOLEAN : Ingress!AttemptFailed(c, eof)
          BY <1>10, Zenon DEF Ingress!Read
    <2> QED BY <1>4, <2>1, <2>2, CallIsAnswered
  <1>11. ASSUME Ingress!Copy(c) \/ Ingress!Recycle(c)
         PROVE  Fits
    <2>1. call[c].heads = 1
          BY <1>3, <1>11 DEF Ingress!Copy, Ingress!Recycle, Committed
    <2>2. \/ Ingress!Goto(c, "recycle")
          \/ Ingress!Finish(c)
          \/ \E eof \in BOOLEAN : Ingress!AttemptFailed(c, eof)
          BY <1>11, Zenon DEF Ingress!Copy, Ingress!Recycle
    <2>3. "recycle" \in Committed
          BY DEF Committed
    <2> QED BY <1>4, <2>1, <2>2, <2>3, CallGoes
  <1>12. ASSUME Ingress!Dial(c)
         PROVE  Fits
    <2>1. call[c].heads = 0 /\ "exchange" \in Unanswered
          BY <1>2, <1>12 DEF Ingress!Dial, Unanswered
    <2>2. Ingress!Goto(c, "exchange") \/ Ingress!Fail(c)
          BY <1>12, Zenon DEF Ingress!Dial
    <2> QED BY <1>4, <2>1, <2>2, CallGoes
  <1>13. ASSUME Ingress!Exchange(c)
         PROVE  Fits
    <2>1. "forward" \in Committed /\ call[c].pc \in Unanswered
          BY <1>13 DEF Ingress!Exchange, Unanswered, Committed
    <2>2. Ingress!Fail(c) \/ Ingress!Step(c, [call[c] EXCEPT !.pc = "forward", !.heads = @ + 1])
          BY <1>13, Zenon DEF Ingress!Exchange
    <2> QED BY <1>4, <2>1, <2>2, CallIsAnswered
  <1>14. ASSUME Ingress!Forward(c)
         PROVE  Fits
    <2>1. call[c].heads = 1
          BY <1>3, <1>14 DEF Ingress!Forward, Committed
    <2>2. Ingress!Finish(c) \/ Ingress!Fail(c)
          BY <1>14, Zenon DEF Ingress!Forward
    <2> QED BY <1>4, <2>1, <2>2
  <1>15. ASSUME Ingress!RoundTrip(c)
         PROVE  Fits
    <2>1. call[c].heads = 0 /\ "head" \in Unanswered
          BY <1>2, <1>15 DEF Ingress!RoundTrip, Unanswered
    <2>2. Ingress!Goto(c, "head") \/ Ingress!AttemptFailed(c, FALSE)
          BY <1>15, Zenon DEF Ingress!RoundTrip
    <2> QED BY <1>4, <2>1, <2>2, CallGoes
  <1>16. ASSUME Ingress!ResponseHead(c)
         PROVE  Fits
    <2>1. "body" \in Committed /\ call[c].pc \in Unanswered
          BY <1>16 DEF Ingress!ResponseHead, Unanswered, Committed
    <2>2. \/ Ingress!Step(c, [call[c] EXCEPT !.pc = "body", !.heads = @ + 1])
          \/ Ingress!Goto(c, "abort")
          BY <1>16, Zenon DEF Ingress!ResponseHead
    <2> QED BY <2>1, <2>2, CallIsAnswered, CallGoes
  <1>17. ASSUME Ingress!ResponseBody(c)
         PROVE  Fits
    <2>1. call[c].heads = 1 /\ "close" \in Committed
          BY <1>3, <1>17 DEF Ingress!ResponseBody, Committed
    <2>2. Ingress!Goto(c, "close") \/ Ingress!Goto(c, "abort")
          BY <1>17, Zenon DEF Ingress!ResponseBody
    <2> QED BY <2>1, <2>2, CallGoes
  <1>18. ASSUME Ingress!CloseConn(c)
         PROVE  Fits
    <2>1. "recycle" \in Committed /\ "close" \in Committed
          BY DEF Committed
    <2>2. \/ call[c].pc = "close" /\ Ingress!Goto(c, "recycle")
          \/ Ingress!AttemptFailed(c, FALSE)
          BY <1>18, Zenon DEF Ingress!CloseConn
    <2> QED BY <1>3, <1>4, <2>1, <2>2, CallGoes
  <1> HIDE DEF Fits
  <1>19. Fits
         BY <1>6, <1>7, <1>8, <1>9, <1>10, <1>11, <1>12, <1>13, <1>14, <1>15, <1>16, <1>17, <1>18,
            Zenon DEF Ingress!Handler
  <1> QED BY <1>19 DEF Fits

\* One step of the entries.
LEMMA CallsStep ==
    ASSUME CallsInv, [Ingress!Next]_Ingress!vars
    PROVE  CallsInv'
  <1>1. ASSUME UNCHANGED call
        PROVE  CallsInv'
        BY <1>1 DEF CallsInv, CallFits
  <1>2. ASSUME NEW c \in Calls, \E l : Ingress!Step(c, l) /\ CallFits(l)
        PROVE  CallsInv'
    <2>1. PICK l : call' = [call EXCEPT ![c] = l] /\ CallFits(l)
          BY <1>2 DEF Ingress!Step
    <2>2. call' = [d \in Calls |-> call'[d]]
          BY <2>1 DEF CallsInv
    <2>3. \A d \in Calls : CallFits(call'[d])
          BY <2>1 DEF CallsInv
    <2> QED BY <2>2, <2>3 DEF CallsInv, CallFits
  <1>3. ASSUME NEW c \in Calls, Ingress!ReadFrame(c)
        PROVE  CallsInv'
    <2>1. PICK l : l = [call[c] EXCEPT !.got = @ \cup {Head(wire[c])}]
          OBVIOUS
    <2>2. CallFits(call[c])
          BY DEF CallsInv
    <2>3. l = [f \in CallFields |-> l[f]] /\ l.pc = call[c].pc /\ l.heads = call[c].heads
          BY <2>1, <2>2 DEF CallFits, CallFields
    <2>4. CallFits(l)
          BY <2>2, <2>3 DEF CallFits
    <2>5. Ingress!Step(c, l)
          BY <1>3, <2>1 DEF Ingress!ReadFrame
    <2> QED BY <1>2, <2>4, <2>5
  <1>4. ASSUME NEW c \in Calls,
               \/ Ingress!Leave(c) \/ Ingress!LockRead(c) \/ Ingress!ReadCancelled(c)
               \/ Ingress!TunnelEnds(c) \/ Ingress!Serve(c)
        PROVE  UNCHANGED call
        BY <1>4 DEF Ingress!Leave, Ingress!LockRead, Ingress!ReadCancelled, Ingress!TunnelEnds,
                    Ingress!ReadFails, Ingress!Serve
  <1>5. CASE UNCHANGED Ingress!vars
        BY <1>1, <1>5 DEF Ingress!vars
  <1>6. ASSUME NEW c \in Calls,
               \/ Ingress!Leave(c) \/ Ingress!Handler(c) \/ Ingress!ReadLoop(c)
               \/ Ingress!TunnelEnds(c) \/ Ingress!Serve(c)
        PROVE  CallsInv'
    <2>1. CASE Ingress!Handler(c)
          BY <1>2, <2>1, HandlerFits
    <2>2. CASE Ingress!ReadFrame(c)
          BY <1>3, <2>2
    <2>3. CASE \/ Ingress!Leave(c) \/ Ingress!LockRead(c) \/ Ingress!ReadCancelled(c)
               \/ Ingress!TunnelEnds(c) \/ Ingress!Serve(c)
          BY <1>1, <1>4, <2>3
    <2> QED BY <1>6, <2>1, <2>2, <2>3, Zenon DEF Ingress!ReadLoop
  <1> QED BY <1>5, <1>6, Zenon DEF Ingress!Next

\* Every call, whatever failed, is answered once.
THEOREM CallsSafe == Ingress!Spec => []Ingress!OneAnswer
  <1>1. Ingress!Init => CallsInv
    <2>1. ASSUME Ingress!Init, NEW c \in Calls
          PROVE  call[c] = Ingress!Start
          BY <2>1 DEF Ingress!Init
    <2>2. CallFits(Ingress!Start)
          BY DEF CallFits, CallFields, Ingress!Start, Unanswered
    <2> QED BY <2>1, <2>2 DEF CallsInv, Ingress!Init
  <1>2. CallsInv /\ [Ingress!Next]_Ingress!vars => CallsInv'
        BY CallsStep
  <1>3. CallsInv => Ingress!OneAnswer
        BY DEF CallsInv, CallFits, Ingress!OneAnswer, Unanswered
  <1> QED BY <1>1, <1>2, <1>3, PTL DEF Ingress!Spec

-----------------------------------------------------------------------------
\* The owners of traffics (TrafficOwnership).

\* The records of a table that are of a version or a later one.
From(o, v) == {u \in OwnedTraffics : o[u] # None /\ o[u].version >= v}

\* The module counts as this one does.
LEMMA OwnersCount == \A S : Owners!Cardinality(S) = Cardinality(S)
  BY Zenon DEF Owners!Cardinality, Cardinality

\* A set of traffics is finite, and a larger one has no fewer.
LEMMA TrafficsCount ==
    ASSUME NEW S \in SUBSET OwnedTraffics, NEW T \in SUBSET S
    PROVE  /\ IsFiniteSet(S) /\ Cardinality(S) \in Nat
           /\ Cardinality(T) \in Nat /\ Cardinality(T) <= Cardinality(S)
  <1>1. IsFiniteSet(S)
        BY SideAssumption, FS_Subset
  <1>2. IsFiniteSet(T) /\ Cardinality(T) <= Cardinality(S)
        BY <1>1, FS_Subset
  <1> QED BY <1>1, <1>2, FS_CardinalityType

\* A table whose records all have their reference in the queue fits when some references
\* have been taken, as few as possible: a record that goes leaves as many later ones as fit.
LEMMA EvictionFits ==
    ASSUME NEW o, NEW q, NEW last \in Nat,
           \A t \in OwnedTraffics : o[t] # None => o[t].version \in 1..last /\ <<t, o[t].version>> \in q,
           \A item \in q : item[2] \in 1..last,
           NEW cut, cut = Owners!Overflow(o, q, last),
           NEW kept, kept = Owners!After(o, q, cut)
    PROVE  /\ cut \in 0..last
           /\ kept = [t \in OwnedTraffics |-> IF o[t] # None /\ o[t].version > cut THEN o[t] ELSE None]
           /\ Cardinality(Owners!Stored(kept)) <= OwnerCapacity
           /\ \A t \in OwnedTraffics : o[t] # None /\ kept[t] = None
                 => Cardinality(From(o, o[t].version)) > OwnerCapacity
  <1> USE SideAssumption
  <1>1. ASSUME NEW v \in Nat
        PROVE  Owners!After(o, q, v)
                 = [t \in OwnedTraffics |-> IF o[t] # None /\ o[t].version > v THEN o[t] ELSE None]
    <2>1. ASSUME NEW t \in OwnedTraffics
          PROVE  (\E item \in q : item[1] = t /\ item[2] <= v /\ Owners!Names(o, item))
                   <=> (o[t] # None /\ ~(o[t].version > v))
      <3>1. ASSUME NEW item \in q, item[1] = t, item[2] <= v, Owners!Names(o, item)
            PROVE  o[t] # None /\ ~(o[t].version > v)
            BY <3>1 DEF Owners!Names
      <3>2. ASSUME o[t] # None, ~(o[t].version > v)
            PROVE  \E item \in q : item[1] = t /\ item[2] <= v /\ Owners!Names(o, item)
        <4>1. <<t, o[t].version>> \in q /\ o[t].version \in Nat
              BY <3>2
        <4>2. o[t].version <= v
              BY <3>2, <4>1
        <4>3. Owners!Names(o, <<t, o[t].version>>)
              BY <3>2 DEF Owners!Names
        <4> QED BY <4>1, <4>2, <4>3
      <3> QED BY <3>1, <3>2
    <2>2. Owners!After(o, q, v)
            = [t \in OwnedTraffics |->
                 IF \E item \in q : item[1] = t /\ item[2] <= v /\ Owners!Names(o, item)
                   THEN None ELSE o[t]]
          BY DEF Owners!After
    <2> QED BY <2>1, <2>2
  <1>2. ASSUME NEW v \in Nat
        PROVE  Owners!Stored(Owners!After(o, q, v)) = From(o, v + 1)
    <2>1. ASSUME NEW u \in OwnedTraffics, o[u] # None
          PROVE  o[u].version > v <=> o[u].version >= v + 1
      <3>1. o[u].version \in 1..last /\ <<u, o[u].version>> \in q
            BY <2>1, Zenon
      <3> QED BY <3>1
    <2> QED BY <1>1, <2>1 DEF Owners!Stored, From
  <1>3. Owners!Fits(o, q, last)
        BY DEF Owners!Fits
  <1>4. PICK least \in 0..last : Owners!Fits(o, q, least) /\ \A w \in 0..(least - 1) : ~Owners!Fits(o, q, w)
    <2> DEFINE S == {v \in 0..last : Owners!Fits(o, q, v)}
    <2>1. S \in SUBSET Nat /\ S # {}
          BY <1>3
    <2>2. PICK n \in S : \A m \in S : n <= m
          BY <2>1, LeastNumber
    <2>3. \A w \in 0..(n - 1) : w \notin S /\ w \in 0..last
          BY <2>2
    <2> QED BY <2>2, <2>3
  <1>5. /\ cut \in 0..last /\ Owners!Fits(o, q, cut)
        /\ \A w \in 0..(cut - 1) : ~Owners!Fits(o, q, w)
        BY <1>4 DEF Owners!Overflow
  <1>6. kept = [t \in OwnedTraffics |-> IF o[t] # None /\ o[t].version > cut THEN o[t] ELSE None]
        BY <1>1, <1>5
  <1>7. Cardinality(Owners!Stored(kept)) <= OwnerCapacity
    <2>1. CASE \A item \in q : item[2] <= cut
      <3>1. ASSUME NEW t \in OwnedTraffics, o[t] # None
            PROVE  ~(o[t].version > cut)
        <4>1. <<t, o[t].version>> \in q /\ o[t].version \in Int
              BY <3>1
        <4>2. <<t, o[t].version>>[2] <= cut
              BY <2>1, <4>1
        <4>3. cut \in Int
              BY <1>5
        <4> QED BY <4>1, <4>2, <4>3
      <3>2. Owners!Stored(kept) = {}
            BY <1>6, <3>1 DEF Owners!Stored
      <3> QED BY <3>2, FS_EmptySet
    <2>2. Cardinality(Owners!Stored(Owners!After(o, q, cut))) <= OwnerCapacity
          \/ \A item \in q : item[2] <= cut
          BY <1>5, OwnersCount, Zenon DEF Owners!Fits
    <2> QED BY <2>1, <2>2
  <1>8. ASSUME NEW t \in OwnedTraffics, o[t] # None, kept[t] = None
        PROVE  Cardinality(From(o, o[t].version)) > OwnerCapacity
    <2>1. o[t].version \in 1..last /\ o[t].version <= cut
      <3>1. o[t].version \in 1..last
            BY <1>8
      <3>2. ~(o[t].version > cut)
            BY <1>6, <1>8
      <3> QED BY <1>5, <3>1, <3>2
    <2>2. PICK w : w = o[t].version - 1
          OBVIOUS
    <2>3. w \in 0..(cut - 1) /\ w \in Nat /\ w + 1 = o[t].version
          BY <1>5, <2>1, <2>2
    <2>4. ~(Cardinality(From(o, w + 1)) <= OwnerCapacity)
      <3>1. ~Owners!Fits(o, q, w)
            BY <1>5, <2>3
      <3>2. ~(Cardinality(Owners!Stored(Owners!After(o, q, w))) <= OwnerCapacity)
            BY <3>1, OwnersCount, Zenon DEF Owners!Fits
      <3>3. Owners!Stored(Owners!After(o, q, w)) = From(o, w + 1)
            BY <1>2, <2>3
      <3> QED BY <3>2, <3>3
    <2>5. From(o, w + 1) \in SUBSET OwnedTraffics
          BY DEF From
    <2>6. Cardinality(From(o, w + 1)) \in Nat
          BY <2>5, TrafficsCount
    <2> QED BY <2>3, <2>4, <2>6
  <1> QED BY <1>5, <1>6, <1>7, <1>8

\* A record of the table is the last observation of its traffic, and has its reference in
\* the queue; observations have risen in version and time.
EntriesKept == owner = [t \in OwnedTraffics |-> owner[t]]
        /\ \A t \in OwnedTraffics : owner[t] # None => /\ owner[t] = seen[t]
                                                       /\ <<t, owner[t].version>> \in queue
Observed == /\ time \in Nat /\ sequence \in Nat
            /\ seen = [t \in OwnedTraffics |-> seen[t]]
            /\ \A t \in OwnedTraffics : seen[t] # None =>
                  /\ seen[t] \in [at : Nat, version : Nat]
                  /\ seen[t].at <= time /\ seen[t].version \in 1..sequence
Rising == \A t, u \in OwnedTraffics :
             seen[t] # None /\ seen[u] # None /\ seen[t].version < seen[u].version
                => seen[t].at <= seen[u].at
Distinct == \A t, u \in OwnedTraffics :
               seen[t] # None /\ seen[u] # None /\ seen[t].version = seen[u].version => t = u
References == \A item \in queue : item[2] \in 1..sequence

OwnersInv == EntriesKept /\ Observed /\ Rising /\ Distinct /\ References /\ Owners!LatestOwnersKept

\* A traffic's record was not superseded but by as many later ones as fit.
LEMMA OwnersObserve ==
    ASSUME OwnersInv, NEW x \in OwnedTraffics, Owners!Observe(x)
    PROVE  OwnersInv'
  <1> USE SideAssumption
  <1>1. PICK e : e = Owners!Record
        OBVIOUS
  <1>2. PICK new : new = [Owners!Clean EXCEPT ![x] = e]
        OBVIOUS
  <1>3. PICK all : all = queue \cup {<<x, e.version>>}
        OBVIOUS
  <1>4. PICK cut : cut = Owners!Overflow(new, all, e.version)
        OBVIOUS
  <1>5. /\ sequence' = e.version /\ owner' = Owners!After(new, all, cut)
        /\ queue' = Owners!Compact(owner', {item \in all : item[2] > cut})
        /\ seen' = [seen EXCEPT ![x] = e] /\ time' = time
        BY <1>1, <1>2, <1>3, <1>4 DEF Owners!Observe
  <1>6. /\ e \in [at : Nat, version : Nat] /\ e # None
        /\ e.at = time /\ e.version = sequence + 1 /\ e.version \in Nat
        BY <1>1 DEF Owners!Record, OwnersInv, Observed
  <1>7. seen' = [t \in OwnedTraffics |-> IF t = x THEN e ELSE seen[t]]
        BY <1>5 DEF OwnersInv, Observed
  <1>8. new = [t \in OwnedTraffics |->
                 IF t = x THEN e
                 ELSE IF owner[t] # None /\ Owners!Expired(owner[t]) THEN None ELSE owner[t]]
        BY <1>2 DEF Owners!Clean
  <1>9. ASSUME NEW t \in OwnedTraffics, new[t] # None
        PROVE  /\ new[t] = seen'[t] /\ <<t, new[t].version>> \in all
               /\ new[t].version \in 1..e.version /\ ~Owners!Expired(new[t])
               /\ new[t].at \in Nat
    <2>1. CASE t = x
      <3>1. ~Owners!Expired(e)
            BY <1>6 DEF Owners!Expired, OwnersInv, Observed
      <3>2. new[t] = e /\ seen'[t] = e
            BY <1>7, <1>8, <2>1
      <3>3. e.version \in 1..e.version /\ e.at \in Nat
            BY <1>6 DEF OwnersInv, Observed
      <3>4. <<t, e.version>> \in all
            BY <1>3, <2>1
      <3> QED BY <3>1, <3>2, <3>3, <3>4
    <2>2. CASE t # x
      <3>1. owner[t] # None /\ ~Owners!Expired(owner[t]) /\ new[t] = owner[t]
            BY <1>8, <1>9, <2>2
      <3>2. owner[t] = seen[t] /\ <<t, owner[t].version>> \in queue
            BY <3>1 DEF OwnersInv, EntriesKept
      <3>3. seen[t].version \in 1..sequence /\ sequence \in Nat /\ seen[t].at \in Nat
            BY <3>1, <3>2 DEF OwnersInv, Observed
      <3>4. seen[t].version \in 1..e.version
            BY <3>3, <1>6
      <3>5. seen'[t] = seen[t]
            BY <1>7, <2>2
      <3> QED BY <1>3, <3>1, <3>2, <3>3, <3>4, <3>5
    <2> QED BY <2>1, <2>2
  <1>10. \A item \in all : item[2] \in 1..e.version
    <2>1. ASSUME NEW item \in queue
          PROVE  item[2] \in 1..e.version
          BY <1>6 DEF OwnersInv, References, Observed
    <2>2. <<x, e.version>>[2] \in 1..e.version
          BY <1>6 DEF OwnersInv, Observed
    <2> QED BY <1>3, <2>1, <2>2
  <1>11. /\ cut \in 0..e.version
         /\ owner' = [t \in OwnedTraffics |-> IF new[t] # None /\ new[t].version > cut THEN new[t] ELSE None]
         /\ Cardinality(Owners!Stored(owner')) <= OwnerCapacity
         /\ \A t \in OwnedTraffics : new[t] # None /\ owner'[t] = None
               => Cardinality(From(new, new[t].version)) > OwnerCapacity
    <2>1. \A t \in OwnedTraffics : new[t] # None => new[t].version \in 1..e.version /\ <<t, new[t].version>> \in all
          BY <1>9
    <2> HIDE DEF From
    <2> QED BY <1>4, <1>5, <1>6, <1>10, <2>1, EvictionFits
  <1>12. EntriesKept'
    <2>1. ASSUME NEW t \in OwnedTraffics, owner'[t] # None
          PROVE  owner'[t] = seen'[t] /\ <<t, owner'[t].version>> \in queue'
      <3>1. new[t] # None /\ owner'[t] = new[t] /\ new[t].version > cut
            BY <1>11, <2>1
      <3>2. <<t, new[t].version>> \in {item \in all : item[2] > cut}
            BY <1>9, <3>1
      <3>3. Owners!Names(owner', <<t, new[t].version>>)
            BY <2>1, <3>1 DEF Owners!Names
      <3>4. <<t, new[t].version>> \in queue'
            BY <1>5, <3>2, <3>3 DEF Owners!Compact
      <3> QED BY <1>9, <3>1, <3>4
    <2>2. owner' = [t \in OwnedTraffics |-> owner'[t]]
          BY <1>11
    <2> QED BY <2>1, <2>2 DEF EntriesKept
  <1>13. Observed'
    <2>1. time' \in Nat /\ sequence' \in Nat /\ seen' = [t \in OwnedTraffics |-> seen'[t]]
          BY <1>5, <1>6, <1>7 DEF OwnersInv, Observed
    <2>2. ASSUME NEW t \in OwnedTraffics, seen'[t] # None
          PROVE  /\ seen'[t] \in [at : Nat, version : Nat]
                 /\ seen'[t].at <= time' /\ seen'[t].version \in 1..sequence'
      <3>1. CASE t = x
            BY <1>5, <1>6, <1>7, <3>1 DEF OwnersInv, Observed
      <3>2. CASE t # x
            BY <1>5, <1>6, <1>7, <2>2, <3>2 DEF OwnersInv, Observed
      <3> QED BY <3>1, <3>2
    <2> QED BY <2>1, <2>2 DEF Observed
  <1>14. Rising'
    <2>1. ASSUME NEW t \in OwnedTraffics, NEW u \in OwnedTraffics, seen'[t] # None, seen'[u] # None,
                 seen'[t].version < seen'[u].version
          PROVE  seen'[t].at <= seen'[u].at
      <3>1. CASE u = x
        <4>1. seen'[u].at = time' /\ seen'[t].at <= time'
              BY <1>5, <1>6, <1>7, <1>13, <2>1, <3>1 DEF Observed
        <4> QED BY <4>1
      <3>2. CASE t = x /\ u # x
            BY <1>6, <1>7, <2>1, <3>2 DEF OwnersInv, Observed
      <3>3. CASE t # x /\ u # x
            BY <1>7, <2>1, <3>3 DEF OwnersInv, Rising
      <3> QED BY <3>1, <3>2, <3>3
    <2> QED BY <2>1 DEF Rising
  <1>18. Distinct'
    <2>1. ASSUME NEW t \in OwnedTraffics, NEW u \in OwnedTraffics, seen'[t] # None, seen'[u] # None,
                 seen'[t].version = seen'[u].version, t # u
          PROVE  FALSE
      <3>1. ASSUME NEW y \in OwnedTraffics, y # x, seen'[y] # None
            PROVE  seen'[y] = seen[y] /\ seen'[y].version < e.version
            BY <1>6, <1>7, <3>1 DEF OwnersInv, Observed
      <3>2. e.version \in Nat /\ seen'[x] = e
            BY <1>6, <1>7
      <3>3. t # x /\ u # x
            BY <2>1, <3>1, <3>2
      <3> QED BY <2>1, <3>1, <3>3 DEF OwnersInv, Distinct
    <2> QED BY <2>1 DEF Distinct
  <1>15. References'
    <2>1. queue' \subseteq all
          BY <1>5 DEF Owners!Compact
    <2> QED BY <2>1, <1>5, <1>10 DEF References
  <1>16. ASSUME NEW t \in OwnedTraffics, Owners!Recent(t)', Cardinality(Owners!Later(t)') < OwnerCapacity
         PROVE  owner'[t] = seen'[t]
    <2>1. new[t] = seen'[t] /\ new[t] # None
      <3>1. CASE t = x
            BY <1>6, <1>7, <1>8, <3>1
      <3>2. CASE t # x
        <4>1. seen'[t] = seen[t] /\ seen[t] # None /\ ~Owners!Expired(seen[t])
              BY <1>5, <1>7, <1>16, <3>2 DEF Owners!Recent, Owners!Expired
        <4>2. Owners!Later(t) \subseteq Owners!Later(t)'
          <5>1. ASSUME NEW u \in Owners!Later(t)
                PROVE  u \in Owners!Later(t)'
            <6>1. /\ u \in OwnedTraffics /\ seen[u] # None /\ ~Owners!Expired(seen[u])
                  /\ seen[u].version > seen[t].version
                  BY <5>1 DEF Owners!Later, Owners!Recent
            <6>2. CASE u = x
              <7>1. seen'[u] = e /\ seen[t].version \in 1..sequence
                    BY <1>7, <6>1, <6>2, <4>1 DEF OwnersInv, Observed
              <7>2. e.version > seen[t].version
                    BY <7>1, <1>6 DEF OwnersInv, Observed
              <7>3. ~(time' >= e.at + OwnerTTL)
                    BY <1>5, <1>6 DEF OwnersInv, Observed
              <7> QED BY <1>6, <4>1, <6>1, <7>1, <7>2, <7>3
                      DEF Owners!Later, Owners!Recent, Owners!Expired
            <6>3. CASE u # x
              <7>1. seen'[u] = seen[u]
                    BY <1>7, <6>1, <6>3
              <7> QED BY <1>5, <4>1, <6>1, <7>1 DEF Owners!Later, Owners!Recent, Owners!Expired
            <6> QED BY <6>2, <6>3
          <5> QED BY <5>1
        <4>3. Owners!Later(t)' \in SUBSET OwnedTraffics
              BY DEF Owners!Later
        <4>4. Cardinality(Owners!Later(t)) < OwnerCapacity
          <5>1. /\ Cardinality(Owners!Later(t)) \in Nat /\ Cardinality(Owners!Later(t)') \in Nat
                /\ Cardinality(Owners!Later(t)) <= Cardinality(Owners!Later(t)')
                BY <4>2, <4>3, TrafficsCount
          <5> QED BY <5>1, <1>16
        <4>5. owner[t] = seen[t]
          <5>1. Owners!Recent(t)
                BY <4>1 DEF Owners!Recent
          <5>2. \A u \in OwnedTraffics :
                   Owners!Recent(u) /\ Cardinality(Owners!Later(u)) < OwnerCapacity => owner[u] = seen[u]
                BY OwnersCount, Zenon DEF OwnersInv, Owners!LatestOwnersKept
          <5> QED BY <4>4, <5>1, <5>2
        <4> QED BY <1>8, <3>2, <4>1, <4>5
      <3> QED BY <3>1, <3>2
    <2>2. ASSUME owner'[t] = None
          PROVE  FALSE
      <3>1. Cardinality(From(new, new[t].version)) > OwnerCapacity
            BY <1>11, <2>1, <2>2
      <3>2. From(new, new[t].version) \subseteq Owners!Later(t)' \cup {t}
        <4>1. ASSUME NEW u \in From(new, new[t].version), u # t
              PROVE  u \in Owners!Later(t)'
          <5>1. u \in OwnedTraffics /\ new[u] # None /\ new[u].version >= new[t].version
                BY <4>1 DEF From
          <5>2. new[u] = seen'[u] /\ ~Owners!Expired(new[u]) /\ <<u, new[u].version>> \in all
                BY <1>9, <5>1
          <5>3. new[u].version # new[t].version
                BY <1>18, <2>1, <4>1, <5>1, <5>2 DEF Distinct
          <5>4. seen'[u].version > seen'[t].version
            <6>1. new[u].version \in Nat /\ new[t].version \in Nat
              <7>1. new[u].version \in 1..e.version /\ new[t].version \in 1..e.version
                    BY <1>9, <2>1, <5>1
              <7> QED BY <7>1
            <6> QED BY <2>1, <5>1, <5>2, <5>3, <6>1
          <5> QED BY <1>5, <5>1, <5>2, <5>4 DEF Owners!Later, Owners!Recent, Owners!Expired
        <4> QED BY <4>1
      <3>3. /\ IsFiniteSet(Owners!Later(t)') /\ Cardinality(Owners!Later(t)') \in Nat
            BY TrafficsCount DEF Owners!Later
      <3>4. /\ IsFiniteSet(Owners!Later(t)' \cup {t})
            /\ Cardinality(Owners!Later(t)' \cup {t}) <= Cardinality(Owners!Later(t)') + 1
            /\ Cardinality(Owners!Later(t)' \cup {t}) \in Nat
        <4>1. /\ IsFiniteSet(Owners!Later(t)' \cup {t})
              /\ \/ Cardinality(Owners!Later(t)' \cup {t}) = Cardinality(Owners!Later(t)')
                 \/ Cardinality(Owners!Later(t)' \cup {t}) = Cardinality(Owners!Later(t)') + 1
              BY <3>3, FS_AddElement
        <4> QED BY <3>3, <4>1
      <3>5. /\ Cardinality(From(new, new[t].version)) <= Cardinality(Owners!Later(t)' \cup {t})
            /\ Cardinality(From(new, new[t].version)) \in Nat
            BY <3>2, <3>4, FS_Subset, FS_CardinalityType
      <3> QED BY <1>16, <3>1, <3>3, <3>4, <3>5
    <2>3. owner'[t] \in {None, new[t]}
          BY <1>11
    <2> QED BY <2>1, <2>2, <2>3
  <1>17. Owners!LatestOwnersKept'
    <2>1. \A t \in OwnedTraffics :
             (Owners!Recent(t) /\ Cardinality(Owners!Later(t)) < OwnerCapacity => owner[t] = seen[t])'
          BY <1>16
    <2>2. (Cardinality(Owners!Stored(owner)) <= OwnerCapacity)'
          BY <1>11
    <2> QED BY <2>1, <2>2, OwnersCount, Zenon DEF Owners!LatestOwnersKept
  <1> QED BY <1>12, <1>13, <1>14, <1>15, <1>17, <1>18 DEF OwnersInv

\* Every step of the store, and of time, keeps it so.
LEMMA OwnersStep ==
    ASSUME OwnersInv, [Owners!Next]_Owners!vars
    PROVE  OwnersInv'
  <1> USE SideAssumption
  <1>1. CASE UNCHANGED Owners!vars
    <2>1. /\ time' = time /\ owner' = owner /\ queue' = queue /\ sequence' = sequence
          /\ seen' = seen
          BY <1>1 DEF Owners!vars
    <2>2. Owners!LatestOwnersKept'
          BY <2>1 DEF OwnersInv, Owners!LatestOwnersKept, Owners!Stored, Owners!Recent, Owners!Later,
                      Owners!Expired
    <2> QED BY <2>1, <2>2 DEF OwnersInv, EntriesKept, Observed, Rising, Distinct, References
  <1>2. ASSUME NEW x \in OwnedTraffics, Owners!Load(x)
        PROVE  OwnersInv'
    <2>1. /\ owner' = [owner EXCEPT ![x] = None]
          /\ time' = time /\ queue' = queue /\ sequence' = sequence /\ seen' = seen
          /\ owner[x] # None /\ Owners!Expired(owner[x])
          BY <1>2 DEF Owners!Load
    <2>2. owner' = [t \in OwnedTraffics |-> IF t = x THEN None ELSE owner[t]]
          BY <2>1 DEF OwnersInv, EntriesKept
    <2>3. EntriesKept'
          BY <2>1, <2>2 DEF OwnersInv, EntriesKept
    <2>4. Owners!Stored(owner') \subseteq Owners!Stored(owner)
          BY <2>2 DEF Owners!Stored
    <2>5. Cardinality(Owners!Stored(owner')) <= OwnerCapacity
      <3>1. Owners!Stored(owner) \in SUBSET OwnedTraffics
            BY DEF Owners!Stored
      <3>2. Cardinality(Owners!Stored(owner)) <= OwnerCapacity
            BY OwnersCount, Zenon DEF OwnersInv, Owners!LatestOwnersKept
      <3>3. /\ Cardinality(Owners!Stored(owner)) \in Nat /\ Cardinality(Owners!Stored(owner')) \in Nat
            /\ Cardinality(Owners!Stored(owner')) <= Cardinality(Owners!Stored(owner))
            BY <2>4, <3>1, TrafficsCount
      <3> QED BY <3>2, <3>3
    <2>6. ~Owners!Recent(x)
          BY <2>1 DEF Owners!Recent, OwnersInv, EntriesKept
    <2>7. \A t \in OwnedTraffics : (Owners!Recent(t) <=> Owners!Recent(t)') /\ Owners!Later(t)' = Owners!Later(t)
          BY <2>1 DEF Owners!Recent, Owners!Later, Owners!Expired
    <2>8. Owners!LatestOwnersKept'
      <3>1. \A t \in OwnedTraffics :
               Owners!Recent(t) /\ Cardinality(Owners!Later(t)) < OwnerCapacity => owner[t] = seen[t]
            BY OwnersCount, Zenon DEF OwnersInv, Owners!LatestOwnersKept
      <3>2. \A t \in OwnedTraffics :
               (Owners!Recent(t) /\ Cardinality(Owners!Later(t)) < OwnerCapacity => owner[t] = seen[t])'
            BY <2>1, <2>2, <2>6, <2>7, <3>1
      <3>3. (Cardinality(Owners!Stored(owner)) <= OwnerCapacity)'
            BY <2>5
      <3> QED BY <3>2, <3>3, OwnersCount, Zenon DEF Owners!LatestOwnersKept
    <2> QED BY <2>1, <2>3, <2>8 DEF OwnersInv, Observed, Rising, Distinct, References
  <1>3. CASE Owners!Tick
    <2>1. /\ time' = time + 1 /\ owner' = owner /\ queue' = queue /\ sequence' = sequence
          /\ seen' = seen /\ time \in Nat
          BY <1>3 DEF Owners!Tick, OwnersInv, Observed
    <2>2. Observed'
      <3>1. ASSUME NEW t \in OwnedTraffics, seen[t] # None
            PROVE  /\ seen[t] \in [at : Nat, version : Nat]
                   /\ seen[t].at <= time + 1 /\ seen[t].version \in 1..sequence
            BY <2>1, <3>1 DEF OwnersInv, Observed
      <3> QED BY <2>1, <3>1 DEF OwnersInv, Observed
    <2>3. ASSUME NEW t \in OwnedTraffics, Owners!Recent(t)'
          PROVE  Owners!Recent(t) /\ Owners!Later(t) \subseteq Owners!Later(t)'
      <3>1. seen[t] # None /\ ~(time + 1 >= seen[t].at + OwnerTTL) /\ seen[t].at \in Nat
            BY <2>1, <2>2, <2>3 DEF Owners!Recent, Owners!Expired, Observed
      <3>2. Owners!Recent(t)
            BY <2>1, <3>1 DEF Owners!Recent, Owners!Expired
      <3>3. ASSUME NEW u \in Owners!Later(t)
            PROVE  u \in Owners!Later(t)'
        <4>1. u \in OwnedTraffics /\ seen[u] # None /\ seen[u].version > seen[t].version
              BY <3>3 DEF Owners!Later, Owners!Recent
        <4>2. /\ seen[u].version \in 1..sequence /\ seen[t].version \in 1..sequence
              /\ seen[u].at \in Nat
              BY <3>1, <4>1 DEF OwnersInv, Observed
        <4>3. seen[t].at <= seen[u].at
              BY <3>1, <4>1, <4>2 DEF OwnersInv, Rising
        <4>4. ~(time + 1 >= seen[u].at + OwnerTTL)
              BY <2>1, <3>1, <4>2, <4>3
        <4> QED BY <2>1, <4>1, <4>4 DEF Owners!Later, Owners!Recent, Owners!Expired
      <3> QED BY <3>2, <3>3
    <2>4. ASSUME NEW t \in OwnedTraffics, Owners!Recent(t)', Cardinality(Owners!Later(t)') < OwnerCapacity
          PROVE  owner'[t] = seen'[t]
      <3>1. Owners!Later(t)' \in SUBSET OwnedTraffics
            BY DEF Owners!Later
      <3>2. /\ Cardinality(Owners!Later(t)) \in Nat /\ Cardinality(Owners!Later(t)') \in Nat
            /\ Cardinality(Owners!Later(t)) <= Cardinality(Owners!Later(t)')
            BY <2>3, <2>4, <3>1, TrafficsCount
      <3>3. Cardinality(Owners!Later(t)) < OwnerCapacity
            BY <2>4, <3>2
      <3>4. \A u \in OwnedTraffics :
               Owners!Recent(u) /\ Cardinality(Owners!Later(u)) < OwnerCapacity => owner[u] = seen[u]
            BY OwnersCount, Zenon DEF OwnersInv, Owners!LatestOwnersKept
      <3> QED BY <2>1, <2>3, <2>4, <3>3, <3>4
    <2>5. Owners!LatestOwnersKept'
      <3>1. \A t \in OwnedTraffics :
               (Owners!Recent(t) /\ Cardinality(Owners!Later(t)) < OwnerCapacity => owner[t] = seen[t])'
            BY <2>4
      <3>2. (Cardinality(Owners!Stored(owner)) <= OwnerCapacity)'
        <4>1. Cardinality(Owners!Stored(owner)) <= OwnerCapacity
              BY OwnersCount, Zenon DEF OwnersInv, Owners!LatestOwnersKept
        <4> QED BY <2>1, <4>1
      <3> QED BY <3>1, <3>2, OwnersCount, Zenon DEF Owners!LatestOwnersKept
    <2> QED BY <2>1, <2>2, <2>5 DEF OwnersInv, EntriesKept, Rising, Distinct, References
  <1> QED BY <1>1, <1>2, <1>3, OwnersObserve, Zenon DEF Owners!Next

\* However traffics are observed and expire, the store has no more than its capacity, and
\* the owners of the traffics observed last are among what it has.
THEOREM OwnersSafe == Owners!Spec => []OwnersInv
  <1>1. Owners!Init => OwnersInv
    <2> SUFFICES ASSUME Owners!Init PROVE OwnersInv
        OBVIOUS
    <2>1. /\ time = 0 /\ owner = [t \in OwnedTraffics |-> None] /\ queue = {} /\ sequence = 0
          /\ seen = [t \in OwnedTraffics |-> None]
          BY DEF Owners!Init
    <2>2. Owners!Stored(owner) = {}
          BY <2>1 DEF Owners!Stored
    <2>3. Cardinality(Owners!Stored(owner)) <= OwnerCapacity
          BY <2>2, FS_EmptySet, SideAssumption
    <2>4. \A t \in OwnedTraffics : ~Owners!Recent(t)
          BY <2>1 DEF Owners!Recent
    <2>5. Owners!LatestOwnersKept
          BY <2>3, <2>4, OwnersCount, Zenon DEF Owners!LatestOwnersKept
    <2> QED BY <2>1, <2>5 DEF OwnersInv, EntriesKept, Observed, Rising, Distinct, References
  <1>2. OwnersInv /\ [Owners!Next]_Owners!vars => OwnersInv'
        BY OwnersStep
  <1> QED BY <1>1, <1>2, PTL DEF Owners!Spec

-----------------------------------------------------------------------------
\* The parts side by side: a step of one is no step of another.
LEMMA SidesRun == SideSpec => Spec /\ Direct!Spec /\ Owners!Spec /\ Ingress!Spec
  <1>1. SideInit => Init /\ Direct!Init /\ Owners!Init /\ Ingress!Init
        BY DEF SideInit
  <1>2. ASSUME [SideNext]_allVars
        PROVE  /\ [Next]_vars
               /\ [Direct!Next]_Direct!vars
               /\ [Owners!Next]_Owners!vars
               /\ [Ingress!Next]_Ingress!vars
    <2>1. UNCHANGED directVars => UNCHANGED Direct!vars
          BY DEF Direct!vars, directVars
    <2>2. UNCHANGED ingressVars => UNCHANGED Ingress!vars
          BY DEF Ingress!vars, ingressVars
    <2>3. UNCHANGED ownerVars => UNCHANGED Owners!vars
          BY DEF Owners!vars, ownerVars
    <2>4. CASE UNCHANGED allVars
      <3>1. /\ UNCHANGED vars /\ UNCHANGED directVars
            /\ UNCHANGED ownerVars /\ UNCHANGED ingressVars
            BY <2>4 DEF allVars
      <3> QED BY <2>1, <2>2, <2>3, <3>1
    <2>5. CASE SideNext
      <3>1. \/ Next /\ UNCHANGED directVars /\ UNCHANGED ownerVars /\ UNCHANGED ingressVars
            \/ Direct!Next /\ UNCHANGED vars /\ UNCHANGED ownerVars /\ UNCHANGED ingressVars
            \/ Owners!Next /\ UNCHANGED vars /\ UNCHANGED directVars /\ UNCHANGED ingressVars
            \/ Ingress!Next /\ UNCHANGED vars /\ UNCHANGED directVars /\ UNCHANGED ownerVars
            BY <2>5, Zenon DEF SideNext
      <3> QED BY <2>1, <2>2, <2>3, <3>1
    <2> QED BY <1>2, <2>4, <2>5
  <1> QED BY <1>1, <1>2, PTL DEF SideSpec, Spec, Direct!Spec, Owners!Spec, Ingress!Spec

\* However many requests refresh a target, no request drops endpoints another has just put.
THEOREM SideRefreshKept == SideSpec => RefreshKept
  <1>1. ASSUME DirectInv, [Direct!Next]_Direct!vars
        PROVE  [\A k \in Targets : record[k] # None /\ record'[k] = None
                    => clock - record[k] > Fresh + Stale]_Direct!vars
        BY <1>1, DirectKept
  <1> QED BY <1>1, SidesRun, DirectSafe, PTL DEF Direct!Spec, RefreshKept, Direct!RefreshKept

\* The store of owners holds what it may, and what was observed last.
THEOREM SideLatestOwnersKept == SideSpec => []LatestOwnersKept
  <1>1. OwnersInv => LatestOwnersKept
        BY DEF OwnersInv, LatestOwnersKept
  <1> QED BY <1>1, SidesRun, OwnersSafe, PTL

\* No call is answered twice, and none ends without an answer.
THEOREM SideOneAnswer == SideSpec => []OneAnswer
  <1>1. Ingress!OneAnswer <=> OneAnswer
        BY DEF OneAnswer
  <1> QED BY <1>1, SidesRun, CallsSafe, PTL

==============================================================================
