------------------------------ MODULE MCBridgeServer ------------------------------
\* Small instances of the five parts of BridgeServer.
EXTENDS BridgeServer

-----------------------------------------------------------------------------
\* The handshakes: three channels of one source that ask for one connector. Each has
\* time for one authentication, or one of them for more.

MCSourceOf == [c \in Channels |-> "source"]
MCHelloLimit == [source |-> 4, connector |-> 3]
MCFailureLimit == [source |-> 2, connector |-> 1]

MCMessages ==
    {[c \in Channels |-> 2]}
    \cup {[c \in Channels |-> IF c = busy THEN 4 ELSE 0] : busy \in Channels}

MCSymmetry == Permutations(Channels)

\* The tokens: a file without any, or with one that may be revoked or run out.
Record(status, expires) ==
    [connector |-> "k", status |-> status, expires |-> expires, secret |-> "old"]

TokenFiles == {<<>>} \cup {"t1" :> Record(status, expires) : status \in {"active", "revoked"}, expires \in 0..1}
MCTokenBounds == [tries |-> 2, crashes |-> 1, time |-> 1]

\* The certificates: a managed one whose window is the shortest interval and shorter than
\* the base one, a managed one without a window, whose end lies between two looks, and the
\* operator's own, of which the times say nothing.
CertSource(from, ttl, renewBefore) == [from |-> from, ttl |-> ttl, renewBefore |-> renewBefore]

MCCertSources ==
    {CertSource("managed", 24, 2), CertSource("managed", 15, 0), CertSource("external", 1, 0)}
MCCertBounds == [time |-> 26, faults |-> 1, stops |-> 1, replaced |-> 2]

\* The configuration: nothing but the user's file; an explicit file; one that cannot be
\* written over a local one, with the environment between; and a local one that cannot.
\* The local ones ask for a managed certificate, of the CA beside them and of another.
Setup(explicit, local, env, layer) ==
    [explicit |-> explicit, local |-> local, env |-> env,
     files |-> [l \in {"system", "user", "local", "explicit"} |-> IF l = "local" THEN layer ELSE <<>>]]

ConfigSetups ==
    {Setup("none", "none", <<>>, <<>>),
     Setup("writable", "none", <<>>, <<>>),
     Setup("readonly", "writable", [log |-> "x", tls |-> None],
           [log |-> "y", tls |-> "managed", ca |-> "beside"]),
     Setup("none", "readonly", <<>>, [tls |-> "managed", ca |-> "own"])}

MCValues == [log |-> {"x", "odd"}, tls |-> {"managed"}, ca |-> {}]
MCConfigBounds == [updates |-> 2, reloads |-> 1, stops |-> 1, faults |-> 1]

\* The admin API: two providers that know one user by different passwords and roles, and
\* one that is disabled. Two browsers share the exports; one logs in and out while its
\* cookies get lost; one searches and streams.
Account(password, role) == [password |-> password, role |-> role]

MCProviders ==
    <<[enabled |-> TRUE,  accounts |-> "ann" :> Account("x", "admin")],
      [enabled |-> FALSE, accounts |-> "bob" :> Account("x", "viewer")],
      [enabled |-> TRUE,  accounts |-> [ann |-> Account("y", "viewer"),
                                      bob |-> Account("x", "admin")]]>>

By(provider, user, password) == [provider |-> provider, user |-> user, password |-> password]

Exporting == [calls |-> 4, ops |-> {"login", "export", "download"}, sound |-> {TRUE},
              lossy |-> FALSE,
              logins |-> [b1 |-> {By(0, "ann", "x")}, b2 |-> {By(0, "bob", "x")}]]
Leaving   == [calls |-> 3, ops |-> {"login", "logout", "session", "operate"}, sound |-> {TRUE},
              lossy |-> TRUE,
              logins |-> [b1 |-> {By(0, "ann", "x"), By(1, "bob", "x")}]]
Searching == [calls |-> 4, ops |-> {"login", "read", "stream", "search", "manage"},
              sound |-> BOOLEAN, lossy |-> FALSE,
              logins |-> [b1 |-> {By(0, "ann", "y")}]]

MCWorkloads == {Exporting, Leaving, Searching}
MCAdminBounds == [open |-> 2, events |-> 2, time |-> 1]

-----------------------------------------------------------------------------
\* The parts that do not run start in one way.
MCInit ==
    /\ ServerInit
    /\ part # "handshake" => chan = [c \in Channels |-> NewChannel(2)]
    /\ part # "tokens" => file = <<>>
    /\ part # "certificates" => source = CertSource("managed", 24, 2)
    /\ part # "config" => setup = Setup("none", "none", <<>>, <<>>)
    /\ part # "admin" => uses = Searching

MCSpec == MCInit /\ [][ServerNext]_allVars
=============================================================================
