------------------------------- MODULE MCIngress -------------------------------
\* Small instances of the four parts of BridgeIngress.
EXTENDS BridgeIngress, TLC

-----------------------------------------------------------------------------
\* Two requests for one external service; three traffics for two records; one call.
MCTargetOf == [r \in {"r1", "r2"} |-> "mail"]
MCProxyBounds == [time |-> 5, calls |-> 4]

MCOwnerBounds == [time |-> 3, observed |-> 7]

MCKinds == [entry : {"http"}, safe : BOOLEAN, body : {"none", "declared", "chunked"}]
           \cup [entry : {"grpc"}, safe : {FALSE}, body : {"chunked"}]

-----------------------------------------------------------------------------
\* The resolver on two services, three instances and three lookups.

dev  == [namespace |-> "shop", environment |-> "dev"]
base == [namespace |-> "shop", environment |-> "base"]

MCTrafficOf == [q1 |-> "t1", q2 |-> "t1", q3 |-> "t2"]
MCServiceOf == <<"cart", "cart", "order">>

R(type, service, scope, priority, match, inject) ==
    [kind |-> type, service |-> service, scope |-> scope, priority |-> priority, match |-> match,
     mode |-> "l7", inject |-> inject, injected |-> dev]

Q(scope, complete, meets, key) ==
    [mode |-> "l7", meets |-> meets, scope |-> scope, complete |-> complete, key |-> key]

P(enabled, external) ==
    [shop |-> [enabled |-> enabled, external |-> external, chain |-> <<base, dev>>]]

\* The connector route of the request's scope, a second one of that scope or of the
\* one below it, and an external one; the sticky key of one of the requests is given.
Config(inject, scope, enabled, external, some, writes, ticks) ==
    [route   |-> <<R("connector", "cart", dev, 1, {"host"}, inject),
                   R("connector", "order", scope, 1, {"host", "path"}, "disabled"),
                   R("external", "mail", dev, 2, {"host"}, "disabled")>>,
     request |-> [t1 |-> Q(dev, TRUE, {"host", "path"}, 1), t2 |-> Q(base, FALSE, {"host", "path"}, None)],
     policy  |-> P(enabled, external),
     lookups |-> some, changes |-> writes, ticks |-> ticks]

\* One lookup among changes of the registry, over the route tables; and two of one
\* traffic beside one of another, over the affinity table.
MCConfigs ==
    {Config("disabled", scope, policy[1], policy[2], {"q1"}, 2, 0) :
        scope \in {dev, base}, policy \in {<<FALSE, FALSE>>, <<TRUE, FALSE>>, <<TRUE, TRUE>>}}
    \cup {Config(inject, scope, TRUE, TRUE, {"q3"}, 2, 0) :
             inject \in {"always", "missing_only"}, scope \in {dev, base}}
    \cup {Config("disabled", base, TRUE, FALSE, {"q1", "q2", "q3"}, 1, 1)}

MCSymmetry == Permutations(Sessions)

-----------------------------------------------------------------------------
\* The parts that do not run start in one way.
MCInit ==
    /\ SideInit
    /\ part # "resolver" => /\ config = CHOOSE c \in Configs : TRUE
                            /\ instance = [i \in Instances |-> Absent]
    /\ part # "ingress" => kind = [c \in Calls |-> CHOOSE k \in Kinds : TRUE]

MCSpec == MCInit /\ [][SideNext]_allVars
=============================================================================
