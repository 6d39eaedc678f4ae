--------------------------- MODULE ServerCertificates ---------------------------
\* The TLS certificate of the Bridge's control plane: where it comes from
\* (tls/control_plane_tls_cert_provider.go), the manager that keeps the one in use and
\* says when to look again (tls/control_plane_tls_reloader.go), and the loop that does
\* (app/control_plane.go). TCP and gRPC listeners ask the manager at each connection;
\* the QUIC listener is given the certificate once.
\*
\* A pair of files is two serial numbers, equal when certificate and key match: the root
\* CA's of a managed certificate, or the operator's own. Time stands still while a
\* certificate is loaded, and the loop is not late.
EXTENDS Integers

CONSTANTS
    Sources,   \* [from, ttl, renewBefore]: "managed" or "external", and of a managed
               \* certificate its life and the window before its end: renewBefore < ttl
    BaseInterval, MinInterval, RetryInterval, ExternalInterval,
    MaxTime, MaxFaults, MaxStops, MaxReplaced,   \* bounds
    None

VARIABLES
    now,
    source,      \* of Sources: the configuration
    cert, key,   \* the two files: a serial number, or None when the file is missing
    pc,          \* of the process: "down", a step of a loading, or "serve"
    read,        \* the certificate file as the loading has read it
    cached,      \* of the managed provider: [root, notAfter], or None
    served,      \* serverTLSConfig of the manager
    quic,        \* what the QUIC listener was given
    due,         \* when the reload timer fires
    missed,      \* history: the last loading failed
    since,       \* history: when the files were last a pair
    made,        \* serial numbers so far
    faults, stops

files   == <<cert, key, made, since>>
process == <<pc, read, cached, served, quic, due, missed>>
vars == <<now, source, files, process, faults, stops>>

Init ==
    /\ now = 0
    /\ source \in Sources
    /\ made = IF source.from = "external" THEN 1 ELSE 0
    /\ cert = (IF source.from = "external" THEN 1 ELSE None) /\ key = cert
    /\ pc = "down" /\ read = None
    /\ cached = None /\ served = None /\ quic = None
    /\ due = 0 /\ missed = FALSE /\ since = 0
    /\ faults = 0 /\ stops = 0

Loading == {"load", "read", "init", "key", "issue"}

-----------------------------------------------------------------------------
\* When to look again, and when to renew.

Least(a, b) == IF a < b THEN a ELSE b
Most(a, b)  == IF a > b THEN a ELSE b

\* (A mutant: the interval does not look at what remains.)
FixedInterval(c) == IF source.from = "external" THEN ExternalInterval ELSE BaseInterval

\* NextReloadInterval.
NextReloadInterval(c) ==
    IF source.from = "external" THEN ExternalInterval
    ELSE IF c.notAfter <= now THEN RetryInterval
    ELSE Least(BaseInterval, Most(MinInterval, (c.notAfter - now) \div 4))

\* Nothing is cached, or shouldRenewManagedServerCertificate: without a window the
\* certificate has to have ended.
ShouldRenew == IF cached = None THEN TRUE ELSE cached.notAfter - source.renewBefore <= now

-----------------------------------------------------------------------------
\* A loading: at the start, and whenever the timer fires.

\* Refresh stores it; at the start the QUIC listener takes it.
Loaded(c) ==
    /\ pc' = "serve" /\ read' = None
    /\ served' = c
    /\ quic' = IF quic = None THEN c ELSE quic
    /\ due' = now + NextReloadInterval(c)
    /\ missed' = FALSE

\* Without a first certificate the process does not start. Later the managed provider
\* answers with its own while it is valid, and otherwise the manager keeps what it has.
Failed ==
    /\ read' = None
    /\ missed' = (served # None)
    /\ IF served = None THEN pc' = "down" /\ UNCHANGED due
       ELSE pc' = "serve" /\ due' = now + NextReloadInterval(served)
    /\ UNCHANGED <<cached, served, quic>>

Start ==
    /\ pc = "down"
    /\ pc' = "load"
    /\ UNCHANGED <<now, source, files, read, cached, served, quic, due, missed, faults, stops>>

Fire ==
    /\ pc = "serve" /\ now >= due
    /\ pc' = "load"
    /\ UNCHANGED <<now, source, files, read, cached, served, quic, due, missed, faults, stops>>

\* external: the certificate is read and then the key, and they must match.
ReadCert ==
    /\ pc = "load" /\ source.from = "external"
    /\ pc' = "read" /\ read' = cert
    /\ UNCHANGED <<now, source, files, cached, served, quic, due, missed, faults, stops>>

ReadKey ==
    /\ pc = "read"
    /\ IF read = key THEN Loaded([root |-> read, notAfter |-> MaxTime + 1]) /\ UNCHANGED cached
                     ELSE Failed
    /\ UNCHANGED <<now, source, files, faults, stops>>

\* managed: outside the window the cached one is used again. Otherwise the root's files
\* are read: there may be none, or only one, or two that do not match.
Managed ==
    /\ pc = "load" /\ source.from = "managed"
    /\ \/ ~ShouldRenew /\ Loaded(cached) /\ UNCHANGED cached
       \/ /\ ShouldRenew
          /\ IF cert = key
               THEN /\ pc' = IF cert = None THEN "init" ELSE "issue"
                    /\ UNCHANGED <<read, cached, served, quic, due, missed>>
               ELSE Failed
    /\ UNCHANGED <<now, source, files, faults, stops>>

\* initializeManagedCARootCertificate: the certificate is written, then the key.
WriteCert ==
    /\ pc = "init"
    /\ made' = made + 1 /\ cert' = made + 1
    /\ pc' = "key"
    /\ UNCHANGED <<now, source, key, since, read, cached, served, quic, due, missed, faults, stops>>

WriteKey ==
    /\ pc = "key"
    /\ key' = made /\ since' = now
    /\ pc' = "issue"
    /\ UNCHANGED <<now, source, cert, made, read, cached, served, quic, due, missed, faults, stops>>

\* IssueServerCertificate, with the root at hand.
Issue ==
    /\ pc = "issue"
    /\ cached' = [root |-> cert, notAfter |-> now + source.ttl]
    /\ Loaded(cached')
    /\ UNCHANGED <<now, source, files, faults, stops>>

\* A file cannot be written, or the signing fails.
Fault ==
    /\ pc \in {"init", "key", "issue"} /\ faults < MaxFaults
    /\ faults' = faults + 1
    /\ Failed
    /\ UNCHANGED <<now, source, files, stops>>

-----------------------------------------------------------------------------
\* The rest: the process stops anywhere, and the operator replaces a pair, one file
\* after the other.

Stop ==
    /\ pc # "down" /\ stops < MaxStops
    /\ stops' = stops + 1
    /\ pc' = "down" /\ read' = None /\ missed' = FALSE
    /\ cached' = None /\ served' = None /\ quic' = None
    /\ UNCHANGED <<now, source, files, due, faults>>

Replace ==
    /\ source.from = "external"
    /\ \/ /\ cert = key /\ made <= MaxReplaced
          /\ made' = made + 1 /\ cert' = made + 1
          /\ UNCHANGED <<key, since>>
       \/ /\ cert # key
          /\ key' = cert /\ since' = now
          /\ UNCHANGED <<cert, made>>
    /\ UNCHANGED <<now, source, process, faults, stops>>

Tick ==
    /\ now < MaxTime
    /\ pc \notin Loading /\ (pc = "serve" => now < due)
    /\ now' = now + 1
    /\ UNCHANGED <<source, files, process, faults, stops>>

Next ==
    \/ Start \/ Fire \/ ReadCert \/ ReadKey \/ Managed \/ WriteCert \/ WriteKey \/ Issue
    \/ Fault \/ Stop \/ Replace \/ Tick

Spec == Init /\ [][Next]_vars

-----------------------------------------------------------------------------
\* How much later than the end of a certificate the loop may come back: a look just
\* before the window is followed by the next after the shortest interval.
Overrun == Most(0, MinInterval - source.renewBefore)

Fresh(c) ==
    IF source.from = "managed" THEN c.notAfter + Overrun > now
    ELSE cert = key /\ now > since + ExternalInterval => c.root = cert

\* What a connection over TCP is given has not expired, or for less than what the
\* shortest interval exceeds the renewal window, and the operator's new pair is in use
\* within one interval: the loop comes back inside every renewal window it can meet,
\* however the lives of the certificates fall. The only excuse is that the last loading
\* failed.
ServedIsFresh == pc = "serve" /\ now < due => Fresh(served) \/ missed

\* "进入窗口后自动重新签发并热加载" (docs/Agent‑BridgeSecurityArchitectureAndAuthDesign.md:228):
\* and so it is for a connection over QUIC.
QuicIsFresh == pc = "serve" /\ now < due => Fresh(quic) \/ missed
=============================================================================
