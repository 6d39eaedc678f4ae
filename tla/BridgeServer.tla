------------------------------- MODULE BridgeServer -------------------------------
\* Five parts of the Bridge that guard what it is asked and what it keeps: the handshake of
\* control channels, the connector tokens, the certificates, the configuration and the
\* admin API. They share no state: a behaviour is one of one of them, whose name `part`
\* holds.
EXTENDS ControlHandshake, TLC

CONSTANTS
    None,
    Tokens, TokenConnectors, Requests, InitialRecords,
    TokenBounds,         \* [tries, crashes, time]: of TokenStore
    CertSources, BaseInterval, MinInterval, RetryInterval, ExternalInterval,
    CertBounds,          \* [time, faults, stops, replaced]: of ServerCertificates
    Admins, Keys, Values, Odd, Setups,
    ConfigBounds,        \* [updates, reloads, stops, faults]: of ConfigStore
    ProviderConfigs, Workloads, SessionTTL, ExportTTL, ExportLimit, LogLimit, PageLimit,
    AdminBounds          \* [open, events, time]: of AdminApi

\* Validate: the window of renewal is shorter than the life of a certificate, and may be
\* empty. NewServer, newDiagnoseExportStore, newAuditLogStore: limits that are not positive
\* are replaced.
ASSUME ServerAssumption ==
    /\ None \notin Admins \cup Requests
    /\ "revoked" \notin Requests
    /\ \A records \in InitialRecords : \A t \in DOMAIN records :
          DOMAIN records[t] = {"connector", "status", "expires", "secret"}
    /\ {BaseInterval, MinInterval, ExternalInterval} \subseteq Nat
    /\ CertBounds.time \in Nat
    /\ \A config \in CertSources :
          config.ttl \in Nat /\ config.renewBefore \in Nat /\ config.renewBefore < config.ttl
    /\ {ExportLimit, LogLimit, PageLimit} \subseteq Nat \ {0}
    /\ ExportTTL \in Nat
    /\ None \notin Nat
    /\ \A workload \in Workloads : workload.calls \in Nat

VARIABLES
    part,
    tokenClock, memory, file, service, store, req, told, crashes,            \* TokenStore
    clock, source, cert, key, pc, read, cached, served, quic, due, missed,
    since, made, faults, stops,                                              \* ServerCertificates
    setup, files, ca, up, layers, version, mutex, admin, life, updates, reloads,
    failed,                                                                  \* ConfigStore
    uses, adminClock, sessions, exports, order, log, jar, begun, call, links,
    taken, over, logged                                                      \* AdminApi

tokenVars  == <<tokenClock, memory, file, service, store, req, told, crashes>>
certVars   == <<clock, source, cert, key, pc, read, cached, served, quic, due, missed,
                since, made, faults, stops>>
configVars == <<setup, files, ca, up, layers, version, mutex, admin, life, updates, reloads, failed>>
adminVars  == <<uses, adminClock, sessions, exports, order, log, jar, begun, call, links, taken,
                over, logged>>
allVars    == <<part, vars, tokenVars, certVars, configVars, adminVars>>

-----------------------------------------------------------------------------
Token == INSTANCE TokenStore WITH
    now <- tokenClock, Connectors <- TokenConnectors, MaxTries <- TokenBounds.tries,
    MaxCrashes <- TokenBounds.crashes, MaxTime <- TokenBounds.time

Certificates == INSTANCE ServerCertificates WITH
    now <- clock, Sources <- CertSources, MaxTime <- CertBounds.time,
    MaxFaults <- CertBounds.faults, MaxStops <- CertBounds.stops,
    MaxReplaced <- CertBounds.replaced

Config == INSTANCE ConfigStore WITH
    faults <- failed, MaxUpdates <- ConfigBounds.updates, MaxReloads <- ConfigBounds.reloads,
    MaxStops <- ConfigBounds.stops, MaxFaults <- ConfigBounds.faults

Admin == INSTANCE AdminApi WITH
    now <- adminClock, MaxOpen <- AdminBounds.open, MaxEvents <- AdminBounds.events,
    MaxTime <- AdminBounds.time

-----------------------------------------------------------------------------
\* The parts that do not run stay as they start.
ServerInit ==
    /\ part \in {"handshake", "tokens", "certificates", "config", "admin"}
    /\ Init /\ Token!Init /\ Certificates!Init /\ Config!Init /\ Admin!Init

ServerNext ==
    \/ part = "handshake" /\ Next /\ UNCHANGED <<part, tokenVars, certVars, configVars, adminVars>>
    \/ part = "tokens" /\ Token!Next /\ UNCHANGED <<part, vars, certVars, configVars, adminVars>>
    \/ part = "certificates" /\ Certificates!Next /\ UNCHANGED <<part, vars, tokenVars, configVars, adminVars>>
    \/ part = "config" /\ Config!Next /\ UNCHANGED <<part, vars, tokenVars, certVars, adminVars>>
    \/ part = "admin" /\ Admin!Next /\ UNCHANGED <<part, vars, tokenVars, certVars, configVars>>

ServerSpec == ServerInit /\ [][ServerNext]_allVars

-----------------------------------------------------------------------------
\* The properties of the parts, stated in their modules.

\* What the Bridge answered holds: about a token for good, also over a crash; that a
\* session is over; that a link can be used, once; that a search has shown everything.
AnswersHold == Token!AnswersHold /\ Admin!AnswersHold

\* A new connection is given a certificate that is fresh.
ServedIsFresh == Certificates!ServedIsFresh

\* The configuration that is shown is the one that is saved.
ShownIsSaved == Config!ShownIsSaved

\* An update replaces what its author has read.
UpdatesAreSeen == Config!UpdatesAreSeen
=============================================================================
