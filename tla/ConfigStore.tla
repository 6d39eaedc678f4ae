------------------------------- MODULE ConfigStore -------------------------------
\* The configuration the Bridge's admin API shows and changes: the layers it is resolved
\* from (app/runtime_config_loader.go), and the store that keeps the layers read at the
\* start, with a version, and writes the one that may be edited
\* (app/admin_runtime_ops.go). The running server is configured at the start; an update
\* is for the next one. The process may stop anywhere.
\*
\* A layer maps some of the keys to values. The keys behave alike, but for "tls" (the mode
\* of the control plane's TLS and the source of its certificate) and "ca" (the path of the
\* files of a root CA): a "managed" certificate needs them.
EXTENDS Integers, TLC

CONSTANTS
    Admins, Keys, Values,        \* Values[key]: what a patch may set it to
    Odd,                         \* a value that no key can have
    Setups,                      \* [explicit, local |-> "none" | "writable" | "readonly",
                                 \*  env |-> a layer, files |-> [Layers -> layers]]
    MaxUpdates, MaxReloads, MaxStops, MaxFaults,     \* bounds
    None

VARIABLES
    setup,
    files,       \* the files of the layers
    ca,          \* the root CA's files beside the editable file: "none", "half" or "both"
    up,          \* whether the process runs
    layers,      \* what the store has of them
    version,     \* configVersion
    mutex,       \* the admin that holds it, or None
    admin,       \* of each admin: see Idle
    life,        \* history: how often the process started
    updates, reloads, faults

vars == <<setup, files, ca, up, layers, version, mutex, admin, life, updates, reloads, faults>>

\* In rising order; the environment comes before the last one, and cannot be edited.
Layers == <<"system", "user", "local", "explicit">>

Idle == [pc |-> "idle", version |-> 0, seen |-> None, life |-> 0, next |-> None, made |-> FALSE]

-----------------------------------------------------------------------------
\* Resolution.

\* DefaultConfig.
Default(key) == IF key = "tls" THEN "plain" ELSE "none"

\* applyRuntimeConfigEnvOverridesInPlace: a variable that is empty is as good as none.
Environment ==
    LET given == {key \in DOMAIN setup.env : setup.env[key] # None}
    IN  [key \in given |-> setup.env[key]]

\* buildRuntimeConfigFromLayerMaps: each layer over the ones below.
Resolved(l) ==
    l["explicit"] @@ Environment @@ l["local"] @@ l["user"] @@ l["system"]
    @@ [key \in Keys |-> Default(key)]

\* The validators of the single settings: addresses, origins, scopes, policies, limits.
Sound(value) == value # Odd

\* Config.Validate of what results.
Valid(l) ==
    /\ \A key \in Keys : Sound(Resolved(l)[key])
    /\ Resolved(l)["tls"] = "managed" => Resolved(l)["ca"] # "none"

\* The files of the root CA are those beside the editable file.
NeedsFiles(l) == Resolved(l)["tls"] = "managed" /\ Resolved(l)["ca"] = "beside"

\* resolveEditableRuntimeConfigTarget: the explicit file, or the local one if it is
\* there, when it can be written; otherwise the user's, whatever it is.
Editable ==
    IF setup.explicit = "writable" THEN "explicit"
    ELSE IF setup.local = "writable" THEN "local" ELSE "user"

\* The files above the editable one: the environment is not looked at.
Above == CASE Editable = "explicit" -> {}
           [] Editable = "local"    -> {"explicit"}
           [] Editable = "user"     -> {"explicit", "local"}

\* validateRuntimeConfigPatchVisibility: only removals may go below another file.
Visible(patch) ==
    \A key \in DOMAIN patch : patch[key] # None => \A l \in Above : key \notin DOMAIN layers[l]

\* parsePatchBool, ..., parsePatchDurationMillis: a setting can be read from the value.
Readable(value) == value # Odd

\* applyRuntimeConfigPatch reads the new value of each key.
Parses(patch) == \A key \in DOMAIN patch : Readable(patch[key])

\* applyManagedCAControlPlaneDefaults: with a managed certificate comes the path of the
\* root CA's files, if the configuration so far, which removals do not change, has none.
Completion(patch) ==
    LET ca0 == IF "ca" \in DOMAIN patch /\ patch["ca"] # None
                 THEN patch["ca"] ELSE Resolved(layers)["ca"]
    IN  IF "tls" \in DOMAIN patch /\ patch["tls"] = "managed" /\ ca0 = "none"
          THEN "ca" :> "beside" ELSE <<>>

\* applyRuntimeConfigPatch of every key: None removes it.
Applied(patch, layer) ==
    LET all == Completion(patch) @@ patch @@ layer
    IN  [key \in {k \in DOMAIN all : all[k] # None} |-> all[key]]

Patched(patch) == [layers EXCEPT ![Editable] = Applied(patch, @)]

-----------------------------------------------------------------------------
Init ==
    /\ setup \in Setups
    /\ files = setup.files /\ layers = files
    /\ Valid(files)
    /\ ca = (IF NeedsFiles(files) THEN "both" ELSE "none")
    /\ up = TRUE
    /\ version = 1 /\ mutex = None
    /\ admin = [a \in Admins |-> Idle]
    /\ life = 1
    /\ updates = 0 /\ reloads = 0 /\ faults = 0

\* An admin reads the configuration and its version.
Read(a) ==
    /\ up /\ admin[a].pc = "idle" /\ mutex = None
    /\ admin' = [admin EXCEPT ![a] = [Idle EXCEPT !.version = version, !.seen = layers, !.life = life]]
    /\ UNCHANGED <<setup, files, ca, up, layers, version, mutex, life, updates, reloads, faults>>

Reload ==
    /\ up /\ mutex = None /\ reloads < MaxReloads
    /\ reloads' = reloads + 1
    /\ version' = version + 1
    /\ UNCHANGED <<setup, files, ca, up, layers, mutex, admin, life, updates, faults>>

\* (A mutant: the version only has to be one that was given.)
Known(a) == admin[a].version <= version

\* if_match_version is the current one.
Matches(a) == admin[a].version = version

\* update, up to the first file it writes: the version, the patch, and the
\* configuration that results.
Accepted(a, patch) ==
    Matches(a) /\ Visible(patch) /\ Parses(patch) /\ Valid(Patched(patch))

Asks(a) == up /\ admin[a].pc = "idle" /\ admin[a].version # 0 /\ mutex = None

Update(a, patch) ==
    /\ Asks(a) /\ Accepted(a, patch)
    /\ updates < MaxUpdates
    /\ updates' = updates + 1
    /\ mutex' = a
    /\ admin' = [admin EXCEPT ![a].next = Patched(patch),
                             ![a].pc = IF NeedsFiles(Patched(patch)) THEN "ca" ELSE "save"]
    /\ UNCHANGED <<setup, files, ca, up, layers, version, life, reloads, faults>>

\* Another version, a key of a higher file, a value that is refused, or a configuration
\* that cannot be.
Refused(a, patch) ==
    /\ Asks(a) /\ ~Accepted(a, patch)
    /\ admin' = [admin EXCEPT ![a] = Idle]
    /\ UNCHANGED <<setup, files, ca, up, layers, version, mutex, life, updates, reloads, faults>>

-----------------------------------------------------------------------------
\* The rest of an update, under the mutex.

Fails(a) ==
    /\ mutex' = None
    /\ admin' = [admin EXCEPT ![a] = Idle]

\* prepareManagedCARootFilesForConfig: the files are there, or both are made, one after
\* the other. Only one is an error.
Prepare(a) ==
    /\ admin[a].pc = "ca"
    /\ \/ /\ ca = "both" \/ (ca = "half" /\ admin[a].made)
          /\ ca' = "both"
          /\ admin' = [admin EXCEPT ![a].pc = "save"] /\ UNCHANGED mutex
       \/ /\ ca = "none"
          /\ ca' = "half"
          /\ admin' = [admin EXCEPT ![a].made = TRUE] /\ UNCHANGED mutex
       \/ ca = "half" /\ ~admin[a].made /\ Fails(a) /\ UNCHANGED ca
    /\ UNCHANGED <<setup, files, up, layers, version, life, updates, reloads, faults>>

\* One of them cannot be written: what was written stays.
PrepareFails(a) ==
    /\ admin[a].pc = "ca" /\ faults < MaxFaults
    /\ faults' = faults + 1
    /\ Fails(a)
    /\ UNCHANGED <<setup, files, ca, up, layers, version, life, updates, reloads>>

\* The layer replaces its file.
Save(a) ==
    /\ admin[a].pc = "save"
    /\ files' = admin[a].next
    /\ admin' = [admin EXCEPT ![a].pc = "commit"]
    /\ UNCHANGED <<setup, ca, up, layers, version, mutex, life, updates, reloads, faults>>

\* (A mutant: the store keeps what it could not save.)
Kept(a) == admin[a].next

\* What the store has after a save that failed.
Restored(a) == layers

\* It cannot: the files of the CA go if this update made them (and can be removed).
SaveFails(a) ==
    /\ admin[a].pc = "save" /\ faults < MaxFaults
    /\ faults' = faults + 1
    /\ ca' = IF admin[a].made THEN "none" ELSE ca
    /\ layers' = Restored(a)
    /\ Fails(a)
    /\ UNCHANGED <<setup, files, up, version, life, updates, reloads>>

\* The store follows, with a new version.
Commit(a) ==
    /\ admin[a].pc = "commit"
    /\ layers' = admin[a].next
    /\ version' = version + 1
    /\ mutex' = None
    /\ admin' = [admin EXCEPT ![a] = Idle]
    /\ UNCHANGED <<setup, files, ca, up, life, updates, reloads, faults>>

-----------------------------------------------------------------------------
\* The process stops. An admin's page stays open.
Stop ==
    /\ up /\ life <= MaxStops
    /\ up' = FALSE
    /\ mutex' = None
    /\ admin' = [a \in Admins |-> IF admin[a].pc = "idle" THEN admin[a] ELSE Idle]
    /\ UNCHANGED <<setup, files, ca, layers, version, life, updates, reloads, faults>>

\* The next one reads the files, and the certificate's provider those of the CA: it makes
\* them if there is none, and the start fails if there is only one.
Start ==
    /\ ~up /\ Valid(files)
    /\ NeedsFiles(files) => ca # "half"
    /\ up' = TRUE
    /\ ca' = IF NeedsFiles(files) THEN "both" ELSE ca
    /\ life' = life + 1
    /\ layers' = files
    /\ version' = 1
    /\ UNCHANGED <<setup, files, mutex, admin, updates, reloads, faults>>

\* The patches: of some of the keys, each of which gets a value of its own or goes.
Patches ==
    {patch \in UNION {[keys -> UNION {Values[k] : k \in keys} \cup {None}] :
                        keys \in (SUBSET Keys) \ {{}}} :
       \A key \in DOMAIN patch : patch[key] \in Values[key] \cup {None}}

Next ==
    \/ \E a \in Admins :
         \/ Read(a) \/ Prepare(a) \/ PrepareFails(a) \/ Save(a) \/ SaveFails(a) \/ Commit(a)
         \/ \E patch \in Patches : Update(a, patch) \/ Refused(a, patch)
    \/ Reload \/ Stop \/ Start

Spec == Init /\ [][Next]_vars

-----------------------------------------------------------------------------
\* What the store shows is what the next process will be configured with, whatever
\* failed on the way, unless an update is between its two steps;
Shown == up /\ (\A a \in Admins : admin[a].pc # "commit") => layers = files

\* and that process can start: what is saved is valid, and the root CA it names is there.
Startable == Valid(files) /\ (NeedsFiles(files) => ca = "both")

ShownIsSaved == Shown /\ Startable

\* An update replaces a configuration that its author has read in this life of the
\* process: none is lost between two admins.
UpdatesAreSeen ==
    [][\A a \in Admins : Commit(a) /\ admin[a].life = life => admin[a].seen = layers]_vars

\* "config_version：供 PUT /api/admin/config 做乐观并发控制"
\* (docs/BridgeAdminBackendTechnicalProposal.md:771): so it is for any admin. The version
\* starts at 1 again with the process.
NoUpdateIsLost == [][\A a \in Admins : Commit(a) => admin[a].seen = layers]_vars
=============================================================================
