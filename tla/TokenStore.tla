------------------------------- MODULE TokenStore -------------------------------
\* The connector tokens of the Bridge: the store that keeps them in memory and in a
\* file (auth/token_store_file.go) and the service that creates, rotates and revokes them
\* one at a time for the admin API (auth/token_admin.go, app/connector_token_admin.go,
\* adminapi/tokens.go). The process may stop anywhere and start from the file. An
\* authentication only looks a record up (ControlHandshake).
\*
\* A secret is named for the request that made it. The memory driver is this store
\* without its file. Ill-formed files and requests, which nothing changes, are left out.
EXTENDS Integers

CONSTANTS
    Tokens, Connectors,
    Requests,          \* of the admin API, one call each
    InitialRecords,    \* the files the Bridge may start with: [some Tokens -> records]
    MaxTries,          \* of a token id that is free: connectorTokenGenerateMaxRetries
    MaxCrashes, MaxTime,
    None

VARIABLES
    now,
    memory, file,      \* [some Tokens -> [connector, status, expires, secret]]
    service, store,    \* who holds the service's mutex and the store's, or None
    req,               \* of each request: see Waiting
    told,              \* history: what was answered, [token |-> "made" or "revoked", ...]
    crashes

vars == <<now, memory, file, service, store, req, told, crashes>>

Waiting == [pc |-> "waiting", op |-> "none", token |-> None, connector |-> None,
            expires |-> 0, fresh |-> None, tries |-> 0, next |-> <<>>]

Init ==
    /\ now = 0
    /\ file \in InitialRecords /\ memory = file
    /\ service = None /\ store = None
    /\ req = [r \in Requests |-> Waiting]
    /\ told = {}
    /\ crashes = 0

Known(t) == t \in DOMAIN memory

\* The records of one token, and records over others.
One(t, record) == [u \in {t} |-> record]
Over(new, old) ==
    [u \in DOMAIN new \cup DOMAIN old |-> IF u \in DOMAIN new THEN new[u] ELSE old[u]]

\* validateConnectorTokenState: 0 is no expiry.
Valid(record) ==
    /\ record.status \in {"active", "grace"}
    /\ record.expires = 0 \/ now <= record.expires

Goto(r, place) == req' = [req EXCEPT ![r].pc = place]

-----------------------------------------------------------------------------
\* A request: create, rotate or revoke, under the service's mutex.

\* (A mutant: requests do not wait for each other.)
EnterAtOnce(r) == TRUE

\* The service's mutex is free.
MayEnter(r) == service = None

Enter(r, op, t, k, expires) ==
    /\ req[r].pc = "waiting" /\ MayEnter(r)
    /\ service' = r
    /\ req' = [req EXCEPT ![r] = [@ EXCEPT !.pc = op, !.op = op, !.token = t, !.connector = k,
                                           !.expires = expires]]
    /\ UNCHANGED <<now, memory, file, store, told, crashes>>

\* The answer, good or bad, which releases the service's mutex.
Answer(r, what) ==
    /\ Goto(r, "done")
    /\ service' = None
    /\ told' = told \cup what

Refused(r) == Answer(r, {}) /\ UNCHANGED <<now, memory, file, store, crashes>>

\* Create: an expiry in the past is refused.
Create(r) ==
    /\ req[r].pc = "create"
    /\ \/ req[r].expires # 0 /\ req[r].expires <= now /\ Refused(r)
       \/ /\ req[r].expires = 0 \/ req[r].expires > now
          /\ Goto(r, "material")
          /\ UNCHANGED <<now, memory, file, service, store, told, crashes>>

\* Rotate: Get the token, which must be valid; the new one takes over its connector
\* and its expiry.
Rotate(r) ==
    /\ req[r].pc = "rotate"
    /\ LET t == req[r].token
       IN  \/ ~(Known(t) /\ Valid(memory[t])) /\ Refused(r)
           \/ /\ Known(t) /\ Valid(memory[t])
              /\ req' = [req EXCEPT ![r].pc = "list", ![r].connector = memory[t].connector,
                                    ![r].expires = memory[t].expires]
              /\ UNCHANGED <<now, memory, file, service, store, told, crashes>>

\* List: what the new set of records is made from.
List(r) ==
    /\ req[r].pc = "list"
    /\ req' = [req EXCEPT ![r].pc = "material", ![r].next = memory]
    /\ UNCHANGED <<now, memory, file, service, store, told, crashes>>

\* generateUniqueTokenMaterial: a random id, which may be taken.
Generate(r, t) ==
    /\ req[r].pc = "material"
    /\ IF Known(t)
         THEN IF req[r].tries + 1 = MaxTries
                THEN Answer(r, {})
                ELSE req' = [req EXCEPT ![r].tries = @ + 1] /\ UNCHANGED <<service, told>>
         ELSE /\ req' = [req EXCEPT ![r].pc = "store", ![r].fresh = t]
              /\ UNCHANGED <<service, told>>
    /\ UNCHANGED <<now, memory, file, store, crashes>>

\* Revoke: Get the token; its record with the new status is to be written.
Revoke(r) ==
    /\ req[r].pc = "revoke"
    /\ LET t == req[r].token
       IN  \/ ~Known(t) /\ Refused(r)
           \/ /\ Known(t)
              /\ req' = [req EXCEPT ![r].pc = "store",
                            ![r].next = One(t, [memory[t] EXCEPT !.status = "revoked"])]
              /\ UNCHANGED <<now, memory, file, service, store, told, crashes>>

-----------------------------------------------------------------------------
\* The store's part of a request.

NewRecord(r) == [connector |-> req[r].connector, status |-> "active",
                 expires |-> req[r].expires, secret |-> r]

\* What the request writes: Upsert of one record over the memory as it is, or
\* ReplaceAll with the set of a rotation.
Written(r) ==
    LET new == IF req[r].op = "revoke" THEN req[r].next ELSE One(req[r].fresh, NewRecord(r))
        old == IF req[r].op = "rotate"
                 THEN [req[r].next EXCEPT ![req[r].token].status = "revoked"] ELSE memory
    IN  Over(new, old)

\* The store's mutex is taken and the records are written to a temporary file.
Take(r) ==
    /\ req[r].pc = "store" /\ store = None
    /\ store' = r
    /\ req' = [req EXCEPT ![r].pc = "rename", ![r].next = Written(r)]
    /\ UNCHANGED <<now, memory, file, service, told, crashes>>

\* It replaces the file.
Rename(r) ==
    /\ req[r].pc = "rename"
    /\ file' = req[r].next
    /\ Goto(r, "swap")
    /\ UNCHANGED <<now, memory, service, store, told, crashes>>

\* A step of the writing fails: the memory and the file stay.
WriteFails(r) ==
    /\ req[r].pc = "rename"
    /\ store' = None
    /\ Answer(r, {})
    /\ UNCHANGED <<now, memory, file, crashes>>

\* What a request that has done its part is told: the new token, the end of the old one.
Outcome(r) ==
    (IF req[r].op # "revoke" THEN {[token |-> req[r].fresh, as |-> r]} ELSE {})
    \cup (IF req[r].op # "create" THEN {[token |-> req[r].token, as |-> "revoked"]} ELSE {})

\* The memory follows, and the request is answered.
Swap(r) ==
    /\ req[r].pc = "swap"
    /\ memory' = req[r].next
    /\ store' = None
    /\ Answer(r, Outcome(r))
    /\ UNCHANGED <<now, file, crashes>>

-----------------------------------------------------------------------------
\* The process stops, and starts with what the file has.
Crash ==
    /\ crashes < MaxCrashes
    /\ crashes' = crashes + 1
    /\ memory' = file
    /\ service' = None /\ store' = None
    /\ req' = [r \in Requests |-> IF req[r].pc = "waiting" THEN req[r] ELSE [Waiting EXCEPT !.pc = "done"]]
    /\ UNCHANGED <<now, file, told>>

Tick == now < MaxTime /\ now' = now + 1
        /\ UNCHANGED <<memory, file, service, store, req, told, crashes>>

Next ==
    \/ \E r \in Requests :
         \/ \E k \in Connectors, expires \in 0..MaxTime : Enter(r, "create", None, k, expires)
         \/ \E t \in Tokens, op \in {"rotate", "revoke"} : Enter(r, op, t, None, 0)
         \/ Create(r) \/ Rotate(r) \/ List(r) \/ Revoke(r)
         \/ \E t \in Tokens : Generate(r, t)
         \/ Take(r) \/ Rename(r) \/ WriteFails(r) \/ Swap(r)
    \/ Crash \/ Tick

Spec == Init /\ [][Next]_vars

-----------------------------------------------------------------------------
\* Every answer holds for good, in memory and in the file, across whatever other
\* requests do and across a crash: a token that was handed out has its secret's record,
\* and one that was revoked or rotated away stays revoked.
Honoured(answer, records) ==
    /\ answer.token \in DOMAIN records
    /\ IF answer.as = "revoked" THEN records[answer.token].status = "revoked"
                                ELSE records[answer.token].secret = answer.as
AnswersHold == \A answer \in told : Honoured(answer, memory) /\ Honoured(answer, file)
=============================================================================
