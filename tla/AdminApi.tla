-------------------------------- MODULE AdminApi --------------------------------
\* The admin API of the Bridge, which browsers call: sessions (adminapi/auth.go), the
\* way every request goes from its cookie to its audit record (server.go), the event
\* stream (sse.go) and the exports with their links (export_store.go, ops.go).
\*
\* A session and an audit record are named for the request that made them, an export for
\* its number among the exports.
\* What a request reads of the rest of the Bridge, or asks it for, changes nothing here:
\* the drain of a session is BridgeSessions', a token's change TokenStore's, the
\* configuration's ConfigStore's.
EXTENDS Integers, SequencesExt

CONSTANTS
    ProviderConfigs,    \* sequence of [enabled, accounts |-> [some users -> [password, role]]]
    Workloads,          \* what is asked for in a behaviour: [calls |-> how many, ops,
                        \* sound |-> how far BOOLEAN, lossy, logins |-> [some browsers ->
                        \* set of [provider |-> 0 for any, user, password]]]
    SessionTTL,         \* defaultAdminSessionTTL
    ExportTTL, ExportLimit,
    LogLimit,           \* AuditLogLimit
    PageLimit,          \* of a search
    MaxOpen, MaxEvents, MaxTime,                \* bounds
    None

VARIABLES
    uses,           \* the workload
    now,
    sessions,       \* [some calls -> [user, role, expires]]
    exports,        \* byID: [some numbers -> [user, expires]]
    order,          \* of the exports: a set of numbers, which rise in it
    log,            \* the audit records, the oldest first: [call, start]
    jar,            \* the session whose cookie a browser has, or None
    begun,          \* how many requests there were
    call,           \* of each request: see Unborn
    links,          \* history: the links answered, one per export, [user, expires]
    taken,          \* history: the downloads, [export, user, by]
    over,           \* history: the sessions whose logout was answered
    logged          \* history: every audit record there was, in order

rest == <<uses, now, sessions, exports, order, log, jar, begun, links, taken, over, logged>>
vars == <<call, rest>>

Calls == 1..uses.calls

Unborn == [pc |-> "unborn", op |-> "none", browser |-> None, token |-> None, arg |-> None,
           sound |-> FALSE, start |-> 0, at |-> 0, user |-> None, late |-> FALSE,
           before |-> 0, events |-> 0, searched |-> FALSE, page |-> {}, more |-> FALSE]

Init ==
    /\ uses \in Workloads
    /\ now = 0
    /\ sessions = <<>> /\ exports = <<>> /\ order = {} /\ log = <<>>
    /\ jar = [b \in DOMAIN uses.logins |-> None]
    /\ begun = 0 /\ call = [c \in Calls |-> Unborn]
    /\ links = <<>> /\ taken = {} /\ over = {} /\ logged = <<>>

\* The entries of a store that a look at time t leaves in it.
Unexpired(store, t) == Restrict(store, {k \in DOMAIN store : store[k].expires > t})

\* server.now() is called before the lock of a store is taken: what it said may be old.
ReadTimes(c) == call[c].at..now

-----------------------------------------------------------------------------
\* Providers: a login names one, or the first that knows the user and the password.

Providers == SelectSeq(ProviderConfigs, LAMBDA p : p.enabled)

Knows(p, login) ==
    /\ login.user \in DOMAIN Providers[p].accounts
    /\ Providers[p].accounts[login.user].password = login.password

Accepting(login) ==
    {p \in DOMAIN Providers : login.provider \in {0, p} /\ Knows(p, login)}

RoleOf(login) == Providers[Min(Accepting(login))].accounts[login.user].role

-----------------------------------------------------------------------------
\* A request begins, and the server notes the time.

Rank(role) == CASE role = "viewer" -> 1 [] role = "operator" -> 2 [] role = "admin" -> 3

\* RegisterRoutes: the role a handler needs.
Required(op) == CASE op \in {"read", "search", "stream", "manage"} -> "viewer"
                  [] op = "operate" -> "operator"
                  [] op \in {"export", "download"} -> "admin"

Mutates(op) == op \in {"login", "logout", "operate", "manage", "export"}

Begin(b, op, arg, sound) ==
    LET c == begun + 1
    IN  /\ op \in uses.ops /\ c \in Calls
        /\ Cardinality({d \in 1..begun : call[d].pc # "done"}) < MaxOpen
        /\ begun' = c
        /\ call' = [call EXCEPT ![c] =
                      [Unborn EXCEPT !.pc = "begun", !.op = op, !.browser = b, !.token = jar[b],
                                     !.arg = arg, !.sound = sound, !.start = now, !.at = now,
                                     !.late = jar[b] \in over, !.before = Len(logged)]]
        /\ UNCHANGED <<uses, now, sessions, exports, order, log, jar, links, taken, over, logged>>

\* The response is written; the audit record follows.
Answered(c) ==
    call' = [call EXCEPT ![c] = [Unborn EXCEPT !.pc = "answered", !.start = call[c].start]]

\* Its cookies, unless it gets lost on the way to the browser.
Cookie(c, s) ==
    \/ jar' = [jar EXCEPT ![call[c].browser] = s]
    \/ uses.lossy /\ UNCHANGED jar

\* enforceWriteRequestSecurity: a request that changes something comes from an allowed
\* page and brings that page's CSRF token, or the response is FORBIDDEN.
Checked(c) == Mutates(call[c].op) => call[c].sound

Forbid(c) ==
    /\ call[c].pc = "begun" /\ call[c].op \in {"login", "logout"} /\ ~Checked(c)
    /\ Answered(c)
    /\ UNCHANGED rest

\* appendAuditRecord, of when the request began.
Record(c) == [call |-> c, start |-> call[c].start]

\* auditLogStore.append: a record takes the place of the oldest if the log is full.
Appended(items, record) ==
    Append(IF Len(items) >= LogLimit THEN Tail(items) ELSE items, record)

Log(c) ==
    /\ call[c].pc = "answered"
    /\ log' = Appended(log, Record(c))
    /\ logged' = Append(logged, Record(c))
    /\ call' = [call EXCEPT ![c] = [Unborn EXCEPT !.pc = "done"]]
    /\ UNCHANGED <<uses, now, sessions, exports, order, jar, begun, links, taken, over>>

-----------------------------------------------------------------------------
\* Sessions.

\* authSessionStore.create, as of the beginning of the request.
Created(c) ==
    LET there == Unexpired(sessions, call[c].start)
    IN  [s \in DOMAIN there \cup {c} |->
           IF s = c THEN [user |-> call[c].arg.user, role |-> RoleOf(call[c].arg),
                          expires |-> call[c].start + SessionTTL]
                    ELSE there[s]]

Login(c) ==
    /\ call[c].pc = "begun" /\ call[c].op = "login" /\ Checked(c)
    /\ IF Accepting(call[c].arg) = {}
         THEN UNCHANGED <<sessions, jar>>
         ELSE sessions' = Created(c) /\ Cookie(c, c)
    /\ Answered(c)
    /\ UNCHANGED <<uses, now, exports, order, log, begun, links, taken, over, logged>>

\* resolveSession at time t: the session of the request's cookie, if it is there.
Resolves(c, t) == call[c].token \in DOMAIN Unexpired(sessions, t)

\* What the look leaves: without a cookie there is none.
Looked(c, t) == IF call[c].token = None THEN sessions ELSE Unexpired(sessions, t)

\* handleAuthSession: a browser without a session loses its cookies. It leaves no
\* audit record.
Session(c) ==
    /\ call[c].pc = "begun" /\ call[c].op = "session"
    /\ \E t \in ReadTimes(c) :
         /\ sessions' = Looked(c, t)
         /\ IF Resolves(c, t) THEN UNCHANGED jar ELSE Cookie(c, None)
    /\ call' = [call EXCEPT ![c] = [Unborn EXCEPT !.pc = "done"]]
    /\ UNCHANGED <<uses, now, exports, order, log, begun, links, taken, over, logged>>

\* handleAuthLogout looks the session up,
Logout(c) ==
    /\ call[c].pc = "begun" /\ call[c].op = "logout" /\ Checked(c)
    /\ \E t \in ReadTimes(c) :
         /\ sessions' = Looked(c, t)
         /\ call' = [call EXCEPT ![c].pc = "leaving",
                                 ![c].token = IF Resolves(c, t) THEN @ ELSE None]
    /\ UNCHANGED <<uses, now, exports, order, log, jar, begun, links, taken, over, logged>>

\* (A mutant: a session outlives its logout.)
Kept(c) == sessions

\* deletes it if it was there, and answers.
Left(c) == Restrict(sessions, DOMAIN sessions \ {call[c].token})

Leave(c) ==
    /\ call[c].pc = "leaving"
    /\ sessions' = Left(c)
    /\ Cookie(c, None)
    /\ over' = over \cup ({call[c].token} \ {None})
    /\ Answered(c)
    /\ UNCHANGED <<uses, now, exports, order, log, begun, links, taken, logged>>

\* wrapHandler: the session, its role, and the check of a request that changes something.
Admit(c) ==
    /\ call[c].pc = "begun" /\ call[c].op \notin {"login", "logout", "session"}
    /\ \E t \in ReadTimes(c) :
         /\ sessions' = Looked(c, t)
         /\ IF /\ Resolves(c, t)
               /\ Rank(sessions[call[c].token].role) >= Rank(Required(call[c].op))
               /\ Checked(c)
              THEN call' = [call EXCEPT ![c].pc = "admitted", ![c].at = t,
                                        ![c].user = sessions[call[c].token].user]
              ELSE Answered(c)
    /\ UNCHANGED <<uses, now, exports, order, log, jar, begun, links, taken, over, logged>>

Runs(c, op) == call[c].pc = "admitted" /\ call[c].op = op

-----------------------------------------------------------------------------
\* The handlers.

\* Lists and summaries of what the Bridge keeps,
Read(c) ==
    /\ Runs(c, "read")
    /\ Answered(c)
    /\ UNCHANGED rest

\* and drains and reloads, which other parts do.
Operate(c) ==
    /\ Runs(c, "operate")
    /\ Answered(c)
    /\ UNCHANGED rest

\* handleConnectorTokens lets any of them look at the tokens and asks the role again for a
\* change, which only an admin may make. Its answers, FORBIDDEN too, are recorded alike.
Manage(c) ==
    /\ Runs(c, "manage")
    /\ Answered(c)
    /\ UNCHANGED rest

\* auditLogStore.query: the places of the records of requests that began in a time window.
Window(from, to) == {i \in DOMAIN log : log[i].start >= from /\ log[i].start <= to}

\* paginate: a page of what is at these places, and whether there is another.
Page(places, offset) ==
    {log[i] : i \in {i \in places :
        Cardinality({j \in places : j < i}) \in offset..(offset + PageLimit - 1)}}

MoreAfter(places, offset) == offset + PageLimit < Cardinality(places)

\* The first page of the records since time `arg`.
Search(c) ==
    /\ Runs(c, "search")
    /\ LET places == Window(call[c].arg, call[c].start)
       IN  call' = [call EXCEPT ![c].pc = "answered", ![c].searched = TRUE,
                                ![c].page = Page(places, 0), ![c].more = MoreAfter(places, 0)]
    /\ UNCHANGED rest

\* The stream: a first event, then snapshots and heartbeats with one number each,
Stream(c) ==
    /\ Runs(c, "stream")
    /\ call' = [call EXCEPT ![c].pc = "streaming", ![c].events = 1]
    /\ UNCHANGED rest

Push(c) ==
    /\ call[c].pc = "streaming" /\ call[c].events < MaxEvents
    /\ call' = [call EXCEPT ![c].events = @ + 1]
    /\ UNCHANGED rest

\* until the browser goes, or a write fails. Nothing else ends it.
Hangup(c) ==
    /\ call[c].pc = "streaming"
    /\ Answered(c)
    /\ UNCHANGED rest

\* purgeExpiredLocked, of the order.
Swept(t) == IF DOMAIN exports = {} THEN order ELSE order \cap DOMAIN Unexpired(exports, t)

\* trimOverflowLocked: the newest of the order, as many as fit.
Newest(all) == {n \in all : Cardinality({m \in all : m > n}) < ExportLimit}

\* diagnoseExportStore.create: what expired goes, and the oldest if there are too many.
Stored(c, t) ==
    LET there == Unexpired(exports, t)
        n     == Len(links) + 1
        next  == Swept(t) \cup {n}
        gone  == next \ Newest(next)
    IN  /\ order' = Newest(next)
        /\ exports' = [m \in (DOMAIN there \cup {n}) \ gone |->
                         IF m = n THEN [user |-> call[c].user, expires |-> t + ExportTTL]
                                  ELSE there[m]]

\* handleOpsDiagnoseExport answers a link to it.
Export(c) ==
    /\ Runs(c, "export")
    /\ \E t \in ReadTimes(c) :
         /\ Stored(c, t)
         /\ links' = Append(links, [user |-> call[c].user, expires |-> t + ExportTTL])
    /\ Answered(c)
    /\ UNCHANGED <<uses, now, sessions, log, jar, begun, taken, over, logged>>

\* diagnoseExportStore.get: a link is good once, for who asked for it.
Good(c, t) ==
    LET there == Unexpired(exports, t)
    IN  call[c].arg \in DOMAIN there /\ there[call[c].arg].user = call[c].user

Consumed(c, t) ==
    LET there == Unexpired(exports, t)
        gone  == IF Good(c, t) THEN {call[c].arg} ELSE {}
    IN  /\ exports' = Restrict(there, DOMAIN there \ gone)
        /\ order' = Swept(t) \ gone

Download(c) ==
    /\ Runs(c, "download")
    /\ \E t \in ReadTimes(c) :
         /\ Consumed(c, t)
         /\ taken' = IF Good(c, t)
                       THEN taken \cup {[export |-> call[c].arg, user |-> call[c].user, by |-> c]}
                       ELSE taken
    /\ Answered(c)
    /\ UNCHANGED <<uses, now, sessions, log, jar, begun, links, over, logged>>

-----------------------------------------------------------------------------
Tick == now < MaxTime /\ now' = now + 1
        /\ UNCHANGED <<uses, sessions, exports, order, log, jar, begun, call, links, taken, over,
                       logged>>

Next ==
    \/ \E b \in DOMAIN uses.logins :
         \/ \E login \in uses.logins[b], sound \in uses.sound : Begin(b, "login", login, sound)
         \/ \E op \in {"logout", "operate", "manage", "export"}, sound \in uses.sound :
                Begin(b, op, None, sound)
         \/ \E op \in {"session", "read", "stream"} : Begin(b, op, None, TRUE)
         \/ \E from \in 0..now : Begin(b, "search", from, TRUE)
         \/ \E n \in DOMAIN links : Begin(b, "download", n, TRUE)
    \/ \E c \in 1..begun :
         \/ Forbid(c) \/ Log(c)
         \/ Login(c) \/ Session(c) \/ Logout(c) \/ Leave(c) \/ Admit(c)
         \/ Read(c) \/ Operate(c) \/ Manage(c) \/ Search(c)
         \/ Stream(c) \/ Push(c) \/ Hangup(c)
         \/ Export(c) \/ Download(c)
    \/ Tick

Spec == Init /\ [][Next]_vars

-----------------------------------------------------------------------------
\* No request that began after a logout was answered is served for its session.
LogoutsHold ==
    \A c \in Calls : call[c].late => call[c].pc \notin {"admitted", "streaming"}

\* A link that was answered is good for the one who asked for it until it expires, is
\* used or makes room for newer ones,
LinksHold ==
    \A n \in DOMAIN links :
        \/ n \in DOMAIN exports /\ exports[n].user = links[n].user
        \/ links[n].expires <= now
        \/ \E d \in taken : d.export = n
        \/ Len(links) - n >= ExportLimit

\* but no more than once, and for nobody else; and the two halves of the store agree.
LinksEnd ==
    /\ \A d, e \in taken : d.export = e.export => d = e
    /\ \A d \in taken : links[d.export].user = d.user
    /\ order = DOMAIN exports /\ Cardinality(order) <= ExportLimit

\* A search that says there is no more has shown every record of its window that was
\* there when it began, but for those that made room since.
SearchesHold ==
    \A c \in Calls : call[c].op = "search" /\ call[c].searched /\ ~call[c].more =>
        \A n \in 1..call[c].before :
            \/ logged[n].start < call[c].arg
            \/ logged[n] \in call[c].page
            \/ Len(logged) - n >= LogLimit

AnswersHold == LogoutsHold /\ LinksHold /\ LinksEnd /\ SearchesHold
=============================================================================
