------------------------------- MODULE Access -------------------------------
(***************************************************************************)
(* Start-up of the server (crates/api/src/main.rs and bootstrap in         *)
(* crates/api/src/lib.rs), the table of investigators, sessions            *)
(* (crates/api/src/auth.rs, crates/api/src/routes/auth.rs) and the checks  *)
(* in front of the endpoints that change something.                        *)
(*                                                                         *)
(* Several processes may be started on one database, as in a restart that  *)
(* overlaps with the old process, each in an environment of its own; an    *)
(* address can be bound by only one of them.  An investigator's id is the  *)
(* position of its row.  A password and its hash are identified, and a     *)
(* token can only be had by logging in.  A request that is refused changes *)
(* nothing and is a stuttering step.                                       *)
(***************************************************************************)
EXTENDS Integers, Sequences, FiniteSets

CONSTANTS
  Processes,         \* server processes
  Clients,           \* browsers and API clients
  Configs,           \* the environments a process may be started in
  Staff,             \* investigators that may be added while the server is running
  MaxInvestigators,  \* bound on the rows after which none is added by hand
  TTL,               \* TOKEN_TTL_HOURS
  Leeway,            \* how much later than exp Validation::default() accepts a token
  MaxTime,           \* bound on the clock
  MaxStops,          \* bound on how often a process ends
  MaxLogins          \* bound on the logins

Roles == {"viewer", "investigator", "admin"}
can_decide(role) == role \in {"investigator", "admin"}
can_administer(role) == role = "admin"

ASSUME ConfigsAssumption ==
  \A c \in Configs :
    DOMAIN c = {"admin_username", "admin_password", "jwt_secret", "demo_mode", "bind_addr"}
ASSUME StaffAssumption == \A s \in Staff : DOMAIN s = {"username", "password", "role"} /\ s.role \in Roles
ASSUME RowsAssumption == MaxInvestigators \in Nat \ {0}
ASSUME TimeAssumption == TTL \in Nat /\ Leeway \in Nat /\ MaxTime \in Nat
ASSUME BoundsAssumption == MaxStops \in Nat /\ MaxLogins \in Nat

VARIABLES
  investigators,  \* table investigators
  seeded,         \* history: the ids of the rows bootstrap has created
  flagged,        \* table flagged_accounts has the demo account
  proc,           \* the processes: where they are, the configuration they run with and,
                  \* as a history, whether they were started on an empty table
  now,
  logins,         \* history: who has logged in, under which secret and when
  header,         \* the bearer token each client has
  cookie,         \* the session cookie each client has
  request,        \* what each client is having done, after all checks
  decided,        \* the investigator ids in table alert_decisions
  ingested,       \* history: the ids for which a transaction has been ingested
  stops

tables == <<investigators, flagged, decided>>
sessions == <<header, cookie>>
vars == <<tables, seeded, proc, now, logins, sessions, request, ingested, stops>>

Places == {"count", "create", "source", "bind", "serve"}
Down == [at |-> "down"]
NoToken == [sub |-> 0]
NoRequest == [kind |-> "none"]
Ids == Nat \ {0}

Init ==
  /\ investigators = <<>> /\ seeded = {} /\ flagged = FALSE
  /\ proc = [p \in Processes |-> Down]
  /\ now = 0 /\ logins = {}
  /\ header = [c \in Clients |-> NoToken] /\ cookie = [c \in Clients |-> NoToken]
  /\ request = [c \in Clients |-> NoRequest]
  /\ decided = {} /\ ingested = {} /\ stops = 0

Goto(p, place) == proc' = [proc EXCEPT ![p].at = place]
End(p) == proc' = [proc EXCEPT ![p] = Down]
Serving(p) == proc[p].at = "serve"
HasUsername(name) == \E i \in DOMAIN investigators : investigators[i].username = name

-----------------------------------------------------------------------------
(* main and bootstrap.  An error ends the process: see Stop. *)

\* from_env, connect and the migrations.
Start(p) ==
  /\ proc[p].at = "down"
  /\ \E c \in Configs :
       proc' = [proc EXCEPT ![p] = [at |-> "count", config |-> c, fresh |-> investigators = <<>>]]
  /\ UNCHANGED <<tables, seeded, now, logins, sessions, request, ingested, stops>>

\* Mutant: the administrator is created at every start.
Count_Always(p) ==
  /\ proc[p].at = "count"
  /\ Goto(p, "create")
  /\ UNCHANGED <<tables, seeded, now, logins, sessions, request, ingested, stops>>

Count(p) ==
  /\ proc[p].at = "count"
  /\ Goto(p, IF investigators = <<>> THEN "create" ELSE "source")
  /\ UNCHANGED <<tables, seeded, now, logins, sessions, request, ingested, stops>>

InsertInvestigator(username, password, role) ==
  investigators' =
    Append(investigators, [username |-> username, password |-> password, role |-> role])

\* Mutant: the table has no UNIQUE constraint.
Create_NotUnique(p) ==
  /\ proc[p].at = "create"
  /\ InsertInvestigator(proc[p].config.admin_username, proc[p].config.admin_password, "admin")
  /\ seeded' = seeded \cup {Len(investigators) + 1}
  /\ Goto(p, "source")
  /\ UNCHANGED <<flagged, decided, now, logins, sessions, request, ingested, stops>>

\* The INSERT fails if another process has created a row with that username in
\* the meantime.
Create(p) ==
  /\ proc[p].at = "create"
  /\ IF HasUsername(proc[p].config.admin_username)
     THEN End(p) /\ UNCHANGED <<investigators, seeded>>
     ELSE /\ InsertInvestigator(proc[p].config.admin_username, proc[p].config.admin_password, "admin")
          /\ seeded' = seeded \cup {Len(investigators) + 1}
          /\ Goto(p, "source")
  /\ UNCHANGED <<flagged, decided, now, logins, sessions, request, ingested, stops>>

\* Without a Horizon URL the demo accounts are flagged, again if need be.
ChooseSource(p) ==
  /\ proc[p].at = "source"
  /\ flagged' = (flagged \/ proc[p].config.demo_mode)
  /\ Goto(p, "bind")
  /\ UNCHANGED <<investigators, seeded, decided, now, logins, sessions, request, ingested, stops>>

Bind(p) ==
  /\ proc[p].at = "bind"
  /\ IF \E q \in Processes : Serving(q) /\ proc[q].config.bind_addr = proc[p].config.bind_addr
     THEN End(p)
     ELSE Goto(p, "serve")
  /\ UNCHANGED <<tables, seeded, now, logins, sessions, request, ingested, stops>>

\* A process is killed, or one of the statements above fails; what it was
\* doing for its clients is gone.
Stop(p) ==
  /\ proc[p].at # "down"
  /\ stops < MaxStops
  /\ stops' = stops + 1
  /\ End(p)
  /\ request' = [c \in Clients |->
       IF request[c] # NoRequest /\ request[c].server = p THEN NoRequest ELSE request[c]]
  /\ UNCHANGED <<tables, seeded, now, logins, sessions, ingested>>

Tick ==
  /\ now < MaxTime
  /\ now' = now + 1
  /\ UNCHANGED <<tables, seeded, proc, logins, sessions, request, ingested, stops>>

\* The operator adds an investigator with InvestigatorRepository::create.
AddInvestigator(s) ==
  /\ \E p \in Processes : Serving(p)
  /\ ~HasUsername(s.username)
  /\ Len(investigators) < MaxInvestigators
  /\ InsertInvestigator(s.username, s.password, s.role)
  /\ UNCHANGED <<flagged, decided, seeded, proc, now, logins, sessions, request, ingested, stops>>

-----------------------------------------------------------------------------
(* Sessions *)

issue_token(p, i) ==
  [sub |-> i, username |-> investigators[i].username, role |-> investigators[i].role,
   exp |-> now + TTL, secret |-> proc[p].config.jwt_secret]

\* find_by_username and verify_password
Credentials(i, username, password) ==
  investigators[i].username = username /\ investigators[i].password = password

Login(p, i) == [id |-> i, secret |-> proc[p].config.jwt_secret, at |-> now]

login(c, username, password) ==
  /\ Cardinality(logins) < MaxLogins
  /\ \E p \in Processes, i \in DOMAIN investigators :
       /\ Serving(p)
       /\ Credentials(i, username, password)
       /\ header' = [header EXCEPT ![c] = issue_token(p, i)]
       /\ logins' = logins \cup {Login(p, i)}
  /\ UNCHANGED <<tables, seeded, proc, now, cookie, request, ingested, stops>>

login_form(c, username, password) ==
  /\ Cardinality(logins) < MaxLogins
  /\ \E p \in Processes, i \in DOMAIN investigators :
       /\ Serving(p)
       /\ Credentials(i, username, password)
       /\ cookie' = [cookie EXCEPT ![c] = issue_token(p, i)]
       /\ logins' = logins \cup {Login(p, i)}
  /\ UNCHANGED <<tables, seeded, proc, now, header, request, ingested, stops>>

\* The browser forgets the token, which remains valid.
logout(c) ==
  /\ \E p \in Processes : Serving(p)
  /\ cookie[c] # NoToken
  /\ cookie' = [cookie EXCEPT ![c] = NoToken]
  /\ UNCHANGED <<tables, seeded, proc, now, logins, header, request, ingested, stops>>

-----------------------------------------------------------------------------
(* Requests that change something *)

\* A bearer token, even one that is no longer valid, goes before the cookie.
token_from_parts(c, bearer) == IF bearer /\ header[c] # NoToken THEN header[c] ELSE cookie[c]

\* Mutant: the token's signature is not checked.
decode_token_NoSecret(p, token) == token # NoToken /\ now <= token.exp + Leeway

\* Mutant: the token's expiry is not checked.
decode_token_NoExp(p, token) == token # NoToken /\ token.secret = proc[p].config.jwt_secret

decode_token(p, token) ==
  /\ token # NoToken
  /\ token.secret = proc[p].config.jwt_secret
  /\ now <= token.exp + Leeway

\* Mutant: whoever may decide may ingest.
Allowed_SameForAll(kind, role) == can_decide(role)

\* require_decision_role and require_admin
Allowed(kind, role) == IF kind = "decision" THEN can_decide(role) ELSE can_administer(role)

\* AuthUser, the role and, for a decision, the body have been checked.
Admit(c, kind, bearer) ==
  /\ request[c] = NoRequest
  /\ \E p \in Processes :
       LET token == token_from_parts(c, bearer) IN
       /\ Serving(p)
       /\ decode_token(p, token)
       /\ Allowed(kind, token.role)
       /\ request' = [request EXCEPT ![c] =
            [kind |-> kind, id |-> token.sub, username |-> token.username,
             server |-> p, admitted |-> now]]
  /\ UNCHANGED <<tables, seeded, proc, now, logins, sessions, ingested, stops>>

\* AlertService::submit_decision, or process_transaction, and the answer.
Perform(c) ==
  /\ request[c] # NoRequest
  /\ request' = [request EXCEPT ![c] = NoRequest]
  /\ IF request[c].kind = "decision"
     THEN decided' = decided \cup {request[c].id} /\ UNCHANGED ingested
     ELSE ingested' = ingested \cup {request[c].id} /\ UNCHANGED decided
  /\ UNCHANGED <<investigators, flagged, seeded, proc, now, logins, sessions, stops>>

-----------------------------------------------------------------------------

Usernames == {c.admin_username : c \in Configs} \cup {s.username : s \in Staff}
Passwords == {c.admin_password : c \in Configs} \cup {s.password : s \in Staff}

Boot(p) == Start(p) \/ Count(p) \/ Create(p) \/ ChooseSource(p) \/ Bind(p)

Next ==
  \/ \E p \in Processes : Boot(p) \/ Stop(p)
  \/ Tick
  \/ \E s \in Staff : AddInvestigator(s)
  \/ \E c \in Clients, u \in Usernames, w \in Passwords : login(c, u, w) \/ login_form(c, u, w)
  \/ \E c \in Clients : logout(c) \/ Perform(c)
  \/ \E c \in Clients, kind \in {"decision", "ingest"}, bearer \in BOOLEAN : Admit(c, kind, bearer)

\* A supervisor starts a server that has ended again, and a process that can go
\* on does.
Spec == Init /\ [][Next]_vars /\ \A p \in Processes : WF_vars(Boot(p))

-----------------------------------------------------------------------------

Tokens ==
  {NoToken} \cup
  [sub : Ids, username : Usernames, role : Roles, exp : 0..(MaxTime + TTL),
   secret : {c.jwt_secret : c \in Configs}]

TypeOK ==
  /\ investigators \in Seq([username : Usernames, password : Passwords, role : Roles])
  /\ seeded \subseteq Ids /\ decided \subseteq Ids /\ ingested \subseteq Ids
  /\ flagged \in BOOLEAN
  /\ proc \in [Processes -> {Down} \cup [at : Places, config : Configs, fresh : BOOLEAN]]
  /\ now \in 0..MaxTime /\ stops \in 0..MaxStops
  /\ \A c \in Clients : {header[c], cookie[c]} \subseteq Tokens

\* However often the server is started, killed half-way, started twice at a time
\* or given other settings, the first row of the table is an administrator that
\* bootstrap created, no username has two rows, and a server that serves has the
\* administrator and, in demo mode, the demo account flagged, also if an earlier
\* start was interrupted in between.  It need not be the only administrator: two
\* processes that find the table empty under different usernames both create one.
BootstrapIsComplete ==
  /\ investigators # <<>> => 1 \in seeded
  /\ \A i \in seeded : i \in DOMAIN investigators /\ can_administer(investigators[i].role)
  /\ \A i, j \in DOMAIN investigators : investigators[i].username = investigators[j].username => i = j
  /\ \A p \in Processes : Serving(p) => 1 \in seeded /\ (proc[p].config.demo_mode => flagged)

\* bootstrap creates an administrator only in a process that was started when the
\* table was empty: once there is a row, no later start adds one, whatever
\* ADMIN_USERNAME it is given.
OnlyFirstStartsSeed ==
  [][\A p \in Processes : seeded' # seeded /\ proc'[p] # proc[p] => proc[p].fresh]_vars

\* A login of the request's id under the secret of the process that serves it, at
\* most `age' before the request was admitted.
Backed(q, age) ==
  \E l \in logins :
    l.id = q.id /\ l.secret = proc[q.server].config.jwt_secret /\ q.admitted <= l.at + age

\* What a server is working on is the work of someone who has logged in, at that
\* server or at one with the same secret, and no longer ago than a token lives and
\* the leeway of Validation::default(); restarts, other secrets, other servers on
\* the same table, logouts and a stale header in front of a good cookie included.
WorkIsBackedByLogin ==
  \A c \in Clients : request[c] # NoRequest =>
    Serving(request[c].server) /\ Backed(request[c], TTL + Leeway)

\* Every decision is attributed to a row of the table that may decide, and only
\* administrators' rows have ingested, although the role is read from the token.
Attributable ==
  /\ \A i \in decided : i \in DOMAIN investigators /\ can_decide(investigators[i].role)
  /\ \A i \in ingested : i \in DOMAIN investigators /\ can_administer(investigators[i].role)
  /\ \A c \in Clients : request[c] # NoRequest =>
       investigators[request[c].id].username = request[c].username

\* However starts and failures fall together, in the end a server is serving.
ServerComesUp == []<>(\E p \in Processes : Serving(p))
=============================================================================
