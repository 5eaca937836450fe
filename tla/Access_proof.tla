---------------------------- MODULE Access_proof ----------------------------
(***************************************************************************)
(* Proofs about Access, for any processes, clients, environments and       *)
(* staff, and any bounds.                                                  *)
(***************************************************************************)
EXTENDS Access, SequenceTheorems, TLAPS

Investigator == [username : Usernames, password : Passwords, role : Roles]
Secrets == {c.jwt_secret : c \in Configs}
Token == [sub : Ids, username : Usernames, role : Roles, exp : 0..(MaxTime + TTL), secret : Secrets]
Request == [kind : {"decision", "ingest"}, id : Ids, username : Usernames, server : Processes,
            admitted : 0..MaxTime]
Up == [at : Places, config : Configs, fresh : BOOLEAN]

\* TypeOK, and the functions on the clients.
ClientTypes ==
  /\ header \in [Clients -> Tokens] /\ cookie \in [Clients -> Tokens]
  /\ request \in [Clients -> {NoRequest} \cup Request]
  /\ logins \subseteq [id : Ids, secret : Secrets, at : Nat]

\* A process that has found the table empty was started on an empty one, although
\* others may have filled it since; past the creation the table is not empty.
BootInv ==
  \A p \in Processes :
    /\ proc[p].at = "count" /\ investigators = <<>> => proc[p].fresh
    /\ proc[p].at = "create" => proc[p].fresh
    /\ proc[p].at \in {"source", "bind", "serve"} => investigators # <<>>
    /\ proc[p].at \in {"bind", "serve"} => (proc[p].config.demo_mode => flagged)

\* The part of BootstrapIsComplete that is about the table alone.
TableInv ==
  /\ investigators # <<>> => 1 \in seeded
  /\ \A i \in seeded : i \in DOMAIN investigators /\ can_administer(investigators[i].role)
  /\ \A i, j \in DOMAIN investigators : investigators[i].username = investigators[j].username => i = j

\* A token that was issued describes a row of the table and goes back to a login,
\* and so it stays, for rows and logins are only added.
Describes(token) ==
  /\ token.sub \in DOMAIN investigators
  /\ investigators[token.sub].username = token.username
  /\ investigators[token.sub].role = token.role
  /\ \E l \in logins : l.id = token.sub /\ l.secret = token.secret /\ token.exp = l.at + TTL

TokenInv ==
  \A c \in Clients :
    (header[c] # NoToken => Describes(header[c])) /\ (cookie[c] # NoToken => Describes(cookie[c]))

\* A request that was admitted is one of a row that may make it.
RequestInv ==
  \A c \in Clients : request[c] # NoRequest =>
    /\ request[c].id \in DOMAIN investigators
    /\ Allowed(request[c].kind, investigators[request[c].id].role)

IInv ==
  /\ TypeOK /\ ClientTypes
  /\ BootInv /\ TokenInv /\ RequestInv
  /\ BootstrapIsComplete /\ WorkIsBackedByLogin /\ Attributable

-----------------------------------------------------------------------------

\* What Append does to the table.
LEMMA AppendRow ==
  ASSUME TypeOK, NEW row \in Investigator
  PROVE  /\ Append(investigators, row) \in Seq(Investigator)
         /\ Len(investigators) \in Nat /\ DOMAIN investigators = 1..Len(investigators)
         /\ DOMAIN Append(investigators, row) = 1..(Len(investigators) + 1)
         /\ Len(Append(investigators, row)) = Len(investigators) + 1
         /\ Append(investigators, row)[Len(investigators) + 1] = row
         /\ \A i \in DOMAIN investigators : Append(investigators, row)[i] = investigators[i]
<1>1. investigators \in Seq(Investigator)
  BY DEF TypeOK, Investigator
<1> QED BY <1>1

\* Bootstrap and operator add rows that are well-formed.
LEMMA NewRows ==
  /\ \A c \in Configs :
       [username |-> c.admin_username, password |-> c.admin_password, role |-> "admin"] \in Investigator
  /\ \A s \in Staff :
       [username |-> s.username, password |-> s.password, role |-> s.role] \in Investigator
  BY StaffAssumption DEF Investigator, Usernames, Passwords, Roles

\* A process that is up has a configuration.
LEMMA UpProcess ==
  ASSUME TypeOK, NEW p \in Processes, proc[p].at # "down"
  PROVE  proc[p] \in Up
<1>1. proc[p] = Down \/ proc[p] \in Up
  BY DEF TypeOK, Up
<1> QED BY <1>1 DEF Down

\* How the table changes: a row with a new username is added, by bootstrap for an
\* administrator or by the operator, who needs a server.
LEMMA TableChange ==
  ASSUME IInv, [Next]_vars
  PROVE  \/ UNCHANGED <<investigators, seeded>>
         \/ \E row \in Investigator :
              /\ investigators' = Append(investigators, row) /\ ~HasUsername(row.username)
              /\ \/ seeded' = seeded \cup {Len(investigators) + 1} /\ row.role = "admin"
                 \/ seeded' = seeded /\ investigators # <<>>
<1>t. TypeOK
  BY DEF IInv
<1>1. ASSUME NEW p \in Processes, Create(p), ~HasUsername(proc[p].config.admin_username)
      PROVE  \E row \in Investigator :
               /\ investigators' = Append(investigators, row) /\ ~HasUsername(row.username)
               /\ seeded' = seeded \cup {Len(investigators) + 1} /\ row.role = "admin"
  <2>1. proc[p].config \in Configs
    BY <1>1, <1>t, UpProcess DEF Create, Up
  <2> DEFINE row == [username |-> proc[p].config.admin_username,
                     password |-> proc[p].config.admin_password, role |-> "admin"]
  <2>2. row \in Investigator /\ row.username = proc[p].config.admin_username /\ row.role = "admin"
    BY <2>1, NewRows
  <2>3. investigators' = Append(investigators, row) /\ seeded' = seeded \cup {Len(investigators) + 1}
    BY <1>1 DEF Create, InsertInvestigator
  <2> HIDE DEF row
  <2> QED BY <1>1, <2>2, <2>3
<1>2. ASSUME NEW s \in Staff, AddInvestigator(s)
      PROVE  \E row \in Investigator :
               /\ investigators' = Append(investigators, row) /\ ~HasUsername(row.username)
               /\ seeded' = seeded /\ investigators # <<>>
  <2>1. investigators # <<>>
    BY <1>2 DEF AddInvestigator, Serving, IInv, BootInv
  <2> DEFINE row == [username |-> s.username, password |-> s.password, role |-> s.role]
  <2>2. row \in Investigator /\ row.username = s.username
    BY NewRows
  <2>3. investigators' = Append(investigators, row) /\ seeded' = seeded /\ ~HasUsername(s.username)
    BY <1>2 DEF AddInvestigator, InsertInvestigator
  <2> HIDE DEF row
  <2> QED BY <2>1, <2>2, <2>3
<1>3. ASSUME NEW p \in Processes, Create(p), HasUsername(proc[p].config.admin_username)
      PROVE  UNCHANGED <<investigators, seeded>>
  BY <1>3 DEF Create
<1>4. \/ UNCHANGED <<investigators, seeded>>
      \/ \E p \in Processes : Create(p)
      \/ \E s \in Staff : AddInvestigator(s)
  BY DEF Next, Boot, vars, tables, Start, Count, ChooseSource, Bind, Stop, Tick, login,
         login_form, logout, Admit, Perform
<1> QED BY <1>1, <1>2, <1>3, <1>4

\* Rows stay, and the table is as bootstrap promises.
LEMMA TableStep ==
  ASSUME IInv, [Next]_vars
  PROVE  /\ investigators' \in Seq(Investigator)
         /\ \A i \in DOMAIN investigators :
              i \in DOMAIN investigators' /\ investigators'[i] = investigators[i]
         /\ investigators # <<>> => investigators' # <<>>
         /\ seeded' \subseteq Ids
         /\ TableInv'
<1>t. TypeOK
  BY DEF IInv
<1>0. investigators \in Seq(Investigator) /\ seeded \subseteq Ids
  BY <1>t DEF TypeOK, Investigator
<1>i. TableInv
  BY DEF IInv, BootstrapIsComplete, TableInv
<1>1. CASE UNCHANGED <<investigators, seeded>>
  BY <1>0, <1>1, <1>i DEF TableInv
<1>2. ASSUME NEW row \in Investigator, investigators' = Append(investigators, row),
             ~HasUsername(row.username),
             \/ seeded' = seeded \cup {Len(investigators) + 1} /\ row.role = "admin"
             \/ seeded' = seeded /\ investigators # <<>>
      PROVE  /\ investigators' \in Seq(Investigator)
             /\ \A i \in DOMAIN investigators :
                  i \in DOMAIN investigators' /\ investigators'[i] = investigators[i]
             /\ investigators' # <<>>
             /\ seeded' \subseteq Ids
             /\ TableInv'
  <2> DEFINE n == Len(investigators)
  <2>1. /\ investigators' \in Seq(Investigator)
        /\ n \in Nat /\ DOMAIN investigators = 1..n
        /\ DOMAIN investigators' = 1..(n + 1)
        /\ Len(investigators') = n + 1 /\ investigators'[n + 1] = row
        /\ \A i \in DOMAIN investigators : investigators'[i] = investigators[i]
    BY <1>t, <1>2, AppendRow
  <2>2. investigators = <<>> <=> n = 0
    BY <1>0
  <2> HIDE DEF n
  <2>3. seeded' \subseteq Ids
    <3>1. n + 1 \in Ids
      BY <2>1 DEF Ids
    <3> QED BY <1>0, <1>2, <3>1 DEF n
  <2>4. investigators' # <<>>
    BY <2>1
  <2>5. 1 \in seeded'
    <3>1. CASE investigators # <<>>
      BY <1>2, <1>i, <3>1 DEF TableInv
    <3>2. CASE investigators = <<>>
      BY <1>2, <2>1, <2>2, <3>2 DEF n
    <3> QED BY <3>1, <3>2
  <2>6. ASSUME NEW i \in seeded'
        PROVE  i \in DOMAIN investigators' /\ can_administer(investigators'[i].role)
    <3>1. CASE i \in seeded
      <4>1. i \in DOMAIN investigators /\ can_administer(investigators[i].role)
        BY <3>1, <1>i DEF TableInv
      <4> QED BY <4>1, <2>1
    <3>2. CASE i \notin seeded
      <4>1. i = n + 1 /\ row.role = "admin"
        BY <1>2, <2>6, <3>2 DEF n
      <4> QED BY <4>1, <2>1 DEF can_administer
    <3> QED BY <3>1, <3>2
  <2>7. ASSUME NEW i \in DOMAIN investigators',  NEW j \in DOMAIN investigators',
               investigators'[i].username = investigators'[j].username
        PROVE  i = j
    <3>1. \A k \in DOMAIN investigators : investigators[k].username # row.username
      BY <1>2 DEF HasUsername
    <3>2. CASE i \in DOMAIN investigators /\ j \in DOMAIN investigators
      BY <1>i, <2>1, <2>7, <3>2 DEF TableInv
    <3>3. CASE i \in DOMAIN investigators /\ j \notin DOMAIN investigators
      <4>1. j = n + 1
        BY <2>1, <3>3
      <4> QED BY <2>1, <2>7, <3>1, <3>3, <4>1
    <3>4. CASE i \notin DOMAIN investigators /\ j \in DOMAIN investigators
      <4>1. i = n + 1
        BY <2>1, <3>4
      <4> QED BY <2>1, <2>7, <3>1, <3>4, <4>1
    <3>5. CASE i \notin DOMAIN investigators /\ j \notin DOMAIN investigators
      BY <2>1, <3>5
    <3> QED BY <3>2, <3>3, <3>4, <3>5
  <2>8. TableInv'
    BY <2>5, <2>6, <2>7 DEF TableInv
  <2> QED BY <2>1, <2>3, <2>4, <2>8
<1> QED BY <1>1, <1>2, TableChange

-----------------------------------------------------------------------------
(* What logins and admissions yield. *)

LEMMA TokenTypes ==
  /\ Tokens = {NoToken} \cup Token
  /\ \A t \in Token : t # NoToken
  /\ \A q \in Request : q # NoRequest
<1>1. Tokens = {NoToken} \cup Token
  BY DEF Tokens, Token, Secrets
<1>2. ASSUME NEW t \in Token PROVE t # NoToken
  <2>1. t.sub \in Ids
    BY DEF Token
  <2> QED BY <2>1, RowsAssumption DEF NoToken, Ids
<1>3. ASSUME NEW q \in Request PROVE q # NoRequest
  <2>1. q.kind # "none"
    BY DEF Request
  <2> QED BY <2>1 DEF NoRequest
<1> QED BY <1>1, <1>2, <1>3

\* A token is issued for a row, describes it and is backed by the login.
LEMMA IssuedToken ==
  ASSUME IInv, NEW p \in Processes, NEW i \in DOMAIN investigators, Serving(p)
  PROVE  /\ issue_token(p, i) \in Token
         /\ Login(p, i) \in [id : Ids, secret : Secrets, at : Nat]
         /\ \A t : /\ t = issue_token(p, i)
                  /\ UNCHANGED investigators /\ Login(p, i) \in logins'
                  => Describes(t)'
<1>1. investigators \in Seq(Investigator) /\ now \in 0..MaxTime
  BY DEF IInv, TypeOK, Investigator
<1>2. investigators[i] \in Investigator /\ i \in Ids
  BY <1>1 DEF Ids
<1>3. investigators[i].username \in Usernames /\ investigators[i].role \in Roles
  BY <1>2 DEF Investigator
<1>4. proc[p].config.jwt_secret \in Secrets
  BY UpProcess DEF IInv, Serving, Up, Secrets
<1>5. now + TTL \in 0..(MaxTime + TTL) /\ now \in Nat
  BY <1>1, TimeAssumption
<1>6. issue_token(p, i) \in Token
  BY <1>2, <1>3, <1>4, <1>5 DEF issue_token, Token
<1>7. Login(p, i) \in [id : Ids, secret : Secrets, at : Nat]
  BY <1>2, <1>4, <1>5 DEF Login
<1>8. ASSUME NEW t, t = issue_token(p, i), UNCHANGED investigators, Login(p, i) \in logins'
      PROVE  Describes(t)'
  <2>1. /\ t.sub = i /\ t.username = investigators[i].username /\ t.role = investigators[i].role
        /\ t.exp = now + TTL /\ t.secret = proc[p].config.jwt_secret
    BY <1>8 DEF issue_token
  <2>2. PICK l \in logins' : l = Login(p, i)
    BY <1>8
  <2>3. l.id = t.sub /\ l.secret = t.secret /\ t.exp = l.at + TTL
    BY <2>1, <2>2 DEF Login
  <2> QED BY <1>8, <2>1, <2>3 DEF Describes
<1> QED BY <1>6, <1>7, <1>8

\* A request that is admitted carries what its token says.
LEMMA AdmittedRequest ==
  ASSUME IInv, NEW c \in Clients, NEW kind \in {"decision", "ingest"}, NEW bearer \in BOOLEAN,
         Admit(c, kind, bearer)
  PROVE  \E q \in Request :
           /\ request' = [request EXCEPT ![c] = q]
           /\ Serving(q.server) /\ Backed(q, TTL + Leeway)
           /\ q.kind = kind /\ q.id \in DOMAIN investigators
           /\ investigators[q.id].username = q.username
           /\ Allowed(kind, investigators[q.id].role)
<1> DEFINE token == token_from_parts(c, bearer)
<1>1. PICK p \in Processes :
        /\ Serving(p) /\ decode_token(p, token) /\ Allowed(kind, token.role)
        /\ request' = [request EXCEPT ![c] =
             [kind |-> kind, id |-> token.sub, username |-> token.username, server |-> p,
              admitted |-> now]]
  BY DEF Admit
<1> DEFINE q == [kind |-> kind, id |-> token.sub, username |-> token.username, server |-> p,
                 admitted |-> now]
<1>2. token \in Tokens /\ token # NoToken /\ Describes(token)
  <2>1. token = header[c] \/ token = cookie[c]
    BY DEF token_from_parts
  <2>2. header[c] \in Tokens /\ cookie[c] \in Tokens
    BY DEF IInv, ClientTypes
  <2>3. token # NoToken
    BY <1>1 DEF decode_token
  <2> QED BY <2>1, <2>2, <2>3 DEF IInv, TokenInv
<1>3. token.secret = proc[p].config.jwt_secret /\ now <= token.exp + Leeway
  BY <1>1 DEF decode_token
<1> HIDE DEF token
<1>4. token \in Token
  BY <1>2, TokenTypes
<1>5. now \in 0..MaxTime
  BY DEF IInv, TypeOK
<1>6. q \in Request
  BY <1>4, <1>5 DEF Token, Request
<1>7. PICK l \in logins : l.id = token.sub /\ l.secret = token.secret /\ token.exp = l.at + TTL
  BY <1>2 DEF Describes
<1>8. now <= l.at + (TTL + Leeway)
  <2>1. l.at \in Nat
    BY DEF IInv, ClientTypes
  <2> QED BY <1>3, <1>5, <1>7, <2>1, TimeAssumption
<1>9. Backed(q, TTL + Leeway)
  BY <1>3, <1>7, <1>8 DEF Backed
<1> QED BY <1>1, <1>2, <1>6, <1>9 DEF Describes

-----------------------------------------------------------------------------

LEMMA InitInv == Init => IInv
<1> SUFFICES ASSUME Init PROVE IInv
  OBVIOUS
<1>1. investigators = <<>> /\ DOMAIN investigators = {} /\ Len(investigators) = 0
  BY DEF Init
<1>2. TypeOK
  <2>1. investigators \in Seq([username : Usernames, password : Passwords, role : Roles])
    BY <1>1
  <2>2. proc \in [Processes -> {Down} \cup [at : Places, config : Configs, fresh : BOOLEAN]]
    BY DEF Init
  <2>3. \A c \in Clients : {header[c], cookie[c]} \subseteq Tokens
    BY DEF Init, Tokens
  <2>4. flagged \in BOOLEAN
    BY DEF Init
  <2> QED BY <2>1, <2>2, <2>3, <2>4, TimeAssumption, BoundsAssumption DEF Init, TypeOK
<1>3. ClientTypes
  BY DEF Init, ClientTypes, Tokens
<1>4. BootInv
  BY DEF Init, BootInv, Down
<1>5. BootstrapIsComplete
  BY <1>1 DEF Init, BootstrapIsComplete, Serving, Down
<1>6. TokenInv /\ RequestInv /\ WorkIsBackedByLogin /\ Attributable
  BY DEF Init, TokenInv, RequestInv, WorkIsBackedByLogin, Attributable
<1> QED BY <1>2, <1>3, <1>4, <1>5, <1>6 DEF IInv

LEMMA TypeStep == IInv /\ [Next]_vars => TypeOK' /\ ClientTypes'
<1> SUFFICES ASSUME IInv, [Next]_vars PROVE TypeOK' /\ ClientTypes'
  OBVIOUS
<1>1. TypeOK /\ ClientTypes
  BY DEF IInv
<1>2. /\ investigators' \in Seq([username : Usernames, password : Passwords, role : Roles])
      /\ seeded' \subseteq Ids
  BY TableStep DEF Investigator
<1>3. logins' \subseteq [id : Ids, secret : Secrets, at : Nat]
  <2>1. ASSUME NEW c \in Clients, NEW u, NEW w, login(c, u, w) \/ login_form(c, u, w)
        PROVE  \E p \in Processes, i \in DOMAIN investigators :
                 Serving(p) /\ logins' = logins \cup {Login(p, i)}
    BY <2>1 DEF login, login_form
  <2>2. UNCHANGED logins \/ \E c \in Clients, u \in Usernames, w \in Passwords :
                              login(c, u, w) \/ login_form(c, u, w)
    BY DEF Next, vars, Boot, Start, Count, Create, ChooseSource, Bind, Stop, Tick, AddInvestigator,
           logout, Admit, Perform
  <2> QED BY <1>1, <2>1, <2>2, IssuedToken DEF ClientTypes
<1>4. flagged' \in BOOLEAN
  <2>1. flagged' = flagged \/ \E p \in Processes : flagged' = (flagged \/ proc[p].config.demo_mode)
    BY DEF Next, vars, tables, Boot, Start, Count, Create, ChooseSource, Bind,
           Stop, Tick, AddInvestigator, login, login_form, logout, Admit, Perform
  <2>2. flagged \in BOOLEAN
    BY <1>1 DEF TypeOK
  <2> QED BY <2>1, <2>2
<1>5. proc' \in [Processes -> {Down} \cup [at : Places, config : Configs, fresh : BOOLEAN]]
  <2> DEFINE Procs == [Processes -> {Down} \cup Up]
  <2>0. proc \in Procs
    BY <1>1 DEF TypeOK, Up
  <2>1. ASSUME proc' = proc PROVE proc' \in Procs
    <3> HIDE DEF Procs
    <3> QED BY <2>0, <2>1
  <2>2. ASSUME NEW p \in Processes, NEW l \in Places, proc[p].at # "down", Goto(p, l) PROVE proc' \in Procs
    <3>1. proc[p] \in Up
      BY <1>1, <2>2, UpProcess
    <3>2. [proc[p] EXCEPT !.at = l] \in Up
      BY <3>1 DEF Up
    <3>3. proc' = [proc EXCEPT ![p] = [proc[p] EXCEPT !.at = l]]
      BY <2>2 DEF Goto
    <3> QED BY <2>0, <3>2, <3>3
  <2>3. ASSUME NEW p \in Processes, Start(p) PROVE proc' \in Procs
    <3>1. PICK c \in Configs :
            proc' = [proc EXCEPT ![p] = [at |-> "count", config |-> c, fresh |-> investigators = <<>>]]
      BY <2>3 DEF Start
    <3>2. (investigators = <<>>) \in BOOLEAN
      OBVIOUS
    <3>3. [at |-> "count", config |-> c, fresh |-> investigators = <<>>] \in Up
      BY <3>2 DEF Up, Places
    <3> QED BY <2>0, <3>1, <3>3
  <2>4. ASSUME NEW p \in Processes, End(p) PROVE proc' \in Procs
    BY <2>0, <2>4 DEF End
  <2>5. ASSUME NEW p \in Processes, Count(p) \/ Create(p) \/ ChooseSource(p) \/ Bind(p) \/ Stop(p)
        PROVE  End(p) \/ (proc[p].at # "down" /\ \E l \in {"create", "source", "bind", "serve"} : Goto(p, l))
    BY <2>5 DEF Count, Create, ChooseSource, Bind, Stop
  <2>6. {"create", "source", "bind", "serve"} \subseteq Places
    BY DEF Places
  <2>7. proc' \in Procs
    <3> HIDE DEF Procs
    <3>1. ASSUME NEW p \in Processes, Boot(p) \/ Stop(p) PROVE proc' \in Procs
      BY <2>2, <2>3, <2>4, <2>5, <2>6, <3>1 DEF Boot
    <3>2. proc' = proc \/ \E p \in Processes : Boot(p) \/ Stop(p)
      BY DEF Next, vars, Tick, AddInvestigator, login, login_form, logout, Admit, Perform
    <3> QED BY <2>1, <3>1, <3>2
  <2> QED BY <2>7 DEF Up
<1>6. now' \in 0..MaxTime /\ stops' \in 0..MaxStops
  <2>1. now' = now \/ (now < MaxTime /\ now' = now + 1)
    BY DEF Next, vars, Boot, Start, Count, Create, ChooseSource, Bind,
           Stop, Tick, AddInvestigator, login, login_form, logout, Admit, Perform
  <2>2. stops' = stops \/ (stops < MaxStops /\ stops' = stops + 1)
    BY DEF Next, vars, Boot, Start, Count, Create, ChooseSource, Bind,
           Stop, Tick, AddInvestigator, login, login_form, logout, Admit, Perform
  <2> QED BY <1>1, <2>1, <2>2, TimeAssumption, BoundsAssumption DEF TypeOK
<1>7. header' \in [Clients -> Tokens] /\ cookie' \in [Clients -> Tokens]
  <2>1. CASE UNCHANGED sessions
    BY <1>1, <2>1 DEF ClientTypes, sessions
  <2>2. ASSUME NEW c \in Clients, NEW u, NEW w, login(c, u, w) \/ login_form(c, u, w)
        PROVE  header' \in [Clients -> Tokens] /\ cookie' \in [Clients -> Tokens]
    <3>1. PICK t \in Tokens : \/ header' = [header EXCEPT ![c] = t] /\ UNCHANGED cookie
                              \/ cookie' = [cookie EXCEPT ![c] = t] /\ UNCHANGED header
      BY <2>2, IssuedToken, TokenTypes DEF login, login_form
    <3> QED BY <1>1, <3>1 DEF ClientTypes
  <2>3. ASSUME NEW c \in Clients, logout(c)
        PROVE  header' \in [Clients -> Tokens] /\ cookie' \in [Clients -> Tokens]
    BY <1>1, <2>3, TokenTypes DEF logout, ClientTypes
  <2> QED
    BY <2>1, <2>2, <2>3 DEF Next, vars, Boot, Start, Count, Create, ChooseSource, Bind,
         Stop, Tick, AddInvestigator, Admit, Perform
<1>8. /\ request' \in [Clients -> {NoRequest} \cup Request]
      /\ decided' \subseteq Ids /\ ingested' \subseteq Ids
  <2>1. CASE UNCHANGED <<request, decided, ingested>>
    BY <1>1, <2>1 DEF ClientTypes, TypeOK
  <2>2. ASSUME NEW c \in Clients, NEW kind \in {"decision", "ingest"}, NEW bearer \in BOOLEAN,
               Admit(c, kind, bearer)
        PROVE  request' \in [Clients -> {NoRequest} \cup Request] /\ UNCHANGED <<decided, ingested>>
    <3>1. PICK q \in Request : request' = [request EXCEPT ![c] = q]
      BY <2>2, AdmittedRequest
    <3> QED BY <1>1, <2>2, <3>1 DEF ClientTypes, Admit, tables
  <2>3. ASSUME NEW c \in Clients, Perform(c)
        PROVE  /\ request' \in [Clients -> {NoRequest} \cup Request]
               /\ decided' \subseteq Ids /\ ingested' \subseteq Ids
    <3>1. request[c].id \in Ids
      BY <1>1, <2>3 DEF ClientTypes, Perform, Request
    <3> QED BY <1>1, <2>3, <3>1 DEF ClientTypes, TypeOK, Perform
  <2>4. ASSUME NEW p \in Processes, Stop(p)
        PROVE  request' \in [Clients -> {NoRequest} \cup Request] /\ UNCHANGED <<decided, ingested>>
    BY <1>1, <2>4 DEF ClientTypes, Stop, tables
  <2>5. decided \subseteq Ids /\ ingested \subseteq Ids
    BY <1>1 DEF TypeOK
  <2> QED
    BY <2>1, <2>2, <2>3, <2>4, <2>5 DEF Next, vars, tables, Boot, Start, Count, Create,
         ChooseSource, Bind, Tick, AddInvestigator, login, login_form, logout
<1> QED BY <1>2, <1>3, <1>4, <1>5, <1>6, <1>7, <1>8 DEF TypeOK, ClientTypes

\* Where a process can have come from, and what the step did to the rest.
LEMMA ProcessStep ==
  ASSUME IInv, [Next]_vars
  PROVE  \/ proc' = proc /\ (flagged => flagged')
         \/ \E p \in Processes :
              /\ flagged => flagged'
              /\ \A q \in Processes : q # p => proc'[q] = proc[q]
              /\ \/ proc'[p].at = "down"
                 \/ /\ proc'[p].at = "count" /\ UNCHANGED investigators
                    /\ investigators = <<>> => proc'[p].fresh
                 \/ /\ proc'[p].config = proc[p].config /\ proc'[p].fresh = proc[p].fresh
                    /\ \/ /\ proc'[p].at = "create" /\ proc[p].at = "count" /\ investigators = <<>>
                       \/ proc'[p].at = "source" /\ investigators' # <<>>
                       \/ /\ proc'[p].at = "bind" /\ proc[p].at = "source"
                          /\ proc[p].config.demo_mode => flagged'
                       \/ proc'[p].at = "serve" /\ proc[p].at = "bind"
<1>0. TypeOK
  BY DEF IInv
<1>t. proc \in [Processes -> {Down} \cup Up]
  BY <1>0 DEF TypeOK, Up
<1> DEFINE Moved(p) ==
      /\ flagged => flagged'
      /\ \A q \in Processes : q # p => proc'[q] = proc[q]
      /\ \/ proc'[p].at = "down"
         \/ /\ proc'[p].at = "count" /\ UNCHANGED investigators
            /\ investigators = <<>> => proc'[p].fresh
         \/ /\ proc'[p].config = proc[p].config /\ proc'[p].fresh = proc[p].fresh
            /\ \/ /\ proc'[p].at = "create" /\ proc[p].at = "count" /\ investigators = <<>>
               \/ proc'[p].at = "source" /\ investigators' # <<>>
               \/ /\ proc'[p].at = "bind" /\ proc[p].at = "source"
                  /\ proc[p].config.demo_mode => flagged'
               \/ proc'[p].at = "serve" /\ proc[p].at = "bind"
<1>g. ASSUME NEW p \in Processes, NEW l, Goto(p, l), proc[p].at # "down"
      PROVE  /\ \A q \in Processes : q # p => proc'[q] = proc[q]
             /\ proc'[p].at = l /\ proc'[p].config = proc[p].config /\ proc'[p].fresh = proc[p].fresh
  <2>1. proc[p] \in Up
    BY <1>0, <1>g, UpProcess
  <2>2. proc' = [proc EXCEPT ![p] = [proc[p] EXCEPT !.at = l]]
    BY <1>g DEF Goto
  <2>3. proc'[p] = [proc[p] EXCEPT !.at = l] /\ \A q \in Processes : q # p => proc'[q] = proc[q]
    BY <1>t, <2>2
  <2> QED BY <2>1, <2>3 DEF Up
<1>e. ASSUME NEW p \in Processes, End(p)
      PROVE  proc'[p].at = "down" /\ \A q \in Processes : q # p => proc'[q] = proc[q]
  BY <1>e, <1>t DEF End, Down
<1>1. ASSUME NEW p \in Processes, Start(p) PROVE Moved(p)
  <2>1. PICK c \in Configs :
          proc' = [proc EXCEPT ![p] = [at |-> "count", config |-> c, fresh |-> investigators = <<>>]]
    BY <1>1 DEF Start
  <2>2. UNCHANGED <<investigators, flagged>>
    BY <1>1 DEF Start, tables
  <2>3. proc'[p] = [at |-> "count", config |-> c, fresh |-> investigators = <<>>]
        /\ \A q \in Processes : q # p => proc'[q] = proc[q]
    BY <1>t, <2>1
  <2>4. proc'[p].at = "count" /\ (investigators = <<>> => proc'[p].fresh)
    <3>1. ASSUME investigators = <<>> PROVE proc'[p].fresh
      <4>1. proc'[p].fresh = (investigators = <<>>)
        BY <2>3
      <4> QED BY <3>1, <4>1
    <3> QED BY <2>3, <3>1
  <2> QED BY <2>2, <2>3, <2>4
<1>2. ASSUME NEW p \in Processes, Count(p) PROVE Moved(p)
  <2>1. UNCHANGED <<flagged, investigators>> /\ proc[p].at = "count"
    BY <1>2 DEF Count, tables
  <2>2. CASE investigators = <<>>
    <3>1. Goto(p, "create")
      BY <1>2, <2>2 DEF Count
    <3> QED BY <2>1, <2>2, <3>1, <1>g
  <2>3. CASE investigators # <<>>
    <3>1. Goto(p, "source")
      BY <1>2, <2>3 DEF Count
    <3> QED BY <2>1, <2>3, <3>1, <1>g
  <2> QED BY <2>2, <2>3
<1>3. ASSUME NEW p \in Processes, Create(p) PROVE Moved(p)
  <2>1. UNCHANGED flagged /\ proc[p].at = "create"
    BY <1>3 DEF Create
  <2>2. CASE HasUsername(proc[p].config.admin_username)
    <3>1. End(p)
      BY <1>3, <2>2 DEF Create
    <3> QED BY <2>1, <3>1, <1>e
  <2>3. CASE ~HasUsername(proc[p].config.admin_username)
    <3>1. Goto(p, "source") /\ proc[p].config \in Configs
      BY <1>0, <1>3, <2>1, <2>3, UpProcess DEF Create, Up
    <3> DEFINE row == [username |-> proc[p].config.admin_username,
                       password |-> proc[p].config.admin_password, role |-> "admin"]
    <3>2. row \in Investigator
      BY <3>1, NewRows
    <3>3. investigators' = Append(investigators, row)
      BY <1>3, <2>3 DEF Create, InsertInvestigator
    <3> HIDE DEF row
    <3>4. investigators' # <<>>
      BY <1>0, <3>2, <3>3, AppendRow
    <3> QED BY <2>1, <3>1, <3>4, <1>g
  <2> QED BY <2>2, <2>3
<1>4. ASSUME NEW p \in Processes, ChooseSource(p) PROVE Moved(p)
  <2>1. proc[p].at = "source" /\ Goto(p, "bind") /\ flagged' = (flagged \/ proc[p].config.demo_mode)
    BY <1>4 DEF ChooseSource
  <2>2. (flagged => flagged') /\ (proc[p].config.demo_mode => flagged')
    BY <2>1
  <2> QED BY <2>1, <2>2, <1>g
<1>5. ASSUME NEW p \in Processes, Bind(p) PROVE Moved(p)
  <2>1. UNCHANGED flagged /\ proc[p].at = "bind" /\ (End(p) \/ Goto(p, "serve"))
    BY <1>5 DEF Bind, tables
  <2>2. CASE End(p)
    BY <2>1, <2>2, <1>e
  <2>3. CASE Goto(p, "serve")
    BY <2>1, <2>3, <1>g
  <2> QED BY <2>1, <2>2, <2>3
<1>6. ASSUME NEW p \in Processes, Stop(p) PROVE Moved(p)
  <2>1. UNCHANGED flagged /\ End(p)
    BY <1>6 DEF Stop, tables
  <2> QED BY <2>1, <1>e
<1> HIDE DEF Moved
<1>7. \/ proc' = proc /\ UNCHANGED flagged
      \/ \E p \in Processes : Moved(p)
  BY <1>1, <1>2, <1>3, <1>4, <1>5, <1>6
     DEF Next, vars, tables, Boot, Tick, AddInvestigator, login, login_form, logout, Admit, Perform
<1>8. CASE proc' = proc /\ UNCHANGED flagged
  BY <1>8
<1>9. CASE \E p \in Processes : Moved(p)
  BY <1>9 DEF Moved
<1> QED BY <1>7, <1>8, <1>9

LEMMA BootStep == IInv /\ [Next]_vars => BootInv' /\ BootstrapIsComplete'
<1> SUFFICES ASSUME IInv, [Next]_vars PROVE BootInv' /\ BootstrapIsComplete'
  OBVIOUS
<1>0. BootInv
  BY DEF IInv
<1>1. (investigators # <<>> => investigators' # <<>>) /\ TableInv'
  BY TableStep
<1>2. BootInv'
  <2> SUFFICES ASSUME NEW p \in Processes
               PROVE  /\ proc'[p].at = "count" /\ investigators' = <<>> => proc'[p].fresh
                      /\ proc'[p].at = "create" => proc'[p].fresh
                      /\ proc'[p].at \in {"source", "bind", "serve"} => investigators' # <<>>
                      /\ proc'[p].at \in {"bind", "serve"} => (proc'[p].config.demo_mode => flagged')
    BY DEF BootInv
  <2>0. /\ proc[p].at = "count" /\ investigators = <<>> => proc[p].fresh
        /\ proc[p].at = "create" => proc[p].fresh
        /\ proc[p].at \in {"source", "bind", "serve"} => investigators # <<>>
        /\ proc[p].at \in {"bind", "serve"} => (proc[p].config.demo_mode => flagged)
    BY <1>0 DEF BootInv
  <2>1. CASE proc'[p] = proc[p] /\ (flagged => flagged')
    BY <1>1, <2>0, <2>1
  <2>2. CASE proc'[p].at = "down"
    BY <2>2
  <2>3. CASE proc'[p].at = "count" /\ UNCHANGED investigators /\ (investigators = <<>> => proc'[p].fresh)
    BY <2>3
  <2>4. CASE /\ flagged => flagged'
             /\ proc'[p].config = proc[p].config /\ proc'[p].fresh = proc[p].fresh
             /\ \/ /\ proc'[p].at = "create" /\ proc[p].at = "count" /\ investigators = <<>>
                \/ proc'[p].at = "source" /\ investigators' # <<>>
                \/ /\ proc'[p].at = "bind" /\ proc[p].at = "source"
                   /\ proc[p].config.demo_mode => flagged'
                \/ proc'[p].at = "serve" /\ proc[p].at = "bind"
    BY <1>1, <2>0, <2>4
  <2> QED BY <2>1, <2>2, <2>3, <2>4, ProcessStep
<1>3. BootstrapIsComplete'
  <2>1. ASSUME NEW p \in Processes, proc'[p].at = "serve"
        PROVE  1 \in seeded' /\ (proc'[p].config.demo_mode => flagged')
    <3>1. investigators' # <<>> /\ (proc'[p].config.demo_mode => flagged')
      BY <1>2, <2>1 DEF BootInv
    <3> QED BY <1>1, <3>1 DEF TableInv
  <2> QED BY <1>1, <2>1 DEF BootstrapIsComplete, TableInv, Serving
<1> QED BY <1>2, <1>3

\* Tokens go on describing their rows and their logins.
LEMMA TokenFactsStay ==
  ASSUME IInv, [Next]_vars
  PROVE  /\ \A t : Describes(t) => Describes(t)'
         /\ logins \subseteq logins'
<1>1. logins \subseteq logins'
  BY DEF Next, vars, Boot, Start, Count, Create, ChooseSource, Bind, Stop, Tick, AddInvestigator,
         login, login_form, logout, Admit, Perform
<1>2. \A i \in DOMAIN investigators : i \in DOMAIN investigators' /\ investigators'[i] = investigators[i]
  BY TableStep
<1> QED BY <1>1, <1>2 DEF Describes

LEMMA TokenStep == IInv /\ [Next]_vars => TokenInv'
<1> SUFFICES ASSUME IInv, [Next]_vars PROVE TokenInv'
  OBVIOUS
<1>0. header \in [Clients -> Tokens] /\ cookie \in [Clients -> Tokens] /\ TokenInv
  BY DEF IInv, ClientTypes
<1>1. \A t : Describes(t) => Describes(t)'
  BY TokenFactsStay
<1>2. ASSUME NEW c \in Clients, NEW h, NEW k, h = header'[c], k = cookie'[c],
             h = NoToken \/ h = header[c] \/ Describes(h)',
             k = NoToken \/ k = cookie[c] \/ Describes(k)'
      PROVE  (h # NoToken => Describes(h)') /\ (k # NoToken => Describes(k)')
  <2>1. (header[c] # NoToken => Describes(header[c])) /\ (cookie[c] # NoToken => Describes(cookie[c]))
    BY <1>0 DEF TokenInv
  <2>2. h = header[c] /\ h # NoToken => Describes(h)
    BY <2>1
  <2>3. k = cookie[c] /\ k # NoToken => Describes(k)
    BY <2>1
  <2> QED BY <1>1, <1>2, <2>2, <2>3
<1>3. ASSUME \A c \in Clients : \A h, k : h = header'[c] /\ k = cookie'[c] =>
               /\ h = NoToken \/ h = header[c] \/ Describes(h)'
               /\ k = NoToken \/ k = cookie[c] \/ Describes(k)'
      PROVE  TokenInv'
  <2>1. \A c \in Clients : \A h, k : h = header'[c] /\ k = cookie'[c] =>
          (h # NoToken => Describes(h)') /\ (k # NoToken => Describes(k)')
    BY <1>2, <1>3
  <2> QED BY <2>1 DEF TokenInv, Describes
<1>4. CASE UNCHANGED sessions
  BY <1>3, <1>4 DEF sessions
<1>5. ASSUME NEW c \in Clients, NEW t, t = NoToken \/ Describes(t)',
             \/ header' = [header EXCEPT ![c] = t] /\ UNCHANGED cookie
             \/ cookie' = [cookie EXCEPT ![c] = t] /\ UNCHANGED header
      PROVE  TokenInv'
  <2>1. \A b \in Clients : /\ header'[b] = t \/ header'[b] = header[b]
                           /\ cookie'[b] = t \/ cookie'[b] = cookie[b]
    BY <1>0, <1>5
  <2> QED BY <1>3, <1>5, <2>1
<1>6. ASSUME NEW c \in Clients, NEW u, NEW w, login(c, u, w) \/ login_form(c, u, w) PROVE TokenInv'
  <2>1. UNCHANGED investigators
    BY <1>6 DEF login, login_form, tables
  <2>2. PICK p \in Processes, i \in DOMAIN investigators :
          /\ Serving(p) /\ Login(p, i) \in logins'
          /\ \/ header' = [header EXCEPT ![c] = issue_token(p, i)] /\ UNCHANGED cookie
             \/ cookie' = [cookie EXCEPT ![c] = issue_token(p, i)] /\ UNCHANGED header
    BY <1>6 DEF login, login_form
  <2>3. PICK t : t = issue_token(p, i)
    OBVIOUS
  <2>4. Describes(t)'
    BY <2>1, <2>2, <2>3, IssuedToken
  <2> QED BY <1>5, <2>2, <2>3, <2>4
<1>7. ASSUME NEW c \in Clients, logout(c) PROVE TokenInv'
  <2>1. cookie' = [cookie EXCEPT ![c] = NoToken] /\ UNCHANGED header
    BY <1>7 DEF logout
  <2>2. PICK t : t = NoToken
    OBVIOUS
  <2> QED BY <1>5, <2>1, <2>2
<1> QED
  BY <1>4, <1>6, <1>7
     DEF Next, vars, Boot, Start, Count, Create, ChooseSource, Bind, Stop, Tick,
         AddInvestigator, Admit, Perform

\* What may happen to a request, to the attributions and to the server at work.
LEMMA RequestChange ==
  ASSUME IInv, [Next]_vars
  PROVE  \/ /\ UNCHANGED <<decided, ingested>>
            /\ \A c \in Clients :
                 \/ request'[c] = NoRequest
                 \/ /\ request'[c] = request[c]
                    /\ proc'[request[c].server] = proc[request[c].server]
         \/ \E c \in Clients, kind \in {"decision", "ingest"}, bearer \in BOOLEAN : Admit(c, kind, bearer)
         \/ \E c \in Clients : Perform(c)
<1>t. proc \in [Processes -> {Down} \cup Up] /\ request \in [Clients -> {NoRequest} \cup Request]
  BY DEF IInv, TypeOK, ClientTypes, Up
<1>s. \A c \in Clients : request[c] # NoRequest =>
        request[c].server \in Processes /\ proc[request[c].server].at = "serve"
  BY <1>t DEF IInv, WorkIsBackedByLogin, Serving, Request
<1>1. ASSUME NEW p \in Processes, Stop(p)
      PROVE  /\ UNCHANGED <<decided, ingested>>
             /\ \A c \in Clients :
                  \/ request'[c] = NoRequest
                  \/ request'[c] = request[c] /\ proc'[request[c].server] = proc[request[c].server]
  <2>1. UNCHANGED <<decided, ingested>>
    BY <1>1 DEF Stop, tables
  <2>2. \A q \in Processes : q # p => proc'[q] = proc[q]
    BY <1>1, <1>t DEF Stop, End
  <2>3. \A c \in Clients : \/ request'[c] = NoRequest
                          \/ (request'[c] = request[c] /\ request[c] # NoRequest /\ request[c].server # p)
    BY <1>1 DEF Stop
  <2> QED BY <1>s, <2>1, <2>2, <2>3
<1>2. ASSUME NEW p \in Processes, Boot(p)
      PROVE  /\ UNCHANGED <<decided, ingested>>
             /\ \A c \in Clients :
                  \/ request'[c] = NoRequest
                  \/ request'[c] = request[c] /\ proc'[request[c].server] = proc[request[c].server]
  <2>1. UNCHANGED <<request, decided, ingested>> /\ proc[p].at # "serve"
    BY <1>2 DEF Boot, Start, Count, Create, ChooseSource, Bind, tables
  <2>2. \A q \in Processes : q # p => proc'[q] = proc[q]
    BY <1>2, <1>t DEF Boot, Start, Count, Create, ChooseSource, Bind, Goto, End
  <2> QED BY <1>s, <2>1, <2>2
<1> QED
  BY <1>1, <1>2
     DEF Next, vars, tables, Tick, AddInvestigator, login, login_form, logout

\* Work that a server goes on with stays backed.
LEMMA BackedStays ==
  ASSUME IInv, [Next]_vars, NEW q, Serving(q.server), Backed(q, TTL + Leeway),
         proc'[q.server] = proc[q.server]
  PROVE  Serving(q.server)' /\ Backed(q, TTL + Leeway)'
<1>1. logins \subseteq logins'
  BY TokenFactsStay
<1> QED BY <1>1 DEF Serving, Backed

LEMMA RequestStep == IInv /\ [Next]_vars => RequestInv' /\ WorkIsBackedByLogin' /\ Attributable'
<1> SUFFICES ASSUME IInv, [Next]_vars PROVE RequestInv' /\ WorkIsBackedByLogin' /\ Attributable'
  OBVIOUS
<1>0. request \in [Clients -> {NoRequest} \cup Request]
  BY DEF IInv, ClientTypes
<1>i. RequestInv /\ WorkIsBackedByLogin /\ Attributable
  BY DEF IInv
<1>s. \A i \in DOMAIN investigators : i \in DOMAIN investigators' /\ investigators'[i] = investigators[i]
  BY TableStep
<1>d. /\ \A i \in decided : i \in DOMAIN investigators' /\ can_decide(investigators'[i].role)
      /\ \A i \in ingested : i \in DOMAIN investigators' /\ can_administer(investigators'[i].role)
  BY <1>i, <1>s DEF Attributable
\* What is to be shown of one request.
<1> DEFINE Fine(q) == /\ q.id \in DOMAIN investigators'
                      /\ Allowed(q.kind, investigators'[q.id].role)
                      /\ investigators'[q.id].username = q.username
                      /\ Serving(q.server)' /\ Backed(q, TTL + Leeway)'
<1>f. ASSUME \A c \in Clients : \A q : q = request'[c] => q = NoRequest \/ Fine(q)
      PROVE  /\ RequestInv' /\ WorkIsBackedByLogin'
             /\ \A c \in Clients : request'[c] # NoRequest =>
                  investigators'[request'[c].id].username = request'[c].username
  BY <1>f DEF RequestInv, WorkIsBackedByLogin, Serving, Backed
\* A request that was there before is as it was.
<1>q. ASSUME NEW c \in Clients, NEW q, q = request[c], q # NoRequest, proc'[q.server] = proc[q.server]
      PROVE  Fine(q)
  <2>1. /\ q.id \in DOMAIN investigators /\ Allowed(q.kind, investigators[q.id].role)
        /\ investigators[q.id].username = q.username
    BY <1>i, <1>q DEF RequestInv, Attributable
  <2>2. Serving(q.server) /\ Backed(q, TTL + Leeway)
    BY <1>i, <1>q DEF WorkIsBackedByLogin
  <2>3. Serving(q.server)' /\ Backed(q, TTL + Leeway)'
    BY <1>q, <2>2, BackedStays
  <2> QED BY <1>s, <2>1, <2>3
<1> HIDE DEF Fine
<1>1. CASE /\ UNCHANGED <<decided, ingested>>
           /\ \A c \in Clients :
                \/ request'[c] = NoRequest
                \/ request'[c] = request[c] /\ proc'[request[c].server] = proc[request[c].server]
  <2>1. \A c \in Clients : \A q : q = request'[c] => q = NoRequest \/ Fine(q)
    BY <1>1, <1>q
  <2> QED BY <1>1, <1>d, <1>f, <2>1 DEF Attributable
<1>2. ASSUME NEW c \in Clients, NEW kind \in {"decision", "ingest"}, NEW bearer \in BOOLEAN,
             Admit(c, kind, bearer)
      PROVE  RequestInv' /\ WorkIsBackedByLogin' /\ Attributable'
  <2>1. UNCHANGED <<proc, investigators, decided, ingested, logins>>
    BY <1>2 DEF Admit, tables
  <2>2. PICK r \in Request :
          /\ request' = [request EXCEPT ![c] = r]
          /\ Serving(r.server) /\ Backed(r, TTL + Leeway)
          /\ r.kind = kind /\ r.id \in DOMAIN investigators
          /\ investigators[r.id].username = r.username
          /\ Allowed(kind, investigators[r.id].role)
    BY <1>2, AdmittedRequest
  <2>3. request'[c] = r /\ \A b \in Clients : b # c => request'[b] = request[b]
    BY <1>0, <2>2
  <2>4. Fine(r)
    BY <2>1, <2>2 DEF Fine, Serving, Backed
  <2>5. \A b \in Clients : \A q : q = request'[b] => q = NoRequest \/ Fine(q)
    BY <1>q, <2>1, <2>3, <2>4
  <2> QED BY <1>d, <1>f, <2>1, <2>5 DEF Attributable
<1>3. ASSUME NEW c \in Clients, Perform(c) PROVE RequestInv' /\ WorkIsBackedByLogin' /\ Attributable'
  <2>1. UNCHANGED <<proc, investigators>> /\ request[c] # NoRequest
        /\ request' = [request EXCEPT ![c] = NoRequest]
    BY <1>3 DEF Perform
  <2>2. request'[c] = NoRequest /\ \A b \in Clients : b # c => request'[b] = request[b]
    BY <1>0, <2>1
  <2>3. \A b \in Clients : \A q : q = request'[b] => q = NoRequest \/ Fine(q)
    BY <1>q, <2>1, <2>2
  <2>4. /\ RequestInv' /\ WorkIsBackedByLogin'
        /\ \A b \in Clients : request'[b] # NoRequest =>
             investigators'[request'[b].id].username = request'[b].username
    BY <1>f, <2>3
  <2>5. request[c].id \in DOMAIN investigators
        /\ Allowed(request[c].kind, investigators[request[c].id].role)
    BY <1>i, <2>1 DEF RequestInv
  <2>6. CASE request[c].kind = "decision"
    <3>1. decided' = decided \cup {request[c].id} /\ UNCHANGED ingested
      BY <1>3, <2>6 DEF Perform
    <3> QED BY <1>d, <2>1, <2>4, <2>5, <2>6, <3>1 DEF Attributable, Allowed
  <2>7. CASE request[c].kind # "decision"
    <3>1. ingested' = ingested \cup {request[c].id} /\ UNCHANGED decided
      BY <1>3, <2>7 DEF Perform
    <3> QED BY <1>d, <2>1, <2>4, <2>5, <2>7, <3>1 DEF Attributable, Allowed
  <2> QED BY <2>6, <2>7
<1> QED BY <1>1, <1>2, <1>3, RequestChange

-----------------------------------------------------------------------------
(* The theorems. *)

LEMMA InvStep == IInv /\ [Next]_vars => IInv'
  BY TypeStep, BootStep, TokenStep, RequestStep DEF IInv

\* The inductive invariant holds throughout: starts in any
\* environment, kills, logins and requests in any order.
THEOREM Invariance == Spec => []IInv
  BY InitInv, InvStep, PTL DEF Spec

\* The tables, the processes and the sessions keep their types.
THEOREM TypeCorrect == Spec => []TypeOK
<1>1. IInv => TypeOK
  BY DEF IInv
<1> QED BY Invariance, <1>1, PTL

\* However many processes run bootstrap at a time, in whatever environments, and
\* wherever they are killed: the first row is an administrator it created, no
\* username has two rows and no server serves before bootstrap is complete.
THEOREM BootstrapCompletes == Spec => []BootstrapIsComplete
<1>1. IInv => BootstrapIsComplete
  BY DEF IInv
<1> QED BY Invariance, <1>1, PTL

\* bootstrap's count keeps every process that is started once there is a row from
\* adding an administrator.
THEOREM LaterStartsSeedNone == Spec => OnlyFirstStartsSeed
<1> DEFINE Seeds == \A p \in Processes : seeded' # seeded /\ proc'[p] # proc[p] => proc[p].fresh
<1>1. ASSUME IInv, [Next]_vars PROVE [Seeds]_vars
  <2> SUFFICES ASSUME NEW p \in Processes, seeded' # seeded, proc'[p] # proc[p] PROVE proc[p].fresh
    OBVIOUS
  <2>1. PICK q \in Processes : Create(q)
    BY <1>1 DEF Next, Boot, vars, tables, Start, Count, ChooseSource, Bind, Stop, Tick,
                AddInvestigator, login, login_form, logout, Admit, Perform
  <2>2. q = p
    <3>1. proc \in [Processes -> {Down} \cup Up]
      BY <1>1 DEF IInv, TypeOK, Up
    <3> QED BY <2>1, <3>1 DEF Create, Goto, End
  <2> QED BY <1>1, <2>1, <2>2 DEF Create, IInv, BootInv
<1>2. IInv /\ [Next]_vars => [Seeds]_vars
  BY <1>1
<1> HIDE DEF Seeds
<1>3. Spec => [][Seeds]_vars
  BY Invariance, <1>2, PTL DEF Spec
<1> QED BY <1>3 DEF OnlyFirstStartsSeed, Seeds

\* issue_token and decode_token together: a server works only for someone who has
\* logged in under its own secret, no longer ago than the life of a token and the
\* leeway of its validation, over any restarts and changes of the secret.
THEOREM OnlyLoginsAreServed == Spec => []WorkIsBackedByLogin
<1>1. IInv => WorkIsBackedByLogin
  BY DEF IInv
<1> QED BY Invariance, <1>1, PTL

\* require_decision_role and require_admin look at the role in the token, yet the
\* rows they attribute decisions and ingestions to have that role.
THEOREM RolesAreThoseOfRows == Spec => []Attributable
<1>1. IInv => Attributable
  BY DEF IInv
<1> QED BY Invariance, <1>1, PTL
=============================================================================
