--------------------------- MODULE AlertPage_proof ---------------------------
(***************************************************************************)
(* Proofs about AlertPage, for any number of pages: what AlertService's    *)
(* inductive invariant says of the tables, carried through three queries   *)
(* between which anything may happen.                                      *)
(***************************************************************************)
EXTENDS AlertPage, AlertService_proof, FiniteSetTheorems

Requested(a) ==
  \E j \in 1..Len(audit) : audit[j].kind = "ai_advisory_requested" /\ audit[j].alert = a

RowsOf(a) == {decisions[i] : i \in DecisionsOf(a)}

Page == [step : 1..3, id : Alerts, status : AlertStatus, ai : AiAdvisoryStatus,
         decisions : Seq(Row), trail : Seq(Event)]

\* An advisory is settled after the creation of its alert was audited.
AiInv == \A a \in DOMAIN alerts : alerts[a].ai # "pending" => Created(a)

\* What a page has read of the alert and of its advisory is behind the tables,
\* and never at odds with them.
ReadInv(p) ==
  /\ p.id \in DOMAIN alerts
  /\ p.ai # "pending" => alerts[p.id].ai = p.ai

Listed(p) == p.status = "open" \/ \E i \in DOMAIN p.decisions : p.decisions[i].decision = p.status

ViewInv ==
  view # NoPage =>
    /\ view \in Page
    /\ view.step >= 2 =>
         /\ ReadInv(view)
         /\ view.status = "open" \/ Decided(decisions, Len(decisions), view.id, view.status)
    /\ view.step = 3 => Listed(view) /\ ToSet(view.decisions) \subseteq RowsOf(view.id)

ShownInv ==
  IsShown =>
    /\ shown \in Page
    /\ ReadInv(shown)
    /\ ToSet(shown.decisions) \subseteq RowsOf(shown.id)
    /\ Prefix(shown.trail, audit_history(shown.id))

\* A page that is being loaded has not fallen behind the one that is shown.
AheadInv ==
  (IsShown /\ view # NoPage /\ view.id = shown.id) =>
    /\ (view.step >= 2 /\ shown.ai # "pending") => view.ai = shown.ai
    /\ view.step = 3 => ToSet(shown.decisions) \subseteq ToSet(view.decisions)

PInv == IInv /\ AiInv /\ ViewInv /\ ShownInv /\ AheadInv /\ PageIsExplained

-----------------------------------------------------------------------------
(* ORDER BY. *)

UpTo(P, key, i) == {k \in P : key[k] < key[i] \/ (key[k] = key[i] /\ k <= i)}
Place(P, key, i) == Cardinality(UpTo(P, key, i))

\* Whatever the key, ties included, every row has a place of its own.
LEMMA PlaceFacts ==
  ASSUME NEW n \in Nat, NEW P \in SUBSET (1..n), NEW key \in [1..n -> Int]
  PROVE  /\ IsFiniteSet(P) /\ Cardinality(P) \in Nat
         /\ \A i \in P : Place(P, key, i) \in 1..Cardinality(P)
         /\ \A i, j \in P : Place(P, key, i) = Place(P, key, j) => i = j
         /\ \A m \in 1..Cardinality(P) : \E i \in P : Place(P, key, i) = m
<1>1. IsFiniteSet(P) /\ Cardinality(P) \in Nat
  <2>1. IsFiniteSet(1..n)
    BY FS_Interval
  <2> QED BY <2>1, FS_Subset, FS_CardinalityType
<1>0. \A i \in P : i \in Int /\ key[i] \in Int
  OBVIOUS
<1> DEFINE c == Cardinality(P)
           before(i) == UpTo(P, key, i)
<1>2. ASSUME NEW i \in P
      PROVE  IsFiniteSet(before(i)) /\ Cardinality(before(i)) \in 1..c
  <2>1. before(i) \in SUBSET P /\ i \in before(i)
    BY <1>0 DEF UpTo
  <2> HIDE DEF before
  <2>2. IsFiniteSet(before(i)) /\ Cardinality(before(i)) <= c
    BY <1>1, <2>1, FS_Subset
  <2>3. Cardinality(before(i)) \in Nat /\ Cardinality(before(i)) # 0
    BY <2>1, <2>2, FS_CardinalityType, FS_EmptySet
  <2> QED BY <1>1, <2>2, <2>3
<1>3. ASSUME NEW i \in P, NEW j \in P, key[i] < key[j] \/ (key[i] = key[j] /\ i < j)
      PROVE  Cardinality(before(i)) # Cardinality(before(j))
  <2>1. ASSUME NEW k \in P, key[k] < key[i] \/ (key[k] = key[i] /\ k <= i)
        PROVE  key[k] < key[j] \/ (key[k] = key[j] /\ k <= j)
    BY <1>0, <1>3, <2>1
  <2>2. ~ (key[j] < key[i] \/ (key[j] = key[i] /\ j <= i))
    BY <1>0, <1>3
  <2>3. before(i) \in SUBSET before(j) /\ j \notin before(i)
    BY <2>1, <2>2 DEF UpTo
  <2>4. j \in before(j)
    BY <1>0 DEF UpTo
  <2> HIDE DEF before
  <2>5. before(i) # before(j)
    BY <2>3, <2>4
  <2> QED BY <1>2, <2>3, <2>5, FS_Subset
<1>4. ASSUME NEW i \in P, NEW j \in P, Cardinality(before(i)) = Cardinality(before(j)) PROVE i = j
  <2>1. \/ key[i] < key[j] \/ (key[i] = key[j] /\ i < j)
        \/ key[j] < key[i] \/ (key[j] = key[i] /\ j < i)
        \/ i = j
    BY <1>0
  <2> QED BY <1>3, <1>4, <2>1
<1>5. \A i \in P : Place(P, key, i) = Cardinality(before(i))
  BY DEF Place
<1> HIDE DEF before
<1>6. ASSUME NEW m \in 1..c PROVE \E i \in P : Place(P, key, i) = m
  <2> DEFINE f == [i \in P |-> Place(P, key, i)]
  <2>1. f \in Injection(P, 1..c)
    BY <1>2, <1>4, <1>5 DEF Injection, IsInjective
  <2>2. IsFiniteSet(1..c) /\ Cardinality(1..c) = c
    BY <1>1, FS_Interval
  <2>3. f \in Surjection(P, 1..c)
    BY <2>1, <2>2, FS_Injection
  <2> QED BY <2>3 DEF Surjection
<1> QED BY <1>1, <1>2, <1>4, <1>5, <1>6

RowAt(P, key, m) == CHOOSE i \in P : Place(P, key, i) = m

LEMMA RowAtFacts ==
  ASSUME NEW n \in Nat, NEW P \in SUBSET (1..n), NEW key \in [1..n -> Int]
  PROVE  /\ \A m \in 1..Cardinality(P) : RowAt(P, key, m) \in P
         /\ \A m \in 1..Cardinality(P) : Place(P, key, RowAt(P, key, m)) = m
         /\ \A i \in P : RowAt(P, key, Place(P, key, i)) = i
<1>1. ASSUME NEW m \in 1..Cardinality(P)
      PROVE  RowAt(P, key, m) \in P /\ Place(P, key, RowAt(P, key, m)) = m
  <2>1. \E i \in P : Place(P, key, i) = m
    BY PlaceFacts
  <2> QED BY <2>1 DEF RowAt
<1>2. ASSUME NEW i \in P PROVE RowAt(P, key, Place(P, key, i)) = i
  <2>1. Place(P, key, i) \in 1..Cardinality(P)
    BY PlaceFacts
  <2>2. \A j, k \in P : Place(P, key, j) = Place(P, key, k) => j = k
    BY PlaceFacts
  <2> QED BY <1>1, <2>1, <2>2
<1> QED BY <1>1, <1>2

LEMMA OrderByRows ==
  ASSUME NEW table, NEW P, NEW key
  PROVE  OrderBy(table, P, key) = [m \in 1..Cardinality(P) |-> table[RowAt(P, key, m)]]
  BY DEF OrderBy, RowAt, Place, UpTo

\* A sorted selection has the rows selected, and no others.
LEMMA OrderByFacts ==
  ASSUME NEW S, NEW table \in Seq(S), NEW P \in SUBSET (DOMAIN table),
         NEW key \in [DOMAIN table -> Int]
  PROVE  /\ OrderBy(table, P, key) \in Seq(S)
         /\ ToSet(OrderBy(table, P, key)) = {table[i] : i \in P}
<1> DEFINE n == Len(table)
           c == Cardinality(P)
           out == OrderBy(table, P, key)
<1>1. n \in Nat /\ DOMAIN table = 1..n /\ \A i \in P : table[i] \in S
  OBVIOUS
<1>2. P \in SUBSET (1..n) /\ key \in [1..n -> Int]
  BY <1>1
<1>3. c \in Nat /\ \A m \in 1..c : RowAt(P, key, m) \in P
  BY <1>1, <1>2, PlaceFacts, RowAtFacts
<1>4. out = [m \in 1..c |-> table[RowAt(P, key, m)]]
  BY OrderByRows
<1>5. \A i \in P : Place(P, key, i) \in 1..c /\ RowAt(P, key, Place(P, key, i)) = i
  <2>1. \A i \in P : Place(P, key, i) \in 1..c
    BY <1>1, <1>2, PlaceFacts
  <2>2. \A i \in P : RowAt(P, key, Place(P, key, i)) = i
    BY <1>1, <1>2, RowAtFacts
  <2> QED BY <2>1, <2>2
<1> HIDE DEF n, c, out
<1>6. out \in Seq(S) /\ DOMAIN out = 1..c
  BY <1>1, <1>3, <1>4
<1>7. \A i \in P : out[Place(P, key, i)] = table[i]
  BY <1>4, <1>5
<1>8. ToSet(out) = {out[m] : m \in 1..c}
  BY <1>6 DEF ToSet
<1>9. ToSet(out) = {table[i] : i \in P}
  BY <1>3, <1>4, <1>5, <1>7, <1>8
<1> QED BY <1>6, <1>9 DEF out

\* Sorted by its sequence numbers, the selection from a log that has grown goes
\* on where the one from the shorter log ended.
LEMMA OrderByGrows ==
  ASSUME NEW S, NEW s \in Seq(S), NEW t \in Seq(S), Prefix(s, t),
         NEW P \in SUBSET (DOMAIN s), NEW Q \in SUBSET (DOMAIN t), P = Q \cap DOMAIN s
  PROVE  Prefix(OrderBy(s, P, [i \in DOMAIN s |-> i]), OrderBy(t, Q, [i \in DOMAIN t |-> i]))
<1> DEFINE n == Len(s)
           l == Len(t)
           c == Cardinality(P)
           d == Cardinality(Q)
           f == [i \in 1..n |-> i]
           g == [i \in 1..l |-> i]
<1>1. n \in Nat /\ l \in Nat /\ n <= l /\ DOMAIN s = 1..n /\ DOMAIN t = 1..l
      /\ \A i \in 1..n : t[i] = s[i]
  BY DEF Prefix
<1>2. P \in SUBSET (1..n) /\ Q \in SUBSET (1..l) /\ P = Q \cap (1..n)
  BY <1>1
<1>3. f \in [1..n -> Int] /\ g \in [1..l -> Int]
  BY <1>1
<1>4. ASSUME NEW i \in P PROVE Place(P, f, i) = Place(Q, g, i)
  <2>1. \A k \in P : f[k] = k /\ k \in Int
    BY <1>2
  <2>2. \A k \in Q : g[k] = k /\ k \in Int
    BY <1>2
  <2>i. i \in Q /\ i \in 1..n
    BY <1>2
  <2> HIDE DEF f, g
  <2>3. UpTo(P, f, i) = {k \in P : k <= i}
    BY <2>1 DEF UpTo
  <2>4. UpTo(Q, g, i) = {k \in Q : k <= i}
    BY <2>2, <2>i DEF UpTo
  <2>5. \A k \in Q : k <= i => k \in P
    BY <1>1, <1>2, <2>2, <2>i
  <2>6. \A k \in P : k \in Q
    BY <1>2
  <2>7. {k \in P : k <= i} = {k \in Q : k <= i}
    BY <2>5, <2>6
  <2> QED BY <2>3, <2>4, <2>7 DEF Place
<1> HIDE DEF f, g
<1>5. /\ c \in Nat /\ \A m \in 1..c : RowAt(P, f, m) \in P /\ Place(P, f, RowAt(P, f, m)) = m
      /\ IsFiniteSet(Q) /\ d \in Nat
  <2>1. c \in Nat
    BY <1>1, <1>2, <1>3, PlaceFacts
  <2>2. IsFiniteSet(Q) /\ d \in Nat
    BY <1>1, <1>2, <1>3, PlaceFacts
  <2>3. \A m \in 1..c : RowAt(P, f, m) \in P
    BY <1>1, <1>2, <1>3, RowAtFacts
  <2>4. ASSUME NEW m \in 1..c PROVE Place(P, f, RowAt(P, f, m)) = m
    <3>1. n \in Nat /\ P \in SUBSET (1..n) /\ f \in [1..n -> Int]
      BY <1>1, <1>2, <1>3
    <3> HIDE DEF n
    <3>2. \A j \in 1..Cardinality(P) : \E i \in P : Place(P, f, i) = j
      BY <3>1, PlaceFacts
    <3>3. \E i \in P : Place(P, f, i) = m
      BY <3>2
    <3> QED BY <3>3 DEF RowAt
  <2> QED BY <2>1, <2>2, <2>3, <2>4
<1>6. c <= d
  <2>1. P \in SUBSET Q
    BY <1>2
  <2> QED BY <1>5, <2>1, FS_Subset
<1>7. \A i \in Q : RowAt(Q, g, Place(Q, g, i)) = i
  BY <1>1, <1>2, <1>3, RowAtFacts
<1>8. ASSUME NEW m \in 1..c PROVE t[RowAt(Q, g, m)] = s[RowAt(P, f, m)]
  <2>1. RowAt(P, f, m) \in P /\ RowAt(P, f, m) \in Q /\ Place(P, f, RowAt(P, f, m)) = m
    BY <1>2, <1>5
  <2>2. RowAt(Q, g, m) = RowAt(P, f, m)
    BY <1>4, <1>7, <2>1
  <2> QED BY <1>1, <1>2, <2>1, <2>2
<1>9. OrderBy(s, P, f) = [m \in 1..c |-> s[RowAt(P, f, m)]]
      /\ OrderBy(t, Q, g) = [m \in 1..d |-> t[RowAt(Q, g, m)]]
  BY OrderByRows
<1> HIDE DEF c, d, n, l
<1>10. /\ Len(OrderBy(s, P, f)) = c /\ Len(OrderBy(t, Q, g)) = d
       /\ \A m \in 1..c : OrderBy(t, Q, g)[m] = OrderBy(s, P, f)[m]
  <2> DEFINE u(m) == s[RowAt(P, f, m)]
             v(m) == t[RowAt(Q, g, m)]
  <2>0. \A m \in 1..c : m \in 1..d
    BY <1>5, <1>6
  <2>1. \A m \in 1..c : v(m) = u(m)
    BY <1>8
  <2>2. OrderBy(s, P, f) = [m \in 1..c |-> u(m)] /\ OrderBy(t, Q, g) = [m \in 1..d |-> v(m)]
    BY <1>9
  <2> HIDE DEF u, v
  <2>3. Len(OrderBy(s, P, f)) = c /\ Len(OrderBy(t, Q, g)) = d
    BY <1>5, <2>2
  <2>4. ASSUME NEW m \in 1..c PROVE OrderBy(t, Q, g)[m] = OrderBy(s, P, f)[m]
    <3>1. OrderBy(t, Q, g)[m] = v(m)
      BY <2>0, <2>2
    <3>2. OrderBy(s, P, f)[m] = u(m)
      BY <2>2
    <3> QED BY <2>1, <3>1, <3>2
  <2> QED BY <2>3, <2>4
<1>11. Prefix(OrderBy(s, P, f), OrderBy(t, Q, g))
  BY <1>5, <1>6, <1>10 DEF Prefix
<1> QED BY <1>1, <1>11 DEF f, g

LEMMA PrefixTransitive ==
  ASSUME NEW s, NEW t, NEW u, Prefix(s, t), Prefix(t, u)
  PROVE  Prefix(s, u)
  BY DEF Prefix

LEMMA PrefixIsPrefix ==
  ASSUME NEW S, NEW s \in Seq(S), NEW t \in Seq(S), Prefix(s, t)
  PROVE  IsPrefix(s, t)
<1> DEFINE n == Len(s)
<1>1. n \in Nat /\ n <= Len(t) /\ \A i \in 1..n : t[i] = s[i] /\ s[i] \in S
  BY DEF Prefix
<1>2. /\ SubSeq(s, 1, n) \in Seq(S) /\ Len(SubSeq(s, 1, n)) = n
      /\ SubSeq(t, 1, n) \in Seq(S) /\ Len(SubSeq(t, 1, n)) = n
      /\ \A i \in 1..n : SubSeq(s, 1, n)[i] = s[i] /\ SubSeq(t, 1, n)[i] = t[i]
  BY <1>1
<1>3. SubSeq(s, 1, n) = SubSeq(t, 1, n)
  BY <1>1, <1>2
<1> QED BY <1>1, <1>3 DEF IsPrefix

-----------------------------------------------------------------------------
(* What the queries answer. *)

\* The decisions of an alert are listed, each of them.
LEMMA DecisionHistory ==
  ASSUME TypeOK, NEW a \in Alerts
  PROVE  decision_history(a) \in Seq(Row) /\ ToSet(decision_history(a)) = RowsOf(a)
<1> DEFINE key == [i \in DOMAIN decisions |-> decisions[i].created_at]
<1>1. decisions \in Seq(Row)
  BY DEF TypeOK
<1>2. key \in [DOMAIN decisions -> Int]
  <2>1. \A i \in DOMAIN decisions : decisions[i] \in Row
    BY <1>1
  <2> QED BY <2>1 DEF Row
<1>3. DecisionsOf(a) \in SUBSET (DOMAIN decisions)
  BY DEF DecisionsOf
<1>4. decision_history(a) = OrderBy(decisions, DecisionsOf(a), key)
  BY DEF decision_history
<1> HIDE DEF key
<1>5. OrderBy(decisions, DecisionsOf(a), key) \in Seq(Row)
  BY <1>1, <1>2, <1>3, OrderByFacts
<1>6. ToSet(OrderBy(decisions, DecisionsOf(a), key)) = {decisions[i] : i \in DecisionsOf(a)}
  BY <1>1, <1>2, <1>3, OrderByFacts
<1> QED BY <1>4, <1>5, <1>6 DEF RowsOf

\* So are the events of its trail.
LEMMA AuditHistory ==
  ASSUME TypeOK, NEW a \in Alerts
  PROVE  audit_history(a) \in Seq(Event)
         /\ ToSet(audit_history(a)) = {audit[i] : i \in TrailOf(a)}
<1> DEFINE key == [i \in DOMAIN audit |-> i]
<1>1. audit \in Seq(Event)
  BY DEF TypeOK
<1>2. key \in [DOMAIN audit -> Int]
  BY <1>1
<1>3. TrailOf(a) \in SUBSET (DOMAIN audit)
  BY DEF TrailOf
<1>4. audit_history(a) = OrderBy(audit, TrailOf(a), key)
  BY DEF audit_history
<1> HIDE DEF key
<1>5. OrderBy(audit, TrailOf(a), key) \in Seq(Event)
  BY <1>1, <1>2, <1>3, OrderByFacts
<1>6. ToSet(OrderBy(audit, TrailOf(a), key)) = {audit[i] : i \in TrailOf(a)}
  BY <1>1, <1>2, <1>3, OrderByFacts
<1> QED BY <1>4, <1>5, <1>6

\* A later trail extends an earlier one.
LEMMA TrailGrows ==
  ASSUME TypeOK, TypeOK', Prefix(audit, audit'), NEW a \in Alerts
  PROVE  Prefix(audit_history(a), audit_history(a)')
<1>1. audit \in Seq(Event) /\ audit' \in Seq(Event)
  BY DEF TypeOK
<1>2. DOMAIN audit = 1..Len(audit) /\ DOMAIN audit' = 1..Len(audit') /\ Len(audit) <= Len(audit')
      /\ Len(audit) \in Nat /\ Len(audit') \in Nat
  BY <1>1 DEF Prefix
<1> DEFINE P == TrailOf(a)
           Q == TrailOf(a)'
<1>3. P \in SUBSET (DOMAIN audit) /\ Q \in SUBSET (DOMAIN audit')
  BY DEF TrailOf
<1>4. P = Q \cap DOMAIN audit
  BY <1>2 DEF TrailOf, Prefix
<1>5. audit_history(a) = OrderBy(audit, P, [i \in DOMAIN audit |-> i])
      /\ audit_history(a)' = OrderBy(audit', Q, [i \in DOMAIN audit' |-> i])
  BY DEF audit_history, OrderBy
<1> HIDE DEF P, Q
<1> QED BY <1>1, <1>3, <1>4, <1>5, OrderByGrows

-----------------------------------------------------------------------------
(* What the service may do between two queries. *)

LEMMA FaultsGrow == ASSUME TypeOK, [Next]_vars, faults' = 0 PROVE faults = 0
<1>1. ~Fault
  BY DEF Fault, TypeOK
<1> QED
  BY <1>1 DEF Next, vars, PipeStep, ReqStep, InsertAlert, AuditCreated, AuditRequested, Investigate,
       SetAiStatus, AuditOutcome, PipeError, PipeDropped, Submit, GetAlert, AlertNotFound,
       RecordDecision, AuditDecision, initialize, CliLands, CliRefused, CliFails, Respond, ReqError,
       ReqDropped, Crash

LEMMA RowsGrow ==
  ASSUME TypeOK, TypeOK', Prefix(decisions, decisions'), NEW a
  PROVE  RowsOf(a) \subseteq RowsOf(a)'
<1>1. DOMAIN decisions = 1..Len(decisions) /\ DOMAIN decisions' = 1..Len(decisions')
  BY DEF TypeOK
<1>2. ASSUME NEW i \in DecisionsOf(a)
      PROVE  i \in DecisionsOf(a)' /\ decisions'[i] = decisions[i]
  BY <1>1 DEF DecisionsOf, Prefix
<1> QED BY <1>2 DEF RowsOf

\* The advisory of an alert whose creation could not be audited stays pending.
LEMMA AiInvStep == IInv /\ AiInv /\ [Next]_vars => AiInv'
<1> SUFFICES ASSUME IInv, AiInv, [Next]_vars, NEW a \in DOMAIN alerts', alerts'[a].ai # "pending"
             PROVE  Created(a)'
  BY DEF AiInv
<1>0. TypeOK /\ TypeOK' /\ PipeInv /\ ReqInv
  BY InvStep DEF IInv
<1>1. a \in Alerts /\ (Created(a) => Created(a)')
  BY <1>0, LogsGrow, FactsStay DEF TypeOK
<1> SUFFICES Created(a)
  BY <1>1
<1>2. CASE alerts' = alerts
  BY <1>2 DEF AiInv
<1>3. ASSUME NEW b \in Alerts, InsertAlert(b) PROVE Created(a)
  BY <1>3 DEF InsertAlert, With, AiInv
<1>4. ASSUME NEW b \in Alerts, SetAiStatus(b) PROVE Created(a)
  <2>1. CASE a = b
    BY <1>0, <1>4, <2>1 DEF SetAiStatus, PipeInv, PipeRunning
  <2>2. CASE a # b
    BY <1>0, <1>4, <2>2 DEF SetAiStatus, AiInv, TypeOK
  <2> QED BY <2>1, <2>2
<1>5. ASSUME NEW r \in Requests, RecordDecision(r) PROVE Created(a)
  BY <1>0, <1>5 DEF RecordDecision, AiInv, TypeOK
<1> QED
  BY <1>2, <1>3, <1>4, <1>5
     DEF Next, vars, PipeStep, ReqStep, AuditCreated, AuditRequested, Investigate, AuditOutcome,
         PipeError, PipeDropped, Submit, GetAlert, AlertNotFound, AuditDecision, initialize,
         CliLands, CliRefused, CliFails, Respond, ReqError, ReqDropped, Crash

\* Without a fault it is settled after it was asked for.
LEMMA SettledIsRequested ==
  ASSUME IInv, faults = 0, NEW a \in DOMAIN alerts, alerts[a].ai # "pending"
  PROVE  Requested(a)
<1>1. a \in Alerts /\ FaultFreePipe(a)
  BY DEF IInv, TypeOK, FaultFreeInv
<1>2. pipe[a] \in {"audit_outcome", "done"}
  BY <1>1 DEF IInv, TypeOK, PipeInv, PipeRunning, PipeEnded, FaultFreePipe
<1>3. Sequenced(a, 2) \/ Sequenced(a, 3)
  BY <1>1, <1>2 DEF FaultFreePipe
<1>4. \E j \in 1..Len(audit) :
        j \in EventsOf(a, PipelineKinds) /\ audit[j].kind = "ai_advisory_requested"
  BY <1>3 DEF Sequenced
<1> QED BY <1>4 DEF EventsOf, Requested

\* What was read stays true of the tables while others go on.
LEMMA ReadStays ==
  ASSUME IInv, [Next]_vars, NEW p, ReadInv(p)
  PROVE  /\ p.id \in DOMAIN alerts'
         /\ p.ai # "pending" => alerts'[p.id].ai = p.ai
<1>1. TypeOK /\ PipeInv
  BY DEF IInv
<1>2. \A a \in DOMAIN alerts :
        /\ a \in DOMAIN alerts'
        /\ alerts[a].ai # "pending" => alerts'[a].ai = alerts[a].ai
  BY <1>1, AlertsStay
<1> QED BY <1>2 DEF ReadInv

LEMMA StatusStays ==
  ASSUME IInv, [Next]_vars, NEW a, NEW d, Decided(decisions, Len(decisions), a, d)
  PROVE  Decided(decisions', Len(decisions'), a, d)
<1>1. Prefix(decisions, decisions')
  BY LogsGrow DEF IInv
<1> QED BY <1>1 DEF Decided, Prefix

-----------------------------------------------------------------------------
(* The page. *)

LEMMA NoPageFacts == \A p \in Page : p # NoPage /\ p.step \in 1..3 /\ p.id \in Alerts
  BY DEF NoPage, Page

LEMMA ServiceStep ==
  ASSUME PInv, [Next]_vars, UNCHANGED <<view, shown>>
  PROVE  ViewInv' /\ ShownInv' /\ AheadInv' /\ PageIsExplained'
<1>0. IInv /\ TypeOK /\ TypeOK' /\ PipeInv /\ ReqInv
  BY InvStep DEF PInv, IInv
<1>1. Prefix(decisions, decisions') /\ Prefix(audit, audit')
  BY <1>0, LogsGrow
<1>2. ViewInv'
  <2> SUFFICES ASSUME view # NoPage PROVE ViewInv'
    BY DEF ViewInv
  <2>1. view \in Page /\ (view.step = 3 => Listed(view))
    BY DEF PInv, ViewInv
  <2>r. ASSUME view.step = 3 PROVE ToSet(view.decisions) \subseteq RowsOf(view.id)'
    <3>1. ToSet(view.decisions) \subseteq RowsOf(view.id)
      BY <2>r DEF PInv, ViewInv
    <3> QED BY <1>0, <1>1, <3>1, RowsGrow
  <2>2. ASSUME view.step >= 2 PROVE ReadInv(view)'
    BY <1>0, <2>2, ReadStays DEF PInv, ViewInv, ReadInv
  <2>3. ASSUME view.step >= 2, view.status # "open"
        PROVE  Decided(decisions', Len(decisions'), view.id, view.status)
    BY <1>0, <2>3, StatusStays DEF PInv, ViewInv
  <2>4. Listed(view)' <=> Listed(view)
    BY DEF Listed
  <2> QED BY <2>1, <2>r, <2>2, <2>3, <2>4 DEF ViewInv
<1>3. ShownInv'
  <2> SUFFICES ASSUME IsShown PROVE ShownInv'
    BY DEF ShownInv, IsShown
  <2>1. shown \in Page /\ ReadInv(shown) /\ shown.id \in Alerts
        /\ ToSet(shown.decisions) \subseteq RowsOf(shown.id)
        /\ Prefix(shown.trail, audit_history(shown.id))
    BY NoPageFacts DEF PInv, ShownInv
  <2>2. ReadInv(shown)'
    BY <1>0, <2>1, ReadStays DEF ReadInv
  <2>3. ToSet(shown.decisions) \subseteq RowsOf(shown.id)'
    BY <1>0, <1>1, <2>1, RowsGrow
  <2>4. Prefix(shown.trail, audit_history(shown.id)')
    BY <1>0, <1>1, <2>1, TrailGrows, PrefixTransitive
  <2> QED BY <2>1, <2>2, <2>3, <2>4 DEF ShownInv
<1>4. AheadInv'
  BY DEF PInv, AheadInv, IsShown
<1>5. PageIsExplained'
  BY <1>0, FaultsGrow DEF PInv, PageIsExplained, IsShown, TrailKinds
<1> QED BY <1>2, <1>3, <1>4, <1>5

\* A query leaves the tables as they are.
LEMMA Still ==
  ASSUME UNCHANGED vars
  PROVE  /\ UNCHANGED <<alerts, decisions, audit, faults>>
         /\ \A a : RowsOf(a)' = RowsOf(a) /\ audit_history(a)' = audit_history(a)
<1>1. UNCHANGED <<alerts, decisions, audit, faults>>
  BY DEF vars
<1> QED BY <1>1 DEF RowsOf, DecisionsOf, audit_history, TrailOf, OrderBy

LEMMA OpenStep ==
  ASSUME PInv, NEW a \in Alerts, OpenPage(a)
  PROVE  ViewInv' /\ ShownInv' /\ AheadInv' /\ PageIsExplained'
<1>1. UNCHANGED <<vars, shown>>
      /\ view' = [step |-> 1, id |-> a, status |-> "open", ai |-> "pending",
                  decisions |-> <<>>, trail |-> <<>>]
  BY DEF OpenPage
<1>2. view' \in Page /\ view'.step = 1
  BY <1>1 DEF Page, AlertStatus, AiAdvisoryStatus
<1>3. ViewInv'
  BY <1>2 DEF ViewInv
<1>4. AheadInv'
  BY <1>2 DEF AheadInv
<1>5. ShownInv' /\ PageIsExplained'
  BY <1>1, Still DEF PInv, ShownInv, ReadInv, IsShown, PageIsExplained, TrailKinds
<1> QED BY <1>3, <1>4, <1>5

LEMMA ClosedStep ==
  ASSUME PInv, UNCHANGED <<vars, shown>>, view' = NoPage
  PROVE  ViewInv' /\ ShownInv' /\ AheadInv' /\ PageIsExplained'
<1>1. ViewInv' /\ AheadInv'
  BY DEF ViewInv, AheadInv
<1>2. ShownInv' /\ PageIsExplained'
  BY Still DEF PInv, ShownInv, ReadInv, IsShown, PageIsExplained, TrailKinds
<1> QED BY <1>1, <1>2

\* The three queries.
LEMMA ReadCases ==
  ASSUME PInv, ReadNext
  PROVE  /\ UNCHANGED vars
         /\ view \in Page /\ view # NoPage /\ view.id \in Alerts /\ view.id \in DOMAIN alerts
         /\ \/ /\ view.step = 1 /\ UNCHANGED shown
               /\ view' = [step |-> 2, id |-> view.id, status |-> alerts[view.id].status,
                           ai |-> alerts[view.id].ai, decisions |-> view.decisions,
                           trail |-> view.trail]
            \/ /\ view.step = 2 /\ UNCHANGED shown
               /\ view' = [step |-> 3, id |-> view.id, status |-> view.status, ai |-> view.ai,
                           decisions |-> decision_history(view.id), trail |-> view.trail]
            \/ /\ view.step = 3 /\ view' = NoPage
               /\ shown' = [step |-> 3, id |-> view.id, status |-> view.status, ai |-> view.ai,
                            decisions |-> view.decisions, trail |-> audit_history(view.id)]
<1>1. view # NoPage /\ view.id \in DOMAIN alerts /\ UNCHANGED vars
  BY DEF ReadNext, NoPage
<1>2. view \in Page /\ view.step \in 1..3 /\ view.id \in Alerts
  BY <1>1, NoPageFacts DEF PInv, ViewInv
<1>3. Len(Queries) = 3 /\ Queries[1] = "alert" /\ Queries[2] = "decisions" /\ Queries[3] = "trail"
  BY DEF Queries
<1>4. ASSUME view.step = 1
      PROVE  /\ UNCHANGED shown
             /\ view' = [step |-> 2, id |-> view.id, status |-> alerts[view.id].status,
                         ai |-> alerts[view.id].ai, decisions |-> view.decisions,
                         trail |-> view.trail]
  <2>1. UNCHANGED shown /\ view' = [Answer("alert") EXCEPT !.step = @ + 1]
    BY <1>3, <1>4 DEF ReadNext
  <2>2. Answer("alert") = [view EXCEPT !.status = alerts[view.id].status, !.ai = alerts[view.id].ai]
    BY DEF Answer
  <2>3. Answer("alert") = [step |-> 1, id |-> view.id, status |-> alerts[view.id].status,
                           ai |-> alerts[view.id].ai, decisions |-> view.decisions,
                           trail |-> view.trail]
    BY <1>2, <1>4, <2>2 DEF Page
  <2> QED BY <2>1, <2>3
<1>5. ASSUME view.step = 2
      PROVE  /\ UNCHANGED shown
             /\ view' = [step |-> 3, id |-> view.id, status |-> view.status, ai |-> view.ai,
                         decisions |-> decision_history(view.id), trail |-> view.trail]
  <2>1. UNCHANGED shown /\ view' = [Answer("decisions") EXCEPT !.step = @ + 1]
    BY <1>3, <1>5 DEF ReadNext
  <2>2. Answer("decisions") = [view EXCEPT !.decisions = decision_history(view.id)]
    BY DEF Answer
  <2> QED BY <1>2, <1>5, <2>1, <2>2 DEF Page
<1>6. ASSUME view.step = 3
      PROVE  /\ view' = NoPage
             /\ shown' = [step |-> 3, id |-> view.id, status |-> view.status, ai |-> view.ai,
                          decisions |-> view.decisions, trail |-> audit_history(view.id)]
  <2>1. view' = NoPage /\ shown' = Answer("trail")
    BY <1>3, <1>6 DEF ReadNext
  <2>2. Answer("trail") = [view EXCEPT !.trail = audit_history(view.id)]
    BY DEF Answer
  <2> QED BY <1>2, <1>6, <2>1, <2>2 DEF Page
<1> QED BY <1>1, <1>2, <1>4, <1>5, <1>6

LEMMA ReadStep ==
  ASSUME PInv, ReadNext
  PROVE  ViewInv' /\ ShownInv' /\ AheadInv' /\ PageIsExplained'
<1>0. /\ TypeOK /\ StatusInv /\ IInv /\ UNCHANGED vars
      /\ view \in Page /\ view # NoPage /\ view.id \in Alerts /\ view.id \in DOMAIN alerts
  BY ReadCases DEF PInv, IInv
<1>1. /\ UNCHANGED <<alerts, decisions, audit, faults>>
      /\ \A a : RowsOf(a)' = RowsOf(a) /\ audit_history(a)' = audit_history(a)
  BY <1>0, Still
<1>2. ASSUME UNCHANGED shown PROVE ShownInv' /\ PageIsExplained'
  BY <1>1, <1>2 DEF PInv, ShownInv, ReadInv, IsShown, PageIsExplained, TrailKinds
<1>3. ASSUME view.step = 1 PROVE ViewInv' /\ ShownInv' /\ AheadInv' /\ PageIsExplained'
  <2>1. /\ UNCHANGED shown
        /\ view' = [step |-> 2, id |-> view.id, status |-> alerts[view.id].status,
                    ai |-> alerts[view.id].ai, decisions |-> view.decisions, trail |-> view.trail]
    BY <1>3, ReadCases
  <2>2. alerts[view.id].status \in AlertStatus /\ alerts[view.id].ai \in AiAdvisoryStatus
    BY <1>0 DEF TypeOK
  <2>3. view' \in Page
    BY <1>0, <2>1, <2>2 DEF Page
  <2>4. view'.status = "open" \/ Decided(decisions', Len(decisions'), view'.id, view'.status)
    <3>1. Was(decisions, view.id, alerts[view.id].status, Len(decisions))
      BY <1>0 DEF StatusInv
    <3>2. alerts[view.id].status = "open"
          \/ Decided(decisions, Len(decisions), view.id, alerts[view.id].status)
      BY <3>1 DEF Was, Decided
    <3> QED BY <1>1, <2>1, <3>2
  <2>5. ReadInv(view)'
    BY <1>0, <1>1, <2>1 DEF ReadInv
  <2>6. view'.step = 2 /\ view'.id = view.id /\ view'.ai = alerts[view.id].ai
    BY <2>1
  <2>7. ViewInv'
    BY <2>3, <2>4, <2>5, <2>6 DEF ViewInv
  <2>8. AheadInv'
    BY <2>1, <2>6 DEF PInv, ShownInv, ReadInv, AheadInv, IsShown
  <2> QED BY <1>2, <2>1, <2>7, <2>8
<1>4. ASSUME view.step = 2 PROVE ViewInv' /\ ShownInv' /\ AheadInv' /\ PageIsExplained'
  <2>1. /\ UNCHANGED shown
        /\ view' = [step |-> 3, id |-> view.id, status |-> view.status, ai |-> view.ai,
                    decisions |-> decision_history(view.id), trail |-> view.trail]
    BY <1>4, ReadCases
  <2>2. decision_history(view.id) \in Seq(Row) /\ ToSet(decision_history(view.id)) = RowsOf(view.id)
    BY <1>0, DecisionHistory
  <2>3. view' \in Page
    BY <1>0, <2>1, <2>2 DEF Page
  <2>4. /\ ReadInv(view)
        /\ view.status = "open" \/ Decided(decisions, Len(decisions), view.id, view.status)
    BY <1>0, <1>4 DEF PInv, ViewInv
  <2>5. /\ view'.step = 3 /\ view'.id = view.id /\ view'.ai = view.ai /\ view'.status = view.status
        /\ view'.decisions = decision_history(view.id)
    BY <2>1
  <2>6. Listed(view)'
    <3> SUFFICES ASSUME view.status # "open"
                 PROVE  \E i \in DOMAIN view'.decisions : view'.decisions[i].decision = view'.status
      BY <2>5 DEF Listed
    <3>1. PICK k \in 1..Len(decisions) :
            decisions[k].alert = view.id /\ decisions[k].decision = view.status
      BY <2>4 DEF Decided
    <3>2. decisions[k] \in RowsOf(view.id)
      BY <1>0, <3>1 DEF RowsOf, DecisionsOf, TypeOK
    <3>3. decisions[k] \in ToSet(view'.decisions)
      BY <2>2, <2>5, <3>2
    <3> QED BY <2>5, <3>1, <3>3 DEF ToSet
  <2>7. ReadInv(view)'
    BY <1>1, <2>4, <2>5 DEF ReadInv
  <2>8. ViewInv'
    <3>1. (ToSet(view.decisions) \subseteq RowsOf(view.id))'
      BY <1>1, <2>2, <2>5
    <3> QED BY <1>1, <2>3, <2>4, <2>5, <2>6, <2>7, <3>1 DEF ViewInv
  <2>9. AheadInv'
    BY <1>0, <1>4, <2>1, <2>2, <2>5 DEF PInv, ShownInv, AheadInv, IsShown
  <2> QED BY <1>2, <2>1, <2>8, <2>9
<1>5. ASSUME view.step = 3 PROVE ViewInv' /\ ShownInv' /\ AheadInv' /\ PageIsExplained'
  <2>1. /\ view' = NoPage
        /\ shown' = [step |-> 3, id |-> view.id, status |-> view.status, ai |-> view.ai,
                     decisions |-> view.decisions, trail |-> audit_history(view.id)]
    BY <1>5, ReadCases
  <2>2. ViewInv' /\ AheadInv'
    BY <2>1 DEF ViewInv, AheadInv
  <2>3. /\ audit_history(view.id) \in Seq(Event)
        /\ ToSet(audit_history(view.id)) = {audit[i] : i \in TrailOf(view.id)}
    BY <1>0, AuditHistory
  <2>4. /\ ReadInv(view) /\ Listed(view)
        /\ ToSet(view.decisions) \subseteq RowsOf(view.id)
    BY <1>0, <1>5 DEF PInv, ViewInv
  <2>5. /\ shown'.id = view.id /\ shown'.status = view.status /\ shown'.ai = view.ai
        /\ shown'.decisions = view.decisions /\ shown'.trail = audit_history(view.id)
    BY <2>1
  <2>6. shown' \in Page
    BY <1>0, <2>1, <2>3 DEF Page
  <2>7. ShownInv'
    <3>1. Prefix(shown.trail, audit_history(shown.id))'
      BY <1>1, <2>3, <2>5, PrefixReflexive
    <3>2. ReadInv(shown)'
      BY <1>1, <2>4, <2>5 DEF ReadInv
    <3>3. (ToSet(shown.decisions) \subseteq RowsOf(shown.id))'
      BY <1>1, <2>4, <2>5
    <3> QED BY <2>6, <3>1, <3>2, <3>3 DEF ShownInv
  <2>8. ASSUME NEW j \in 1..Len(audit), audit[j].alert = view.id PROVE audit[j].kind \in TrailKinds'
    <3>1. j \in TrailOf(view.id)
      BY <1>0, <2>8 DEF TrailOf, TypeOK
    <3>2. audit[j] \in ToSet(shown'.trail)
      BY <2>3, <2>5, <3>1
    <3> QED BY <3>2 DEF ToSet, TrailKinds
  <2>9. ASSUME shown'.ai # "pending"
        PROVE  /\ "alert_created" \in TrailKinds'
               /\ faults' = 0 => "ai_advisory_requested" \in TrailKinds'
    <3>1. alerts[view.id].ai # "pending"
      BY <2>4, <2>5, <2>9 DEF ReadInv
    <3>2. Created(view.id)
      BY <1>0, <3>1 DEF PInv, AiInv
    <3>3. faults = 0 => Requested(view.id)
      BY <1>0, <3>1, SettledIsRequested
    <3> QED BY <1>1, <2>8, <3>2, <3>3 DEF Created, Requested
  <2>10. PageIsExplained'
    BY <2>4, <2>5, <2>9 DEF PageIsExplained, Listed
  <2> QED BY <2>2, <2>7, <2>10
<1> QED BY <1>0, <1>3, <1>4, <1>5, NoPageFacts

-----------------------------------------------------------------------------
(* The theorems. *)

LEMMA PNextIsNext == [PNext]_pvars => [Next]_vars
  BY DEF PNext, pvars, OpenPage, PageNotFound, ReadNext

LEMMA PInitInv == PInit => PInv
<1> SUFFICES ASSUME PInit PROVE PInv
  OBVIOUS
<1>1. IInv /\ AiInv
  BY InitInv DEF PInit, Init, AiInv
<1>2. ViewInv /\ ShownInv /\ AheadInv /\ PageIsExplained
  BY DEF PInit, ViewInv, ShownInv, AheadInv, PageIsExplained, IsShown
<1> QED BY <1>1, <1>2 DEF PInv

LEMMA PInvStep == PInv /\ [PNext]_pvars => PInv'
<1> SUFFICES ASSUME PInv, [PNext]_pvars PROVE PInv'
  OBVIOUS
<1>1. [Next]_vars
  BY PNextIsNext
<1>2. IInv' /\ AiInv'
  BY <1>1, InvStep, AiInvStep DEF PInv
<1>3. ASSUME UNCHANGED <<view, shown>> PROVE ViewInv' /\ ShownInv' /\ AheadInv' /\ PageIsExplained'
  BY <1>1, <1>3, ServiceStep
<1>4. ASSUME NEW a \in Alerts, OpenPage(a) PROVE ViewInv' /\ ShownInv' /\ AheadInv' /\ PageIsExplained'
  BY <1>4, OpenStep
<1>5. ASSUME PageNotFound PROVE ViewInv' /\ ShownInv' /\ AheadInv' /\ PageIsExplained'
  BY <1>5, ClosedStep DEF PageNotFound
<1>6. ASSUME ReadNext PROVE ViewInv' /\ ShownInv' /\ AheadInv' /\ PageIsExplained'
  BY <1>6, ReadStep
<1>7. ViewInv' /\ ShownInv' /\ AheadInv' /\ PageIsExplained'
  BY <1>3, <1>4, <1>5, <1>6 DEF PNext, pvars
<1> QED BY <1>2, <1>7 DEF PInv

\* The invariant of the page next to the service's own.
THEOREM PageInvariance == PSpec => []PInv
  BY PInitInv, PInvStep, PTL DEF PSpec

\* alert_detail reads the alert before its decisions and its trail, so whatever
\* happens in between, the page has what explains the status and the advisory.
THEOREM PageExplainsItself == PSpec => []PageIsExplained
<1>1. PInv => PageIsExplained
  BY DEF PInv
<1> QED BY PageInvariance, <1>1, PTL

\* A page that replaces one of the same alert has all of its decisions, its trail
\* as a prefix, and the advisory it showed.
THEOREM PagesNeverTakeBack == PSpec => PagesOnlyGrow
<1> DEFINE Grows ==
      (IsShown /\ shown' # shown /\ shown'.id = shown.id) =>
        /\ ToSet(shown.decisions) \subseteq ToSet(shown'.decisions)
        /\ IsPrefix(shown.trail, shown'.trail)
        /\ (shown.ai # "pending" => shown'.ai = shown.ai)
<1>1. ASSUME PInv, [PNext]_pvars, IsShown, shown' # shown, shown'.id = shown.id
      PROVE  /\ ToSet(shown.decisions) \subseteq ToSet(shown'.decisions)
             /\ IsPrefix(shown.trail, shown'.trail)
             /\ (shown.ai # "pending" => shown'.ai = shown.ai)
  <2>1. ReadNext
    BY <1>1 DEF PNext, pvars, OpenPage, PageNotFound
  <2>2. /\ view \in Page /\ view # NoPage /\ view.id \in Alerts /\ view.step = 3
        /\ shown' = [step |-> 3, id |-> view.id, status |-> view.status, ai |-> view.ai,
                     decisions |-> view.decisions, trail |-> audit_history(view.id)]
    BY <1>1, <2>1, ReadCases
  <2>3. /\ view.id = shown.id /\ shown'.ai = view.ai /\ shown'.decisions = view.decisions
        /\ shown'.trail = audit_history(shown.id)
    BY <1>1, <2>2
  <2>4. /\ ToSet(shown.decisions) \subseteq ToSet(view.decisions)
        /\ (shown.ai # "pending" => view.ai = shown.ai)
    BY <1>1, <2>2, <2>3 DEF PInv, AheadInv
  <2>5. shown \in Page /\ Prefix(shown.trail, audit_history(shown.id))
    BY <1>1 DEF PInv, ShownInv
  <2>6. shown.trail \in Seq(Event) /\ audit_history(shown.id) \in Seq(Event)
    BY <1>1, <2>2, <2>3, <2>5, AuditHistory DEF PInv, IInv, Page
  <2>7. IsPrefix(shown.trail, shown'.trail)
    BY <2>3, <2>5, <2>6, PrefixIsPrefix
  <2> QED BY <2>3, <2>4, <2>7
<1>2. PInv /\ [PNext]_pvars => [Grows]_pvars
  BY <1>1
<1> HIDE DEF Grows
<1>3. PSpec => [][Grows]_pvars
  BY PageInvariance, <1>2, PTL DEF PSpec
<1> QED BY <1>3 DEF PagesOnlyGrow, Grows
=============================================================================
