------------------------- MODULE AlertService_proof -------------------------
(***************************************************************************)
(* Proofs about AlertService, for any sets of alerts, requests and         *)
(* decisions and any number of faults.                                     *)
(***************************************************************************)
EXTENDS AlertService, SequenceTheorems, TLAPS

\* The rows and events a request or an alert has left.
Committed(r, a) ==
  \E k \in 1..Len(decisions) : decisions[k].by = r /\ decisions[k].alert = a
Created(a) ==
  \E j \in 1..Len(audit) : audit[j].kind = "alert_created" /\ audit[j].alert = a

\* d is the decision of a row for a among the first n of the table D.
Decided(D, n, a, d) == \E j \in 1..n : D[j].alert = a /\ D[j].decision = d

\* Where a run of the pipeline is tells what it has stored: its alert, a pending
\* advisory, the event of the creation.
PipeInv ==
  \A a \in Alerts :
    /\ pipe[a] = "insert" => a \notin DOMAIN alerts
    /\ pipe[a] \notin {"insert", "failed", "lost"} => a \in DOMAIN alerts
    /\ (a \in DOMAIN alerts /\ pipe[a] \in PipeRunning \ {"audit_outcome"})
          => alerts[a].ai = "pending"
    /\ pipe[a] \in PipeRunning \ {"insert", "audit_created"} => Created(a)

\* Where a handler is tells what it has committed and audited.
ReqInv ==
  \A r \in Requests :
    /\ req[r].pc # "idle" => req[r].alert \in Alerts /\ req[r].decision \in Decisions
    /\ req[r].pc \in {"record", "audit", "anchor"} => req[r].alert \in DOMAIN alerts
    /\ req[r].pc \in {"audit", "anchor", "done"} => Committed(r, req[r].alert)
    /\ req[r].pc \in {"anchor", "done"} => Audited(r)
    /\ req[r].pc \in {"idle", "get", "record", "audit"} => ~Audited(r)
    /\ r \in cli => req[r].pc # "idle" /\ Committed(r, req[r].alert) /\ Audited(r)

\* WasStatus, of any table D.
Was(D, a, d, n) ==
  \/ /\ d = "open"
     /\ \A i \in 1..n : D[i].alert # a
  \/ \E j \in 1..n :
       /\ D[j].alert = a /\ D[j].decision = d
       /\ \A i \in (j + 1)..n : D[i].alert # a

\* d was the status of a after the first n rows of D, for some n from m to l.
WasWithin(D, a, d, m, l) == \E n \in m..l : Was(D, a, d, n)

\* So it is just before a row of r.
WasBefore(D, r, a, d, m) ==
  \E k \in 1..Len(D) : D[k].by = r /\ WasWithin(D, a, d, m, k - 1)

\* The status is that of the rows committed so far, and what a handler has read
\* was so, after its submission and before its own commit.
StatusInv ==
  /\ \A a \in DOMAIN alerts : Was(decisions, a, alerts[a].status, Len(decisions))
  /\ \A r \in Requests :
       /\ req[r].pc = "get" => req[r].since <= Len(decisions)
       /\ req[r].pc = "record" =>
            WasWithin(decisions, req[r].alert, req[r].previous_status, req[r].since, Len(decisions))
       /\ req[r].pc = "audit" =>
            WasBefore(decisions, r, req[r].alert, req[r].previous_status, req[r].since)

\* The three events of a pipeline, in their order, as far as it has got.
PipelineKinds == EventKind \ {"investigator_decision"}
Sequenced(a, n) ==
  \E i, j, k \in 1..Len(audit) :
    /\ EventsOf(a, PipelineKinds) =
         IF n = 1 THEN {i} ELSE IF n = 2 THEN {i, j} ELSE {i, j, k}
    /\ audit[i].kind = "alert_created"
    /\ n >= 2 => i < j /\ audit[j].kind = "ai_advisory_requested"
    /\ n >= 3 => j < k /\ audit[k].kind = OutcomeKind(alerts[a].ai)

\* What there is as long as nothing has failed.
FaultFreePipe(a) ==
  /\ pipe[a] \notin {"unsettled", "failed", "lost"}
  /\ pipe[a] \in {"set_ai_status", "audit_outcome", "done"} => advice[a] # "pending"
  /\ pipe[a] \in {"audit_outcome", "done"} => alerts[a].ai = advice[a]
  /\ pipe[a] \in {"insert", "audit_created"} => EventsOf(a, PipelineKinds) = {}
  /\ pipe[a] = "audit_requested" => Sequenced(a, 1)
  /\ pipe[a] \in {"investigate", "set_ai_status", "audit_outcome"} => Sequenced(a, 2)
  /\ pipe[a] = "done" => Sequenced(a, 3)

FaultFreeInv ==
  faults = 0 =>
    /\ \A a \in Alerts : FaultFreePipe(a)
    /\ \A r \in Requests : req[r].pc \notin {"error", "dropped"}
    /\ \A k \in 1..Len(decisions) :
         Audited(decisions[k].by) \/ req[decisions[k].by].pc = "audit"

IInv ==
  /\ TypeOK
  /\ PipeInv /\ ReqInv /\ StatusInv
  /\ StatusIsLatestCommit /\ AuditedIsCommitted /\ PreviousStatusWasReal
  /\ AnchorIsAudited /\ AuditIsOrdered
  /\ FaultFreeInv

-----------------------------------------------------------------------------

\* What Append does to a table or a log.
LEMMA AppendFacts ==
  ASSUME NEW S, NEW s \in Seq(S), NEW e \in S
  PROVE  /\ Append(s, e) \in Seq(S)
         /\ Len(s) \in Nat /\ Len(Append(s, e)) = Len(s) + 1
         /\ Append(s, e)[Len(s) + 1] = e
         /\ \A i \in 1..Len(s) : Append(s, e)[i] = s[i]
  OBVIOUS

\* The events of the log are well-formed.
LEMMA EventTypes ==
  ASSUME TypeOK, ReqInv
  PROVE  /\ \A a \in Alerts, kind \in EventKind : PipelineEvent(kind, a) \in Event
         /\ \A a \in Alerts : PipelineEvent(OutcomeKind(advice[a]), a) \in Event
         /\ \A r \in Requests : req[r].pc # "idle" => DecisionEvent(r) \in Event
<1>1. \A a \in Alerts, kind \in EventKind : PipelineEvent(kind, a) \in Event
  BY DEF PipelineEvent, Event, AlertStatus
<1>2. \A a \in Alerts : OutcomeKind(advice[a]) \in EventKind
  BY DEF OutcomeKind, EventKind
<1>3. ASSUME NEW r \in Requests, req[r].pc # "idle" PROVE DecisionEvent(r) \in Event
  BY <1>3 DEF TypeOK, Handler, ReqInv, DecisionEvent, Event, EventKind
<1> QED BY <1>1, <1>2, <1>3

LEMMA InitInv == Init => IInv
<1> SUFFICES ASSUME Init PROVE IInv
  OBVIOUS
<1>1. TypeOK
  <2>1. decisions \in Seq(Row) /\ audit \in Seq(Event)
    BY DEF Init
  <2>2. alerts \in [DOMAIN alerts -> [status : AlertStatus, ai : AiAdvisoryStatus]]
        /\ DOMAIN alerts = {}
    BY DEF Init
  <2>3. anchors \in [DOMAIN anchors -> Requests] /\ DOMAIN anchors = {}
    BY DEF Init
  <2>4. req \in [Requests -> Handler]
    BY DEF Init, Handler, AllDecisions, AlertStatus
  <2>5. pipe \in [Alerts -> PipeRunning \cup PipeEnded] /\ advice \in [Alerts -> AiAdvisoryStatus]
    BY DEF Init, PipeRunning, AiAdvisoryStatus
  <2>6. cli \subseteq Requests /\ clock \in Nat /\ faults \in 0..MaxFaults
    BY FaultsAssumption DEF Init
  <2>7. admin \in BOOLEAN
    BY DEF Init
  <2> QED BY <2>1, <2>2, <2>3, <2>4, <2>5, <2>6, <2>7 DEF TypeOK
<1>2. PipeInv
  BY DEF Init, PipeInv
<1>3. ReqInv
  BY DEF Init, ReqInv, Audited
<1>4. StatusInv /\ StatusIsLatestCommit
  BY DEF Init, StatusInv, StatusIsLatestCommit
<1>5. AuditedIsCommitted /\ PreviousStatusWasReal /\ AnchorIsAudited /\ AuditIsOrdered
  BY DEF Init, AuditedIsCommitted, PreviousStatusWasReal, AnchorIsAudited, AuditIsOrdered
<1>6. FaultFreeInv
  BY DEF Init, FaultFreeInv, FaultFreePipe, EventsOf
<1> QED BY <1>1, <1>2, <1>3, <1>4, <1>5, <1>6 DEF IInv

LEMMA TypeStep == TypeOK /\ PipeInv /\ ReqInv /\ [Next]_vars => TypeOK'
<1> SUFFICES ASSUME TypeOK, PipeInv, ReqInv, [Next]_vars PROVE TypeOK'
  OBVIOUS
<1> USE FaultsAssumption DEF TypeOK, chain, PipeGoto, ReqGoto, Fault
<1>1. ASSUME NEW a \in Alerts, InsertAlert(a) PROVE TypeOK'
  BY <1>1 DEF InsertAlert, With, PipeRunning, AiAdvisoryStatus, AlertStatus
<1>2. ASSUME NEW a \in Alerts, AuditCreated(a) PROVE TypeOK'
  <2>1. audit' \in Seq(Event)
    BY <1>2, EventTypes, AppendFacts DEF AuditCreated, EventKind
  <2> QED BY <1>2, <2>1 DEF AuditCreated, PipeRunning
<1>3. ASSUME NEW a \in Alerts, AuditRequested(a) PROVE TypeOK'
  <2>1. audit' \in Seq(Event)
    BY <1>3, EventTypes, AppendFacts DEF AuditRequested, EventKind
  <2> QED BY <1>3, <2>1 DEF AuditRequested, PipeRunning
<1>4. ASSUME NEW a \in Alerts, Investigate(a) PROVE TypeOK'
  BY <1>4 DEF Investigate, PipeRunning, AiAdvisoryStatus
<1>5. ASSUME NEW a \in Alerts, SetAiStatus(a) PROVE TypeOK'
  BY <1>5 DEF SetAiStatus, PipeRunning
<1>6. ASSUME NEW a \in Alerts, AuditOutcome(a) PROVE TypeOK'
  <2>1. audit' \in Seq(Event)
    BY <1>6, EventTypes, AppendFacts DEF AuditOutcome
  <2> QED BY <1>6, <2>1 DEF AuditOutcome, PipeEnded
<1>7. ASSUME NEW a \in Alerts, PipeError(a) \/ PipeDropped(a) PROVE TypeOK'
  BY <1>7 DEF PipeError, PipeDropped, PipeRunning, PipeEnded
<1>8. ASSUME NEW r \in Requests, NEW a \in Alerts, NEW d \in Decisions, Submit(r, a, d)
      PROVE  TypeOK'
  <2>1. Len(decisions) \in Nat
    OBVIOUS
  <2>h. req[r] \in Handler /\ d \in AllDecisions
    BY DecisionsAssumption
  <2>n. [req[r] EXCEPT !.pc = "get", !.alert = a, !.decision = d, !.since = Len(decisions)]
          \in Handler
    BY <2>1, <2>h DEF Handler, ReqRunning
  <2>2. req' \in [Requests -> Handler]
    BY <1>8, <2>n DEF Submit
  <2> QED BY <1>8, <2>2 DEF Submit
<1>9. ASSUME NEW r \in Requests, GetAlert(r) PROVE TypeOK'
  <2>1. alerts[req[r].alert].status \in AlertStatus /\ clock + 1 \in Nat
    BY <1>9 DEF GetAlert
  <2>2. req' \in [Requests -> Handler]
    <3>1. req[r] \in Handler
      OBVIOUS
    <3>2. [req[r] EXCEPT !.pc = "record", !.created_at = clock + 1,
                         !.previous_status = alerts[req[r].alert].status] \in Handler
      BY <2>1, <3>1 DEF Handler, ReqRunning
    <3> QED BY <1>9, <3>2 DEF GetAlert
  <2> QED BY <1>9, <2>2 DEF GetAlert
<1>10. ASSUME NEW r \in Requests, AlertNotFound(r) PROVE TypeOK'
  <2>1. req' \in [Requests -> Handler]
    <3>1. [req[r] EXCEPT !.pc = "not_found"] \in Handler
      BY DEF Handler, ReqEnded
    <3> QED BY <1>10, <3>1 DEF AlertNotFound
  <2> QED BY <1>10, <2>1 DEF AlertNotFound
<1>11. ASSUME NEW r \in Requests, RecordDecision(r) PROVE TypeOK'
  <2>1. decisions' \in Seq(Row)
    BY <1>11, AppendFacts DEF RecordDecision, Row, ReqInv, Handler
  <2>2. DOMAIN alerts' = DOMAIN alerts
        /\ alerts' \in [DOMAIN alerts -> [status : AlertStatus, ai : AiAdvisoryStatus]]
    BY <1>11 DEF RecordDecision, ReqInv, Handler, AlertStatus
  <2>3. req' \in [Requests -> Handler]
    BY <1>11 DEF RecordDecision, Handler, ReqRunning
  <2> QED BY <1>11, <2>1, <2>2, <2>3 DEF RecordDecision
<1>12. ASSUME NEW r \in Requests, AuditDecision(r) PROVE TypeOK'
  <2>1. audit' \in Seq(Event)
    BY <1>12, EventTypes, AppendFacts DEF AuditDecision
  <2> QED BY <1>12, <2>1 DEF AuditDecision, Handler, ReqRunning
<1>13. CASE initialize
  BY <1>13 DEF initialize
<1>14. ASSUME NEW r \in Requests, CliLands(r) PROVE TypeOK'
  BY <1>14 DEF CliLands, With, ReqInv
<1>15. ASSUME NEW r \in Requests, CliRefused(r) \/ CliFails(r) PROVE TypeOK'
  BY <1>15 DEF CliRefused, CliFails
<1>16. ASSUME NEW r \in Requests, Respond(r) \/ ReqError(r) \/ ReqDropped(r) PROVE TypeOK'
  <2>1. req' \in [Requests -> Handler]
    <3>1. PICK l \in {"done", "error", "dropped"} : req' = [req EXCEPT ![r].pc = l]
      BY <1>16 DEF Respond, ReqError, ReqDropped
    <3> QED BY <3>1 DEF Handler, ReqEnded
  <2>2. faults' \in 0..MaxFaults
    BY <1>16 DEF Respond, ReqError, ReqDropped
  <2> QED BY <1>16, <2>1, <2>2 DEF Respond, ReqError, ReqDropped
<1>17. CASE Crash
  <2>1. pipe' \in [Alerts -> PipeRunning \cup PipeEnded]
    BY <1>17 DEF Crash, PipeEnded
  <2>2. req' \in [Requests -> Handler]
    <3>1. ASSUME NEW h \in Handler PROVE [h EXCEPT !.pc = "dropped"] \in Handler
      BY DEF Handler, ReqEnded
    <3>2. \A r \in Requests : req[r] \in Handler
      OBVIOUS
    <3> QED BY <1>17, <3>1, <3>2 DEF Crash
  <2> QED BY <1>17, <2>1, <2>2 DEF Crash
<1>18. CASE UNCHANGED vars
  BY <1>18 DEF vars
<1> QED
  BY <1>1, <1>2, <1>3, <1>4, <1>5, <1>6, <1>7, <1>8, <1>9, <1>10, <1>11, <1>12, <1>13, <1>14,
     <1>15, <1>16, <1>17, <1>18 DEF Next, PipeStep, ReqStep

-----------------------------------------------------------------------------
(* Which steps change the log, the decisions and the alerts, and how. *)

Prefix(s, t) ==
  /\ Len(s) \in Nat /\ Len(t) \in Nat /\ Len(s) <= Len(t)
  /\ \A i \in 1..Len(s) : t[i] = s[i]

\* t is s with e at the end.
Longer(s, t, e) == Prefix(s, t) /\ Len(t) = Len(s) + 1 /\ t[Len(t)] = e

NewRow(r) ==
  [by |-> r, alert |-> req[r].alert, decision |-> req[r].decision, created_at |-> req[r].created_at]

LEMMA PrefixReflexive == ASSUME NEW S, NEW s \in Seq(S) PROVE Prefix(s, s)
  BY DEF Prefix

LEMMA LongerByAppend == ASSUME NEW S, NEW s \in Seq(S), NEW e \in S PROVE Longer(s, Append(s, e), e)
  BY AppendFacts DEF Longer, Prefix

LEMMA LongerFacts ==
  ASSUME NEW s, NEW t, NEW e, Longer(s, t, e)
  PROVE  /\ Len(s) \in Nat /\ Len(t) = Len(s) + 1 /\ t[Len(s) + 1] = e
         /\ \A i \in 1..Len(s) : i \in 1..Len(t) /\ t[i] = s[i]
         /\ \A i \in 1..Len(t) : (i = Len(s) + 1 /\ t[i] = e) \/ (i \in 1..Len(s) /\ t[i] = s[i])
  BY DEF Longer, Prefix

LEMMA AuditChange ==
  ASSUME TypeOK, PipeInv, ReqInv, [Next]_vars
  PROVE  \/ audit' = audit
         \/ \E a \in Alerts, kind \in PipelineKinds :
              /\ Longer(audit, audit', PipelineEvent(kind, a))
              /\ kind = "alert_created" \/ Created(a)
              /\ AuditCreated(a) \/ AuditRequested(a) \/ AuditOutcome(a)
         \/ \E r \in Requests : AuditDecision(r) /\ Longer(audit, audit', DecisionEvent(r))
<1>0. audit \in Seq(Event)
  BY DEF TypeOK
<1>1. ASSUME NEW a \in Alerts, AuditCreated(a)
      PROVE  Longer(audit, audit', PipelineEvent("alert_created", a))
  BY <1>0, <1>1, EventTypes, LongerByAppend DEF AuditCreated, EventKind
<1>2. ASSUME NEW a \in Alerts, AuditRequested(a)
      PROVE  Longer(audit, audit', PipelineEvent("ai_advisory_requested", a)) /\ Created(a)
  BY <1>0, <1>2, EventTypes, LongerByAppend DEF AuditRequested, EventKind, PipeInv, PipeRunning
<1>3. ASSUME NEW a \in Alerts, AuditOutcome(a)
      PROVE  Longer(audit, audit', PipelineEvent(OutcomeKind(advice[a]), a)) /\ Created(a)
  BY <1>0, <1>3, EventTypes, LongerByAppend DEF AuditOutcome, PipeInv, PipeRunning
<1>4. ASSUME NEW r \in Requests, AuditDecision(r)
      PROVE  Longer(audit, audit', DecisionEvent(r))
  BY <1>0, <1>4, EventTypes, LongerByAppend DEF AuditDecision
<1>5. ASSUME \A a \in Alerts : ~AuditCreated(a) /\ ~AuditRequested(a) /\ ~AuditOutcome(a),
             \A r \in Requests : ~AuditDecision(r)
      PROVE  audit' = audit
  BY <1>5 DEF Next, vars, PipeStep, ReqStep, InsertAlert, Investigate, SetAiStatus, PipeError,
              PipeDropped, Submit, GetAlert, AlertNotFound, RecordDecision, initialize, CliLands,
              CliRefused, CliFails, Respond, ReqError, ReqDropped, Crash
<1>6. \A a \in Alerts : OutcomeKind(advice[a]) \in PipelineKinds
  BY DEF OutcomeKind, PipelineKinds, EventKind
<1>7. {"alert_created", "ai_advisory_requested"} \subseteq PipelineKinds
  BY DEF PipelineKinds, EventKind
<1> QED BY <1>1, <1>2, <1>3, <1>4, <1>5, <1>6, <1>7

LEMMA DecisionsChange ==
  ASSUME TypeOK, ReqInv, [Next]_vars
  PROVE  \/ decisions' = decisions
         \/ \E r \in Requests : RecordDecision(r) /\ Longer(decisions, decisions', NewRow(r))
<1>0. decisions \in Seq(Row)
  BY DEF TypeOK
<1>1. ASSUME NEW r \in Requests, RecordDecision(r) PROVE Longer(decisions, decisions', NewRow(r))
  <2>1. NewRow(r) \in Row
    BY <1>1 DEF RecordDecision, NewRow, Row, ReqInv, TypeOK, Handler
  <2> QED BY <1>0, <1>1, <2>1, LongerByAppend DEF RecordDecision, NewRow
<1>2. ASSUME \A r \in Requests : ~RecordDecision(r) PROVE decisions' = decisions
  BY <1>2 DEF Next, vars, PipeStep, ReqStep, InsertAlert, AuditCreated, AuditRequested, Investigate,
              SetAiStatus, AuditOutcome, PipeError, PipeDropped, Submit, GetAlert, AlertNotFound,
              AuditDecision, initialize, CliLands, CliRefused, CliFails, Respond, ReqError,
              ReqDropped, Crash
<1> QED BY <1>1, <1>2

\* Decisions and audit events stay.
LEMMA LogsGrow ==
  ASSUME TypeOK, PipeInv, ReqInv, [Next]_vars
  PROVE  Prefix(decisions, decisions') /\ Prefix(audit, audit')
<1>1. Prefix(decisions, decisions) /\ Prefix(audit, audit)
  BY PrefixReflexive DEF TypeOK
<1> QED BY <1>1, AuditChange, DecisionsChange DEF Longer

LEMMA FactsStay ==
  ASSUME Prefix(decisions, decisions'), Prefix(audit, audit')
  PROVE  /\ \A r \in Requests, a \in Alerts : Committed(r, a) => Committed(r, a)'
         /\ \A r \in Requests : Audited(r) => Audited(r)'
         /\ \A a \in Alerts : Created(a) => Created(a)'
         /\ \A n \in 0..Len(decisions) : \A a, d :
              Decided(decisions, n, a, d) =>
                Decided(decisions', n, a, d) /\ Decided(decisions', Len(decisions'), a, d)
<1>1. \A r \in Requests, a \in Alerts : Committed(r, a) => Committed(r, a)'
  BY DEF Prefix, Committed
<1>2. /\ \A r \in Requests : Audited(r) => Audited(r)'
      /\ \A a \in Alerts : Created(a) => Created(a)'
  BY DEF Prefix, Audited, Created
<1>3. ASSUME NEW n \in 0..Len(decisions), NEW a, NEW d, Decided(decisions, n, a, d)
      PROVE  Decided(decisions', n, a, d) /\ Decided(decisions', Len(decisions'), a, d)
  BY <1>3 DEF Prefix, Decided
<1> QED BY <1>1, <1>2, <1>3

-----------------------------------------------------------------------------
(* The steps preserve the parts of the invariant. *)

LEMMA PipeInvStep == TypeOK /\ PipeInv /\ ReqInv /\ [Next]_vars => PipeInv'
<1> SUFFICES ASSUME TypeOK, PipeInv, ReqInv, [Next]_vars PROVE PipeInv'
  OBVIOUS
<1>0. \A a \in Alerts : Created(a) => Created(a)'
  BY LogsGrow, FactsStay
<1> USE <1>0 DEF TypeOK, PipeInv, PipeRunning, PipeGoto, chain
<1>1. ASSUME NEW a \in Alerts, InsertAlert(a) PROVE PipeInv'
  BY <1>1 DEF InsertAlert, With
<1>2. ASSUME NEW a \in Alerts, AuditCreated(a) PROVE PipeInv'
  <2>1. Created(a)'
    <3>1. PipelineEvent("alert_created", a) \in Event
      BY EventTypes DEF EventKind
    <3>2. Longer(audit, audit', PipelineEvent("alert_created", a))
      BY <1>2, <3>1, LongerByAppend DEF AuditCreated
    <3> QED BY <3>2 DEF Longer, Prefix, Created, PipelineEvent
  <2> QED BY <1>2, <2>1 DEF AuditCreated
<1>3. ASSUME NEW a \in Alerts, AuditRequested(a) PROVE PipeInv'
  BY <1>3 DEF AuditRequested
<1>4. ASSUME NEW a \in Alerts, Investigate(a) PROVE PipeInv'
  BY <1>4 DEF Investigate
<1>5. ASSUME NEW a \in Alerts, SetAiStatus(a) PROVE PipeInv'
  BY <1>5 DEF SetAiStatus
<1>6. ASSUME NEW a \in Alerts, AuditOutcome(a) PROVE PipeInv'
  BY <1>6 DEF AuditOutcome
<1>7. ASSUME NEW a \in Alerts, PipeError(a) \/ PipeDropped(a) PROVE PipeInv'
  BY <1>7 DEF PipeError, PipeDropped
<1>8. ASSUME NEW r \in Requests, RecordDecision(r) PROVE PipeInv'
  BY <1>8 DEF RecordDecision, ReqInv
<1>9. CASE Crash
  BY <1>9 DEF Crash
<1>10. ASSUME UNCHANGED <<alerts, pipe>> PROVE PipeInv'
  BY <1>10
<1> QED
  BY <1>1, <1>2, <1>3, <1>4, <1>5, <1>6, <1>7, <1>8, <1>9, <1>10
     DEF Next, vars, PipeStep, ReqStep, Submit, GetAlert, AlertNotFound, AuditDecision, initialize,
         CliLands, CliRefused, CliFails, Respond, ReqError, ReqDropped

\* A decision's event is written by its own handler.
LEMMA OnlyOwnAudit ==
  ASSUME TypeOK, PipeInv, ReqInv, [Next]_vars, NEW r \in Requests, Audited(r)', ~Audited(r)
  PROVE  AuditDecision(r)
<1>1. CASE audit' = audit
  BY <1>1 DEF Audited
<1>2. ASSUME NEW a \in Alerts, NEW kind \in PipelineKinds,
             Longer(audit, audit', PipelineEvent(kind, a))
      PROVE  FALSE
  BY <1>2 DEF Longer, Prefix, Audited, PipelineEvent, PipelineKinds
<1>3. ASSUME NEW q \in Requests, AuditDecision(q), Longer(audit, audit', DecisionEvent(q))
      PROVE  q = r
  BY <1>3 DEF Longer, Prefix, Audited, DecisionEvent
<1> QED BY <1>1, <1>2, <1>3, AuditChange

LEMMA ReqInvStep == TypeOK /\ PipeInv /\ ReqInv /\ [Next]_vars => ReqInv'
<1> SUFFICES ASSUME TypeOK, PipeInv, ReqInv, [Next]_vars PROVE ReqInv'
  OBVIOUS
<1>0. /\ \A r \in Requests, a \in Alerts : Committed(r, a) => Committed(r, a)'
      /\ \A r \in Requests : Audited(r) => Audited(r)'
  BY LogsGrow, FactsStay
<1>u. \A r \in Requests : Audited(r)' => Audited(r) \/ AuditDecision(r)
  BY OnlyOwnAudit
<1>v. ASSUME audit' = audit PROVE \A r \in Requests : Audited(r)' = Audited(r)
  BY <1>v DEF Audited
<1>r. ASSUME NEW r \in Requests, RecordDecision(r)
      PROVE  \E k \in 1..Len(decisions') : decisions'[k].by = r /\ decisions'[k].alert = req[r].alert
  <2>1. NewRow(r) \in Row
    BY <1>r DEF RecordDecision, NewRow, Row, ReqInv, TypeOK, Handler
  <2>2. Longer(decisions, decisions', NewRow(r))
    BY <1>r, <2>1, LongerByAppend DEF RecordDecision, NewRow, TypeOK
  <2> QED BY <2>2 DEF Longer, Prefix, NewRow
<1>d. ASSUME NEW r \in Requests, AuditDecision(r) PROVE Audited(r)'
  <2>1. DecisionEvent(r) \in Event
    BY <1>d, EventTypes DEF AuditDecision
  <2>2. Longer(audit, audit', DecisionEvent(r))
    BY <1>d, <2>1, LongerByAppend DEF AuditDecision, TypeOK
  <2> QED BY <2>2 DEF Longer, Prefix, Audited, DecisionEvent
<1> USE <1>0 DEF TypeOK, ReqInv, ReqGoto, Handler, chain
<1>1. ASSUME NEW a \in Alerts, InsertAlert(a) PROVE ReqInv'
  BY <1>1, <1>v DEF InsertAlert, With
<1>2. ASSUME NEW a \in Alerts, AuditCreated(a) \/ AuditRequested(a) \/ AuditOutcome(a)
      PROVE  ReqInv'
  <2>1. UNCHANGED <<alerts, req, cli>>
    BY <1>2 DEF AuditCreated, AuditRequested, AuditOutcome
  <2>2. \A r \in Requests : ~AuditDecision(r)
    BY <2>1 DEF AuditDecision
  <2> QED BY <1>u, <2>1, <2>2
<1>3. ASSUME NEW a \in Alerts, SetAiStatus(a) PROVE ReqInv'
  BY <1>3, <1>v DEF SetAiStatus
<1>4. ASSUME NEW r \in Requests, NEW a \in Alerts, NEW d \in Decisions, Submit(r, a, d)
      PROVE  ReqInv'
  BY <1>4, <1>v DEF Submit
<1>5. ASSUME NEW r \in Requests, GetAlert(r) PROVE ReqInv'
  BY <1>5, <1>v DEF GetAlert
<1>6. ASSUME NEW r \in Requests, AlertNotFound(r) PROVE ReqInv'
  BY <1>6, <1>v DEF AlertNotFound
<1>7. ASSUME NEW r \in Requests, RecordDecision(r) PROVE ReqInv'
  <2>4. req' = [req EXCEPT ![r].pc = "audit"] /\ req[r].pc = "record" /\ UNCHANGED <<audit, cli>>
    BY <1>7 DEF RecordDecision
  <2>5. DOMAIN alerts' = DOMAIN alerts
    BY <1>7 DEF RecordDecision
  <2>6. \A q \in Requests : Audited(q)' = Audited(q)
    BY <2>4 DEF Audited
  <2>7. Committed(r, req[r].alert)'
    BY <1>7, <1>r, <2>4 DEF Committed
  <2> QED BY <2>4, <2>5, <2>6, <2>7
<1>8. ASSUME NEW r \in Requests, AuditDecision(r) PROVE ReqInv'
  <2>3. Audited(r)'
    BY <1>8, <1>d
  <2>4. req' = [req EXCEPT ![r].pc = "anchor"] /\ req[r].pc = "audit" /\ UNCHANGED alerts
        /\ cli' = cli \cup {r}
    BY <1>8 DEF AuditDecision
  <2>5. \A q \in Requests : Audited(q)' => Audited(q) \/ q = r
    <3>1. ASSUME NEW q \in Requests, AuditDecision(q) PROVE q = r
      BY <1>8, <3>1, <2>4 DEF AuditDecision
    <3> QED BY <1>u, <3>1
  <2> QED BY <2>3, <2>4, <2>5
<1>9. ASSUME NEW r \in Requests, CliLands(r) \/ CliRefused(r) \/ CliFails(r) PROVE ReqInv'
  BY <1>9, <1>v DEF CliLands, CliRefused, CliFails
<1>10. ASSUME NEW r \in Requests, Respond(r) \/ ReqError(r) \/ ReqDropped(r) PROVE ReqInv'
  <2>1. PICK l \in {"done", "error", "dropped"} :
          req' = [req EXCEPT ![r].pc = l] /\ (l = "done" => req[r].pc = "anchor")
          /\ req[r].pc # "idle"
    BY <1>10 DEF Respond, ReqError, ReqDropped, ReqRunning
  <2>2. UNCHANGED <<alerts, audit, cli>>
    BY <1>10 DEF Respond, ReqError, ReqDropped
  <2>3. \A q \in Requests : Audited(q)' = Audited(q)
    BY <2>2 DEF Audited
  <2> QED BY <2>1, <2>2, <2>3
<1>11. CASE Crash
  BY <1>11, <1>v DEF Crash, ReqRunning
<1>12. ASSUME UNCHANGED <<alerts, req, cli, audit>> PROVE ReqInv'
  BY <1>12, <1>v
<1> QED
  BY <1>1, <1>2, <1>3, <1>4, <1>5, <1>6, <1>7, <1>8, <1>9, <1>10, <1>11, <1>12
     DEF Next, vars, PipeStep, ReqStep, Investigate, PipeError, PipeDropped, initialize

\* The last row of the decisions after a RecordDecision is the new one.
LEMMA NewDecision ==
  ASSUME TypeOK, ReqInv, NEW r \in Requests, RecordDecision(r)
  PROVE  Longer(decisions, decisions', NewRow(r))
<1>1. NewRow(r) \in Row
  BY DEF RecordDecision, NewRow, Row, ReqInv, TypeOK, Handler
<1> QED BY <1>1, LongerByAppend DEF RecordDecision, NewRow, TypeOK

LEMMA StatusCommitStep ==
  TypeOK /\ PipeInv /\ ReqInv /\ StatusIsLatestCommit /\ [Next]_vars => StatusIsLatestCommit'
<1> SUFFICES ASSUME TypeOK, PipeInv, ReqInv, StatusIsLatestCommit, [Next]_vars
             PROVE  StatusIsLatestCommit'
  OBVIOUS
<1>1. ASSUME NEW a \in Alerts, InsertAlert(a) PROVE StatusIsLatestCommit'
  BY <1>1 DEF InsertAlert, With, PipeInv, StatusIsLatestCommit, IsLatest, Undecided, TypeOK
<1>2. ASSUME NEW a \in Alerts, SetAiStatus(a) PROVE StatusIsLatestCommit'
  <2>1. DOMAIN alerts' = DOMAIN alerts /\ \A b \in DOMAIN alerts : alerts'[b].status = alerts[b].status
    BY <1>2 DEF SetAiStatus, PipeInv, TypeOK
  <2>2. decisions' = decisions
    BY <1>2 DEF SetAiStatus
  <2> QED BY <2>1, <2>2 DEF StatusIsLatestCommit, IsLatest, Undecided
<1>3. ASSUME NEW r \in Requests, RecordDecision(r) PROVE StatusIsLatestCommit'
  <2> DEFINE b == req[r].alert
             n == Len(decisions)
  <2>1. b \in DOMAIN alerts
    BY <1>3 DEF RecordDecision, ReqInv
  <2>2. DOMAIN alerts' = DOMAIN alerts /\ alerts'[b].status = req[r].decision
        /\ \A a \in DOMAIN alerts : a # b => alerts'[a].status = alerts[a].status
    BY <1>3, <2>1 DEF RecordDecision, TypeOK
  <2>3. n \in Nat /\ Len(decisions') = n + 1 /\ (\A i \in 1..n : decisions'[i] = decisions[i])
        /\ decisions'[n + 1].alert = b /\ decisions'[n + 1].decision = req[r].decision
    <3>1. Longer(decisions, decisions', NewRow(r))
      BY <1>3, NewDecision
    <3>2. NewRow(r).alert = b /\ NewRow(r).decision = req[r].decision
      BY DEF NewRow
    <3> QED BY <3>1, <3>2, LongerFacts
  <2>4. ASSUME NEW i \in 1..(n + 1)
        PROVE  /\ decisions'[i].alert \in DOMAIN alerts'
               /\ IsLatest(i)' => alerts'[decisions'[i].alert].status = decisions'[i].decision
    <3>1. CASE i = n + 1
      BY <3>1, <2>1, <2>2, <2>3
    <3>2. CASE i \in 1..n
      <4>1. decisions[i].alert \in DOMAIN alerts
        BY <3>2 DEF StatusIsLatestCommit
      <4>2. ASSUME IsLatest(i)' PROVE IsLatest(i) /\ decisions[i].alert # b
        BY <3>2, <4>2, <2>3 DEF IsLatest
      <4> QED BY <3>2, <4>1, <4>2, <2>2, <2>3 DEF StatusIsLatestCommit
    <3> QED BY <3>1, <3>2, <2>3
  <2>5. ASSUME NEW a \in DOMAIN alerts, Undecided(a)' PROVE alerts'[a].status = "open"
    <3>1. a # b /\ Undecided(a)
      BY <2>3, <2>5 DEF Undecided
    <3> QED BY <3>1, <2>2 DEF StatusIsLatestCommit
  <2> QED BY <2>2, <2>3, <2>4, <2>5 DEF StatusIsLatestCommit
<1>4. ASSUME UNCHANGED <<alerts, decisions>> PROVE StatusIsLatestCommit'
  BY <1>4 DEF StatusIsLatestCommit, IsLatest, Undecided
<1> QED
  BY <1>1, <1>2, <1>3, <1>4
     DEF Next, vars, PipeStep, ReqStep, AuditCreated, AuditRequested, Investigate, AuditOutcome,
         PipeError, PipeDropped, Submit, GetAlert, AlertNotFound, AuditDecision, initialize, CliLands,
         CliRefused, CliFails, Respond, ReqError, ReqDropped, Crash

LEMMA AuditedStep ==
  TypeOK /\ PipeInv /\ ReqInv /\ AuditedIsCommitted /\ [Next]_vars => AuditedIsCommitted'
<1> SUFFICES ASSUME TypeOK, PipeInv, ReqInv, AuditedIsCommitted, [Next]_vars
             PROVE  AuditedIsCommitted'
  OBVIOUS
<1>0. Prefix(decisions, decisions')
  BY LogsGrow
<1>c. \A i \in 1..Len(audit) : audit[i].kind = "investigator_decision" =>
        \E k \in 1..Len(decisions') :
          decisions'[k].by = audit[i].by /\ decisions'[k].alert = audit[i].alert
  BY <1>0 DEF AuditedIsCommitted, Prefix
<1>1. CASE audit' = audit
  BY <1>c, <1>1 DEF AuditedIsCommitted
<1>2. ASSUME NEW a \in Alerts, NEW kind \in PipelineKinds,
             Longer(audit, audit', PipelineEvent(kind, a))
      PROVE  AuditedIsCommitted'
  <2>1. PipelineEvent(kind, a).kind # "investigator_decision"
    BY DEF PipelineEvent, PipelineKinds
  <2>2. \A i \in 1..Len(audit') : audit'[i].kind = "investigator_decision" =>
          i \in 1..Len(audit) /\ audit'[i] = audit[i]
    BY <1>2, <2>1, LongerFacts
  <2>3. ASSUME NEW i \in 1..Len(audit'), audit'[i].kind = "investigator_decision"
        PROVE  \E k \in 1..Len(decisions') :
                 decisions'[k].by = audit'[i].by /\ decisions'[k].alert = audit'[i].alert
    <3>1. i \in 1..Len(audit) /\ audit'[i] = audit[i]
      BY <2>2, <2>3
    <3> QED BY <1>c, <2>3, <3>1
  <2>4. ASSUME NEW i \in 1..Len(audit'), NEW j \in 1..Len(audit'),
               audit'[i].kind = "investigator_decision", audit'[i].kind = audit'[j].kind,
               audit'[i].by = audit'[j].by
        PROVE  i = j
    <3>1. i \in 1..Len(audit) /\ audit'[i] = audit[i] /\ j \in 1..Len(audit) /\ audit'[j] = audit[j]
      BY <2>2, <2>4
    <3> QED BY <2>4, <3>1 DEF AuditedIsCommitted
  <2> QED BY <2>3, <2>4 DEF AuditedIsCommitted
<1>3. ASSUME NEW r \in Requests, AuditDecision(r), Longer(audit, audit', DecisionEvent(r))
      PROVE  AuditedIsCommitted'
  <2>1. Committed(r, req[r].alert) /\ ~Audited(r)
    BY <1>3 DEF AuditDecision, ReqInv
  <2>2. DecisionEvent(r).by = r /\ DecisionEvent(r).alert = req[r].alert
    BY DEF DecisionEvent
  <2>3. \A i \in 1..Len(audit') :
          \/ i = Len(audit) + 1 /\ audit'[i] = DecisionEvent(r)
          \/ i \in 1..Len(audit) /\ audit'[i] = audit[i]
    BY <1>3, LongerFacts
  <2>4. \E k \in 1..Len(decisions') : decisions'[k].by = r /\ decisions'[k].alert = req[r].alert
    BY <1>0, <2>1 DEF Prefix, Committed
  <2>5. ASSUME NEW i \in 1..Len(audit'), audit'[i].kind = "investigator_decision"
        PROVE  \E k \in 1..Len(decisions') :
                 decisions'[k].by = audit'[i].by /\ decisions'[k].alert = audit'[i].alert
    <3>1. CASE audit'[i] = DecisionEvent(r)
      BY <3>1, <2>2, <2>4
    <3>2. CASE i \in 1..Len(audit) /\ audit'[i] = audit[i]
      BY <3>2, <1>c, <2>5
    <3> QED BY <2>3, <3>1, <3>2
  <2>6. ASSUME NEW i \in 1..Len(audit'), NEW j \in 1..Len(audit'),
               audit'[i].kind = "investigator_decision", audit'[i].kind = audit'[j].kind,
               audit'[i].by = audit'[j].by
        PROVE  i = j
    <3>1. \A k \in 1..Len(audit) :
            audit[k].kind = "investigator_decision" => audit[k].by # r
      BY <2>1 DEF Audited
    <3>2. CASE i \in 1..Len(audit) /\ j \in 1..Len(audit)
      <4>1. audit'[i] = audit[i] /\ audit'[j] = audit[j]
        BY <3>2, <1>3, LongerFacts
      <4> QED BY <3>2, <4>1, <2>6 DEF AuditedIsCommitted
    <3> QED BY <2>2, <2>3, <2>6, <3>1, <3>2
  <2> QED BY <2>5, <2>6 DEF AuditedIsCommitted
<1> QED BY <1>1, <1>2, <1>3, AuditChange

\* Later rows do not change what the status was.
LEMMA WasStays ==
  ASSUME NEW D, NEW E, Prefix(D, E), NEW a, NEW d
  PROVE  /\ \A n \in 0..Len(D) : Was(D, a, d, n) => Was(E, a, d, n)
         /\ \A m \in Nat, l \in 0..Len(D) : WasWithin(D, a, d, m, l) => WasWithin(E, a, d, m, l)
         /\ \A r : \A m \in Nat : WasBefore(D, r, a, d, m) => WasBefore(E, r, a, d, m)
<1>1. Len(D) \in Nat /\ Len(E) \in Nat /\ Len(D) <= Len(E) /\ \A i \in 1..Len(D) : E[i] = D[i]
  BY DEF Prefix
<1>2. ASSUME NEW n \in 0..Len(D), Was(D, a, d, n) PROVE Was(E, a, d, n)
  <2>1. CASE d = "open" /\ \A i \in 1..n : D[i].alert # a
    <3>1. \A i \in 1..n : E[i] = D[i]
      BY <1>1
    <3> QED BY <2>1, <3>1 DEF Was
  <2>2. CASE \E j \in 1..n : /\ D[j].alert = a /\ D[j].decision = d
                             /\ \A i \in (j + 1)..n : D[i].alert # a
    <3>1. PICK j \in 1..n : /\ D[j].alert = a /\ D[j].decision = d
                            /\ \A i \in (j + 1)..n : D[i].alert # a
      BY <2>2
    <3>2. E[j] = D[j] /\ \A i \in (j + 1)..n : E[i] = D[i]
      BY <1>1
    <3> QED BY <3>1, <3>2 DEF Was
  <2> QED BY <1>2, <2>1, <2>2 DEF Was
<1>3. ASSUME NEW m \in Nat, NEW l \in 0..Len(D), WasWithin(D, a, d, m, l)
      PROVE  WasWithin(E, a, d, m, l)
  <2>1. PICK n \in m..l : Was(D, a, d, n)
    BY <1>3 DEF WasWithin
  <2>2. n \in 0..Len(D)
    BY <1>1
  <2> QED BY <1>2, <2>1, <2>2 DEF WasWithin
<1>4. ASSUME NEW r, NEW m \in Nat, WasBefore(D, r, a, d, m) PROVE WasBefore(E, r, a, d, m)
  <2>1. PICK k \in 1..Len(D) : D[k].by = r /\ WasWithin(D, a, d, m, k - 1)
    BY <1>4 DEF WasBefore
  <2>2. k - 1 \in 0..Len(D) /\ k \in 1..Len(E) /\ E[k] = D[k]
    BY <1>1
  <2> QED BY <1>3, <2>1, <2>2 DEF WasBefore
<1> QED BY <1>2, <1>3, <1>4

LEMMA RealFacts ==
  PreviousStatusWasReal <=>
    \A i \in 1..Len(audit) : audit[i].kind = "investigator_decision" =>
      WasBefore(decisions, audit[i].by, audit[i].alert, audit[i].previous_status,
                req[audit[i].by].since)
<1>1. ASSUME NEW a, NEW d, NEW n PROVE WasStatus(a, d, n) <=> Was(decisions, a, d, n)
  BY DEF WasStatus, Was
<1> QED BY <1>1 DEF PreviousStatusWasReal, WasBefore, WasWithin

\* Once it is submitted, a request keeps what it was when it was submitted.
LEMMA SinceStays ==
  ASSUME TypeOK, [Next]_vars, NEW r \in Requests, req[r].pc # "idle"
  PROVE  req'[r].since = req[r].since
<1> USE DEF TypeOK, Handler, ReqGoto
<1>1. ASSUME NEW q \in Requests, NEW a \in Alerts, NEW d \in Decisions, Submit(q, a, d)
      PROVE  req'[r].since = req[r].since
  BY <1>1 DEF Submit
<1>2. ASSUME NEW q \in Requests,
             GetAlert(q) \/ AlertNotFound(q) \/ RecordDecision(q) \/ AuditDecision(q) \/ Respond(q)
               \/ ReqError(q) \/ ReqDropped(q)
      PROVE  req'[r].since = req[r].since
  <2>1. CASE GetAlert(q)
    BY <2>1 DEF GetAlert
  <2>2. ASSUME NEW l, req' = [req EXCEPT ![q].pc = l] PROVE req'[r].since = req[r].since
    BY <2>2
  <2> QED
    BY <1>2, <2>1, <2>2
       DEF AlertNotFound, RecordDecision, AuditDecision, Respond, ReqError, ReqDropped
<1>3. CASE Crash
  BY <1>3 DEF Crash
<1>4. ASSUME req' = req PROVE req'[r].since = req[r].since
  BY <1>4
<1> HIDE DEF TypeOK, Handler, ReqGoto
<1> QED
  BY <1>1, <1>2, <1>3, <1>4
     DEF Next, vars, PipeStep, ReqStep, InsertAlert, AuditCreated, AuditRequested, Investigate,
         SetAiStatus, AuditOutcome, PipeError, PipeDropped, initialize, CliLands, CliRefused, CliFails

LEMMA PreviousStep ==
  TypeOK /\ PipeInv /\ ReqInv /\ StatusInv /\ PreviousStatusWasReal /\ [Next]_vars
    => PreviousStatusWasReal'
<1> SUFFICES ASSUME TypeOK, PipeInv, ReqInv, StatusInv, PreviousStatusWasReal, [Next]_vars
             PROVE  PreviousStatusWasReal'
  OBVIOUS
<1> DEFINE Real(e) == WasBefore(decisions', e.by, e.alert, e.previous_status, req'[e.by].since)
<1>0. Prefix(decisions, decisions')
  BY LogsGrow
<1>n. \A r \in Requests : req[r].since \in Nat
  BY DEF TypeOK, Handler
<1>r. ASSUME NEW i \in 1..Len(audit), audit[i].kind = "investigator_decision" PROVE Real(audit[i])
  <2> DEFINE r == audit[i].by
  <2>1. WasBefore(decisions, r, audit[i].alert, audit[i].previous_status, req[r].since)
    BY <1>r, RealFacts
  <2>2. r \in Requests
    <3>1. PICK k \in 1..Len(decisions) : decisions[k].by = r
      BY <2>1 DEF WasBefore
    <3>2. decisions[k] \in Row
      BY DEF TypeOK
    <3> QED BY <3>1, <3>2 DEF Row
  <2>3. Audited(r)
    BY <1>r DEF Audited
  <2>4. req[r].pc # "idle"
    BY <2>2, <2>3 DEF ReqInv
  <2>5. req'[r].since = req[r].since
    BY <2>2, <2>4, SinceStays
  <2>6. req[r].since \in Nat
    BY <1>n, <2>2
  <2> HIDE DEF r
  <2>7. WasBefore(decisions', r, audit[i].alert, audit[i].previous_status, req[r].since)
    BY <1>0, <2>1, <2>6, WasStays
  <2> QED BY <2>5, <2>7 DEF r
<1>s. (\A i \in 1..Len(audit') : audit'[i].kind = "investigator_decision" => Real(audit'[i]))
        => PreviousStatusWasReal'
  <2>1. (\A i \in 1..Len(audit) : audit[i].kind = "investigator_decision" =>
           WasBefore(decisions, audit[i].by, audit[i].alert, audit[i].previous_status,
                     req[audit[i].by].since))'
          => PreviousStatusWasReal'
    BY RealFacts, PTL
  <2> QED BY <2>1
<1> HIDE DEF Real
<1>1. CASE audit' = audit
  BY <1>1, <1>r, <1>s
<1>2. ASSUME NEW a \in Alerts, NEW kind \in PipelineKinds,
             Longer(audit, audit', PipelineEvent(kind, a))
      PROVE  PreviousStatusWasReal'
  <2>1. PipelineEvent(kind, a).kind # "investigator_decision"
    BY DEF PipelineEvent, PipelineKinds
  <2>2. \A i \in 1..Len(audit') : audit'[i].kind = "investigator_decision" =>
          i \in 1..Len(audit) /\ audit'[i] = audit[i]
    BY <1>2, <2>1, LongerFacts
  <2> QED BY <1>r, <1>s, <2>2
<1>3. ASSUME NEW r \in Requests, AuditDecision(r), Longer(audit, audit', DecisionEvent(r))
      PROVE  PreviousStatusWasReal'
  <2>1. WasBefore(decisions, r, req[r].alert, req[r].previous_status, req[r].since)
    BY <1>3 DEF AuditDecision, StatusInv
  <2>2. /\ DecisionEvent(r).by = r /\ DecisionEvent(r).alert = req[r].alert
        /\ DecisionEvent(r).previous_status = req[r].previous_status
    BY DEF DecisionEvent
  <2>3. \A i \in 1..Len(audit') :
          \/ i = Len(audit) + 1 /\ audit'[i] = DecisionEvent(r)
          \/ i \in 1..Len(audit) /\ audit'[i] = audit[i]
    BY <1>3, LongerFacts
  <2>4. req'[r].since = req[r].since
    BY <1>3, SinceStays DEF AuditDecision
  <2>5. WasBefore(decisions', r, req[r].alert, req[r].previous_status, req[r].since)
    BY <1>0, <1>n, <2>1, WasStays
  <2>6. Real(DecisionEvent(r))
    BY <2>2, <2>4, <2>5 DEF Real
  <2> QED BY <1>r, <1>s, <2>3, <2>6
<1> QED BY <1>1, <1>2, <1>3, AuditChange

LEMMA StatusInvStep ==
  TypeOK /\ PipeInv /\ ReqInv /\ StatusInv /\ StatusIsLatestCommit /\ [Next]_vars => StatusInv'
<1> SUFFICES ASSUME TypeOK, PipeInv, ReqInv, StatusInv, StatusIsLatestCommit, [Next]_vars
             PROVE  StatusInv'
  OBVIOUS
<1> DEFINE D == decisions'
           n == Len(decisions')
           Within(q, l) == WasWithin(D, q.alert, q.previous_status, q.since, l)
           Before(r, q) == WasBefore(D, r, q.alert, q.previous_status, q.since)
<1>l. /\ Prefix(decisions, D) /\ Len(decisions) \in 0..Len(decisions) /\ n \in Nat
      /\ Len(decisions) \in Nat /\ Len(decisions) <= n
  BY LogsGrow DEF Prefix
<1>n. \A r \in Requests : req[r].since \in Nat
  BY DEF TypeOK, Handler
<1>a. \A a \in DOMAIN alerts : Was(D, a, alerts[a].status, Len(decisions))
  BY <1>l, WasStays DEF StatusInv
<1>g. \A r \in Requests : req[r].pc = "get" => req[r].since <= n
  <2> HIDE DEF n
  <2> QED BY <1>l, <1>n DEF StatusInv
<1>r. ASSUME NEW r \in Requests, req[r].pc = "record"
      PROVE  Within(req[r], Len(decisions)) /\ Within(req[r], n)
  <2>1. WasWithin(decisions, req[r].alert, req[r].previous_status, req[r].since, Len(decisions))
    BY <1>r DEF StatusInv
  <2>2. Within(req[r], Len(decisions))
    BY <1>l, <1>n, <2>1, WasStays
  <2> HIDE DEF n, D
  <2>3. \A i \in req[r].since..Len(decisions) : i \in req[r].since..n
    BY <1>l, <1>n
  <2> QED BY <2>2, <2>3 DEF WasWithin
<1>d. ASSUME NEW r \in Requests, req[r].pc = "audit" PROVE Before(r, req[r])
  BY <1>d, <1>l, <1>n, WasStays DEF StatusInv
<1>s. ASSUME \A a \in DOMAIN alerts' : Was(D, a, alerts'[a].status, n),
             \A r \in Requests : /\ req'[r].pc = "get" => req'[r].since <= n
                                 /\ req'[r].pc = "record" => Within(req'[r], n)
                                 /\ req'[r].pc = "audit" => Before(r, req'[r])
      PROVE  StatusInv'
  BY <1>s DEF StatusInv
<1>t. ASSUME decisions' = decisions, NEW a \in DOMAIN alerts
      PROVE  Was(D, a, alerts[a].status, n)
  BY <1>a, <1>t
<1>u. ASSUME req' = req
      PROVE  \A r \in Requests : /\ req'[r].pc = "get" => req'[r].since <= n
                                 /\ req'[r].pc = "record" => Within(req'[r], n)
                                 /\ req'[r].pc = "audit" => Before(r, req'[r])
  <2> HIDE DEF Within, Before, n, D
  <2> QED BY <1>u, <1>g, <1>r, <1>d
<1> HIDE DEF D, n, Within, Before
<1>1. ASSUME NEW a \in Alerts, InsertAlert(a) PROVE StatusInv'
  <2>1. /\ decisions' = decisions /\ req' = req
        /\ DOMAIN alerts' = DOMAIN alerts \cup {a}
        /\ \A b \in DOMAIN alerts' : b # a => b \in DOMAIN alerts /\ alerts'[b] = alerts[b]
        /\ alerts'[a].status = "open" /\ a \notin DOMAIN alerts
    BY <1>1 DEF InsertAlert, With, PipeInv
  <2>2. \A i \in 1..Len(decisions) : decisions[i].alert # a
    BY <2>1 DEF StatusIsLatestCommit
  <2>3. Was(D, a, "open", n)
    BY <2>1, <2>2 DEF Was, D, n
  <2>4. \A b \in DOMAIN alerts' : Was(D, b, alerts'[b].status, n)
    BY <1>t, <2>1, <2>3
  <2> QED BY <1>s, <1>u, <2>1, <2>4
<1>2. ASSUME NEW a \in Alerts, SetAiStatus(a) PROVE StatusInv'
  <2>1. /\ DOMAIN alerts' = DOMAIN alerts
        /\ \A b \in DOMAIN alerts : alerts'[b].status = alerts[b].status
    BY <1>2 DEF SetAiStatus, PipeInv, TypeOK
  <2>2. decisions' = decisions /\ req' = req
    BY <1>2 DEF SetAiStatus
  <2>3. \A b \in DOMAIN alerts' : Was(D, b, alerts'[b].status, n)
    BY <1>t, <2>1, <2>2
  <2> QED BY <1>s, <1>u, <2>2, <2>3
<1>3. ASSUME NEW r \in Requests, NEW a \in Alerts, NEW d \in Decisions, Submit(r, a, d)
      PROVE  StatusInv'
  <2>1. /\ decisions' = decisions /\ alerts' = alerts
        /\ req'[r].pc = "get" /\ req'[r].since = Len(decisions)
        /\ \A q \in Requests : q # r => req'[q] = req[q]
    BY <1>3 DEF Submit, TypeOK, Handler
  <2>2. Len(decisions) <= n
    BY <1>l
  <2> QED BY <1>s, <1>t, <1>g, <1>r, <1>d, <2>1, <2>2
<1>4. ASSUME NEW r \in Requests, GetAlert(r) PROVE StatusInv'
  <2> DEFINE b == req[r].alert
  <2>1. /\ decisions' = decisions /\ alerts' = alerts /\ b \in DOMAIN alerts /\ req[r].pc = "get"
        /\ req'[r].pc = "record" /\ req'[r].since = req[r].since /\ req'[r].alert = b
        /\ req'[r].previous_status = alerts[b].status
        /\ \A q \in Requests : q # r => req'[q] = req[q]
    BY <1>4 DEF GetAlert, TypeOK, Handler
  <2>2. n \in req[r].since..n
    BY <1>g, <1>l, <1>n, <2>1
  <2>3. Was(D, b, alerts[b].status, n)
    BY <1>t, <2>1
  <2>4. Within(req'[r], n)
    BY <2>1, <2>2, <2>3 DEF Within, WasWithin
  <2> QED BY <1>s, <1>t, <1>g, <1>r, <1>d, <2>1, <2>4
<1>5. ASSUME NEW r \in Requests, RecordDecision(r) PROVE StatusInv'
  <2> DEFINE b == req[r].alert
  <2>1. b \in DOMAIN alerts
    BY <1>5 DEF RecordDecision, ReqInv
  <2>2. DOMAIN alerts' = DOMAIN alerts /\ alerts'[b].status = req[r].decision
        /\ \A a \in DOMAIN alerts : a # b => alerts'[a].status = alerts[a].status
    BY <1>5, <2>1 DEF RecordDecision, TypeOK
  <2>3. Len(decisions) \in Nat /\ n = Len(decisions) + 1 /\ D[n] = NewRow(r)
    BY <1>5, NewDecision, LongerFacts DEF D, n
  <2>4. NewRow(r).by = r /\ NewRow(r).alert = b /\ NewRow(r).decision = req[r].decision
    BY DEF NewRow
  <2>5. Was(D, b, req[r].decision, n)
    <3>1. n \in 1..n /\ (n + 1)..n = {}
      BY <2>3
    <3> QED BY <2>3, <2>4, <3>1 DEF Was
  <2>6. ASSUME NEW a \in DOMAIN alerts, a # b PROVE Was(D, a, alerts[a].status, n)
    <3> DEFINE d == alerts[a].status
               l == Len(decisions)
    <3>1. Was(D, a, d, l) /\ D[n].alert # a
      BY <1>a, <2>3, <2>4, <2>6
    <3>2. CASE d = "open" /\ \A i \in 1..l : D[i].alert # a
      <4>1. \A i \in 1..n : i = n \/ i \in 1..l
        BY <2>3
      <4> QED BY <3>1, <3>2, <4>1 DEF Was
    <3>3. CASE \E j \in 1..l : /\ D[j].alert = a /\ D[j].decision = d
                               /\ \A i \in (j + 1)..l : D[i].alert # a
      <4>1. PICK j \in 1..l : /\ D[j].alert = a /\ D[j].decision = d
                              /\ \A i \in (j + 1)..l : D[i].alert # a
        BY <3>3
      <4>2. j \in 1..n /\ \A i \in (j + 1)..n : i = n \/ i \in (j + 1)..l
        BY <2>3
      <4> QED BY <3>1, <4>1, <4>2 DEF Was
    <3> QED BY <3>1, <3>2, <3>3 DEF Was
  <2>7. req[r].pc = "record" /\ req'[r] = [req[r] EXCEPT !.pc = "audit"]
        /\ \A q \in Requests : q # r => req'[q] = req[q]
    BY <1>5 DEF RecordDecision, ReqGoto, TypeOK
  <2>8. Before(r, req'[r]) /\ req'[r].pc = "audit"
    <3>1. /\ req'[r].pc = "audit" /\ req'[r].alert = b /\ req'[r].since = req[r].since
          /\ req'[r].previous_status = req[r].previous_status
      BY <2>7 DEF TypeOK, Handler
    <3>2. Within(req[r], n - 1)
      BY <1>r, <2>3, <2>7
    <3>3. n \in 1..Len(D) /\ D[n].by = r
      BY <2>3, <2>4 DEF n, D
    <3> QED BY <3>1, <3>2, <3>3 DEF Before, Within, WasBefore
  <2>9. \A a \in DOMAIN alerts' : Was(D, a, alerts'[a].status, n)
    BY <2>2, <2>5, <2>6
  <2> QED BY <1>s, <1>g, <1>r, <1>d, <2>7, <2>8, <2>9
<1>6. ASSUME NEW r \in Requests,
             AlertNotFound(r) \/ AuditDecision(r) \/ Respond(r) \/ ReqError(r) \/ ReqDropped(r)
      PROVE  StatusInv'
  <2>1. PICK l \in {"not_found", "anchor", "done", "error", "dropped"} :
          req' = [req EXCEPT ![r].pc = l]
    BY <1>6 DEF AlertNotFound, AuditDecision, Respond, ReqError, ReqDropped, ReqGoto
  <2>2. alerts' = alerts /\ decisions' = decisions
    BY <1>6 DEF AlertNotFound, AuditDecision, Respond, ReqError, ReqDropped
  <2>3. req'[r].pc = l /\ \A q \in Requests : q # r => req'[q] = req[q]
    BY <2>1 DEF TypeOK, Handler
  <2> QED BY <1>s, <1>t, <1>g, <1>r, <1>d, <2>2, <2>3
<1>7. CASE Crash
  <2>1. alerts' = alerts /\ decisions' = decisions
    BY <1>7 DEF Crash
  <2>2. \A q \in Requests : req'[q].pc = "dropped" \/ (req'[q] = req[q] /\ req[q].pc \notin ReqRunning)
    BY <1>7 DEF Crash, TypeOK, Handler
  <2> QED BY <1>s, <1>t, <2>1, <2>2 DEF ReqRunning
<1>8. ASSUME UNCHANGED <<alerts, req, decisions>> PROVE StatusInv'
  BY <1>8, <1>s, <1>t, <1>u
<1> QED
  BY <1>1, <1>2, <1>3, <1>4, <1>5, <1>6, <1>7, <1>8
     DEF Next, vars, PipeStep, ReqStep, AuditCreated, AuditRequested, Investigate, AuditOutcome,
         PipeError, PipeDropped, initialize, CliLands, CliRefused, CliFails

LEMMA AnchorStep == TypeOK /\ PipeInv /\ ReqInv /\ AnchorIsAudited /\ [Next]_vars => AnchorIsAudited'
<1> SUFFICES ASSUME TypeOK, PipeInv, ReqInv, AnchorIsAudited, [Next]_vars PROVE AnchorIsAudited'
  OBVIOUS
<1>0. /\ \A r \in Requests, a \in Alerts : Committed(r, a) => Committed(r, a)'
      /\ \A r \in Requests : Audited(r) => Audited(r)'
  BY LogsGrow, FactsStay
<1>1. \A a \in DOMAIN anchors : a \in Alerts /\ anchors[a] \in Requests
  BY DEF TypeOK
<1>2. \A a \in DOMAIN anchors : Audited(anchors[a]) /\ Committed(anchors[a], a)
  BY DEF AnchorIsAudited, Committed
<1>3. SUFFICES ASSUME NEW a \in DOMAIN anchors'
               PROVE  \E r \in Requests : anchors'[a] = r /\ Audited(r)' /\ Committed(r, a)'
  BY DEF AnchorIsAudited, Committed, Audited
<1>4. CASE anchors' = anchors
  BY <1>0, <1>1, <1>2, <1>4
<1>5. ASSUME NEW r \in Requests, CliLands(r)
      PROVE  \E q \in Requests : anchors'[a] = q /\ Audited(q)' /\ Committed(q, a)'
  <2>1. Audited(r) /\ Committed(r, req[r].alert) /\ req[r].alert \in Alerts
    BY <1>5 DEF CliLands, ReqInv
  <2>2. \/ a = req[r].alert /\ anchors'[a] = r
        \/ a \in DOMAIN anchors /\ anchors'[a] = anchors[a]
    <3>1. anchors' = [b \in DOMAIN anchors \cup {req[r].alert} |->
                        IF b = req[r].alert THEN r ELSE anchors[b]]
      BY <1>5 DEF CliLands, With
    <3> QED BY <3>1
  <2> QED BY <1>0, <1>1, <1>2, <2>1, <2>2
<1> QED
  BY <1>4, <1>5
     DEF Next, vars, chain, PipeStep, ReqStep, InsertAlert, AuditCreated, AuditRequested, Investigate,
         SetAiStatus, AuditOutcome, PipeError, PipeDropped, Submit, GetAlert, AlertNotFound,
         RecordDecision, AuditDecision, initialize, CliRefused, CliFails, Respond, ReqError,
         ReqDropped, Crash

LEMMA OrderStep == TypeOK /\ PipeInv /\ ReqInv /\ ReqInv' /\ AuditIsOrdered /\ [Next]_vars => AuditIsOrdered'
<1> SUFFICES ASSUME TypeOK, PipeInv, ReqInv, ReqInv', AuditIsOrdered, [Next]_vars PROVE AuditIsOrdered'
  OBVIOUS
<1> DEFINE Ordered ==
      \A i \in 1..Len(audit) : audit[i].kind \notin {"alert_created", "investigator_decision"} =>
        \E j \in 1..(i - 1) : audit[j].kind = "alert_created" /\ audit[j].alert = audit[i].alert
<1>1. Ordered
  BY DEF AuditIsOrdered
<1>2. \A r \in Requests : req'[r].pc = "done" => Audited(r)'
  BY DEF ReqInv
<1>3. CASE audit' = audit
  BY <1>1, <1>2, <1>3 DEF AuditIsOrdered
<1>4. ASSUME NEW a \in Alerts, NEW kind \in PipelineKinds,
             Longer(audit, audit', PipelineEvent(kind, a)), kind = "alert_created" \/ Created(a)
      PROVE  Ordered'
  <2>1. PipelineEvent(kind, a).kind = kind /\ PipelineEvent(kind, a).alert = a
    BY DEF PipelineEvent
  <2> SUFFICES ASSUME NEW i \in 1..Len(audit'),
                      audit'[i].kind \notin {"alert_created", "investigator_decision"}
               PROVE  \E j \in 1..(i - 1) :
                        audit'[j].kind = "alert_created" /\ audit'[j].alert = audit'[i].alert
    OBVIOUS
  <2>2. Len(audit) \in Nat /\ \A j \in 1..Len(audit) : audit'[j] = audit[j]
    BY <1>4, LongerFacts
  <2>3. CASE i = Len(audit) + 1 /\ audit'[i] = PipelineEvent(kind, a)
    BY <1>4, <2>1, <2>2, <2>3 DEF Created
  <2>4. CASE i \in 1..Len(audit) /\ audit'[i] = audit[i]
    BY <1>1, <2>2, <2>4
  <2> QED BY <1>4, <2>3, <2>4, LongerFacts
<1>5. ASSUME NEW r \in Requests, Longer(audit, audit', DecisionEvent(r))
      PROVE  Ordered'
  <2>1. DecisionEvent(r).kind = "investigator_decision"
    BY DEF DecisionEvent
  <2>2. Len(audit) \in Nat /\ \A j \in 1..Len(audit) : audit'[j] = audit[j]
    BY <1>5, LongerFacts
  <2>3. \A i \in 1..Len(audit') : i \in 1..Len(audit) \/ audit'[i].kind = "investigator_decision"
    BY <1>5, <2>1, LongerFacts
  <2> QED BY <1>1, <2>2, <2>3
<1>6. Ordered' => AuditIsOrdered'
  BY <1>2 DEF AuditIsOrdered
<1> QED BY <1>3, <1>4, <1>5, <1>6, AuditChange

-----------------------------------------------------------------------------
(* The fault-free part. *)

\* An event of a's pipeline is added to the ones it has; no other event is.
LEMMA EventsChange ==
  ASSUME NEW a \in Alerts, NEW e, Longer(audit, audit', e)
  PROVE  /\ (e.alert = a /\ e.kind \in PipelineKinds)
              => EventsOf(a, PipelineKinds)' = EventsOf(a, PipelineKinds) \cup {Len(audit) + 1}
         /\ ~(e.alert = a /\ e.kind \in PipelineKinds)
              => EventsOf(a, PipelineKinds)' = EventsOf(a, PipelineKinds)
<1>1. PipelineKinds' = PipelineKinds
  BY DEF PipelineKinds, EventKind
<1> QED BY <1>1, LongerFacts DEF EventsOf

LEMMA SequencedStays ==
  ASSUME NEW a \in Alerts, NEW n \in 1..3, Sequenced(a, n), Prefix(audit, audit'),
         EventsOf(a, PipelineKinds)' = EventsOf(a, PipelineKinds),
         n = 3 => alerts'[a].ai = alerts[a].ai
  PROVE  Sequenced(a, n)'
<1>1. PICK i, j, k \in 1..Len(audit) :
        /\ EventsOf(a, PipelineKinds) = IF n = 1 THEN {i} ELSE IF n = 2 THEN {i, j} ELSE {i, j, k}
        /\ audit[i].kind = "alert_created"
        /\ n >= 2 => i < j /\ audit[j].kind = "ai_advisory_requested"
        /\ n >= 3 => j < k /\ audit[k].kind = OutcomeKind(alerts[a].ai)
  BY DEF Sequenced
<1>2. \A m \in 1..Len(audit) : m \in 1..Len(audit') /\ audit'[m] = audit[m]
  BY DEF Prefix
<1>3. n >= 3 => OutcomeKind(alerts[a].ai)' = OutcomeKind(alerts[a].ai)
  BY DEF OutcomeKind
<1>4. /\ EventsOf(a, PipelineKinds)' = IF n = 1 THEN {i} ELSE IF n = 2 THEN {i, j} ELSE {i, j, k}
      /\ audit'[i].kind = "alert_created"
      /\ n >= 2 => i < j /\ audit'[j].kind = "ai_advisory_requested"
      /\ n >= 3 => j < k /\ audit'[k].kind = OutcomeKind(alerts[a].ai)'
      /\ i \in 1..Len(audit') /\ j \in 1..Len(audit') /\ k \in 1..Len(audit')
  <2>1. i \in 1..Len(audit') /\ j \in 1..Len(audit') /\ k \in 1..Len(audit')
        /\ audit'[i] = audit[i] /\ audit'[j] = audit[j] /\ audit'[k] = audit[k]
    BY <1>2
  <2>2. n >= 3 => audit'[k].kind = OutcomeKind(alerts[a].ai)'
    BY <1>1, <1>3, <2>1
  <2> QED BY <1>1, <2>1, <2>2
<1> QED BY <1>4, Zenon DEF Sequenced

LEMMA SequencedGrows ==
  ASSUME NEW a \in Alerts, NEW n \in 0..2, NEW kind \in PipelineKinds,
         Longer(audit, audit', PipelineEvent(kind, a)),
         n = 0 => EventsOf(a, PipelineKinds) = {} /\ kind = "alert_created",
         n = 1 => Sequenced(a, 1) /\ kind = "ai_advisory_requested",
         n = 2 => Sequenced(a, 2) /\ kind = OutcomeKind(alerts'[a].ai)
  PROVE  Sequenced(a, n + 1)'
<1> DEFINE m == Len(audit) + 1
<1>1. PipelineEvent(kind, a).alert = a /\ PipelineEvent(kind, a).kind = kind
  BY DEF PipelineEvent
<1>2. EventsOf(a, PipelineKinds)' = EventsOf(a, PipelineKinds) \cup {m}
  BY <1>1, EventsChange
<1>3. Len(audit) \in Nat /\ m \in 1..Len(audit') /\ audit'[m].kind = kind
      /\ \A i \in 1..Len(audit) : i \in 1..Len(audit') /\ audit'[i] = audit[i] /\ i < m
  BY <1>1, LongerFacts
<1> HIDE DEF m
<1>4. CASE n = 0
  <2>1. EventsOf(a, PipelineKinds)' = {m}
    BY <1>2, <1>4
  <2> QED BY <1>3, <1>4, <2>1 DEF Sequenced
<1>5. CASE n = 1
  <2>1. PICK i \in 1..Len(audit) : EventsOf(a, PipelineKinds) = {i} /\ audit[i].kind = "alert_created"
    BY <1>5 DEF Sequenced
  <2>2. EventsOf(a, PipelineKinds)' = {i, m}
    BY <1>2, <2>1
  <2> QED BY <1>3, <1>5, <2>1, <2>2 DEF Sequenced
<1>6. CASE n = 2
  <2>1. PICK i, j \in 1..Len(audit) :
          /\ EventsOf(a, PipelineKinds) = {i, j} /\ i < j
          /\ audit[i].kind = "alert_created" /\ audit[j].kind = "ai_advisory_requested"
    BY <1>6 DEF Sequenced
  <2>2. EventsOf(a, PipelineKinds)' = {i, j, m}
    BY <1>2, <2>1
  <2> QED BY <1>3, <1>6, <2>1, <2>2 DEF Sequenced, OutcomeKind
<1> QED BY <1>4, <1>5, <1>6

\* A step that leaves an alert's pipeline, advisory and pipeline events alone.
LEMMA PipeUnaffected ==
  ASSUME PipeInv, NEW a \in Alerts, FaultFreePipe(a), Prefix(audit, audit'),
         pipe'[a] = pipe[a], advice'[a] = advice[a],
         a \in DOMAIN alerts => alerts'[a].ai = alerts[a].ai,
         EventsOf(a, PipelineKinds)' = EventsOf(a, PipelineKinds)
  PROVE  FaultFreePipe(a)'
<1>1. pipe[a] \in {"audit_outcome", "done"} => alerts'[a].ai = alerts[a].ai
  BY DEF PipeInv
<1>2. \A n \in 1..3 : Sequenced(a, n) /\ (n = 3 => pipe[a] = "done") => Sequenced(a, n)'
  <2> SUFFICES ASSUME NEW n \in 1..3, Sequenced(a, n), n = 3 => pipe[a] = "done"
               PROVE  Sequenced(a, n)'
    OBVIOUS
  <2> QED BY <1>1, SequencedStays
<1>3. (Sequenced(a, 1) => Sequenced(a, 1)') /\ (Sequenced(a, 2) => Sequenced(a, 2)')
      /\ (pipe[a] = "done" /\ Sequenced(a, 3) => Sequenced(a, 3)')
  BY <1>2
<1> QED BY <1>1, <1>3 DEF FaultFreePipe

LEMMA FaultFreePipeStep ==
  ASSUME TypeOK, PipeInv, ReqInv, Next, faults' = 0, faults = 0, NEW b \in Alerts, FaultFreePipe(b)
  PROVE  FaultFreePipe(b)'
<1>0. Prefix(audit, audit')
  BY LogsGrow
<1>e. ASSUME audit' = audit PROVE EventsOf(b, PipelineKinds)' = EventsOf(b, PipelineKinds)
  BY <1>e DEF EventsOf, PipelineKinds, EventKind
<1>p. ASSUME NEW a \in Alerts, NEW kind, a # b, Longer(audit, audit', PipelineEvent(kind, a))
      PROVE  EventsOf(b, PipelineKinds)' = EventsOf(b, PipelineKinds)
  <2>1. PipelineEvent(kind, a).alert # b
    BY <1>p DEF PipelineEvent
  <2> QED BY <1>p, <2>1, EventsChange
<1>f. ASSUME Fault PROVE FALSE
  BY <1>f DEF Fault
<1>n. 1 = 0 + 1 /\ 2 = 1 + 1 /\ 3 = 2 + 1 /\ 0 \in 0..2 /\ 1 \in 0..2 /\ 2 \in 0..2
  OBVIOUS
<1>1. ASSUME NEW a \in Alerts, InsertAlert(a) PROVE FaultFreePipe(b)'
  <2>1. audit' = audit /\ advice' = advice /\ pipe[a] = "insert" /\ pipe' = [pipe EXCEPT ![a] = "audit_created"]
    BY <1>1 DEF InsertAlert, PipeGoto
  <2>2. CASE a = b
    BY <1>e, <2>1, <2>2 DEF FaultFreePipe, TypeOK
  <2>3. CASE a # b
    <3>1. b \in DOMAIN alerts => alerts'[b] = alerts[b]
      BY <1>1, <2>3 DEF InsertAlert, With
    <3>2. pipe'[b] = pipe[b]
      BY <2>1, <2>3 DEF TypeOK
    <3> QED BY <1>0, <1>e, <2>1, <3>1, <3>2, PipeUnaffected
  <2> QED BY <2>2, <2>3
<1>2. ASSUME NEW a \in Alerts, AuditCreated(a) PROVE FaultFreePipe(b)'
  <2>1. Longer(audit, audit', PipelineEvent("alert_created", a)) /\ "alert_created" \in PipelineKinds
    BY <1>2, EventTypes, LongerByAppend DEF AuditCreated, TypeOK, EventKind, PipelineKinds
  <2>2. alerts' = alerts /\ advice' = advice /\ pipe[a] = "audit_created"
        /\ pipe' = [pipe EXCEPT ![a] = "audit_requested"]
    BY <1>2 DEF AuditCreated, PipeGoto
  <2>3. CASE a = b
    <3>1. EventsOf(a, PipelineKinds) = {}
      BY <2>2, <2>3 DEF FaultFreePipe
    <3>2. Sequenced(a, 1)'
      BY <1>n, <2>1, <3>1, SequencedGrows
    <3> QED BY <2>2, <2>3, <3>2 DEF FaultFreePipe, TypeOK
  <2>4. CASE a # b
    <3>1. pipe'[b] = pipe[b]
      BY <2>2, <2>4 DEF TypeOK
    <3> QED BY <1>0, <1>p, <2>1, <2>2, <2>4, <3>1, PipeUnaffected
  <2> QED BY <2>3, <2>4
<1>3. ASSUME NEW a \in Alerts, AuditRequested(a) PROVE FaultFreePipe(b)'
  <2>1. Longer(audit, audit', PipelineEvent("ai_advisory_requested", a))
        /\ "ai_advisory_requested" \in PipelineKinds
    BY <1>3, EventTypes, LongerByAppend DEF AuditRequested, TypeOK, EventKind, PipelineKinds
  <2>2. alerts' = alerts /\ advice' = advice /\ pipe[a] = "audit_requested"
        /\ pipe' = [pipe EXCEPT ![a] = "investigate"]
    BY <1>3 DEF AuditRequested, PipeGoto
  <2>3. CASE a = b
    <3>1. Sequenced(a, 1)
      BY <2>2, <2>3 DEF FaultFreePipe
    <3>2. Sequenced(a, 2)'
      BY <1>n, <2>1, <3>1, SequencedGrows
    <3> QED BY <2>2, <2>3, <3>2 DEF FaultFreePipe, TypeOK
  <2>4. CASE a # b
    <3>1. pipe'[b] = pipe[b]
      BY <2>2, <2>4 DEF TypeOK
    <3> QED BY <1>0, <1>p, <2>1, <2>2, <2>4, <3>1, PipeUnaffected
  <2> QED BY <2>3, <2>4
<1>4. ASSUME NEW a \in Alerts, AuditOutcome(a) PROVE FaultFreePipe(b)'
  <2> DEFINE kind == OutcomeKind(advice[a])
  <2>1. Longer(audit, audit', PipelineEvent(kind, a)) /\ kind \in PipelineKinds
    BY <1>4, EventTypes, LongerByAppend DEF AuditOutcome, TypeOK, EventKind, PipelineKinds, OutcomeKind
  <2>2. alerts' = alerts /\ advice' = advice /\ pipe[a] = "audit_outcome"
        /\ pipe' = [pipe EXCEPT ![a] = "done"]
    BY <1>4 DEF AuditOutcome, PipeGoto
  <2>3. CASE a = b
    <3>1. Sequenced(a, 2) /\ alerts[a].ai = advice[a] /\ advice[a] # "pending"
      BY <2>2, <2>3 DEF FaultFreePipe
    <3>2. kind = OutcomeKind(alerts'[a].ai)
      BY <2>2, <3>1
    <3> HIDE DEF kind
    <3>3. Sequenced(a, 3)'
      BY <1>n, <2>1, <3>1, <3>2, SequencedGrows
    <3> QED BY <2>2, <2>3, <3>1, <3>3 DEF FaultFreePipe, TypeOK
  <2>4. CASE a # b
    <3>1. pipe'[b] = pipe[b]
      BY <2>2, <2>4 DEF TypeOK
    <3> QED BY <1>0, <1>p, <2>1, <2>2, <2>4, <3>1, PipeUnaffected
  <2> QED BY <2>3, <2>4
<1>5. ASSUME NEW a \in Alerts, Investigate(a) PROVE FaultFreePipe(b)'
  <2>1. audit' = audit /\ alerts' = alerts /\ pipe[a] = "investigate"
        /\ pipe' = [pipe EXCEPT ![a] = "set_ai_status"]
    BY <1>5 DEF Investigate, PipeGoto
  <2>2. PICK answer \in {"ready", "unavailable"} : advice' = [advice EXCEPT ![a] = answer]
    BY <1>5 DEF Investigate
  <2>3. CASE a = b
    <3>1. Sequenced(a, 2)
      BY <2>1, <2>3 DEF FaultFreePipe
    <3>2. Sequenced(a, 2)'
      BY <1>0, <1>e, <2>1, <2>3, <3>1, SequencedStays
    <3>3. pipe'[a] = "set_ai_status" /\ advice'[a] # "pending"
      BY <2>1, <2>2 DEF TypeOK
    <3> QED BY <2>3, <3>2, <3>3 DEF FaultFreePipe
  <2>4. CASE a # b
    <3>1. pipe'[b] = pipe[b] /\ advice'[b] = advice[b]
      BY <2>1, <2>2, <2>4 DEF TypeOK
    <3> QED BY <1>0, <1>e, <2>1, <3>1, PipeUnaffected
  <2> QED BY <2>3, <2>4
<1>6. ASSUME NEW a \in Alerts, SetAiStatus(a) PROVE FaultFreePipe(b)'
  <2>1. audit' = audit /\ advice' = advice /\ pipe[a] = "set_ai_status"
        /\ pipe' = [pipe EXCEPT ![a] = "audit_outcome"] /\ alerts' = [alerts EXCEPT ![a].ai = advice[a]]
    BY <1>6 DEF SetAiStatus, PipeGoto
  <2>2. a \in DOMAIN alerts
    BY <2>1 DEF PipeInv
  <2>3. CASE a = b
    <3>1. Sequenced(a, 2) /\ advice[a] # "pending"
      BY <2>1, <2>3 DEF FaultFreePipe
    <3>2. Sequenced(a, 2)'
      BY <1>0, <1>e, <2>1, <2>3, <3>1, SequencedStays
    <3>3. pipe'[a] = "audit_outcome" /\ alerts'[a].ai = advice[a]
      BY <2>1, <2>2 DEF TypeOK
    <3> QED BY <2>1, <2>3, <3>1, <3>2, <3>3 DEF FaultFreePipe
  <2>4. CASE a # b
    <3>1. pipe'[b] = pipe[b] /\ (b \in DOMAIN alerts => alerts'[b] = alerts[b])
      BY <2>1, <2>4 DEF TypeOK
    <3> QED BY <1>0, <1>e, <2>1, <3>1, PipeUnaffected
  <2> QED BY <2>3, <2>4
<1>7. ASSUME NEW r \in Requests, RecordDecision(r) PROVE FaultFreePipe(b)'
  <2>1. UNCHANGED <<audit, pipe, advice>>
    BY <1>7 DEF RecordDecision
  <2>2. b \in DOMAIN alerts => alerts'[b].ai = alerts[b].ai
    BY <1>7 DEF RecordDecision, TypeOK
  <2> QED BY <1>0, <1>e, <2>1, <2>2, PipeUnaffected
<1>8. ASSUME NEW r \in Requests, AuditDecision(r) PROVE FaultFreePipe(b)'
  <2>1. UNCHANGED <<alerts, pipe, advice>>
    BY <1>8 DEF AuditDecision
  <2>2. Longer(audit, audit', DecisionEvent(r))
    BY <1>8, EventTypes, LongerByAppend DEF AuditDecision, TypeOK
  <2>3. DecisionEvent(r).kind \notin PipelineKinds
    BY DEF DecisionEvent, PipelineKinds
  <2>4. EventsOf(b, PipelineKinds)' = EventsOf(b, PipelineKinds)
    BY <2>2, <2>3, EventsChange
  <2> QED BY <1>0, <2>1, <2>4, PipeUnaffected
<1>9. ASSUME UNCHANGED <<alerts, audit, pipe, advice>> PROVE FaultFreePipe(b)'
  BY <1>0, <1>9, <1>e, PipeUnaffected
<1> QED
  BY <1>1, <1>2, <1>3, <1>4, <1>5, <1>6, <1>7, <1>8, <1>9, <1>f
     DEF Next, PipeStep, ReqStep, PipeError, PipeDropped, Submit, GetAlert, AlertNotFound, initialize,
         CliLands, CliRefused, CliFails, Respond, ReqError, ReqDropped, Crash

LEMMA FaultFreeStep ==
  TypeOK /\ TypeOK' /\ PipeInv /\ ReqInv /\ FaultFreeInv /\ [Next]_vars => FaultFreeInv'
<1> SUFFICES ASSUME TypeOK, TypeOK', PipeInv, ReqInv, FaultFreeInv, [Next]_vars, faults' = 0
             PROVE  /\ \A a \in Alerts : FaultFreePipe(a)'
                    /\ \A r \in Requests : req'[r].pc \notin {"error", "dropped"}
                    /\ \A k \in 1..Len(decisions') :
                         Audited(decisions[k].by)' \/ req'[decisions'[k].by].pc = "audit"
  BY DEF FaultFreeInv
<1>1. CASE UNCHANGED vars
  <2>1. faults = 0 /\ UNCHANGED <<req, decisions, audit>>
    BY <1>1 DEF vars
  <2>2. ASSUME NEW a \in Alerts PROVE FaultFreePipe(a)'
    BY <1>1, <2>1 DEF FaultFreeInv, FaultFreePipe, vars, chain, Sequenced, EventsOf, OutcomeKind
  <2> QED BY <2>1, <2>2 DEF FaultFreeInv, Audited
<1>2. CASE Next
  <2>f. ~Fault
    BY DEF Fault, TypeOK
  <2>1. faults = 0
    BY <1>2, <2>f DEF Next, PipeStep, ReqStep, InsertAlert, AuditCreated, AuditRequested, Investigate,
         SetAiStatus, AuditOutcome, PipeError, PipeDropped, Submit, GetAlert, AlertNotFound,
         RecordDecision, AuditDecision, initialize, CliLands, CliRefused, CliFails, Respond, ReqError,
         ReqDropped, Crash
  <2>2. ASSUME NEW a \in Alerts PROVE FaultFreePipe(a)'
    BY <1>2, <2>1, FaultFreePipeStep DEF FaultFreeInv
  <2>3. ASSUME NEW r \in Requests
        PROVE  \/ req'[r].pc = req[r].pc
               \/ /\ req'[r].pc \in {"get", "record", "audit", "anchor", "done", "not_found"}
                  /\ req[r].pc = "audit" => AuditDecision(r)
    <3>1. ASSUME NEW q \in Requests, NEW a \in Alerts, NEW d \in Decisions, Submit(q, a, d)
          PROVE  req'[r].pc = req[r].pc \/ (req'[r].pc = "get" /\ req[r].pc = "idle")
      BY <3>1 DEF Submit, TypeOK, Handler
    <3>2. ASSUME NEW q \in Requests, GetAlert(q)
          PROVE  req'[r].pc = req[r].pc \/ (req'[r].pc = "record" /\ req[r].pc = "get")
      BY <3>2 DEF GetAlert, TypeOK, Handler
    <3>3. ASSUME NEW q \in Requests, AlertNotFound(q)
          PROVE  req'[r].pc = req[r].pc \/ (req'[r].pc = "not_found" /\ req[r].pc = "get")
      BY <3>3 DEF AlertNotFound, ReqGoto, TypeOK, Handler
    <3>4. ASSUME NEW q \in Requests, RecordDecision(q)
          PROVE  req'[r].pc = req[r].pc \/ (req'[r].pc = "audit" /\ req[r].pc = "record")
      BY <3>4 DEF RecordDecision, ReqGoto, TypeOK, Handler
    <3>5. ASSUME NEW q \in Requests, AuditDecision(q)
          PROVE  req'[r].pc = req[r].pc \/ (req'[r].pc = "anchor" /\ r = q)
      BY <3>5 DEF AuditDecision, ReqGoto, TypeOK, Handler
    <3>6. ASSUME NEW q \in Requests, Respond(q)
          PROVE  req'[r].pc = req[r].pc \/ (req'[r].pc = "done" /\ req[r].pc = "anchor")
      BY <3>6 DEF Respond, ReqGoto, TypeOK, Handler
    <3>7. CASE req' = req
      BY <3>7
    <3> QED
      BY <1>2, <2>f, <3>1, <3>2, <3>3, <3>4, <3>5, <3>6, <3>7
         DEF Next, PipeStep, ReqStep, InsertAlert, AuditCreated, AuditRequested, Investigate,
             SetAiStatus, AuditOutcome, PipeError, PipeDropped, initialize, CliLands, CliRefused,
             CliFails, ReqError, ReqDropped, Crash
  <2>4. \A r \in Requests : req'[r].pc \notin {"error", "dropped"}
    BY <2>1, <2>3 DEF FaultFreeInv
  <2>5. ASSUME NEW k \in 1..Len(decisions')
        PROVE  Audited(decisions[k].by)' \/ req'[decisions'[k].by].pc = "audit"
    <3>1. SUFFICES ASSUME NEW r \in Requests, decisions'[k].by = r
                   PROVE  Audited(r)' \/ req'[r].pc = "audit"
      <4>0. decisions' \in Seq(Row)
        BY DEF TypeOK
      <4>1. decisions'[k] \in Row
        BY <4>0
      <4>2. decisions'[k].by \in Requests
        BY <4>1 DEF Row
      <4> QED BY <4>2 DEF Audited
    <3>2. Audited(r) => Audited(r)'
      BY LogsGrow, FactsStay
    <3>3. ASSUME AuditDecision(r) PROVE Audited(r)'
      <4>1. ReqInv'
        BY ReqInvStep
      <4>2. req'[r].pc = "anchor"
        BY <3>3 DEF AuditDecision, ReqGoto, TypeOK, Handler
      <4> QED BY <4>1, <4>2 DEF ReqInv
    <3>4. CASE k \in 1..Len(decisions) /\ decisions[k].by = r
      BY <2>1, <2>3, <3>2, <3>3, <3>4 DEF FaultFreeInv
    <3>5. ASSUME NEW q \in Requests, RecordDecision(q), Longer(decisions, decisions', NewRow(q)),
                 k = Len(decisions) + 1
          PROVE  req'[r].pc = "audit"
      <4>1. r = q
        BY <3>1, <3>5, LongerFacts DEF NewRow
      <4> QED BY <3>5, <4>1 DEF RecordDecision, ReqGoto, TypeOK, Handler
    <3> QED BY <3>1, <3>4, <3>5, DecisionsChange, LongerFacts
  <2> QED BY <2>2, <2>4, <2>5
<1> QED BY <1>1, <1>2

-----------------------------------------------------------------------------
(* The theorems. *)

LEMMA InvStep == IInv /\ [Next]_vars => IInv'
<1> SUFFICES ASSUME IInv, [Next]_vars PROVE IInv'
  OBVIOUS
<1>1. TypeOK /\ PipeInv /\ ReqInv /\ StatusInv /\ FaultFreeInv
  BY DEF IInv
<1>2. TypeOK' /\ PipeInv' /\ ReqInv'
  BY <1>1, TypeStep, PipeInvStep, ReqInvStep
<1>3. StatusInv' /\ FaultFreeInv'
  BY <1>1, <1>2, StatusInvStep, FaultFreeStep DEF IInv
<1>4. StatusIsLatestCommit' /\ AuditedIsCommitted' /\ PreviousStatusWasReal'
  BY <1>1, <1>2, StatusCommitStep, AuditedStep, PreviousStep DEF IInv
<1>5. AnchorIsAudited' /\ AuditIsOrdered'
  BY <1>1, <1>2, AnchorStep, OrderStep DEF IInv
<1> QED BY <1>2, <1>3, <1>4, <1>5 DEF IInv

\* The inductive invariant holds throughout, whatever pipelines, handlers,
\* stellar processes and faults do to each other.
THEOREM Invariance == Spec => []IInv
  BY InitInv, InvStep, PTL DEF Spec

\* The tables, the log, the contract's storage and the locals of the handlers
\* keep their types.
THEOREM TypeCorrect == Spec => []TypeOK
<1>1. IInv => TypeOK
  BY DEF IInv
<1> QED BY Invariance, <1>1, PTL

\* record_decision's transaction keeps alerts.status the decision committed
\* last, for any number of handlers that have read the alert before.
THEOREM StatusFollowsCommits == Spec => []StatusIsLatestCommit
<1>1. IInv => StatusIsLatestCommit
  BY DEF IInv
<1> QED BY Invariance, <1>1, PTL

\* submit_decision commits before it audits, and audits once.
THEOREM AuditFollowsCommits == Spec => []AuditedIsCommitted
<1>1. IInv => AuditedIsCommitted
  BY DEF IInv
<1> QED BY Invariance, <1>1, PTL

\* The previous_status that submit_decision audits was the alert's status while
\* the request was under way and before its commit, whoever decided meanwhile.
THEOREM PreviousStatusIsReal == Spec => []PreviousStatusWasReal
<1>1. IInv => PreviousStatusWasReal
  BY DEF IInv
<1> QED BY Invariance, <1>1, PTL

\* The handler hands a decision to the chain after the service has committed and
\* audited it, so no crash or late stellar process anchors anything else.
THEOREM AnchorsAreBacked == Spec => []AnchorIsAudited
<1>1. IInv => AnchorIsAudited
  BY DEF IInv
<1> QED BY Invariance, <1>1, PTL

\* create_alert's event precedes the events of the advisory, and a decision that
\* was answered with success is in the log.
THEOREM LogIsOrdered == Spec => []AuditIsOrdered
<1>1. IInv => AuditIsOrdered
  BY DEF IInv
<1> QED BY Invariance, <1>1, PTL

\* At rest and without a fault, every alert has its three events, in order, and
\* a settled advisory, and every decision its event.
THEOREM NothingIsMissing == Spec => []CompleteWithoutFaults
<1>1. ASSUME IInv, faults = 0, Quiescent, NEW a \in Alerts
      PROVE  /\ a \in DOMAIN alerts /\ alerts[a].ai = advice[a] /\ advice[a] # "pending"
             /\ \E i, j, k \in 1..Len(audit) :
                  /\ i < j /\ j < k
                  /\ EventsOf(a, EventKind \ {"investigator_decision"}) = {i, j, k}
                  /\ audit[i].kind = "alert_created"
                  /\ audit[j].kind = "ai_advisory_requested"
                  /\ audit[k].kind = OutcomeKind(alerts[a].ai)
  <2>1. FaultFreePipe(a)
    BY <1>1 DEF IInv, FaultFreeInv
  <2>2. pipe[a] = "done"
    BY <1>1, <2>1 DEF Quiescent, PipeEnded, FaultFreePipe
  <2>3. a \in DOMAIN alerts /\ alerts[a].ai = advice[a] /\ advice[a] # "pending"
    BY <1>1, <2>1, <2>2 DEF IInv, PipeInv, FaultFreePipe
  <2>4. Sequenced(a, 3)
    BY <2>1, <2>2 DEF FaultFreePipe
  <2>5. \E i, j, k \in 1..Len(audit) :
          /\ EventsOf(a, PipelineKinds) = {i, j, k}
          /\ audit[i].kind = "alert_created"
          /\ i < j /\ audit[j].kind = "ai_advisory_requested"
          /\ j < k /\ audit[k].kind = OutcomeKind(alerts[a].ai)
    BY <2>4 DEF Sequenced
  <2> QED BY <2>3, <2>5 DEF PipelineKinds
<1>2. ASSUME IInv, faults = 0, Quiescent, NEW k \in 1..Len(decisions)
      PROVE  Audited(decisions[k].by)
  <2>1. decisions[k].by \in Requests
    <3>1. decisions \in Seq(Row)
      BY <1>2 DEF IInv, TypeOK
    <3>2. decisions[k] \in Row
      BY <3>1
    <3> QED BY <3>2 DEF Row
  <2>2. req[decisions[k].by].pc # "audit"
    BY <1>2, <2>1 DEF Quiescent, ReqEnded
  <2> QED BY <1>2, <2>2 DEF IInv, FaultFreeInv
<1>3. IInv => CompleteWithoutFaults
  BY <1>1, <1>2 DEF CompleteWithoutFaults
<1> QED BY Invariance, <1>3, PTL

\* Alerts stay, and so does what is stored of a settled advisory.
LEMMA AlertsStay ==
  ASSUME TypeOK, PipeInv, [Next]_vars
  PROVE  \A a \in DOMAIN alerts :
           /\ a \in DOMAIN alerts'
           /\ alerts[a].ai # "pending" => alerts'[a].ai = alerts[a].ai
<1> SUFFICES ASSUME NEW a \in DOMAIN alerts
             PROVE  /\ a \in DOMAIN alerts'
                    /\ alerts[a].ai # "pending" => alerts'[a].ai = alerts[a].ai
  OBVIOUS
<1>1. CASE alerts' = alerts
  BY <1>1
<1>2. ASSUME NEW b \in Alerts, InsertAlert(b)
      PROVE  a \in DOMAIN alerts' /\ alerts'[a] = alerts[a]
  BY <1>2 DEF InsertAlert, With, PipeInv
<1>3. ASSUME NEW b \in Alerts, SetAiStatus(b)
      PROVE  a \in DOMAIN alerts' /\ (alerts[a].ai # "pending" => alerts'[a].ai = alerts[a].ai)
  BY <1>3 DEF SetAiStatus, PipeInv, PipeRunning, TypeOK
<1>4. ASSUME NEW r \in Requests, RecordDecision(r)
      PROVE  a \in DOMAIN alerts' /\ alerts'[a].ai = alerts[a].ai
  BY <1>4 DEF RecordDecision, TypeOK
<1> QED
  BY <1>1, <1>2, <1>3, <1>4
     DEF Next, vars, PipeStep, ReqStep, AuditCreated, AuditRequested, Investigate, AuditOutcome,
         PipeError, PipeDropped, Submit, GetAlert, AlertNotFound, AuditDecision, initialize,
         CliLands, CliRefused, CliFails, Respond, ReqError, ReqDropped, Crash

\* No statement of the service updates or deletes a decision or an event, and the
\* pipeline's UPDATE of the advisory is the only one its alert ever gets.
THEOREM HistoryStays == Spec => HistoryIsKept
<1> DEFINE Kept ==
      /\ Len(decisions') >= Len(decisions)
      /\ \A i \in 1..Len(decisions) : decisions'[i] = decisions[i]
      /\ Len(audit') >= Len(audit)
      /\ \A i \in 1..Len(audit) : audit'[i] = audit[i]
      /\ \A a \in DOMAIN alerts :
           /\ a \in DOMAIN alerts'
           /\ alerts[a].ai # "pending" => alerts'[a].ai = alerts[a].ai
<1>1. ASSUME IInv, [Next]_vars PROVE Kept
  <2>0. TypeOK /\ PipeInv /\ ReqInv
    BY <1>1 DEF IInv
  <2>1. Prefix(decisions, decisions') /\ Prefix(audit, audit')
    BY <1>1, <2>0, LogsGrow
  <2>2. /\ Len(decisions') >= Len(decisions)
        /\ \A i \in 1..Len(decisions) : decisions'[i] = decisions[i]
        /\ Len(audit') >= Len(audit)
        /\ \A i \in 1..Len(audit) : audit'[i] = audit[i]
    BY <2>1 DEF Prefix
  <2>3. \A a \in DOMAIN alerts :
          /\ a \in DOMAIN alerts'
          /\ alerts[a].ai # "pending" => alerts'[a].ai = alerts[a].ai
    BY <1>1, <2>0, AlertsStay
  <2> QED BY <2>2, <2>3
<1>2. IInv /\ [Next]_vars => [Kept]_vars
  BY <1>1
<1> HIDE DEF Kept
<1>3. Spec => [][Kept]_vars
  BY Invariance, <1>2, PTL DEF Spec
<1> QED BY <1>3 DEF HistoryIsKept, Kept
=============================================================================
