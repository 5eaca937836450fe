---------------------------- MODULE AlertService ----------------------------
(***************************************************************************)
(* The life of alerts: the background pipeline that opens an alert and     *)
(* asks for an AI advisory (crates/api/src/pipeline.rs), investigators'    *)
(* decisions (the submit_decision handlers of crates/api/src/routes), the  *)
(* service both go through (crates/alerts/src/service.rs), its tables      *)
(* (crates/storage/src/alert_store.rs), and the on-chain anchor of a       *)
(* decision (crates/soroban_anchor).                                       *)
(*                                                                         *)
(* Every await is a place where other requests run.  A statement may fail, *)
(* a request's future may be dropped when its client goes away, and the    *)
(* process may crash; those are faults, and the model counts them.         *)
(*                                                                         *)
(* The audit log is the reference AuditStore, whose append is one step;    *)
(* SqliteAuditStore is shown to implement it.                              *)
(***************************************************************************)
EXTENDS Integers, Sequences

CONSTANTS
  Alerts,      \* alert ids, each drawn by one run of the pipeline
  Requests,    \* decision submissions; a retry is a request of its own
  NoRequest,   \* the author of an audit event that is no decision
  NoAlert,     \* the target of a request that has not been submitted
  Decisions,   \* the decisions investigators submit
  MaxFaults    \* bound on the number of faults

AllDecisions == {"dismissed", "under_investigation", "escalated", "confirmed_suspicious"}

AlertStatus == {"open"} \cup AllDecisions

AiAdvisoryStatus == {"pending", "ready", "unavailable"}

ASSUME RequestsAssumption == NoRequest \notin Requests
ASSUME AlertsAssumption == NoAlert \notin Alerts
ASSUME DecisionsAssumption == Decisions \subseteq AllDecisions
ASSUME FaultsAssumption == MaxFaults \in Nat

VARIABLES
  alerts,     \* table alerts: a function from the ids inserted so far
  decisions,  \* table alert_decisions, in the order of commits
  audit,      \* the audit log
  admin,      \* the contract's storage: whether an admin is set ...
  anchors,    \* ... and, per alert, the request whose decision is anchored
  cli,        \* requests whose anchor_decision, a stellar process, is under way
  pipe,       \* where each run of the pipeline is
  advice,     \* what its advisor said
  req,        \* each request's handler: program counter, arguments and locals
  clock,      \* Utc::now()
  faults

chain == <<admin, anchors>>
vars == <<alerts, decisions, audit, chain, cli, pipe, advice, req, clock, faults>>

PipeRunning == {"insert", "audit_created", "audit_requested", "investigate",
                "set_ai_status", "audit_outcome"}
PipeEnded == {"done", "unsettled", "failed", "lost"}

ReqRunning == {"get", "record", "audit", "anchor"}
ReqEnded == {"done", "not_found", "error", "dropped"}

Row == [by : Requests, alert : Alerts, decision : Decisions, created_at : Nat]

EventKind == {"alert_created", "ai_advisory_requested", "ai_advisory_received",
              "ai_advisory_unavailable", "investigator_decision"}

Event == [kind : EventKind, alert : Alerts, by : Requests \cup {NoRequest},
          previous_status : AlertStatus]

Handler == [pc : {"idle"} \cup ReqRunning \cup ReqEnded, alert : Alerts \cup {NoAlert},
            decision : AllDecisions, previous_status : AlertStatus, created_at : Nat,
            since : Nat]   \* history: the decisions committed when it was submitted

\* f with f[x] = v, where x may or may not be in its domain.
With(f, x, v) == [y \in DOMAIN f \cup {x} |-> IF y = x THEN v ELSE f[y]]

PipelineEvent(kind, a) ==
  [kind |-> kind, alert |-> a, by |-> NoRequest, previous_status |-> "open"]

OutcomeKind(ai) ==
  IF ai = "ready" THEN "ai_advisory_received" ELSE "ai_advisory_unavailable"

\* Mutant: the event is built from the alert after the decision.
DecisionEvent_NewStatus(r) ==
  [kind |-> "investigator_decision", alert |-> req[r].alert, by |-> r,
   previous_status |-> req[r].decision]

DecisionEvent(r) ==
  [kind |-> "investigator_decision", alert |-> req[r].alert, by |-> r,
   previous_status |-> req[r].previous_status]

Init ==
  /\ alerts = [a \in {} |-> [status |-> "open", ai |-> "pending"]]
  /\ decisions = << >>
  /\ audit = << >>
  /\ admin \in BOOLEAN
  /\ anchors = [a \in {} |-> NoRequest]
  /\ cli = {}
  /\ pipe = [a \in Alerts |-> "insert"]
  /\ advice = [a \in Alerts |-> "pending"]
  /\ req = [r \in Requests |->
              [pc |-> "idle", alert |-> NoAlert, decision |-> "dismissed",
               previous_status |-> "open", created_at |-> 0, since |-> 0]]
  /\ clock = 0
  /\ faults = 0

-----------------------------------------------------------------------------
(* The pipeline: create_alert, then request_ai_advisory. *)

PipeGoto(a, l) == pipe' = [pipe EXCEPT ![a] = l]

InsertAlert(a) ==
  /\ pipe[a] = "insert"
  /\ alerts' = With(alerts, a, [status |-> "open", ai |-> "pending"])
  /\ PipeGoto(a, "audit_created")
  /\ UNCHANGED <<decisions, audit, chain, cli, advice, req, clock, faults>>

AuditCreated(a) ==
  /\ pipe[a] = "audit_created"
  /\ audit' = Append(audit, PipelineEvent("alert_created", a))
  /\ PipeGoto(a, "audit_requested")
  /\ UNCHANGED <<alerts, decisions, chain, cli, advice, req, clock, faults>>

AuditRequested(a) ==
  /\ pipe[a] = "audit_requested"
  /\ audit' = Append(audit, PipelineEvent("ai_advisory_requested", a))
  /\ PipeGoto(a, "investigate")
  /\ UNCHANGED <<alerts, decisions, chain, cli, advice, req, clock, faults>>

\* The advisor answers, or it refuses, fails or answers nonsense.
Investigate(a) ==
  /\ pipe[a] = "investigate"
  /\ \E answer \in {"ready", "unavailable"} : advice' = [advice EXCEPT ![a] = answer]
  /\ PipeGoto(a, "set_ai_status")
  /\ UNCHANGED <<alerts, decisions, audit, chain, cli, req, clock, faults>>

\* Mutants: the whole row is written back as it was created; only an answer is
\* stored; the name of the event is stored in place of the status.
SetAiStatus_WholeRow(a) ==
  /\ pipe[a] = "set_ai_status"
  /\ alerts' = [alerts EXCEPT ![a] = [status |-> "open", ai |-> advice[a]]]
  /\ PipeGoto(a, "audit_outcome")
  /\ UNCHANGED <<decisions, audit, chain, cli, advice, req, clock, faults>>

SetAiStatus_OnlyReady(a) ==
  /\ pipe[a] = "set_ai_status"
  /\ alerts' = IF advice[a] = "ready" THEN [alerts EXCEPT ![a].ai = advice[a]] ELSE alerts
  /\ PipeGoto(a, "audit_outcome")
  /\ UNCHANGED <<decisions, audit, chain, cli, advice, req, clock, faults>>

SetAiStatus_EventName(a) ==
  /\ pipe[a] = "set_ai_status"
  /\ alerts' = [alerts EXCEPT ![a].ai = OutcomeKind(advice[a])]
  /\ PipeGoto(a, "audit_outcome")
  /\ UNCHANGED <<decisions, audit, chain, cli, advice, req, clock, faults>>

\* The first half of record_ai_advisory or of record_ai_unavailable.
SetAiStatus(a) ==
  /\ pipe[a] = "set_ai_status"
  /\ alerts' = [alerts EXCEPT ![a].ai = advice[a]]
  /\ PipeGoto(a, "audit_outcome")
  /\ UNCHANGED <<decisions, audit, chain, cli, advice, req, clock, faults>>

\* Mutant: only an answer is audited.
AuditOutcome_OnlyReady(a) ==
  /\ pipe[a] = "audit_outcome"
  /\ audit' = IF advice[a] = "ready"
              THEN Append(audit, PipelineEvent(OutcomeKind(advice[a]), a)) ELSE audit
  /\ PipeGoto(a, "done")
  /\ UNCHANGED <<alerts, decisions, chain, cli, advice, req, clock, faults>>

\* The second half.
AuditOutcome(a) ==
  /\ pipe[a] = "audit_outcome"
  /\ audit' = Append(audit, PipelineEvent(OutcomeKind(advice[a]), a))
  /\ PipeGoto(a, "done")
  /\ UNCHANGED <<alerts, decisions, chain, cli, advice, req, clock, faults>>

Fault == faults < MaxFaults /\ faults' = faults + 1

\* Mutant: create_alert ignores that AlertCreated could not be audited.
PipeError_CreationGoesOn(a) ==
  /\ \/ pipe[a] = "insert" /\ PipeGoto(a, "failed")
     \/ pipe[a] = "audit_created" /\ PipeGoto(a, "audit_requested")
     \/ pipe[a] = "audit_requested" /\ PipeGoto(a, "investigate")
     \/ pipe[a] = "set_ai_status" /\ PipeGoto(a, "unsettled")
     \/ pipe[a] = "audit_outcome" /\ PipeGoto(a, "done")
  /\ Fault
  /\ UNCHANGED <<alerts, decisions, audit, chain, cli, advice, req, clock>>

\* A statement of the pipeline fails.  create_alert returns the error; the
\* failure to audit the AI request is only logged, and so is the failure to
\* store or audit the outcome, which is then not tried again.
PipeError(a) ==
  /\ \/ pipe[a] \in {"insert", "audit_created"} /\ PipeGoto(a, "failed")
     \/ pipe[a] = "audit_requested" /\ PipeGoto(a, "investigate")
     \/ pipe[a] = "set_ai_status" /\ PipeGoto(a, "unsettled")
     \/ pipe[a] = "audit_outcome" /\ PipeGoto(a, "done")
  /\ Fault
  /\ UNCHANGED <<alerts, decisions, audit, chain, cli, advice, req, clock>>

\* The pipeline also runs in the handler of /api/transactions/ingest, which is
\* dropped when its client goes away.
PipeDropped(a) ==
  /\ pipe[a] \in PipeRunning
  /\ PipeGoto(a, "lost")
  /\ Fault
  /\ UNCHANGED <<alerts, decisions, audit, chain, cli, advice, req, clock>>

-----------------------------------------------------------------------------
(* A decision: the handler, submit_decision of the service, the anchor. *)

ReqGoto(r, l) == req' = [req EXCEPT ![r].pc = l]

Submit(r, a, d) ==
  /\ req[r].pc = "idle"
  /\ req' = [req EXCEPT ![r] = [@ EXCEPT !.pc = "get", !.alert = a, !.decision = d,
                                        !.since = Len(decisions)]]
  /\ UNCHANGED <<alerts, decisions, audit, chain, cli, pipe, advice, clock, faults>>

\* The record's created_at is taken here, before record_decision is awaited.
GetAlert(r) ==
  /\ req[r].pc = "get"
  /\ req[r].alert \in DOMAIN alerts
  /\ clock' = clock + 1
  /\ req' = [req EXCEPT ![r] =
               [@ EXCEPT !.pc = "record", !.created_at = clock + 1,
                         !.previous_status = alerts[req[r].alert].status]]
  /\ UNCHANGED <<alerts, decisions, audit, chain, cli, pipe, advice, faults>>

AlertNotFound(r) ==
  /\ req[r].pc = "get"
  /\ req[r].alert \notin DOMAIN alerts
  /\ ReqGoto(r, "not_found")
  /\ UNCHANGED <<alerts, decisions, audit, chain, cli, pipe, advice, clock, faults>>

\* Mutants: the decision is audited before it is recorded; the anchor is sent
\* before it is audited; an alert has one row, which a new decision replaces.
RecordDecision_AuditFirst(r) ==
  /\ req[r].pc = "record"
  /\ audit' = Append(audit, DecisionEvent(r))
  /\ ReqGoto(r, "audit")
  /\ UNCHANGED <<alerts, decisions, chain, cli, pipe, advice, clock, faults>>

RecordDecision_AnchorFirst(r) ==
  /\ req[r].pc = "record"
  /\ decisions' = Append(decisions, [by |-> r, alert |-> req[r].alert,
                                     decision |-> req[r].decision,
                                     created_at |-> req[r].created_at])
  /\ alerts' = [alerts EXCEPT ![req[r].alert].status = req[r].decision]
  /\ cli' = cli \cup {r}
  /\ ReqGoto(r, "audit")
  /\ UNCHANGED <<audit, chain, pipe, advice, clock, faults>>

RecordDecision_Replaces(r) ==
  /\ req[r].pc = "record"
  /\ decisions' = Append(SelectSeq(decisions, LAMBDA d : d.alert # req[r].alert),
                         [by |-> r, alert |-> req[r].alert,
                          decision |-> req[r].decision,
                          created_at |-> req[r].created_at])
  /\ alerts' = [alerts EXCEPT ![req[r].alert].status = req[r].decision]
  /\ ReqGoto(r, "audit")
  /\ UNCHANGED <<audit, chain, cli, pipe, advice, clock, faults>>

\* One transaction: INSERT the decision, UPDATE the status.
RecordDecision(r) ==
  /\ req[r].pc = "record"
  /\ decisions' = Append(decisions, [by |-> r, alert |-> req[r].alert,
                                     decision |-> req[r].decision,
                                     created_at |-> req[r].created_at])
  /\ alerts' = [alerts EXCEPT ![req[r].alert].status = req[r].decision]
  /\ ReqGoto(r, "audit")
  /\ UNCHANGED <<audit, chain, cli, pipe, advice, clock, faults>>

\* The service returns, and the handler starts the stellar command line.
AuditDecision(r) ==
  /\ req[r].pc = "audit"
  /\ audit' = Append(audit, DecisionEvent(r))
  /\ cli' = cli \cup {r}
  /\ ReqGoto(r, "anchor")
  /\ UNCHANGED <<alerts, decisions, chain, pipe, advice, clock, faults>>

\* The contract is set up, once, by whoever has deployed it.
initialize ==
  /\ ~admin
  /\ admin' = TRUE
  /\ UNCHANGED <<alerts, decisions, audit, anchors, cli, pipe, advice, req, clock, faults>>

\* The contract's anchor: the alert's commitment is set, or replaced ...
CliLands(r) ==
  /\ r \in cli
  /\ admin
  /\ anchors' = With(anchors, req[r].alert, r)
  /\ cli' = cli \ {r}
  /\ UNCHANGED <<alerts, decisions, audit, admin, pipe, advice, req, clock, faults>>

\* ... unless it has not been set up, or, with NoopAnchor, never will be: the
\* call ends with NotInitialized, or NotConfigured.
CliRefused(r) ==
  /\ r \in cli
  /\ ~admin
  /\ cli' = cli \ {r}
  /\ UNCHANGED <<alerts, decisions, audit, chain, pipe, advice, req, clock, faults>>

\* The process cannot be started, or the transaction fails.
CliFails(r) ==
  /\ r \in cli
  /\ cli' = cli \ {r}
  /\ Fault
  /\ UNCHANGED <<alerts, decisions, audit, chain, pipe, advice, req, clock>>

\* Mutant: the handler waits until its decision is the one on chain.
Respond_OnceAnchored(r) ==
  /\ req[r].pc = "anchor"
  /\ req[r].alert \in DOMAIN anchors /\ anchors[req[r].alert] = r
  /\ ReqGoto(r, "done")
  /\ UNCHANGED <<alerts, decisions, audit, chain, cli, pipe, advice, clock, faults>>

\* The handler answers, whatever became of the anchor.
Respond(r) ==
  /\ req[r].pc = "anchor"
  /\ r \notin cli
  /\ ReqGoto(r, "done")
  /\ UNCHANGED <<alerts, decisions, audit, chain, cli, pipe, advice, clock, faults>>

\* A statement of the service fails, and the client gets an error.
ReqError(r) ==
  /\ req[r].pc \in {"get", "record", "audit"}
  /\ ReqGoto(r, "error")
  /\ Fault
  /\ UNCHANGED <<alerts, decisions, audit, chain, cli, pipe, advice, clock>>

\* The client goes away and the handler is dropped; a stellar process it has
\* started runs on.
ReqDropped(r) ==
  /\ req[r].pc \in ReqRunning
  /\ ReqGoto(r, "dropped")
  /\ Fault
  /\ UNCHANGED <<alerts, decisions, audit, chain, cli, pipe, advice, clock>>

-----------------------------------------------------------------------------

\* The process dies; tables, chain and stellar processes are not part of it.
Crash ==
  /\ pipe' = [a \in Alerts |-> IF pipe[a] \in PipeRunning THEN "lost" ELSE pipe[a]]
  /\ req' = [r \in Requests |->
               IF req[r].pc \in ReqRunning THEN [req[r] EXCEPT !.pc = "dropped"] ELSE req[r]]
  /\ Fault
  /\ UNCHANGED <<alerts, decisions, audit, chain, cli, advice, clock>>

PipeStep(a) ==
  \/ InsertAlert(a)
  \/ AuditCreated(a)
  \/ AuditRequested(a)
  \/ SetAiStatus(a)
  \/ AuditOutcome(a)

ReqStep(r) ==
  \/ GetAlert(r)
  \/ AlertNotFound(r)
  \/ RecordDecision(r)
  \/ AuditDecision(r)
  \/ Respond(r)

Next ==
  \/ \E a \in Alerts : PipeStep(a) \/ Investigate(a) \/ PipeError(a) \/ PipeDropped(a)
  \/ \E r \in Requests :
       \/ \E a \in Alerts, d \in Decisions : Submit(r, a, d)
       \/ ReqStep(r) \/ CliLands(r) \/ CliRefused(r) \/ CliFails(r)
       \/ ReqError(r) \/ ReqDropped(r)
  \/ initialize
  \/ Crash

Spec == Init /\ [][Next]_vars

\* The runtime polls every future that can go on.  Nothing makes the advisor
\* answer, or a stellar process end: no timeout is set on either.
Fairness ==
  /\ \A a \in Alerts : WF_vars(PipeStep(a))
  /\ \A r \in Requests : WF_vars(ReqStep(r))

FairSpec == Spec /\ Fairness

-----------------------------------------------------------------------------

TypeOK ==
  /\ DOMAIN alerts \subseteq Alerts
  /\ alerts \in [DOMAIN alerts -> [status : AlertStatus, ai : AiAdvisoryStatus]]
  /\ decisions \in Seq(Row)
  /\ audit \in Seq(Event)
  /\ admin \in BOOLEAN
  /\ DOMAIN anchors \subseteq Alerts
  /\ anchors \in [DOMAIN anchors -> Requests]
  /\ cli \subseteq Requests
  /\ pipe \in [Alerts -> PipeRunning \cup PipeEnded]
  /\ advice \in [Alerts -> AiAdvisoryStatus]
  /\ req \in [Requests -> Handler]
  /\ clock \in Nat
  /\ faults \in 0..MaxFaults

Quiescent ==
  /\ \A a \in Alerts : pipe[a] \in PipeEnded
  /\ \A r \in Requests : req[r].pc \in {"idle"} \cup ReqEnded
  /\ cli = {}

\* The row i of alert_decisions is the last one committed for its alert.
IsLatest(i) ==
  \A j \in (i + 1)..Len(decisions) : decisions[j].alert # decisions[i].alert

Undecided(a) == \A i \in 1..Len(decisions) : decisions[i].alert # a

Audited(r) ==
  \E i \in 1..Len(audit) : audit[i].kind = "investigator_decision" /\ audit[i].by = r

EventsOf(a, kinds) == {i \in 1..Len(audit) : audit[i].alert = a /\ audit[i].kind \in kinds}

\* alerts.status is the decision committed last, and Open before the first; no
\* failure, crash, late handler or AI advisory makes it anything else.
StatusIsLatestCommit ==
  /\ \A i \in 1..Len(decisions) :
       /\ decisions[i].alert \in DOMAIN alerts
       /\ IsLatest(i) => alerts[decisions[i].alert].status = decisions[i].decision
  /\ \A a \in DOMAIN alerts : Undecided(a) => alerts[a].status = "open"

\* The audit log never runs ahead of the decisions: each decision event has its
\* own committed row, of the same alert.
AuditedIsCommitted ==
  /\ \A i \in 1..Len(audit) : audit[i].kind = "investigator_decision" =>
       \E k \in 1..Len(decisions) :
         decisions[k].by = audit[i].by /\ decisions[k].alert = audit[i].alert
  /\ \A i, j \in 1..Len(audit) :
       (audit[i].kind = "investigator_decision" /\ audit[i].kind = audit[j].kind
          /\ audit[i].by = audit[j].by) => i = j

\* The status of alert a was s when n decisions had been committed.
WasStatus(a, s, n) ==
  \/ /\ s = "open"
     /\ \A i \in 1..n : decisions[i].alert # a
  \/ \E j \in 1..n :
       /\ decisions[j].alert = a /\ decisions[j].decision = s
       /\ \A i \in (j + 1)..n : decisions[i].alert # a

\* The previous_status of a decision event is what the alert's status really was
\* at some time between the submission of that decision and its commit: another
\* investigator who decides meanwhile may be missed, but nothing older is shown.
PreviousStatusWasReal ==
  \A i \in 1..Len(audit) : audit[i].kind = "investigator_decision" =>
    \E k \in 1..Len(decisions) :
      /\ decisions[k].by = audit[i].by
      /\ \E n \in req[audit[i].by].since..(k - 1) :
           WasStatus(audit[i].alert, audit[i].previous_status, n)

\* What is on chain for an alert is a decision on that alert that is both in
\* alert_decisions and in the audit log.
AnchorIsAudited ==
  \A a \in DOMAIN anchors :
    /\ Audited(anchors[a])
    /\ \E k \in 1..Len(decisions) : decisions[k].by = anchors[a] /\ decisions[k].alert = a

\* AI events follow the event of the alert's creation, and a handler that answers
\* with success has left both a row and an audit event.
AuditIsOrdered ==
  /\ \A i \in 1..Len(audit) : audit[i].kind \notin {"alert_created", "investigator_decision"} =>
       \E j \in 1..(i - 1) : audit[j].kind = "alert_created" /\ audit[j].alert = audit[i].alert
  /\ \A r \in Requests : req[r].pc = "done" => Audited(r)

\* Without faults nothing is missing at rest: every alert has its three pipeline
\* events and a settled advisory, and every decision its event.
CompleteWithoutFaults ==
  (faults = 0 /\ Quiescent) =>
    /\ \A a \in Alerts :
         /\ a \in DOMAIN alerts /\ alerts[a].ai = advice[a] /\ advice[a] # "pending"
         /\ \E i, j, k \in 1..Len(audit) :
              /\ i < j /\ j < k
              /\ EventsOf(a, EventKind \ {"investigator_decision"}) = {i, j, k}
              /\ audit[i].kind = "alert_created"
              /\ audit[j].kind = "ai_advisory_requested"
              /\ audit[k].kind = OutcomeKind(alerts[a].ai)
    /\ \A k \in 1..Len(decisions) : Audited(decisions[k].by)

\* Decisions, audit events and settled advisories are never changed or taken back.
HistoryIsKept ==
  [][ /\ Len(decisions') >= Len(decisions)
      /\ \A i \in 1..Len(decisions) : decisions'[i] = decisions[i]
      /\ Len(audit') >= Len(audit)
      /\ \A i \in 1..Len(audit) : audit'[i] = audit[i]
      /\ \A a \in DOMAIN alerts :
           /\ a \in DOMAIN alerts'
           /\ alerts[a].ai # "pending" => alerts'[a].ai = alerts[a].ai ]_vars

\* Every decision that is submitted is answered, unless the stellar process of
\* this very decision never ends: neither other requests nor the pipeline, nor
\* what becomes of the anchor, can hold it up.  The exception is needed, for the
\* handler waits for that process and no timeout ends it, although the comment in
\* submit_decision says that anchoring never blocks the decision.
DecisionReturns ==
  \A r \in Requests : <>[](r \in cli) \/ (req[r].pc = "get" ~> req[r].pc \in ReqEnded)

\* The advisory of an alert is settled, one way or the other, unless the advisor
\* never answers or this run of the pipeline ends before it has stored the outcome.
AdvisorySettles ==
  \A a \in Alerts :
    \/ <>[](pipe[a] = "investigate")
    \/ (a \in DOMAIN alerts)
         ~> \/ a \in DOMAIN alerts /\ alerts[a].ai # "pending"
            \/ pipe[a] \in {"unsettled", "failed", "lost"}

-----------------------------------------------------------------------------
(* What the repository says of this code, and the code does not do. *)

\* decision_history sorts by created_at; its last row decides alerts.status.
StatusIsLastOfHistory ==
  Quiescent => \A i \in 1..Len(decisions) :
    (\A j \in 1..Len(decisions) : decisions[j].alert = decisions[i].alert
        => decisions[j].created_at <= decisions[i].created_at)
    => alerts[decisions[i].alert].status = decisions[i].decision
=============================================================================
