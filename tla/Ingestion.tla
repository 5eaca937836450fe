----------------------------- MODULE Ingestion -----------------------------
(***************************************************************************)
(* The background loop run_source and what it calls                        *)
(* (crates/api/src/pipeline.rs): load the cursor, poll the source, process *)
(* every transaction of the batch, put what failed into the dead-letter    *)
(* table, persist the cursor (crates/storage/src/ingestion_repo.rs),       *)
(* sleep, and again; and the endpoint ingest_transaction, which an         *)
(* administrator uses to send one transaction through process_transaction  *)
(* while the loop is running.                                              *)
(*                                                                         *)
(* The source is Horizon, or, where no URL is configured, the fixed list   *)
(* of demo transactions.  Transactions are numbered: those of the ledger   *)
(* 1..MaxTx in ledger order, and a number is its own paging token; the     *)
(* demo transactions come after them, and the demo cursor is an index into *)
(* the list.  0 stands for no cursor.  A poll that fails after its         *)
(* retries, and the sleep, change nothing and are stuttering steps.  A     *)
(* transaction is Suspicious if the rules give it a severity.              *)
(***************************************************************************)
EXTENDS Integers, FiniteSets, Sequences

CONSTANTS
  MaxTx,        \* bound on the transactions the network publishes
  PageLimit,    \* transactions per page
  Demo,         \* how many demo transactions there are
  Suspicious,   \* the transactions the rules flag
  Postable,     \* the transactions that may be sent to the endpoint
  MaxPosts,     \* bound on how often that happens
  Faults,       \* which kinds of fault may happen
  MaxFaults     \* bound on how many do

FaultKinds ==
  {"crash", "storage", "fetch", "write_cursor", "read_cursor", "dead_letter", "disconnect"}
Sources == {"horizon", "demo"}
Txs == 1..(MaxTx + Demo)

ASSUME MaxTxAssumption == MaxTx \in Nat /\ Demo \in Nat
ASSUME PageAssumption == PageLimit \in Nat \ {0}
ASSUME SuspiciousAssumption == Suspicious \subseteq Txs /\ Postable \subseteq Txs
ASSUME FaultsAssumption == Faults \subseteq FaultKinds /\ MaxFaults \in Nat /\ MaxPosts \in Nat

VARIABLES
  ledger,        \* transactions published so far
  source,        \* the configured source
  cursor_row,    \* table ingestion_cursors: a row per source
  transactions,  \* table transactions
  alerts,        \* table alerts: how many there are for each transaction
  dead_letters,  \* table ingestion_dead_letter
  pc,            \* where the loop and the endpoint are
  cursor,        \* the loop's local variable
  todo,          \* the rest of batch.transactions
  failures,      \* the rest of batch.failures
  next_cursor,   \* batch.next_cursor
  tx,            \* the transaction sent to the endpoint, 0 if there is none
  posts,         \* the transactions that have been sent to the endpoint
  handled,       \* history: the loop's process_transaction has returned Ok for these
  answered,      \* history: the endpoint's has
  first,         \* history: where the page starts whose cursor was first persisted
  lost,          \* history: it was logged of these that they may be lost
  misread,       \* history: the cursor could not be read, and was taken for none
  restarts,      \* history: how often the process has crashed
  faults

tables == <<cursor_row, transactions, alerts, dead_letters>>
locals == <<cursor, todo, failures, next_cursor>>
request == <<tx, posts>>
history == <<handled, answered, first, lost, misread, restarts>>
vars == <<ledger, source, tables, pc, locals, request, history, faults>>

PCs == {"load_cursor", "poll", "idle", "save", "evaluate", "audit", "advise", "dead_letter"}

IsLeast(t, S) == t \in S /\ \A u \in S : t <= u

Init ==
  /\ ledger = 0
  /\ source \in Sources
  /\ cursor_row = [s \in Sources |-> 0]
  /\ transactions = {} /\ dead_letters = {}
  /\ alerts = [t \in Txs |-> 0]
  /\ pc = [loop |-> "load_cursor", endpoint |-> "idle"]
  /\ cursor = 0 /\ todo = {} /\ failures = {} /\ next_cursor = 0
  /\ tx = 0 /\ posts = <<>>
  /\ handled = {} /\ answered = {} /\ first = 0 /\ lost = {} /\ misread = FALSE /\ restarts = 0
  /\ faults = 0

Fault(kind) == kind \in Faults /\ faults < MaxFaults /\ faults' = faults + 1
Goto(who, where) == pc' = [pc EXCEPT ![who] = where]

Publish ==
  /\ ledger < MaxTx
  /\ ledger' = ledger + 1
  /\ UNCHANGED <<source, tables, pc, locals, request, history, faults>>

-----------------------------------------------------------------------------

\* Mutant: one cursor, whatever the source is called.
SavedCursor_AnySource ==
  IF cursor_row[source] > 0 THEN cursor_row[source]
  ELSE cursor_row[CHOOSE s \in Sources : s # source]

SavedCursor == cursor_row[source]

LoadCursor ==
  /\ pc.loop = "load_cursor"
  /\ cursor' = SavedCursor
  /\ Goto("loop", "poll")
  /\ UNCHANGED <<ledger, source, tables, todo, failures, next_cursor, request, history, faults>>

\* .ok().flatten(): an error is taken for a source that has no cursor yet.
LoadCursorFails ==
  /\ pc.loop = "load_cursor"
  /\ Fault("read_cursor")
  /\ cursor' = 0
  /\ misread' = TRUE
  /\ Goto("loop", "poll")
  /\ UNCHANGED <<ledger, source, tables, todo, failures, next_cursor, request,
                 handled, answered, first, lost, restarts>>

\* The page after the cursor, or the newest page if there is none.
PageStart == IF cursor > 0 THEN cursor + 1
             ELSE IF ledger > PageLimit THEN ledger - PageLimit + 1 ELSE 1
\* Mutant: without a cursor, too, Horizon is asked in ascending order.
PageEnd_Ascending == IF ledger > cursor + PageLimit THEN cursor + PageLimit ELSE ledger

PageEnd == IF cursor > 0 /\ ledger > cursor + PageLimit THEN cursor + PageLimit ELSE ledger

Page == PageStart..PageEnd

Batch(good, bad, next) ==
  /\ todo' = good
  /\ failures' = bad
  /\ next_cursor' = next
  /\ Goto("loop", "save")

\* The transactions of bad could not be fetched or normalized.
Poll(bad) ==
  /\ pc.loop = "poll" /\ source = "horizon"
  /\ IF bad = {} THEN UNCHANGED faults ELSE Fault("fetch")
  /\ Batch(Page \ bad, bad, IF Page # {} THEN PageEnd ELSE cursor)
  /\ first' = IF cursor_row.horizon = 0 /\ cursor = 0 /\ Page # {} THEN PageStart ELSE first
  /\ UNCHANGED <<ledger, source, tables, cursor, request, handled, answered, lost, misread, restarts>>

\* The whole list fits into one batch.
PollDemo ==
  /\ pc.loop = "poll" /\ source = "demo"
  /\ IF cursor < Demo THEN Batch({MaxTx + i : i \in (cursor + 1)..Demo}, {}, Demo)
                      ELSE Batch({}, {}, cursor)
  /\ UNCHANGED <<ledger, source, tables, cursor, request, history, faults>>

-----------------------------------------------------------------------------
(* ingest_transaction: the role has been checked, process_transaction follows. *)

Post(t) ==
  /\ pc.endpoint = "idle"
  /\ Len(posts) < MaxPosts
  /\ tx' = t
  /\ posts' = Append(posts, t)
  /\ Goto("endpoint", "save")
  /\ UNCHANGED <<ledger, source, tables, locals, history, faults>>

\* The client disconnects, and the handler's future is dropped.
PostDropped ==
  /\ pc.endpoint # "idle"
  /\ Fault("disconnect")
  /\ tx' = 0
  /\ Goto("endpoint", "idle")
  /\ UNCHANGED <<ledger, source, tables, locals, posts, history>>

-----------------------------------------------------------------------------
(* process_transaction: for the next transaction of the batch in the loop, *)
(* for the one that was sent in the endpoint.                              *)

Actors == {"loop", "endpoint"}
Processes(who, t) == IF who = "loop" THEN IsLeast(t, todo) ELSE t = tx

\* The loop goes on to the next transaction; the endpoint has answered.
Finished(who, t) ==
  IF who = "loop" THEN todo' = todo \ {t} /\ Goto("loop", "save") /\ UNCHANGED tx
                  ELSE tx' = 0 /\ Goto("endpoint", "idle") /\ UNCHANGED todo

ReturnsOk(who, t) ==
  /\ Finished(who, t)
  /\ IF who = "loop" THEN handled' = handled \cup {t} /\ UNCHANGED answered
                     ELSE answered' = answered \cup {t} /\ UNCHANGED handled
  /\ UNCHANGED <<ledger, source, tables, cursor, failures, next_cursor, posts,
                 first, lost, misread, restarts, faults>>

Save(who, t) ==
  /\ pc[who] = "save"
  /\ Processes(who, t)
  /\ transactions' = transactions \cup {t}
  /\ Goto(who, "evaluate")
  /\ UNCHANGED <<ledger, source, cursor_row, alerts, dead_letters, locals, request, history, faults>>

\* Mutant: a transaction that is already stored is not judged again.
NotSuspicious_Stored(who, t) ==
  /\ pc[who] \in {"save", "evaluate"}
  /\ Processes(who, t)
  /\ IF pc[who] = "save" THEN t \in transactions ELSE t \notin Suspicious
  /\ ReturnsOk(who, t)

\* No rule gives it a severity.
NotSuspicious(who, t) ==
  /\ pc[who] = "evaluate"
  /\ Processes(who, t)
  /\ t \notin Suspicious
  /\ ReturnsOk(who, t)

\* create_alert inserts the alert, under an id of its own ...
InsertAlert(who, t) ==
  /\ pc[who] = "evaluate"
  /\ Processes(who, t)
  /\ t \in Suspicious
  /\ alerts' = [alerts EXCEPT ![t] = @ + 1]
  /\ Goto(who, "audit")
  /\ UNCHANGED <<ledger, source, cursor_row, transactions, dead_letters, locals, request,
                 history, faults>>

\* ... and audits it.
AuditAlert(who, t) ==
  /\ pc[who] = "audit"
  /\ Processes(who, t)
  /\ Goto(who, "advise")
  /\ UNCHANGED <<ledger, source, tables, locals, request, history, faults>>

\* request_ai_advisory cannot fail the transaction: whatever it cannot store, it
\* logs.  But it waits for an answer of the AI service, and nothing limits the wait.
Advise(who, t) ==
  /\ pc[who] = "advise"
  /\ Processes(who, t)
  /\ ReturnsOk(who, t)

\* The loop has a dead-letter table for it, the endpoint's client an error.
ProcessFails(who, t) ==
  /\ pc[who] \in {"save", "evaluate", "audit"}
  /\ Processes(who, t)
  /\ Fault("storage")
  /\ IF who = "loop" THEN Goto("loop", "dead_letter") /\ UNCHANGED <<todo, tx>>
                     ELSE Finished("endpoint", t)
  /\ UNCHANGED <<ledger, source, tables, cursor, failures, next_cursor, posts, history>>

DeadLetter(t) ==
  /\ pc.loop = "dead_letter"
  /\ Processes("loop", t)
  /\ dead_letters' = dead_letters \cup {t}
  /\ Finished("loop", t)
  /\ UNCHANGED <<ledger, source, cursor_row, transactions, alerts, cursor, failures, next_cursor,
                 posts, history, faults>>

\* It is logged that the transaction may be lost.
DeadLetterFails(t) ==
  /\ pc.loop = "dead_letter"
  /\ Processes("loop", t)
  /\ Fault("dead_letter")
  /\ lost' = lost \cup {t}
  /\ Finished("loop", t)
  /\ UNCHANGED <<ledger, source, tables, cursor, failures, next_cursor, posts,
                 handled, answered, first, misread, restarts>>

-----------------------------------------------------------------------------
(* The rest of process_batch, and of the loop. *)

\* Mutant: the failures of the batch are only logged.
DeadLetterFailure_OnlyLogged(t) ==
  /\ pc.loop = "save" /\ todo = {}
  /\ IsLeast(t, failures)
  /\ failures' = failures \ {t}
  /\ UNCHANGED <<ledger, source, tables, pc, cursor, todo, next_cursor, request, history, faults>>

DeadLetterFailure(t) ==
  /\ pc.loop = "save" /\ todo = {}
  /\ IsLeast(t, failures)
  /\ dead_letters' = dead_letters \cup {t}
  /\ failures' = failures \ {t}
  /\ UNCHANGED <<ledger, source, cursor_row, transactions, alerts, pc, cursor, todo, next_cursor,
                 request, history, faults>>

DeadLetterFailureFails(t) ==
  /\ pc.loop = "save" /\ todo = {}
  /\ IsLeast(t, failures)
  /\ Fault("dead_letter")
  /\ lost' = lost \cup {t}
  /\ failures' = failures \ {t}
  /\ UNCHANGED <<ledger, source, tables, pc, cursor, todo, next_cursor, request,
                 handled, answered, first, misread, restarts>>

BatchDone == pc.loop = "save" /\ todo = {} /\ failures = {}

\* Mutant: the cursor is persisted and not kept in memory.
SetCursor_NotKept ==
  /\ BatchDone
  /\ cursor_row' = IF next_cursor > 0 THEN [cursor_row EXCEPT ![source] = next_cursor] ELSE cursor_row
  /\ Goto("loop", "poll")
  /\ UNCHANGED <<ledger, source, transactions, alerts, dead_letters, locals, request, history, faults>>

SetCursor ==
  /\ BatchDone
  /\ cursor_row' = IF next_cursor > 0 THEN [cursor_row EXCEPT ![source] = next_cursor] ELSE cursor_row
  /\ cursor' = IF next_cursor > 0 THEN next_cursor ELSE cursor
  /\ Goto("loop", "poll")
  /\ UNCHANGED <<ledger, source, transactions, alerts, dead_letters, todo, failures, next_cursor,
                 request, history, faults>>

\* The error is logged, and the loop goes on from the new cursor all the same.
SetCursorFails ==
  /\ BatchDone
  /\ next_cursor > 0
  /\ Fault("write_cursor")
  /\ cursor' = next_cursor
  /\ Goto("loop", "poll")
  /\ UNCHANGED <<ledger, source, tables, todo, failures, next_cursor, request, history>>

\* The process dies and starts again, perhaps configured for the other source.
Crash ==
  /\ Fault("crash")
  /\ restarts' = restarts + 1
  /\ source' \in Sources
  /\ pc' = [loop |-> "load_cursor", endpoint |-> "idle"]
  /\ cursor' = 0 /\ todo' = {} /\ failures' = {} /\ next_cursor' = 0
  /\ tx' = 0
  /\ UNCHANGED <<ledger, tables, posts, handled, answered, first, lost, misread>>

-----------------------------------------------------------------------------

ProcessStep(who, t) ==
  Save(who, t) \/ NotSuspicious(who, t) \/ InsertAlert(who, t) \/ AuditAlert(who, t)

\* What the loop does by itself.
LoopStep ==
  \/ LoadCursor
  \/ PollDemo
  \/ \E t \in todo : ProcessStep("loop", t) \/ DeadLetter(t)
  \/ \E t \in failures : DeadLetterFailure(t)
  \/ SetCursor

EndpointStep ==
  \/ \E t \in Postable : Post(t)
  \/ \E t \in Txs : ProcessStep("endpoint", t)

\* What the servers outside have to answer for.
Answer ==
  \/ Poll({})
  \/ \E who \in Actors, t \in Txs : Advise(who, t)

Next ==
  \/ Publish
  \/ LoopStep
  \/ Answer
  \/ EndpointStep
  \/ PostDropped
  \/ \E bad \in SUBSET Page : bad # {} /\ Poll(bad)
  \/ LoadCursorFails
  \/ \E who \in Actors, t \in Txs : ProcessFails(who, t)
  \/ \E t \in todo : DeadLetterFails(t)
  \/ \E t \in failures : DeadLetterFailureFails(t)
  \/ SetCursorFails
  \/ Crash

Spec == Init /\ [][Next]_vars

\* The loop is a task of its own and is polled whenever it can go on.  Nothing
\* makes Horizon or the AI service answer: their clients set no timeout.
FairSpec == Spec /\ WF_vars(LoopStep)

-----------------------------------------------------------------------------

TypeOK ==
  /\ ledger \in 0..MaxTx /\ source \in Sources
  /\ cursor_row.horizon \in 0..MaxTx /\ cursor_row.demo \in 0..Demo
  /\ cursor \in 0..(MaxTx + Demo) /\ next_cursor \in 0..(MaxTx + Demo)
  /\ transactions \subseteq Txs /\ dead_letters \subseteq Txs
  /\ handled \subseteq Txs /\ answered \subseteq Txs
  /\ todo \subseteq Txs /\ failures \subseteq Txs
  /\ alerts \in [Txs -> Nat]
  /\ pc \in [Actors -> PCs]
  /\ tx \in Txs \cup {0} /\ posts \in Seq(Txs)
  /\ first \in 0..MaxTx /\ lost \subseteq Txs /\ misread \in BOOLEAN
  /\ restarts \in Nat /\ faults \in 0..MaxFaults

Accounted(t) == t \in handled \cup dead_letters \cup lost

\* Unless the cursor was misread after a restart, every transaction from the page
\* whose cursor was first persisted up to the persisted cursor has been processed,
\* is in the dead-letter table, or was logged as possibly lost: neither a crash,
\* a failure at any point of the batch nor a change of the source lets the cursor
\* run ahead.  For the demo list, that is all of it, and misreading is harmless.
NoGap ==
  /\ (cursor_row.horizon > 0 /\ ~misread) => \A t \in first..cursor_row.horizon : Accounted(t)
  /\ \A i \in 1..cursor_row.demo : Accounted(MaxTx + i)

\* The persisted cursors never go back, even when a restarted loop seeds anew
\* because it could not read its own.
CursorAdvances == [][\A s \in Sources : cursor_row'[s] >= cursor_row[s]]_vars

TimesPosted(t) == Cardinality({i \in 1..Len(posts) : posts[i] = t})

\* Within one life of the process the loop alerts on no transaction twice,
\* although the cursor may fail to be saved: every further alert needs a restart,
\* or an administrator who sends the transaction to the endpoint.
DuplicatesAreExplained == \A t \in Txs : alerts[t] <= 1 + restarts + TimesPosted(t)

\* A suspicious transaction that counts as processed, or was reported to the
\* client as processed, is stored and has an alert, whoever else was processing
\* it at the same time; a dead letter may have one as well, if only its audit
\* event could not be written.
HandledIsAlerted ==
  \A t \in handled \cup answered : t \in transactions /\ (t \in Suspicious => alerts[t] > 0)

\* What the loop has to get to: all of the demo list, and of the ledger what
\* follows the first persisted page.
Due(t) ==
  IF t > MaxTx THEN source = "demo"
               ELSE source = "horizon" /\ cursor_row.horizon > 0 /\ first <= t /\ t <= ledger

\* The loop is waiting for Horizon, or for the AI service.
AwaitsHorizon == pc.loop = "poll" /\ source = "horizon"
AwaitsAdvisor == pc.loop = "advise"

\* As long as the source is not changed, every transaction is dealt with in the
\* end, in spite of crashes and failed statements, unless one request to Horizon
\* or to the AI service is never answered: nothing else holds the loop up.  The
\* second exception is needed, for the call has no timeout, although the advisor's
\* documentation says that it never blocks the pipeline.
EventuallyAccounted ==
  \/ <>[]AwaitsHorizon \/ <>[]AwaitsAdvisor
  \/ \A t \in Txs : Due(t) ~> (misread \/ ~Due(t) \/ Accounted(t))
=============================================================================
