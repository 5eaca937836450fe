# StellarRisk in TLA+

StellarRisk watches the Stellar network. A background loop polls Horizon,
normalizes and stores transactions, and runs deterministic rules on them; a
transaction that triggers a rule gets an alert and an AI advisory; investigators
decide on alerts through a JSON API or a dashboard; every lifecycle event goes into
a hash-chained audit log; every decision is anchored in a Soroban contract.

This directory models that life cycle, checks it with TLC, and proves all of its safety
properties with TLAPS. Paths below are relative to the repository.

## 1. Inventory

| Part | State it keeps | Operations | Talks to |
|---|---|---|---|
| Audit hash chain, `crates/audit/src/chain.rs` | none | `compute_hash`, `verify_chain` | audit stores |
| Audit stores, `crates/audit/src/store.rs`, `crates/storage/src/audit_store.rs` | table `audit_log`, mutex `append_lock` | `append`, `list_*`, `verify` | SQLite through sqlx |
| Alert service and store, `crates/alerts`, `crates/storage/src/alert_store.rs` | tables `alerts`, `alert_decisions` | `create_alert`, `record_ai_advisory_requested`, `record_ai_advisory`, `record_ai_unavailable`, `submit_decision` | audit store |
| Decision endpoints, `crates/api/src/routes` | none; a future per request | `submit_decision` (JSON and form) | service, then anchor |
| Anchor, `crates/soroban_anchor` | the contract's admin and its commitment per alert | `initialize`, `anchor` | the `stellar` process, the chain |
| AI advisor, `crates/ai_advisor` | none | `investigate`, `validate_and_sanitize` | Anthropic's API |
| Ingestion loop, `crates/api/src/pipeline.rs`, `crates/storage/src/ingestion_repo.rs` | tables `ingestion_cursors`, `ingestion_dead_letter`; local cursor and batch | `run_source`, `process_batch`, `process_transaction` | Horizon, all tables |
| Sources, `crates/ingestion`, `crates/api/src/demo.rs` | HTTP client, or a fixed list | `poll`, `get_json`, `normalize_transaction` | Horizon |
| Transaction repository, `crates/storage/src/tx_repo.rs` | table `transactions` | `save`, `build_account_history` | SQLite |
| Rules engine, `crates/rules_engine` | none | six rules, `evaluate_all`, `score` | - |
| Transaction endpoints, `crates/api/src/routes/transactions.rs` | none | `ingest`, `evaluate` | the same pipeline as the loop |
| Authentication, `crates/api/src/auth.rs`, `routes/auth.rs` | table `investigators`; tokens, which clients keep | `login`, `login_form`, `logout`, role checks | all endpoints |
| Bootstrap, `crates/api/src/main.rs`, `lib.rs`, `config.rs` | table `flagged_accounts` | seeding, choice of source, bind | all tables |
| Dashboard, `crates/api/src/routes/dashboard.rs` | none | list and page of alerts | service, audit store |

The hard part is not in any single function. Everything runs on one tokio runtime
over one SQLite pool:

* Every `.await` is a point where other requests run, and every request handler can
  be *dropped* there, because axum drops the future of a client that went away.
* `append` is a read-read-write sequence guarded by an in-process mutex, and sqlx
  executes statements on its own worker threads, which a dropped future does not stop.
* Decision, audit event and anchor are three separate writes without a common
  transaction; each can fail or be cut off after the one before.
* `submit_decision` reads the old status and takes `created_at` before it commits.
* The loop marks progress (the cursor) after the work, so that a crash repeats work,
  and several of its error paths only log.
* An account's history is read with three SELECTs, between which others write.
* The stellar process and the advisor's HTTP call have no timeout.
* A poll is a list request and one more per record, each with its own retries, while
  the ledger grows.
* Bootstrap is a sequence of statements that another process may be executing too, and
  that may be cut off anywhere; tokens outlive the process that issued them.
* The page of an alert is put together from queries between which the alert changes.
* What the model answers is cleaned in steps whose order matters.

`PROJECT.json` lists these and the other hazards at their lines, with the properties
that watch them.

What makes the parts correct:

* audit log: no gap, nothing acknowledged is lost or altered, the store never breaks
  its own chain, and whoever else changes what is hashed is found out;
* alerts: the status is the last decision; audit trail and chain never claim what was
  not decided; nothing is missing unless something failed; only the stellar process and
  the advisor can hold anybody up;
* ingestion: nothing behind the cursor is unaccounted for, the cursor never moves
  back, duplicates are explained, and everything is dealt with in the end as long as
  Horizon and the advisor answer;
* sources: every record exactly once, in order, and failures only where retrying is of
  no use;
* access: an administrator before anybody else, whatever happens at start-up, and none
  created by later starts; nothing is done but for somebody who has logged in and may
  do it;
* advisor: what is stored is inert and bounded, and nothing harmless is lost;
* alert page: what it shows is explained by what it shows;
* detection: what a verdict rests on is coherent and reproducible, bursts are not
  missed, and the hard rules weigh enough.

## 2. Modules

    AuditChain  <-  InMemoryAuditStore        (abstract specification)
                <-  SqliteAuditStore          (detailed; refines it)
    AlertService                              (its audit log is the abstract one)
                <-  AlertPage                 (the page, composed with the service)
    TransactionSource                         (abstract specification)
                <-  Horizon                   (detailed; refines it)
    Ingestion                                 (its Poll is one step of a source)
    RulesEngine <-  Detection                 (decides what is suspicious)
    Advisor                                   (decides how Investigate ends)
    Access                                    (stands in front of the endpoints)

Each of SqliteAuditStore, AlertService, AlertPage, Horizon, Ingestion, Detection, Advisor
and Access has a module `MC...` for TLC and a module `..._proof` with its theorems.

**AuditChain** is `chain.rs` and the SQL of `audit_store.rs` as pure operators. The
table is a function from sequence numbers to rows. SHA-256 is an injective
constructor (a tuple), so hashes are equal exactly when what was hashed is; this is
the collision freedom the code relies on. A row's content is its id and its event; the
id is not hashed (`chain.rs:28-35`). `LastHash`, `NextSequence` and `InsertRow`
are the three statements of `append`.

**InMemoryAuditStore** is the reference implementation in `crates/audit`: `append` is
one step.

**SqliteAuditStore** is the production store. A task goes through `lock`,
`select_hash`, `select_seq` and `insert`, one action per await. At each it may fail
(`StorageError`, `InsertConflict`), be dropped (`Drop`, `DropAfterInsert`,
`DropBeforeInsert`) or die (`Crash`). The constant `DetachedWrites` says whether an
INSERT may be executed after its future was dropped and the mutex released.

**AlertService** has one process per alert (the pipeline: insert, audit the creation,
audit the request, ask, store the outcome, audit it) and one per decision request
(get, record, audit, anchor, respond), a stellar process per anchored decision that
outlives its request, the contract with its one-time `initialize`, which may have happened
before the server is started, and faults: a
failing statement, a dropped handler, a crash, a failed anchor. `record_decision` is one
SQL transaction and one action. The audit log is a sequence to which `append` adds atomically, which `ImplementsReference` justifies
for a store whose writes are not detached. `created_at` is a counter taken where the
code calls `Utc::now()`. Commit and then loss of the answer is `RecordDecision`
followed by `ReqDropped`, and a statement that takes effect late is the same as one
whose request was merely slow before it was dropped.

**AlertPage** extends AlertService with `alert_detail`: the alert, its decisions and its
audit trail are read by one query each, with steps of everyone else in between.
`OrderBy` is SQL's: a row is at the place that the number of rows up to it says, rows with
equal keys in the order of the table.

**TransactionSource** is what the trait promises the loop: a poll looks at the ledger
once and returns an error, or every record of the page it saw, in order, as a
transaction or a failure, and the cursor to go on from. The page is the set of its records;
`Splits` says that the two lists of the batch have each of them once, in ledger order.

**Horizon** is `poll` and `get_json`, request by request. Each request may be answered by
success, a connection that fails under the body, an undecodable body, a client error, a
server error or no response at all; `log` keeps the answers per URL as history. A transaction is its paging token. The refinement
maps what `poll` has taken from the list and not yet returned to the abstract page.

**Ingestion** is the loop with its tables and its local variables, and the ingest
endpoint, which sends a transaction of its own, or one that the loop also has, through
the same `process_transaction`. The source is Horizon or the demo list, and a restart
may change it; each has its row in the cursor table. Transactions are numbered in ledger
order and a number is its paging token. `Poll` with no cursor returns the newest page,
with one the page after it; `bad` are the transactions that could not be fetched or
normalized. Save, severity, alert, audit, advisory and dead letter are steps of their own.
`handled`, `answered`, `first`, `lost`, `misread` and `restarts` are history variables:
`first` is where the page starts with which the persisted cursor began.

**Access** has server processes that boot in the steps of `main` and `bootstrap`
(count, create, choose the source, bind) and may end anywhere. Every start chooses its own
environment, since `from_env` reads one per process: administrator, secret, source and
address may differ between processes that run at the same time on one database. Further
the table of investigators, and clients that log in for a bearer
token or a cookie and have requests admitted, each by one of the servers. The clock is in
the units of `exp`; `Leeway` is the 60 seconds that `Validation::default()` grants.
`seeded`, `fresh`, `logins` and `ingested` are history. That an
investigator is added while the server runs is the operator's doing, through
`InvestigatorRepository::create`; the program has no endpoint for it.

**Advisor** is `investigate` with its early returns, and `validate_and_sanitize` on texts
over an alphabet of the eight kinds of characters it tells apart. `Without` is `filter` and
`replace`, by the ranks of the positions that are kept; like `OrderBy` it avoids recursion,
which the prover could not reason about.

**RulesEngine** has the six rules, the score and the bands as functions of a
transaction and a history. The constants are the fields of `RulesConfig`.
Floating-point rates are compared after multiplying out. Of a trigger its rule and
thus its weight are kept; texts and evidence are not.

**Detection** is `process_transaction` up to the verdict, in the loop (in order) and
in the manual ingest endpoint (concurrently), and the evaluate endpoint. Each execution is
a job: save, or get a stored row, then the three SELECTs of `build_account_history`, which
are the same actions for all of them, then the evaluation. The initial state chooses what
the jobs are sent; the ingest endpoint may be sent a transaction of the loop's again, or
another one under its tx_id. `Save` is ON CONFLICT(tx_id) DO NOTHING: the job then goes on
with what it was sent, while the table, and so the evaluate endpoint, has the other.
`subject` is whose transaction a job judges; `at_start` is a history variable.

Definitions named `X_Something` directly before a definition `X` are mutated forms of
`X`. They are used by no specification; each shows that the property it is paired
with in `PROJECT.json` would notice that mistake.

## 3. Runs

`tlc -workers 2 -config <run>.cfg <module>`; `PROJECT.json` names the module of each.

| Run | Bounds | Distinct states |
|---|---|---|
| AuditStore_chain | 3 tasks, 3 contents (two events, one of them under two ids), 3 records | 39 thousand (symmetry) |
| AuditStore_detached | 3 tasks, 1 content, 3 records | 48 thousand |
| AlertService_sound | 1 alert, 2 requests, 2 decisions, 1 fault | 752 thousand |
| AlertPage_reads | 1 alert, 2 requests, 1 decision, 1 fault, 2 pages | 5.7 million (symmetry) |
| Ingestion_sound | 4 transactions, pages of 2, 1 demo transaction, 1 post, 2 faults of any kind | 372 thousand |
| Horizon_poll | 4 transactions, pages of 2, 3 attempts, 1 malformed record | 139 thousand |
| Detection_verdicts | 2 transactions of the loop, 1 posted, 1 evaluated, 3 kinds, 2 times, 1 failure | 5.5 million |
| Access_sessions | 2 processes, 2 environments, 1 client, 1 log-in, an administrator and an investigator, clock up to 3, 1 forced end | 1.4 million |
| Advisor_answers | texts of up to 5 characters of 8 kinds, lists of up to 3 | 38 thousand |

*AuditStore_chain.* Without detached writes the chain always verifies (`ChainValid`) and
the store implements the reference (`ImplementsReference`). In
every such log `verify_chain` finds an edited event at the row itself, and a removed row or
one whose hash was recomputed at the row after it (`TamperingIsFound`); only at the end
of the log do the latter two leave no trace. An edit of the id alone is not found
anywhere, since the id is not hashed; the property says that too. A row that cannot be
parsed is no case of this: there `verify` fails with an error before it gets to the chain.
Three tasks let one hold the lock while two wait; three records give a first, a
middle and a last row.

*AuditStore_detached.* With detached writes the log is still sound (`SoundLog`): there is
no gap (`Contiguous`), no acknowledged record is lost or replaced (`AckedIsDurable`), and
every row's hash recomputes and is chained to the genesis hash or to some earlier row
(`RowsAreChained`). Rows are only added at the end (`AppendOnly`). Under fairness every
append returns (`AppendReturns`). One content suffices here: rows of different
tasks already differ in sequence number or previous hash where it matters.

*AlertService_sound.* Two decisions overlap each other and the advisory, with one fault: a
failure, a drop or a crash that hits any of them anywhere. The theorems below are for any
number of faults. The status is the decision committed last
(`StatusIsLatestCommit`), audit events have committed rows, once (`AuditedIsCommitted`),
name a previous status that the alert really had between the submission of the decision
and its commit (`PreviousStatusWasReal`: another decision that commits meanwhile may be
missed), and follow the creation (`AuditIsOrdered`); what is on chain is decided and audited
(`AnchorIsAudited`); without faults nothing is missing at rest
(`CompleteWithoutFaults`); nothing is taken back (`HistoryIsKept`). A decision is answered
unless its own stellar process never ends (`DecisionReturns`), and an advisory is settled
unless the advisor never answers or this run of the pipeline has ended first, its outcome
not stored (`AdvisorySettles`). One alert is enough: no
statement of the code touches two alerts, and the requests of different alerts share
only the audit log, whose appends are atomic here. The system may stop when all
requests are through, so deadlock is not checked.

*AlertPage_reads.* The status a page shows is Open or one of the decisions it lists, and
an advisory it shows has its request in the trail (`PageIsExplained`), because the alert
is read first; a page that is loaded again
takes nothing back (`PagesOnlyGrow`). Two pages are needed for the last. The page reads
nothing from the contract, which stays uninitialized here (`NotOnChain`).

*Ingestion_sound.* Four transactions and pages of two give a first page that seeds the
cursor and a full page after it; two faults let a crash meet a cursor that was not
saved or cannot be read; one of the transactions that may be posted is suspicious. What
is before the persisted cursors is dealt with (`NoGap`), the cursors never go back
(`CursorAdvances`), second alerts need a restart or a post (`DuplicatesAreExplained`),
what counts as handled has its alert, whoever else handles it (`HandledIsAlerted`), and
everything is dealt with in the end, unless a request to Horizon or to the AI service is
never answered (`EventuallyAccounted`). That a restart may process a batch again, and alert
on it twice, is what the cursor's place after the work brings with it;
`migrations/0001_init.sql:98-99` says that polling resumes "instead of re-processing or
skipping". "Dealt with" includes the
case in which the code has logged that a transaction may be lost because the dead-letter
table could not be written.

*Horizon_poll.* Three attempts are the code's own value; two pages give a seam. Every
record from the first one up to the cursor has been returned exactly once
(`DeliveredOnce`), only transient errors are repeated and at most three times
(`RetriesOnlyTransient`), nothing fails for which `get_json` allows another attempt
(`FailuresAreJustified`; a body cut off on the way and a 429 are final for it), every poll returns (`PollReturns`), and to the loop all this is
a TransactionSource (`ImplementsSource`).

*Detection_verdicts.* Times 1 and 3, a velocity window of 1, a lookback of 2 and a
baseline of 4 give transactions within and outside each window. The SELECTs agree with
one another whatever is saved between them (`SelectsAgree`). Whoever judges the same
transaction, the loop, the ingest endpoint to which it is sent again, or the evaluate
endpoint, comes to the same verdict, unless a row that counts for it was saved after one of
them had begun to read (`ReplayAgrees`). About a transaction that was sent under the tx_id
of another it says nothing: it is judged by what was sent, and the evaluate endpoint judges
what is stored. A transaction that is one of more than `velocity_max_tx_count` saved when
its job began to read triggers the velocity rule (`BurstIsCaught`); a large movement or a flagged account
always gives at least medium severity (`HardRulesWeigh`). Three writers, of which two may
meet under one tx_id and all three make a burst for the maximum of 2, and a reader whose
SELECTs they get between, are what this takes. The run ends when every
transaction has been judged, so deadlock is not checked.

*Access_sessions.* The two environments differ in administrator, secret, source and
address, so that two processes compete for one address or serve next to each other, with
the same secret or with different ones, on one table; one end by force lets a start be cut
off anywhere, or a server be replaced under a session. The first row is
an administrator of bootstrap's, no username has two rows, and a server that serves has
its administrator and, in demo mode, the demo account flagged (`BootstrapIsComplete`); only
processes that were started on an empty table create one (`OnlyFirstStartsSeed`); in the
end a server is up (`ServerComesUp`). What a server works on is the work of somebody who
has logged in under its secret, no longer ago than a token lives and the leeway allows
(`WorkIsBackedByLogin`, which compares the request with the log-in, not with the token it
was admitted with): a token lives for one tick and is accepted for one more, and the clock
goes one beyond. Decisions and ingested transactions belong to rows with the right role
(`Attributable`), which holds although the role comes from the token, because the program
never changes a row. One log-in is enough for a token that is carried to the other server,
outlives its own or grows old; for several, such as a stale bearer token in front of a good
cookie, there is the proof. When the bounds on time and log-ins are used up nothing may be
left to do, so deadlock is not checked; that no start hangs is `ServerComesUp`.

*Advisor_answers.* What is stored is within the caps, and a control character within a
script tag does not hide it (`StoredIsSafe`); harmless texts are kept, and the cap applies
to what is left of the others (`NothingElseIsLost`). A stored
summary may be blank in two ways, which `BlankSummaryIsExplained` names. Five characters
are a tag with a control character in it, something before it, and more than the cap of 3.

### Where code and documentation disagree

Each of these runs checks one statement of the repository and finds a counterexample.

* *AuditStore_race*: a handler is dropped in the INSERT; its worker has not run it
  yet; the mutex is free; the next append reads the last hash, then the late INSERT is
  executed, then the append reads the sequence number: the chain breaks although nobody
  tampered with it.
* *AlertService_history*: two overlapping decisions commit in the other order than
  their `created_at`; the last of `decision_history` is not the status.
* *Detection_new_asset*: the transaction is saved before its history is read, so its
  assets are known (unless another transaction is stored under its tx_id) and the rule for
  unusual assets does not trigger.

The models show these as well, in states or behaviours that a property above excepts
explicitly:

* A fault after the commit of a decision and before its audit append leaves a status change
  without its event, while `crates/alerts/src/store.rs:14-15` says that the two are always
  paired. `CompleteWithoutFaults` promises the pair only without faults.
* Two stellar processes overtake each other, and the contract is left with the decision that
  was replaced, while `contract/src/lib.rs:12-13` says that the chain reflects the current
  one. No fault is needed. `AnchorIsAudited` allows any decision on the alert.
* The answer to a decision waits for the stellar process, which has no timeout, while
  `crates/api/src/routes/alerts_api.rs:65` says that anchoring never blocks the decision and
  `README.md:176-177` that it is not delayed. The decision itself is committed by then.
  `DecisionReturns` excepts a process that never ends.
* The loop waits for the AI service without a timeout, while `README.md:124-126` says that
  the pipeline is never blocked and `README.md:318` that a timeout makes the advisory
  unavailable. `EventuallyAccounted` and `AdvisorySettles` except an answer that never comes.
* An error when the cursor is read counts as no cursor; the newest page seeds the loop again
  and what is in between is skipped, while `migrations/0001_init.sql:98-99` says that
  restarts skip nothing. `NoGap` excepts it with `misread`.
* A connection that fails while the body of the list is read is final (`horizon.rs:51`),
  while `horizon.rs:23-24` says that network errors are retried. It is an answer of its own
  (`cut_off`), which `Transient`, and so `RetriesOnlyTransient` and `FailuresAreJustified`,
  leave out.
* A token is accepted for the leeway of `Validation::default()` after it has expired, while
  `crates/api/src/auth.rs:67-68` says "unexpired". `WorkIsBackedByLogin` adds `Leeway`.
* Two processes that start on an empty table with different `ADMIN_USERNAME`s both seed, for
  only the username is UNIQUE, while `README.md:195` says that one administrator is seeded.
  `BootstrapIsComplete` does not say that there is only one.
* The velocity rule counts movements, counts the transaction twice, once as a row and once as
  the 1, and fires at the maximum, so that an account with fewer than
  `velocity_max_tx_count` transactions triggers it, while `rules.rs:57` and `README.md:96`
  say "more than". `BurstIsCaught` requires it to fire for more than that, and does not say
  that it is silent below.

Also seen while modelling:

* `logout` clears the cookie; the token stays valid until it expires.
* `run_source` is spawned before the address is bound, so a second process may poll for a
  moment before it ends.
* The removal of the last rows of the audit log cannot be seen by `verify_chain`, nor can
  another id.
* Audit events of overlapping decisions may be in another order than the commits.
* A transaction whose alert was inserted and not audited goes to the dead letters although
  it has an alert.
* A crash before the first cursor is saved seeds anew.
* A posted transaction whose tx_id is taken is judged, and may be alerted on, without being
  stored.
* The frequency rule's hour is cut to the lookback of ten minutes.

### Fairness

* `SqliteAuditStore`: weak fairness of every task that can go on (tokio polls a woken
  future), strong fairness of `Lock`, because tokio's mutex serves its waiters in order.
  Nothing is assumed of failures, drops or crashes.
* `AlertService`: weak fairness of the steps of pipelines and handlers. Nothing makes the
  advisor answer or a stellar process end: neither has a timeout (`client.rs:73`,
  `cli.rs:61`), so `AdvisorySettles` and `DecisionReturns` name these waits as the only
  things that may last for ever.
* `Ingestion`: weak fairness of what the loop does by itself (`LoopStep`). Nothing makes
  Horizon or the AI service answer; `EventuallyAccounted` excepts a wait for either that
  never ends. Faults are bounded by `MaxFaults`, so they end. Nothing is assumed of the endpoint.
* `Horizon`: weak fairness of `Step`; every request is answered or fails in the end, which
  the client, without a timeout (`horizon.rs:36`), leaves to the network; and the loop polls
  again. Which answers come is left open.
* `Access`: weak fairness of `Boot`: a process that can go on does, and a supervisor
  starts one that has ended again. Forced ends are bounded by `MaxStops`.

## 4. Proofs

Every invariant and every action property that a run checks is also a theorem, for all
values of the constants, and so are both refinements.

| Module | Theorems, and the properties they state |
|---|---|
| `SqliteAuditStore_proof` | `Safety`; `TypeCorrect`; `LogIsSound`: `SoundLog`; `LogIsAppendOnly`: `AppendOnly`; without detached writes `ChainAlwaysValid`: `ChainValid`, `TamperingIsAlwaysFound`: `TamperingIsFound`, `ImplementsInMemoryStore`: `ImplementsReference` |
| `AlertService_proof` | `Invariance`; `TypeCorrect`: `TypeOK`; `StatusFollowsCommits`: `StatusIsLatestCommit`; `AuditFollowsCommits`: `AuditedIsCommitted`; `PreviousStatusIsReal`: `PreviousStatusWasReal`; `AnchorsAreBacked`: `AnchorIsAudited`; `LogIsOrdered`: `AuditIsOrdered`; `NothingIsMissing`: `CompleteWithoutFaults`; `HistoryStays`: `HistoryIsKept` |
| `AlertPage_proof` | `PageInvariance`; `PageExplainsItself`: `PageIsExplained`; `PagesNeverTakeBack`: `PagesOnlyGrow` |
| `Ingestion_proof` | `Invariance`; `TypeCorrect`; `NothingIsSkipped`: `NoGap`; `OkMeansAlerted`: `HandledIsAlerted`; `DuplicatesHaveACause`: `DuplicatesAreExplained`; `CursorNeverGoesBack`: `CursorAdvances` |
| `Horizon_proof` | `Invariance`; `TypeCorrect`; `EachRecordOnce`: `DeliveredOnce`; `RetryPolicy`: `RetriesOnlyTransient`; `OnlyJustifiedFailures`: `FailuresAreJustified`; `Refinement`: `ImplementsSource` |
| `Access_proof` | `Invariance`; `TypeCorrect`; `BootstrapCompletes`: `BootstrapIsComplete`; `LaterStartsSeedNone`: `OnlyFirstStartsSeed`; `OnlyLoginsAreServed`: `WorkIsBackedByLogin`; `RolesAreThoseOfRows`: `Attributable` |
| `Detection_proof` | `Invariance`; `TypeCorrect`; `HistoryAgrees`: `SelectsAgree`; `VerdictIsRepeatable`: `ReplayAgrees`; `BurstTriggersRule`: `BurstIsCaught`; `HardRulesDecide`: `HardRulesWeigh` |
| `Advisor_proof` | `Invariance`; `AdvisoriesAreSafe`: `StoredIsSafe`; `RestIsKept`: `NothingElseIsLost`; `BlankSummaries`: `BlankSummaryIsExplained` |

The assumptions are those named in the modules that declare the constants, and TLC
evaluates them in every run: bounds, lengths, windows and thresholds are natural numbers
(page size, attempts and the room for investigators positive), the markers `NoTask`,
`NoContent`, `NoRequest` and `NoAlert` are no ordinary values, the sets the transitions
draw from are sets of the right records, and a kind of transaction has a sequence of
movements (`KindsAssumption`). Each proof follows the same plan: an inductive invariant,
one step per action for each part of it that the action can disturb, and the properties
from it. The invariants were checked by TLC before they were proved. What each of them
adds, and why:

*Audit store.* `Contiguous` is not inductive by itself: the INSERT of a task, or of a
dropped future, uses a number that was read earlier. `InFlight` supplies what is missing:
every INSERT still to be executed is for the next number or for one that is taken (then
the primary key refuses it), its hash recomputes, and it is chained to a row before it.
`LockHeld` says that only the holder is in the critical section, `HasContent` that a
running call has its argument. Rows are never removed, so `InFlight` survives every
INSERT, whoever executes it. Without detached writes `ChainInv` adds `ReadsAreFresh` (what
the holder of the lock has read is still the last hash and the next number) and `Linked`
(each row carries its predecessor's hash): an INSERT extends the chain at its end.
For tampering, `OnlyOneIsBroken` says that `verify_chain` reports a row if it is the only
one that does not check; that an edit, a forgery or a deletion leaves exactly one such row
follows from the injectivity of the hash.
For the refinement the table becomes the list of its rows; a step that adds a row is an
`append` of the reference store, every other step leaves the list as it is.

*Alert service.* The properties relate tables that different awaits write, so the
invariant says what each program counter implies: `PipeInv` and `ReqInv` (which rows and
events a pipeline or a handler has left, and that a handler has not audited before it is
due to), `StatusInv` (the status a handler has read is Open or one of a row, and not from
after its own commit; without it `PreviousStatusWasReal` is not inductive) and
`FaultFreeInv` (as long as nothing has failed, the events of a pipeline are exactly
those of the steps it has taken, in their order, which `CompleteWithoutFaults` needs).
`AuditChange` and `DecisionsChange` reduce the actions to what they append.

*Alert page.* The invariant is the service's, and what a half-read page knows: the advisory
it has read is still the stored one if it is settled, the status it has read is Open or in
the table (`ViewInv`), the page last shown is a part of what the tables have (`ShownInv`),
and a page that is being loaded is not behind it (`AheadInv`). That the trail goes on where
it ended is `OrderByGrows`: positions in a longer log have the places they had, which
rests on a count of the positions before them (`PlaceFacts`).

*Ingestion.* `NoGap` is about the persisted cursor; the loop holds another one and a batch.
`CursorInv` orders the three cursors, and `GapInv` says that everything up to the cursor in
memory is accounted for, and everything up to the batch's except what is left of the batch.
`BudgetInv` bounds the alerts there are *and* those the loop and the endpoint may still
insert: `DuplicatesAreExplained` does not survive an insertion by itself. `StoredInv` ties
the program counters to the tables for `HandledIsAlerted`.

*Horizon.* `RecordsInv` and `TakenInv` say that what is left of the page is consecutive,
starts at the URL under way, and follows directly on what was taken, which is split between
the two lists; `AttemptInv` relates the attempts to the log of answers; `DeliveredInv` is
`DeliveredOnce` with nothing missing up to the cursor. In the refinement the first answer
to the list is `Look`, a poll that ends is `Return`, `ReturnEmpty` or `ReturnErr`, and the
requests in between are stutters, because a record only moves from `records` to one of the
lists and the page as a set stays the same.

*Access.* `BootInv` carries the argument about overlapping starts: a process that has found
the table empty was started on an empty one, although another may have filled it since, and
one that is past the creation finds a row. So the first row is always bootstrap's, whichever
process was first. `TokenInv` says that a token describes a row as it is and goes back to a
log-in under its secret, exactly its life before its expiry, since rows and log-ins are only
added; `RequestInv` that a request which was admitted is one of a row that may make it. From
these `WorkIsBackedByLogin` and `Attributable` follow over any number of restarts and
servers.

*Detection.* One relation per job, between its history, its program counter, its verdict,
the transaction it judges, the table now and the table when it began to read (`RecentOK`,
`CountOK`, `VerdictOK`): what was read is a part of what is there, and is all of it if
nothing that counts was saved later; then the verdict is that of `HistoryOf`, the history
the SELECTs yield if nothing is saved between them. That the table only grows makes it
stable. `SavedInv` says that a job of the evaluate endpoint judges a row of the table.
For `BurstIsCaught` the rows there at the beginning are among those read, and a burst maps
one to one into the entries the rule counts.

*Advisor.* Its invariant is short, since an answer is one step; the work is in the
operators. Removing characters keeps the others and their order (`WithoutFacts`, by ranks),
a cut does not bring about a tag that was not there, and removing brackets leaves none.

Only model-checked: liveness (`AppendReturns`, `DecisionReturns`, `AdvisorySettles`,
`EventuallyAccounted`, `PollReturns`, `ServerComesUp`), for the prover does neither fairness
nor ENABLED. The violations are counterexamples, which TLC finds. The in-memory store
and TransactionSource have no properties of their own.

## 5. Not modelled

* HTML and the list of alerts, which is one query. A caller that pages through the list
  by offset may miss or repeat alerts that are inserted meanwhile.
* Password hashing, JWT signatures and the migrations are library code. A token can only
  be had by logging in.
* `InMemoryAlertStore` (`crates/alerts/src/memory.rs`), which only tests use.
* Of the normalization of operations, Horizon keeps whether a record parses, and Detection
  the movements; an operation that moves nothing is dropped there as in the code.
* The connection pool (`crates/storage/src/db.rs`): statements wait for one of five
  connections, and one that waits too long fails, which is a failing statement.
* More than one server process on one database, except for start-up and sessions (Access):
  the mutex of the audit store is in-process, and the loops of two processes are not put
  next to each other.
* Amounts are integers; `Decimal` arithmetic is a library's.

## 6. Plan

Done: every part of the system is modelled, checked, and its safety properties proved.
Left:

1. Lemmas that several proof modules state for themselves (what Append does, ranks of
   positions) could move to one module.
2. Composition: Horizon implements TransactionSource, while Ingestion's `Poll` is one step
   of such a source by inspection; an instance of TransactionSource in Ingestion would make
   it a theorem. Likewise the audit log of AlertService and InMemoryAuditStore.
3. Two whole servers on one database: their audit stores, each with a mutex of its own, and
   their loops with one row of cursors.
