----------------------------- MODULE Detection -----------------------------
(***************************************************************************)
(* process_transaction up to its verdict (crates/api/src/pipeline.rs): the *)
(* transaction is saved, the history of its source account is read with    *)
(* three SELECTs (crates/storage/src/tx_repo.rs), and the rules decide;    *)
(* and the evaluate endpoint (crates/api/src/routes/transactions.rs),      *)
(* which reads a stored transaction and then does the same.                *)
(*                                                                         *)
(* A job is one execution of either.  The loop takes its transactions one  *)
(* after the other in ledger order; each of the other ids is a request to  *)
(* the manual ingest endpoint, which runs process_transaction concurrently *)
(* and in no order, on whatever transaction it is sent: a new one, one of  *)
(* the loop's, or another under the tx_id of one of the loop's.  What the  *)
(* jobs are sent is chosen at the start and does not change.  A row of the *)
(* table is named by the job that inserted it.                             *)
(***************************************************************************)
EXTENDS RulesEngine

CONSTANTS
  LoopLen,   \* the loop's jobs are 1..LoopLen
  Manual,    \* the jobs of the manual ingest endpoint
  Replays,   \* the jobs of the evaluate endpoint
  Kinds,     \* what a transaction may be, but for its id and time
  Times,     \* when it may have been created
  MaxFailed  \* bound on the jobs that fail

ASSUME LoopAssumption == LoopLen \in Nat /\ MaxFailed \in Nat
ASSUME TimesAssumption == Times \subseteq Nat
ASSUME KindsAssumption ==
  \A k \in Kinds : k.movements \in Seq({k.movements[n] : n \in DOMAIN k.movements})

VARIABLES
  tx,            \* the transactions that the loop and the ingest endpoint are given
  transactions,  \* table transactions: the jobs that have inserted its rows
  pc,            \* where each job is
  subject,       \* whose transaction it judges: its own, or the row's it has got
  history,       \* its local, the AccountHistory read so far
  verdict,       \* what its rules said
  at_start       \* history variable: the table when it began to read

vars == <<tx, transactions, pc, subject, history, verdict, at_start>>

LoopIds == 1..LoopLen
Ids == LoopIds \cup Manual
Jobs == Ids \cup Replays

ASSUME JobsAssumption == Ids \cap Replays = {}

Ended == {"done", "failed"}
Reading == {"recent", "count", "rows", "evaluate"}
PCs == {"save", "get"} \cup Reading \cup Ended
Nobody == 0

EmptyHistory == [recent_transactions |-> {}, baseline_observations |-> 0, known_assets |-> {}]

NoTriggers == [r \in RuleIds |-> 0]

Assets == UNION {assets(k) : k \in Kinds}

RecentTransactions == [row : Ids, nr : Nat, created_at : Times]

AccountHistories ==
  [recent_transactions : SUBSET RecentTransactions, baseline_observations : Nat,
   known_assets : SUBSET Assets]

Transactions ==
  {[tx_id |-> n, created_at |-> t, source_account |-> k.source_account, movements |-> k.movements,
    operation_count |-> k.operation_count] : n \in Ids, t \in Times, k \in Kinds}

Init ==
  /\ tx \in [Ids -> Transactions]
  /\ \A i \in LoopIds : tx[i].tx_id = i
  /\ \A i, j \in LoopIds : i < j => tx[i].created_at <= tx[j].created_at
  /\ transactions = {}
  /\ pc = [i \in Jobs |-> IF i \in Ids THEN "save" ELSE "get"]
  /\ subject = [i \in Jobs |-> IF i \in Ids THEN i ELSE Nobody]
  /\ history = [i \in Jobs |-> EmptyHistory]
  /\ verdict = [i \in Jobs |-> NoTriggers]
  /\ at_start = [i \in Jobs |-> {}]

-----------------------------------------------------------------------------

\* The rows of i's account from window before i was created up to then.
Rows(T, i, window) ==
  {j \in T : /\ tx[j].source_account = tx[i].source_account
             /\ tx[j].created_at >= tx[i].created_at - window
             /\ tx[j].created_at <= tx[i].created_at}

\* One RecentTransaction per movement.
RecentOf(R) ==
  UNION {{[row |-> j, nr |-> k, created_at |-> tx[j].created_at] :
            k \in DOMAIN tx[j].movements} : j \in R}

AssetsOf(R) == UNION {assets(tx[j]) : j \in R}

\* The loop is at i: it is through with every transaction before it.
Turn(i) == i \in LoopIds => \A j \in LoopIds : j < i => pc[j] \in Ended

\* The row that has the tx_id of i, if there is one.
Stored(i) == {j \in transactions : tx[j].tx_id = tx[i].tx_id}

\* Mutant: ON CONFLICT(tx_id) DO UPDATE.
Save_Overwrites(i) ==
  /\ pc[i] = "save"
  /\ Turn(i)
  /\ transactions' = (transactions \ Stored(i)) \cup {i}
  /\ at_start' = [at_start EXCEPT ![i] = transactions']
  /\ pc' = [pc EXCEPT ![i] = "recent"]
  /\ UNCHANGED <<tx, subject, history, verdict>>

\* ON CONFLICT(tx_id) DO NOTHING, whatever else the stored row says.
Save(i) ==
  /\ pc[i] = "save"
  /\ Turn(i)
  /\ transactions' = IF Stored(i) = {} THEN transactions \cup {i} ELSE transactions
  /\ at_start' = [at_start EXCEPT ![i] = transactions']
  /\ pc' = [pc EXCEPT ![i] = "recent"]
  /\ UNCHANGED <<tx, subject, history, verdict>>

\* evaluate_transaction gets a stored row; without one it answers NotFound.
Get(r) ==
  /\ pc[r] = "get"
  /\ \E j \in transactions : subject' = [subject EXCEPT ![r] = j]
  /\ at_start' = [at_start EXCEPT ![r] = transactions]
  /\ pc' = [pc EXCEPT ![r] = "recent"]
  /\ UNCHANGED <<tx, transactions, history, verdict>>

\* build_account_history, for both.
SelectRecent(i) ==
  /\ pc[i] = "recent"
  /\ LET R == Rows(transactions, subject[i], history_lookback)
     IN  history' = [history EXCEPT ![i].recent_transactions = RecentOf(R),
                                    ![i].known_assets = AssetsOf(R)]
  /\ pc' = [pc EXCEPT ![i] = "count"]
  /\ UNCHANGED <<tx, transactions, subject, verdict, at_start>>

\* Mutant: the count is of what was there when the job began to read.
SelectBaselineCount_AtStart(i) ==
  /\ pc[i] = "count"
  /\ history' = [history EXCEPT ![i].baseline_observations =
                   Cardinality(Rows(at_start[i], subject[i], history_baseline_window))]
  /\ pc' = [pc EXCEPT ![i] = "rows"]
  /\ UNCHANGED <<tx, transactions, subject, verdict, at_start>>

SelectBaselineCount(i) ==
  /\ pc[i] = "count"
  /\ history' = [history EXCEPT ![i].baseline_observations =
                   Cardinality(Rows(transactions, subject[i], history_baseline_window))]
  /\ pc' = [pc EXCEPT ![i] = "rows"]
  /\ UNCHANGED <<tx, transactions, subject, verdict, at_start>>

SelectBaselineRows(i) ==
  /\ pc[i] = "rows"
  /\ history' = [history EXCEPT ![i].known_assets =
                   @ \cup AssetsOf(Rows(transactions, subject[i], history_baseline_window))]
  /\ pc' = [pc EXCEPT ![i] = "evaluate"]
  /\ UNCHANGED <<tx, transactions, subject, verdict, at_start>>

\* The flagged accounts are read and the rules evaluated; AlertService has what
\* follows if there is a severity.
Evaluate(i) ==
  /\ pc[i] = "evaluate"
  /\ verdict' = [verdict EXCEPT ![i] = evaluate_all(tx[subject[i]], history[i])]
  /\ history' = [history EXCEPT ![i] = EmptyHistory]
  /\ pc' = [pc EXCEPT ![i] = "done"]
  /\ UNCHANGED <<tx, transactions, subject, at_start>>

\* A statement fails, and the error is returned.
Fail(i) ==
  /\ pc[i] \notin Ended
  /\ Turn(i)
  /\ Cardinality({j \in Jobs : pc[j] = "failed"}) < MaxFailed
  /\ history' = [history EXCEPT ![i] = EmptyHistory]
  /\ pc' = [pc EXCEPT ![i] = "failed"]
  /\ UNCHANGED <<tx, transactions, subject, verdict, at_start>>

Next ==
  \E i \in Jobs :
    \/ Save(i) \/ Get(i) \/ SelectRecent(i) \/ SelectBaselineCount(i) \/ SelectBaselineRows(i)
    \/ Evaluate(i) \/ Fail(i)

Spec == Init /\ [][Next]_vars

-----------------------------------------------------------------------------

TypeOK ==
  /\ tx \in [Ids -> Transactions]
  /\ transactions \subseteq Ids
  /\ pc \in [Jobs -> PCs]
  /\ subject \in [Jobs -> Ids \cup {Nobody}]
  /\ history \in [Jobs -> AccountHistories]
  /\ verdict \in [Jobs -> [RuleIds -> Nat]]
  /\ at_start \in [Jobs -> SUBSET Ids]

\* The three SELECTs see three different tables if other transactions are saved
\* in between; still, whatever is recent is in the baseline and its assets known,
\* so no rule compares an account with less than what it has just been seen to do.
SelectsAgree ==
  \A i \in Jobs : pc[i] = "evaluate" =>
    /\ Cardinality({rt.row : rt \in history[i].recent_transactions})
         <= history[i].baseline_observations
    /\ \A rt \in history[i].recent_transactions :
         tx[rt.row].movements[rt.nr].asset \in history[i].known_assets

\* A transaction that is judged twice, by the evaluate endpoint after the pipeline
\* or because it was sent again, is judged alike, whatever else was saved between
\* the SELECTs, unless a row that counts for it was saved after one of the two had
\* begun to read, or the row under its tx_id is another transaction.
ReplayAgrees ==
  \A i, j \in Jobs :
    (/\ pc[i] = "done" /\ pc[j] = "done" /\ tx[subject[i]] = tx[subject[j]]
     /\ Rows(transactions, subject[i], history_baseline_window) \subseteq at_start[i] \cap at_start[j])
      => verdict[i] = verdict[j]

\* The transactions of the account that had been saved when the job began to read,
\* moved something, and are no older than the velocity window allows.
Burst(i) ==
  {j \in Rows(at_start[i], subject[i], velocity_window_secs) : tx[j].movements # << >>}

\* No burst is missed: a transaction that is one of more than velocity_max_tx_count
\* triggers the velocity rule, although transactions of one ledger have the same
\* time, whichever of the loop and the endpoints saved them, in spite of jobs that
\* fail and of transactions saved while the account's history is read.  The rule
\* triggers on less too, since it counts movements, and the transaction itself twice.
BurstIsCaught ==
  \A i \in Jobs :
    (pc[i] = "done" /\ Cardinality(Burst(i)) > velocity_max_tx_count)
      => verdict[i].velocity = 1

\* Whatever the history says, one large movement or one flagged account is enough
\* for an alert of at least medium severity.
HardRulesWeigh ==
  \A i \in Jobs : pc[i] = "done" =>
    LET t == tx[subject[i]] IN
    (\/ involved_accounts(t) \cap flagged_accounts # {}
     \/ \E k \in DOMAIN t.movements : t.movements[k].amount > Threshold(t.movements[k].asset))
      => severity(verdict[i]) \in {"medium", "high", "critical"}

-----------------------------------------------------------------------------
(* What the repository says of this code, and the code does not do. *)

\* An asset that an account with a history has not moved before is flagged.
NewAssetIsFlagged ==
  \A i \in Ids : pc[i] = "done" =>
    LET before == AssetsOf(Rows(at_start[i], i, history_baseline_window) \ {i})
    IN  (before # {} /\ ~ (assets(tx[i]) \subseteq before))
          => verdict[i].unusual_asset_movement > 0
=============================================================================
