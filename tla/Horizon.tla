------------------------------ MODULE Horizon ------------------------------
(***************************************************************************)
(* HorizonTransactionSource (crates/ingestion/src/horizon.rs): a poll asks *)
(* for a page of transactions and then for the operations of each of them, *)
(* and get_json repeats a request that failed.                             *)
(*                                                                         *)
(* A transaction is its paging token; 0 is the URL of the list, t > 0 the  *)
(* URL of t's operations.  A request and its answer are one step; the      *)
(* backoff between two attempts changes nothing.  The cursor is the one    *)
(* run_source (crates/api/src/pipeline.rs) passes in, which is             *)
(* next_cursor of the last batch that had one.                             *)
(***************************************************************************)
EXTENDS Integers, SequencesExt

CONSTANTS
  MaxTx,        \* bound on the transactions the network publishes
  PageLimit,    \* page_limit
  MaxRetries,   \* max_retries
  Malformed     \* records whose created_at or fee_charged does not parse

ASSUME MaxTxAssumption == MaxTx \in Nat
ASSUME PageAssumption == PageLimit \in Nat \ {0}
ASSUME RetriesAssumption == MaxRetries \in Nat \ {0}
ASSUME MalformedAssumption == Malformed \subseteq 1..MaxTx

VARIABLES
  ledger,        \* transactions published so far
  cursor,        \* the cursor run_source passes in, 0 if it has none
  batch,         \* what the last poll returned
  pc,            \* "idle" between two polls, "sent" while a request is under way
  url,           \* the request under way
  attempt,       \* local variables of get_json ...
  records,       \* ... and of poll: what is left of the page
  transactions,
  failures,
  next_cursor,
  log,           \* history: the answers to each URL in this poll
  delivered      \* history: how often each record has been returned to the caller

locals == <<url, attempt, records, transactions, failures, next_cursor>>
vars == <<ledger, cursor, batch, pc, locals, log, delivered>>

Txs == 1..MaxTx
Urls == 0..MaxTx
Transient == {"server_error", "network_error"}
\* "cut_off": the connection fails while the body of a success is read, which
\* resp.json() reports like a body that does not decode.
Answers == Transient \cup {"success", "cut_off", "undecodable", "client_error"}

\* What poll has taken from the list and not returned yet.
Held == ToSet(transactions) \cup ToSet(failures) \cup ToSet(records)
Page == IF pc = "sent" THEN Held ELSE {}

Source == INSTANCE TransactionSource WITH page <- Page

Init ==
  /\ ledger = 0 /\ cursor = 0 /\ batch = Source!Err
  /\ pc = "idle" /\ url = 0 /\ attempt = 0
  /\ records = <<>> /\ transactions = <<>> /\ failures = <<>> /\ next_cursor = 0
  /\ log = [u \in Urls |-> <<>>]
  /\ delivered = [t \in Txs |-> 0]

Publish ==
  /\ ledger < MaxTx
  /\ ledger' = ledger + 1
  /\ UNCHANGED <<cursor, batch, pc, locals, log, delivered>>

-----------------------------------------------------------------------------
(* get_json *)

Send(u) == url' = u /\ attempt' = 1
Answered(answer) == log' = [log EXCEPT ![url] = Append(@, answer)]

\* Mutants: client errors are retried; one attempt is given away.
Retried_ClientErrors(answer) == answer \in Transient \cup {"client_error"} /\ attempt < MaxRetries
Retried_OneLess(answer) == answer \in Transient /\ attempt + 1 < MaxRetries

Retried(answer) == answer \in Transient /\ attempt < MaxRetries

Retry(answer) ==
  /\ pc = "sent"
  /\ Retried(answer)
  /\ Answered(answer)
  /\ attempt' = attempt + 1
  /\ UNCHANGED <<ledger, cursor, batch, pc, url, records, transactions, failures,
                 next_cursor, delivered>>

-----------------------------------------------------------------------------
(* poll *)

Call ==
  /\ pc = "idle"
  /\ pc' = "sent"
  /\ Send(0)
  /\ records' = <<>> /\ transactions' = <<>> /\ failures' = <<>>
  /\ next_cursor' = cursor
  /\ log' = [u \in Urls |-> <<>>]
  /\ UNCHANGED <<ledger, cursor, batch, delivered>>

\* What Horizon sends for ?order=desc and for ?cursor=c&order=asc.
PageLen(n) == IF n < PageLimit THEN n ELSE PageLimit
Newest == [i \in 1..PageLen(ledger) |-> ledger - i + 1]
After(c) == [i \in 1..PageLen(ledger - c) |-> c + i]

\* Mutant: the newest page is left in descending order.
Records_Descending == IF cursor = 0 THEN Newest ELSE After(cursor)

Records == IF cursor = 0 THEN Reverse(Newest) ELSE After(cursor)

Elements(b) == ToSet(b.transactions) \cup ToSet(b.failures)

\* Ok(batch); run_source makes next_cursor its cursor, if there is one.
Ok(b) ==
  /\ pc' = "idle"
  /\ batch' = b
  /\ cursor' = IF b.next_cursor > 0 THEN b.next_cursor ELSE cursor
  /\ delivered' = [t \in Txs |-> IF t \in Elements(b) THEN delivered[t] + 1 ELSE delivered[t]]

\* The loop of poll: the next record, or the end.
Continue(rest, txs, fails, next) ==
  IF rest = <<>>
  THEN Ok(Source!FetchedBatch(txs, fails, next)) /\ UNCHANGED <<url, attempt>>
  ELSE Send(Head(rest)) /\ UNCHANGED <<pc, batch, cursor, delivered>>

ListSucceeds ==
  /\ pc = "sent" /\ url = 0
  /\ Answered("success")
  /\ records' = Records
  /\ Continue(Records, <<>>, <<>>, cursor)
  /\ UNCHANGED <<ledger, transactions, failures, next_cursor>>

ListFails(answer) ==
  /\ pc = "sent" /\ url = 0
  /\ answer # "success" /\ ~Retried(answer)
  /\ Answered(answer)
  /\ pc' = "idle"
  /\ batch' = Source!Err
  /\ UNCHANGED <<ledger, cursor, locals, delivered>>

\* The record that has been answered for goes to one of the two lists.
Record(txs, fails) ==
  /\ records' = Tail(records)
  /\ transactions' = txs
  /\ failures' = fails
  /\ next_cursor' = url
  /\ Continue(Tail(records), txs, fails, url)

\* normalize_transaction fails for a malformed record.
OperationsSucceed ==
  /\ pc = "sent" /\ url > 0
  /\ Answered("success")
  /\ IF url \in Malformed THEN Record(transactions, Append(failures, url))
                          ELSE Record(Append(transactions, url), failures)
  /\ UNCHANGED ledger

\* Mutants: the error ends the poll; the record is asked for again, without end.
OperationsFail_EndsPoll(answer) ==
  /\ pc = "sent" /\ url > 0
  /\ answer # "success" /\ ~Retried(answer)
  /\ Answered(answer)
  /\ records' = <<>>
  /\ Ok(Source!FetchedBatch(transactions, Append(failures, url), url))
  /\ UNCHANGED <<ledger, url, attempt, transactions, failures, next_cursor>>

OperationsFail_Again(answer) ==
  /\ pc = "sent" /\ url > 0
  /\ answer # "success" /\ ~Retried(answer)
  /\ log' = [log EXCEPT ![url] = <<>>]
  /\ attempt' = 1
  /\ UNCHANGED <<ledger, cursor, batch, pc, url, records, transactions, failures,
                 next_cursor, delivered>>

OperationsFail(answer) ==
  /\ pc = "sent" /\ url > 0
  /\ answer # "success" /\ ~Retried(answer)
  /\ Answered(answer)
  /\ Record(transactions, Append(failures, url))
  /\ UNCHANGED ledger

-----------------------------------------------------------------------------

Step ==
  \/ Call
  \/ ListSucceeds
  \/ OperationsSucceed
  \/ \E answer \in Answers : Retry(answer) \/ ListFails(answer) \/ OperationsFail(answer)

Next == Publish \/ Step

\* The loop polls again and again, and every request is answered or fails in
\* the end: the connection's, for the client sets no timeout.
Spec == Init /\ [][Next]_vars /\ WF_vars(Step)

-----------------------------------------------------------------------------

TypeOK ==
  /\ ledger \in 0..MaxTx /\ cursor \in 0..MaxTx /\ next_cursor \in 0..MaxTx
  /\ pc \in {"idle", "sent"} /\ url \in Urls /\ attempt \in 0..MaxRetries
  /\ records \in Seq(Txs) /\ transactions \in Seq(Txs) /\ failures \in Seq(Txs)
  /\ batch = Source!Err \/ (batch.ok /\ batch.next_cursor \in 0..MaxTx
                     /\ batch.transactions \in Seq(Txs) /\ batch.failures \in Seq(Txs))
  /\ log \in [Urls -> Seq(Answers)]
  /\ delivered \in [Txs -> Nat]

\* Over all polls, whatever failed in them and however the ledger grew, the
\* caller has got every record from the first one up to its cursor exactly once,
\* and none beyond it.
DeliveredOnce ==
  \E first \in 1..(MaxTx + 1) :
    \A t \in Txs : delivered[t] = IF first <= t /\ t <= cursor THEN 1 ELSE 0

\* A URL is asked for again only after a server error or a request that got no
\* response, and in one poll never more than max_retries times.
RetriesOnlyTransient ==
  \A u \in Urls :
    /\ Len(log[u]) <= MaxRetries
    /\ \A i \in 1..(Len(log[u]) - 1) : log[u][i] \in Transient

\* The last answer settled it: a final error, or the last of max_retries attempts.
GaveUp(u) ==
  /\ log[u] # <<>>
  /\ Last(log[u]) # "success"
  /\ Last(log[u]) \in Transient => Len(log[u]) = MaxRetries

\* When a poll has returned, an error means that the list could not be had, and
\* a failed record that its operations could not be had or that it is malformed,
\* after every attempt get_json's policy allows.  That policy is final about a
\* body cut off on the way and about any 4xx, a 429 included, passing as they are.
FailuresAreJustified ==
  (pc = "idle" /\ log[0] # <<>>) =>
    IF batch.ok
    THEN /\ \A t \in ToSet(batch.failures) : GaveUp(t) \/ t \in Malformed
         /\ \A t \in ToSet(batch.transactions) : Last(log[t]) = "success" /\ t \notin Malformed
    ELSE GaveUp(0)

\* To its caller this is a source that looks at the ledger once per poll and
\* returns everything it saw, in order, or an error.
ImplementsSource == Source!Spec

\* Every poll returns, whatever the answers are.
PollReturns == []<>(pc = "idle")
=============================================================================
