------------------------- MODULE TransactionSource -------------------------
(***************************************************************************)
(* What the trait TransactionSource (crates/ingestion/src/source.rs)       *)
(* promises to the loop that polls it.  A poll looks at the ledger once,   *)
(* and either returns an error, and nothing has happened, or every record  *)
(* of the page it saw exactly once, in ledger order, as a transaction or   *)
(* as a failure, with the cursor to go on from.                            *)
(***************************************************************************)
EXTENDS Integers, Sequences

CONSTANTS
  MaxTx,      \* bound on the transactions the network publishes
  PageLimit   \* records per page

VARIABLES
  ledger,   \* transactions published so far; a number is its own paging token
  cursor,   \* the caller's cursor, 0 if it has none
  page,     \* the records the poll in progress has seen, if any
  batch     \* what the last poll returned

vars == <<ledger, cursor, page, batch>>

Err == [ok |-> FALSE]
FetchedBatch(transactions, failures, next_cursor) ==
  [ok |-> TRUE, transactions |-> transactions, failures |-> failures, next_cursor |-> next_cursor]

\* The records after the cursor, or the newest ones if there is no cursor.
PageAfter(c, l) ==
  {t \in 1..l : IF c > 0 THEN c < t /\ t <= c + PageLimit ELSE t > l - PageLimit}

Entries(s) == {s[i] : i \in DOMAIN s}
Ascending(s) == \A i, j \in DOMAIN s : i < j => s[i] < s[j]

\* b has every record of p once, each list in ledger order.
Splits(b, p) ==
  /\ Ascending(b.transactions) /\ Ascending(b.failures)
  /\ Entries(b.transactions) \cup Entries(b.failures) = p
  /\ Entries(b.transactions) \cap Entries(b.failures) = {}

Init ==
  /\ ledger = 0 /\ cursor = 0
  /\ page = {}
  /\ batch = Err

Publish ==
  /\ ledger < MaxTx
  /\ ledger' = ledger + 1
  /\ UNCHANGED <<cursor, page, batch>>

Look ==
  /\ page = {}
  /\ page' = PageAfter(cursor, ledger)
  /\ UNCHANGED <<ledger, cursor, batch>>

\* The caller goes on from the last record of the page.
Return(last) ==
  /\ last \in page /\ \A t \in page : t <= last
  /\ page' = {}
  /\ cursor' = last
  /\ batch'.ok
  /\ batch' = FetchedBatch(batch'.transactions, batch'.failures, last)
  /\ Splits(batch', page)
  /\ UNCHANGED ledger

\* There is nothing new, and the cursor stays where it is.
ReturnEmpty ==
  /\ page = {}
  /\ PageAfter(cursor, ledger) = {}
  /\ batch' = FetchedBatch(<<>>, <<>>, cursor)
  /\ UNCHANGED <<ledger, cursor, page>>

\* The page cannot be had; the caller tries again later.
ReturnErr ==
  /\ page = {}
  /\ batch' = Err
  /\ UNCHANGED <<ledger, cursor, page>>

Next ==
  \/ Publish
  \/ Look
  \/ \E last \in 1..MaxTx : Return(last)
  \/ ReturnEmpty
  \/ ReturnErr

Spec == Init /\ [][Next]_vars
=============================================================================
