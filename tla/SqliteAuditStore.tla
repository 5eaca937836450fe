-------------------------- MODULE SqliteAuditStore --------------------------
(***************************************************************************)
(* The production audit store, crates/storage/src/audit_store.rs.  append  *)
(* takes append_lock, reads the last hash, reads the next sequence number, *)
(* and inserts; each is an await point, at which other tasks run, the      *)
(* database may fail, the process may crash, and the future of the request *)
(* may be dropped (axum drops a handler whose client has gone away).       *)
(*                                                                         *)
(* sqlx runs every SQLite statement on a worker thread of its connection.  *)
(* A future dropped while its INSERT is out releases append_lock at once,  *)
(* while the worker may still execute the statement later.  DetachedWrites *)
(* says whether that is possible; if it is FALSE, an INSERT whose future   *)
(* is dropped has taken effect by then, or never will.                     *)
(***************************************************************************)
EXTENDS AuditChain

CONSTANTS
  Tasks,           \* the requests that may be running at once
  NoTask,          \* append_lock is free
  Contents,        \* what there is to append: records of an id and an event
  NoContent,       \* a task with no call in progress
  DetachedWrites,  \* may an INSERT outlive the future that issued it?
  MaxRecords       \* bound: no call starts once the table has this many rows

ASSUME TasksAssumption == NoTask \notin Tasks
ASSUME ContentsAssumption == NoContent \notin Contents
ASSUME DetachedAssumption == DetachedWrites \in BOOLEAN
ASSUME MaxAssumption == MaxRecords \in Nat

VARIABLES
  audit_log,       \* the table, which survives a crash
  append_lock,     \* the task that holds the mutex, or NoTask
  pc,              \* where each task's append is
  content,         \* its argument, new_event
  prev_hash,       \* its locals, as read from the table
  next_sequence,
  detached,        \* INSERTs that sqlx still has to run for a dropped future
  acked            \* the records append has returned Ok with

vars == <<audit_log, append_lock, pc, content, prev_hash, next_sequence,
          detached, acked>>

\* Where an append can be suspended: waiting for the lock, in one of the three
\* statements, or not running at all.
Critical == {"select_hash", "select_seq", "insert"}
PCs == {"idle", "lock"} \cup Critical

\* An INSERT, or the record it leaves in the table.
Entry(s, row) == [sequence |-> s, row |-> row]

RowOf(t) == MakeRow(prev_hash[t], next_sequence[t], content[t])

Init ==
  /\ audit_log = EmptyTable
  /\ append_lock = NoTask
  /\ pc = [t \in Tasks |-> "idle"]
  /\ content = [t \in Tasks |-> NoContent]
  /\ prev_hash = [t \in Tasks |-> GENESIS_HASH]
  /\ next_sequence = [t \in Tasks |-> 0]
  /\ detached = {}
  /\ acked = {}

-----------------------------------------------------------------------------

Call(t, c) ==
  /\ pc[t] = "idle"
  /\ Cardinality(DOMAIN audit_log) < MaxRecords
  /\ pc' = [pc EXCEPT ![t] = "lock"]
  /\ content' = [content EXCEPT ![t] = c]
  /\ UNCHANGED <<audit_log, append_lock, prev_hash, next_sequence, detached, acked>>

\* Mutant: append does not take the mutex.
Lock_NoMutex(t) ==
  /\ pc[t] = "lock"
  /\ append_lock' = t
  /\ pc' = [pc EXCEPT ![t] = "select_hash"]
  /\ UNCHANGED <<audit_log, content, prev_hash, next_sequence, detached, acked>>

Lock(t) ==
  /\ pc[t] = "lock"
  /\ append_lock = NoTask
  /\ append_lock' = t
  /\ pc' = [pc EXCEPT ![t] = "select_hash"]
  /\ UNCHANGED <<audit_log, content, prev_hash, next_sequence, detached, acked>>

SelectLastHash(t) ==
  /\ pc[t] = "select_hash"
  /\ prev_hash' = [prev_hash EXCEPT ![t] = LastHash(audit_log)]
  /\ pc' = [pc EXCEPT ![t] = "select_seq"]
  /\ UNCHANGED <<audit_log, append_lock, content, next_sequence, detached, acked>>

SelectNextSequence(t) ==
  /\ pc[t] = "select_seq"
  /\ next_sequence' = [next_sequence EXCEPT ![t] = NextSequence(audit_log)]
  /\ pc' = [pc EXCEPT ![t] = "insert"]
  /\ UNCHANGED <<audit_log, append_lock, content, prev_hash, detached, acked>>

\* Mutant: the guard is leaked.
Finish_NeverUnlocks(t) ==
  /\ pc' = [pc EXCEPT ![t] = "idle"]
  /\ content' = [content EXCEPT ![t] = NoContent]
  /\ prev_hash' = [prev_hash EXCEPT ![t] = GENESIS_HASH]
  /\ next_sequence' = [next_sequence EXCEPT ![t] = 0]
  /\ UNCHANGED append_lock

\* The future ends, with a value, with an error, or dropped: its locals go, and
\* with them the guard of append_lock if it has it.
Finish(t) ==
  /\ append_lock' = IF append_lock = t THEN NoTask ELSE append_lock
  /\ pc' = [pc EXCEPT ![t] = "idle"]
  /\ content' = [content EXCEPT ![t] = NoContent]
  /\ prev_hash' = [prev_hash EXCEPT ![t] = GENESIS_HASH]
  /\ next_sequence' = [next_sequence EXCEPT ![t] = 0]

Insert(t) ==
  /\ pc[t] = "insert"
  /\ next_sequence[t] \notin DOMAIN audit_log
  /\ audit_log' = InsertRow(audit_log, next_sequence[t], RowOf(t))
  /\ acked' = acked \cup {Entry(next_sequence[t], RowOf(t))}
  /\ Finish(t)
  /\ UNCHANGED detached

\* The primary key is taken: append returns AuditError::Storage.
InsertConflict(t) ==
  /\ pc[t] = "insert"
  /\ next_sequence[t] \in DOMAIN audit_log
  /\ Finish(t)
  /\ UNCHANGED <<audit_log, detached, acked>>

\* Any of the three statements fails, and the error is returned.
StorageError(t) ==
  /\ pc[t] \in Critical
  /\ Finish(t)
  /\ UNCHANGED <<audit_log, detached, acked>>

\* The future is dropped, and nothing it asked for is still to be done.
Drop(t) ==
  /\ pc[t] # "idle"
  /\ Finish(t)
  /\ UNCHANGED <<audit_log, detached, acked>>

\* The future is dropped when the INSERT has run and its answer has not been read.
DropAfterInsert(t) ==
  /\ pc[t] = "insert"
  /\ audit_log' = InsertRow(audit_log, next_sequence[t], RowOf(t))
  /\ Finish(t)
  /\ UNCHANGED <<detached, acked>>

\* The future is dropped while the worker has yet to run the INSERT.
DropBeforeInsert(t) ==
  /\ DetachedWrites
  /\ pc[t] = "insert"
  /\ detached' = detached \cup {Entry(next_sequence[t], RowOf(t))}
  /\ Finish(t)
  /\ UNCHANGED <<audit_log, acked>>

\* The worker runs the INSERT of a dropped future; nobody hears if it fails.
DetachedInsert(e) ==
  /\ audit_log' = InsertRow(audit_log, e.sequence, e.row)
  /\ detached' = detached \ {e}
  /\ UNCHANGED <<append_lock, pc, content, prev_hash, next_sequence, acked>>

\* The process dies and starts again: only the table is left.
Crash ==
  /\ append_lock' = NoTask
  /\ pc' = [t \in Tasks |-> "idle"]
  /\ content' = [t \in Tasks |-> NoContent]
  /\ prev_hash' = [t \in Tasks |-> GENESIS_HASH]
  /\ next_sequence' = [t \in Tasks |-> 0]
  /\ detached' = {}
  /\ UNCHANGED <<audit_log, acked>>

-----------------------------------------------------------------------------

Run(t) ==
  \/ Lock(t)
  \/ SelectLastHash(t)
  \/ SelectNextSequence(t)
  \/ Insert(t)
  \/ InsertConflict(t)

Next ==
  \/ \E t \in Tasks :
       \/ \E c \in Contents : Call(t, c)
       \/ Run(t)
       \/ StorageError(t)
       \/ Drop(t)
       \/ DropAfterInsert(t)
       \/ DropBeforeInsert(t)
  \/ \E e \in detached : DetachedInsert(e)
  \/ Crash

Spec == Init /\ [][Next]_vars

\* A task that can take its next step is scheduled, and tokio's Mutex serves its
\* waiters in order, so a waiter does not miss every release of the lock.
Fairness ==
  \A t \in Tasks : WF_vars(Run(t)) /\ SF_vars(Lock(t))

FairSpec == Spec /\ Fairness

-----------------------------------------------------------------------------

TypeOK ==
  /\ DOMAIN audit_log \subseteq Nat /\ IsFiniteSet(DOMAIN audit_log)
  /\ audit_log = [s \in DOMAIN audit_log |-> audit_log[s]]
  /\ append_lock \in Tasks \cup {NoTask}
  /\ pc \in [Tasks -> PCs]
  /\ content \in [Tasks -> Contents \cup {NoContent}]
  /\ prev_hash = [t \in Tasks |-> prev_hash[t]]
  /\ next_sequence \in [Tasks -> Nat]
  /\ \A e \in detached \cup acked : e.sequence \in Nat

\* The guard of append_lock is held from the first SELECT to the end of INSERT.
LockHeld == \A t \in Tasks : pc[t] \in Critical <=> append_lock = t

\* A call in progress still has its argument.
HasContent == \A t \in Tasks : pc[t] # "idle" => content[t] \in Contents

Size == Cardinality(DOMAIN audit_log)

\* Sequence numbers start at 0 and leave no gap, whatever fails, is dropped or
\* crashes between the SELECT of the next number and the INSERT.
Contiguous == DOMAIN audit_log = 0..(Size - 1)

\* A record append has returned Ok with is in the table, unchanged, for ever: no
\* later append, crash or late INSERT of another request replaces it.
AckedIsDurable ==
  \A e \in acked : e.sequence \in DOMAIN audit_log /\ audit_log[e.sequence] = e.row

\* h is the genesis hash, or the hash of a row of T with a key below s.
HashOfEarlier(T, s, h) ==
  h = GENESIS_HASH \/ \E r \in Before(T, s) : h = T[r].hash

\* Even if an INSERT may run late, every row's hash recomputes, and the hash it
\* was chained to is the genesis hash or that of a row before it.
RowsAreChained ==
  \A s \in DOMAIN audit_log :
    ContentOk(audit_log, s) /\ HashOfEarlier(audit_log, s, audit_log[s].prev_hash)

\* What holds of the log even with late INSERTs, dropped handlers and crashes: it
\* has no gap, nothing append has returned Ok with is lost or altered, and every
\* row is chained to one before it.
SoundLog == Contiguous /\ AckedIsDurable /\ RowsAreChained

\* The chain the store builds passes its own verify_chain: a mismatch is never
\* the store's doing.
ChainValid == verify_chain(audit_log).valid

\* What may have happened to row s behind the store's back: it was deleted, its
\* content was replaced, or its content was replaced and its hash recomputed.
Deleted(T, s) == [k \in DOMAIN T \ {s} |-> T[k]]
Edited(T, s, c) == [T EXCEPT ![s].content = c]
Forged(T, s, c) == [T EXCEPT ![s] = MakeRow(@.prev_hash, s, c)]

BrokenAt(T, s) == verify_chain(T).broken_at_sequence = {s}

\* In every log the store can have built, verify_chain finds another event in any
\* one row, and where: an edit at the row itself, a deletion and a forged hash at
\* the row after it.  Of the last row, the latter two leave no trace.  The id is not
\* hashed: another id alone is not found.
TamperingIsFound ==
  \A s \in DOMAIN audit_log :
    /\ \A c \in Contents :
         IF c.event = audit_log[s].content.event
         THEN verify_chain(Edited(audit_log, s, c)).valid
         ELSE /\ BrokenAt(Edited(audit_log, s, c), s)
              /\ s + 1 \in DOMAIN audit_log => BrokenAt(Forged(audit_log, s, c), s + 1)
    /\ s + 1 \in DOMAIN audit_log => BrokenAt(Deleted(audit_log, s), s + 1)

\* What keeps RowsAreChained: an INSERT that is still to run is for the next
\* sequence number or for one that is taken, and its row is already chained.
Insertable(T, s, row) ==
  /\ s \in 0..Cardinality(DOMAIN T)
  /\ row.hash = compute_hash(row.prev_hash, s, row.content)
  /\ HashOfEarlier(T, s, row.prev_hash)

InFlight ==
  /\ \A t \in Tasks : pc[t] = "select_seq" => HashOfEarlier(audit_log, Size, prev_hash[t])
  /\ \A t \in Tasks : pc[t] = "insert" => Insertable(audit_log, next_sequence[t], RowOf(t))
  /\ \A e \in detached : Insertable(audit_log, e.sequence, e.row)

\* The inductive invariant that holds whether or not an INSERT may run late.
SafeInv ==
  /\ TypeOK /\ LockHeld /\ HasContent
  /\ Contiguous /\ RowsAreChained /\ AckedIsDurable /\ InFlight

\* What append_lock is for: between the SELECTs of the task that holds it and its
\* INSERT the table does not change, so what it read is still so.
ReadsAreFresh ==
  /\ detached = {}
  /\ \A t \in Tasks :
       /\ pc[t] \in {"select_seq", "insert"} => prev_hash[t] = LastHash(audit_log)
       /\ pc[t] = "insert" => next_sequence[t] = NextSequence(audit_log)

Linked == \A s \in DOMAIN audit_log : LinkOk(audit_log, s)

\* The inductive invariant when no INSERT outlives its future.
ChainInv == SafeInv /\ ReadsAreFresh /\ Linked

\* Rows are only ever added, after all the rows there are; none changes or goes.
AppendOnly ==
  [][ /\ \A k \in DOMAIN audit_log :
           k \in DOMAIN audit_log' /\ audit_log'[k] = audit_log[k]
      /\ \A k \in DOMAIN audit_log' \ DOMAIN audit_log :
           \A j \in DOMAIN audit_log : j < k ]_vars

\* The table, read in order, is the list of the in-memory reference store.
Reference ==
  INSTANCE InMemoryAuditStore WITH
    records <- [i \in 1..Cardinality(DOMAIN audit_log) |-> audit_log[i - 1]]

\* Every step of the detailed append is one atomic append of the reference
\* store, or leaves it alone.
ImplementsReference == Reference!Spec

\* An append that is called returns, whatever the other requests are doing.
AppendReturns == \A t \in Tasks : pc[t] = "lock" ~> pc[t] = "idle"
=============================================================================
