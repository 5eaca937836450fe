----------------------- MODULE SqliteAuditStore_proof -----------------------
(***************************************************************************)
(* Proofs about SqliteAuditStore, for any set of tasks and contents.       *)
(***************************************************************************)
EXTENDS SqliteAuditStore, FiniteSetTheorems, SequenceTheorems, TLAPS

\* T is a table with the keys 0..n-1.
Dense(T, n) == DOMAIN T = 0..(n - 1) /\ T = [s \in DOMAIN T |-> T[s]]

\* The largest element of an interval that starts at 0.
LEMMA MaxOfInterval ==
  ASSUME NEW n \in Nat
  PROVE  MaxKey(0..n) = n
<1>1. n \in 0..n /\ \A k \in 0..n : k <= n
  OBVIOUS
<1>2. \A m \in 0..n : (\A k \in 0..n : k <= m) => m = n
  OBVIOUS
<1> QED BY <1>1, <1>2 DEF MaxKey

\* What the SELECTs of append and the loop of verify_chain see in a table whose
\* keys are 0..n-1.
LEMMA DenseTable ==
  ASSUME NEW T, NEW n \in Nat, Dense(T, n)
  PROVE  /\ Cardinality(DOMAIN T) = n
         /\ IsFiniteSet(DOMAIN T)
         /\ NextSequence(T) = n
         /\ LastHash(T) = IF n = 0 THEN GENESIS_HASH ELSE T[n - 1].hash
         /\ \A s \in 0..n : Before(T, s) = 0..(s - 1)
         /\ \A s \in 0..n : HashBefore(T, s) = IF s = 0 THEN GENESIS_HASH ELSE T[s - 1].hash
<1>1. Cardinality(DOMAIN T) = n /\ IsFiniteSet(DOMAIN T)
  BY FS_Interval DEF Dense
<1>2. n # 0 => MaxKey(DOMAIN T) = n - 1
  <2> SUFFICES ASSUME n # 0 PROVE MaxKey(DOMAIN T) = n - 1
    OBVIOUS
  <2>1. n - 1 \in Nat
    OBVIOUS
  <2> QED BY <2>1, MaxOfInterval DEF Dense
<1>3. NextSequence(T) = n
  <2>1. CASE n = 0
    BY <2>1 DEF NextSequence, Dense
  <2>2. CASE n # 0
    BY <2>2, <1>2 DEF NextSequence, Dense
  <2> QED BY <2>1, <2>2
<1>4. LastHash(T) = IF n = 0 THEN GENESIS_HASH ELSE T[n - 1].hash
  <2>1. CASE n = 0
    BY <2>1 DEF LastHash, Dense
  <2>2. CASE n # 0
    BY <2>2, <1>2 DEF LastHash, Dense
  <2> QED BY <2>1, <2>2
<1>5. \A s \in 0..n : Before(T, s) = 0..(s - 1)
  BY DEF Before, Dense
<1>6. ASSUME NEW s \in 0..n
      PROVE  HashBefore(T, s) = IF s = 0 THEN GENESIS_HASH ELSE T[s - 1].hash
  <2>1. CASE s = 0
    BY <2>1, <1>5 DEF HashBefore
  <2>2. CASE s # 0
    <3>1. s - 1 \in Nat /\ s - 1 \in 0..(s - 1)
      BY <2>2
    <3>2. Before(T, s) = 0..(s - 1)
      BY <1>5
    <3>3. MaxKey(Before(T, s)) = s - 1 /\ Before(T, s) # {}
      BY <3>1, <3>2, MaxOfInterval
    <3> QED BY <3>3, <2>2 DEF HashBefore
  <2> QED BY <2>1, <2>2
<1> QED BY <1>1, <1>3, <1>4, <1>5, <1>6

\* An INSERT for a taken key changes nothing; one for the next key extends the
\* table by its row and leaves the others as they are.
LEMMA InsertIntoDense ==
  ASSUME NEW T, NEW n \in Nat, Dense(T, n), NEW s \in 0..n, NEW row
  PROVE  /\ s # n => InsertRow(T, s, row) = T
         /\ s = n => /\ Dense(InsertRow(T, s, row), n + 1)
                     /\ InsertRow(T, s, row)[n] = row
                     /\ \A k \in 0..(n - 1) : InsertRow(T, s, row)[k] = T[k]
<1>1. CASE s # n
  <2>1. s \in DOMAIN T
    BY <1>1 DEF Dense
  <2> QED BY <1>1, <2>1 DEF InsertRow
<1>2. CASE s = n
  <2> DEFINE U == InsertRow(T, s, row)
  <2>1. n \notin DOMAIN T /\ DOMAIN T \cup {n} = 0..n /\ n = (n + 1) - 1
    BY DEF Dense
  <2>2. U = [k \in 0..n |-> IF k = n THEN row ELSE T[k]]
    BY <1>2, <2>1 DEF InsertRow
  <2>3. \A k \in 0..(n - 1) : k \in 0..n /\ k # n
    OBVIOUS
  <2>4. Dense(U, n + 1)
    BY <2>1, <2>2 DEF Dense
  <2>5. U[n] = row /\ \A k \in 0..(n - 1) : U[k] = T[k]
    BY <2>2, <2>3
  <2> QED BY <1>2, <2>4, <2>5
<1> QED BY <1>1, <1>2

\* The part of SafeInv that is about the table alone.
TableOk(T) ==
  /\ Cardinality(DOMAIN T) \in Nat
  /\ Dense(T, Cardinality(DOMAIN T))
  /\ \A s \in DOMAIN T : ContentOk(T, s) /\ HashOfEarlier(T, s, T[s].prev_hash)

\* U is T, or T with rows added after the ones it has.
Grows(T, U) ==
  /\ Cardinality(DOMAIN T) <= Cardinality(DOMAIN U)
  /\ \A k \in DOMAIN T : k \in DOMAIN U /\ U[k] = T[k]
  /\ \A k \in DOMAIN U \ DOMAIN T : \A j \in DOMAIN T : j < k

\* A hash of an earlier row stays one when the table grows.
LEMMA EarlierStaysEarlier ==
  ASSUME NEW T, NEW U, TableOk(T), TableOk(U), Grows(T, U),
         NEW s \in Nat, NEW q \in Nat, s <= q, NEW h, HashOfEarlier(T, s, h)
  PROVE  HashOfEarlier(U, q, h)
<1>1. CASE h = GENESIS_HASH
  BY <1>1 DEF HashOfEarlier
<1>2. CASE \E r \in Before(T, s) : h = T[r].hash
  <2>1. PICK r \in Before(T, s) : h = T[r].hash
    BY <1>2
  <2>2. r \in Nat /\ r < q /\ r \in DOMAIN U /\ U[r] = T[r]
    BY DEF Before, TableOk, Dense, Grows
  <2>3. r \in Before(U, q)
    BY <2>2 DEF Before
  <2> QED BY <2>1, <2>2, <2>3 DEF HashOfEarlier
<1> QED BY <1>1, <1>2 DEF HashOfEarlier

\* An INSERT that may run stays one that may run when the table grows.
LEMMA InsertableStays ==
  ASSUME NEW T, NEW U, TableOk(T), TableOk(U), Grows(T, U),
         NEW s, NEW row, Insertable(T, s, row)
  PROVE  Insertable(U, s, row)
<1>1. s \in Nat /\ s <= s /\ s \in 0..Cardinality(DOMAIN U)
  BY DEF Insertable, TableOk, Grows
<1>2. HashOfEarlier(U, s, row.prev_hash)
  BY <1>1, EarlierStaysEarlier DEF Insertable
<1> QED BY <1>1, <1>2 DEF Insertable

\* A table that does not change has grown by nothing.
LEMMA GrowsReflexive ==
  ASSUME NEW T, TableOk(T)
  PROVE  Grows(T, T)
BY DEF Grows, TableOk

\* Running an INSERT that may run keeps the table in order and only adds to it.
LEMMA InsertKeepsTable ==
  ASSUME NEW T, TableOk(T), NEW s, NEW row, Insertable(T, s, row)
  PROVE  /\ TableOk(InsertRow(T, s, row))
         /\ Grows(T, InsertRow(T, s, row))
         /\ s \in DOMAIN InsertRow(T, s, row)
         /\ s \notin DOMAIN T => InsertRow(T, s, row)[s] = row
<1> DEFINE U == InsertRow(T, s, row)
           n == Cardinality(DOMAIN T)
<1>1. n \in Nat /\ Dense(T, n) /\ s \in 0..n
  BY DEF TableOk, Insertable
<1>2. CASE s # n
  <2>1. U = T /\ s \in DOMAIN T
    BY <1>1, <1>2, InsertIntoDense DEF Dense
  <2> QED BY <2>1, GrowsReflexive
<1>3. CASE s = n
  <2>1. Dense(U, n + 1) /\ U[n] = row /\ \A k \in 0..(n - 1) : U[k] = T[k]
    BY <1>1, <1>3, InsertIntoDense
  <2>2. Cardinality(DOMAIN U) = n + 1 /\ n + 1 \in Nat
    BY <1>1, <2>1, DenseTable
  <2>3. DOMAIN T = 0..(n - 1) /\ DOMAIN U = 0..n
    BY <1>1, <2>1 DEF Dense
  <2>4. Grows(T, U)
    BY <1>1, <2>1, <2>2, <2>3 DEF Grows
  <2>5. ASSUME NEW k \in DOMAIN U
        PROVE  ContentOk(U, k) /\ HashOfEarlier(U, k, U[k].prev_hash)
    <3>1. Before(U, k) = Before(T, k) /\ \A r \in Before(T, k) : U[r] = T[r]
      BY <1>1, <2>1, <2>3 DEF Before
    <3>2. CASE k = n
      <4>1. U[k].hash = compute_hash(U[k].prev_hash, k, U[k].content)
        BY <1>3, <2>1, <3>2 DEF Insertable
      <4>2. HashOfEarlier(T, k, U[k].prev_hash)
        BY <1>3, <2>1, <3>2 DEF Insertable
      <4> QED BY <4>1, <4>2, <3>1 DEF ContentOk, HashOfEarlier
    <3>3. CASE k # n
      <4>1. k \in DOMAIN T /\ U[k] = T[k]
        BY <1>1, <2>1, <2>3, <3>3
      <4>2. ContentOk(T, k) /\ HashOfEarlier(T, k, T[k].prev_hash)
        BY <4>1 DEF TableOk
      <4> QED BY <4>1, <4>2, <3>1 DEF ContentOk, HashOfEarlier
    <3> QED BY <3>2, <3>3
  <2>6. TableOk(U)
    BY <2>1, <2>2, <2>5 DEF TableOk
  <2> QED BY <1>1, <1>3, <2>1, <2>3, <2>4, <2>6
<1> QED BY <1>2, <1>3

-----------------------------------------------------------------------------

\* The parts of the invariant that are about the table alone, as TableOk.
LEMMA TableOfSafeInv ==
  ASSUME SafeInv
  PROVE  TableOk(audit_log)
<1>1. Size \in Nat
  BY FS_CardinalityType DEF SafeInv, TypeOK, Size
<1>2. Dense(audit_log, Size)
  BY DEF SafeInv, TypeOK, Contiguous, Dense
<1> QED BY <1>1, <1>2 DEF SafeInv, RowsAreChained, TableOk, Size

\* The other way: TableOk is what the invariant says of audit_log.
LEMMA SafeInvOfTable ==
  ASSUME TableOk(audit_log)
  PROVE  /\ Contiguous
         /\ RowsAreChained
         /\ DOMAIN audit_log \subseteq Nat
         /\ IsFiniteSet(DOMAIN audit_log)
         /\ audit_log = [s \in DOMAIN audit_log |-> audit_log[s]]
BY DenseTable DEF TableOk, Dense, Contiguous, RowsAreChained, Size

\* Every step leaves the table in order and only adds rows to it.
LEMMA TableStep ==
  ASSUME SafeInv, [Next]_vars
  PROVE  TableOk(audit_log') /\ Grows(audit_log, audit_log')
<1>1. TableOk(audit_log)
  BY TableOfSafeInv
<1>2. CASE UNCHANGED audit_log
  BY <1>1, <1>2, GrowsReflexive
<1>3. ASSUME NEW s, NEW row, Insertable(audit_log, s, row),
             audit_log' = InsertRow(audit_log, s, row)
      PROVE  TableOk(audit_log') /\ Grows(audit_log, audit_log')
  BY <1>1, <1>3, InsertKeepsTable
<1>4. ASSUME NEW t \in Tasks, Insert(t) \/ DropAfterInsert(t)
      PROVE  TableOk(audit_log') /\ Grows(audit_log, audit_log')
  <2>1. Insertable(audit_log, next_sequence[t], RowOf(t))
    BY <1>4 DEF SafeInv, InFlight, Insert, DropAfterInsert
  <2>2. audit_log' = InsertRow(audit_log, next_sequence[t], RowOf(t))
    BY <1>4 DEF Insert, DropAfterInsert
  <2> QED BY <2>1, <2>2, <1>3
<1>5. ASSUME NEW e \in detached, DetachedInsert(e)
      PROVE  TableOk(audit_log') /\ Grows(audit_log, audit_log')
  <2>1. Insertable(audit_log, e.sequence, e.row)
    BY <1>5 DEF SafeInv, InFlight
  <2> QED BY <2>1, <1>3, <1>5 DEF DetachedInsert
<1> QED
  BY <1>2, <1>4, <1>5
  DEF Next, Run, Call, Lock, SelectLastHash, SelectNextSequence, InsertConflict,
      StorageError, Drop, DropBeforeInsert, Crash, vars

\* The locals of a task that a step leaves alone.
Same(t) ==
  /\ pc'[t] = pc[t]
  /\ content'[t] = content[t]
  /\ prev_hash'[t] = prev_hash[t]
  /\ next_sequence'[t] = next_sequence[t]

\* In a step of t every other task keeps its locals.
LEMMA OthersSame ==
  ASSUME TypeOK, NEW t \in Tasks,
         \/ \E c \in Contents : Call(t, c)
         \/ Run(t) \/ StorageError(t) \/ Drop(t)
         \/ DropAfterInsert(t) \/ DropBeforeInsert(t)
  PROVE  \A u \in Tasks \ {t} : Same(u)
BY DEF TypeOK, Same, Call, Run, StorageError, Drop, DropAfterInsert, DropBeforeInsert,
       Lock, SelectLastHash, SelectNextSequence, Insert, InsertConflict, Finish

\* The store starts, with an empty table, in a state that satisfies the invariant.
LEMMA InitSafe == Init => SafeInv
<1> SUFFICES ASSUME Init PROVE SafeInv
  OBVIOUS
<1>1. DOMAIN audit_log = {}
  BY DEF Init, EmptyTable
<1>2. Dense(audit_log, 0) /\ Cardinality(DOMAIN audit_log) = 0
  BY <1>1, FS_EmptySet DEF Init, EmptyTable, Dense
<1>3. TableOk(audit_log)
  BY <1>1, <1>2 DEF TableOk
<1>4. TypeOK
  BY <1>3, SafeInvOfTable DEF Init, TypeOK, PCs, Critical
<1>5. LockHeld /\ HasContent /\ AckedIsDurable /\ InFlight
  BY TasksAssumption DEF Init, LockHeld, HasContent, AckedIsDurable, InFlight, Critical
<1> QED BY <1>3, <1>4, <1>5, SafeInvOfTable DEF SafeInv

\* Every step of append, and a crash, keeps the variables in their types.
LEMMA TypeStep == SafeInv /\ [Next]_vars => TypeOK'
<1> SUFFICES ASSUME SafeInv, [Next]_vars PROVE TypeOK'
  OBVIOUS
<1> USE DEF PCs, Critical
<1>0. TypeOK /\ TableOk(audit_log) /\ TableOk(audit_log')
  BY TableOfSafeInv, TableStep DEF SafeInv
<1>1. /\ (DOMAIN audit_log)' \subseteq Nat
      /\ IsFiniteSet(DOMAIN audit_log')
      /\ audit_log' = [s \in DOMAIN audit_log' |-> audit_log'[s]]
  <2> DEFINE n == Cardinality(DOMAIN audit_log')
  <2>1. n \in Nat /\ Dense(audit_log', n)
    BY <1>0 DEF TableOk
  <2> HIDE DEF n
  <2>2. IsFiniteSet(DOMAIN audit_log')
    BY <2>1, DenseTable
  <2>3. (DOMAIN audit_log)' \subseteq Nat
    BY <2>1 DEF Dense
  <2> QED BY <2>1, <2>2, <2>3 DEF Dense
<1>2. NextSequence(audit_log) \in Nat
  BY <1>0, DenseTable DEF TableOk
<1>3. ASSUME NEW t \in Tasks, Finish(t)
      PROVE  /\ append_lock' \in Tasks \cup {NoTask}
             /\ pc' \in [Tasks -> PCs]
             /\ content' \in [Tasks -> Contents \cup {NoContent}]
             /\ prev_hash' = [u \in Tasks |-> prev_hash'[u]]
             /\ next_sequence' \in [Tasks -> Nat]
  BY <1>0, <1>3 DEF TypeOK, Finish
<1>4. ASSUME NEW t \in Tasks, NEW c \in Contents, Call(t, c) PROVE TypeOK'
  BY <1>0, <1>1, <1>4 DEF TypeOK, Call
<1>5. ASSUME NEW t \in Tasks, Lock(t) PROVE TypeOK'
  BY <1>0, <1>1, <1>5 DEF TypeOK, Lock
<1>6. ASSUME NEW t \in Tasks, SelectLastHash(t) PROVE TypeOK'
  BY <1>0, <1>1, <1>6 DEF TypeOK, SelectLastHash
<1>7. ASSUME NEW t \in Tasks, SelectNextSequence(t) PROVE TypeOK'
  BY <1>0, <1>1, <1>2, <1>7 DEF TypeOK, SelectNextSequence
<1>8. ASSUME NEW t \in Tasks, Insert(t) PROVE TypeOK'
  <2>1. Entry(next_sequence[t], RowOf(t)).sequence \in Nat
    BY <1>0 DEF TypeOK, Entry
  <2>2. \A e \in (detached \cup acked)' : e.sequence \in Nat
    BY <1>0, <1>8, <2>1 DEF TypeOK, Insert
  <2> QED BY <1>1, <1>3, <1>8, <2>2 DEF TypeOK, Insert
<1>9. ASSUME NEW t \in Tasks, DropBeforeInsert(t) PROVE TypeOK'
  <2>1. Entry(next_sequence[t], RowOf(t)).sequence \in Nat
    BY <1>0 DEF TypeOK, Entry
  <2>2. \A e \in (detached \cup acked)' : e.sequence \in Nat
    BY <1>0, <1>9, <2>1 DEF TypeOK, DropBeforeInsert
  <2> QED BY <1>1, <1>3, <1>9, <2>2 DEF TypeOK, DropBeforeInsert
<1>10. ASSUME NEW t \in Tasks,
              InsertConflict(t) \/ StorageError(t) \/ Drop(t) \/ DropAfterInsert(t)
       PROVE  TypeOK'
  <2>1. Finish(t) /\ detached' = detached /\ acked' = acked
    BY <1>10 DEF InsertConflict, StorageError, Drop, DropAfterInsert
  <2> QED BY <1>0, <1>1, <1>3, <2>1 DEF TypeOK
<1>11. ASSUME NEW e \in detached, DetachedInsert(e) PROVE TypeOK'
  BY <1>0, <1>1, <1>11 DEF TypeOK, DetachedInsert
<1>12. CASE Crash
  BY <1>0, <1>1, <1>12 DEF TypeOK, Crash
<1>13. CASE UNCHANGED vars
  BY <1>0, <1>13 DEF TypeOK, vars
<1> QED
  BY <1>4, <1>5, <1>6, <1>7, <1>8, <1>9, <1>10, <1>11, <1>12, <1>13 DEF Next, Run

\* Taking, releasing and losing append_lock keep it with the one task inside.
LEMMA LockStep == SafeInv /\ [Next]_vars => LockHeld'
<1> SUFFICES ASSUME SafeInv, [Next]_vars PROVE LockHeld'
  OBVIOUS
<1> USE TasksAssumption DEF LockHeld, Critical
<1>0. TypeOK /\ LockHeld
  BY DEF SafeInv
<1>1. ASSUME NEW t \in Tasks, Finish(t) PROVE LockHeld'
  BY <1>0, <1>1 DEF TypeOK, Finish
<1>2. ASSUME NEW t \in Tasks, NEW c \in Contents, Call(t, c) PROVE LockHeld'
  BY <1>0, <1>2 DEF TypeOK, Call
<1>3. ASSUME NEW t \in Tasks, Lock(t) PROVE LockHeld'
  BY <1>0, <1>3 DEF TypeOK, Lock
<1>4. ASSUME NEW t \in Tasks, SelectLastHash(t) \/ SelectNextSequence(t) PROVE LockHeld'
  BY <1>0, <1>4 DEF TypeOK, SelectLastHash, SelectNextSequence
<1>5. ASSUME NEW e \in detached, DetachedInsert(e) PROVE LockHeld'
  BY <1>0, <1>5 DEF DetachedInsert
<1>6. CASE Crash
  BY <1>6 DEF Crash
<1>7. CASE UNCHANGED vars
  BY <1>0, <1>7 DEF vars
<1> QED
  BY <1>1, <1>2, <1>3, <1>4, <1>5, <1>6, <1>7
  DEF Next, Run, Insert, InsertConflict, StorageError, Drop, DropAfterInsert, DropBeforeInsert

\* No step of append takes an acknowledged record out of the table.
LEMMA AckedStep == SafeInv /\ [Next]_vars => AckedIsDurable'
<1> SUFFICES ASSUME SafeInv, [Next]_vars PROVE AckedIsDurable'
  OBVIOUS
<1>0. AckedIsDurable /\ TableOk(audit_log) /\ Grows(audit_log, audit_log')
  BY TableOfSafeInv, TableStep DEF SafeInv
<1>1. \A e \in acked : e.sequence \in DOMAIN audit_log' /\ audit_log'[e.sequence] = e.row
  BY <1>0 DEF AckedIsDurable, Grows
<1>2. ASSUME NEW t \in Tasks, Insert(t) PROVE AckedIsDurable'
  <2> DEFINE s == next_sequence[t]
             row == RowOf(t)
  <2>1. Insertable(audit_log, s, row) /\ s \notin DOMAIN audit_log
    BY <1>2 DEF SafeInv, InFlight, Insert
  <2>2. audit_log' = InsertRow(audit_log, s, row)
    BY <1>2 DEF Insert
  <2>3. s \in DOMAIN audit_log' /\ audit_log'[s] = row
    BY <1>0, <2>1, <2>2, InsertKeepsTable
  <2>4. acked' = acked \cup {Entry(s, row)} /\ Entry(s, row).sequence = s /\ Entry(s, row).row = row
    BY <1>2 DEF Insert, Entry
  <2> QED BY <1>1, <2>3, <2>4 DEF AckedIsDurable
<1>3. CASE UNCHANGED acked
  BY <1>1, <1>3 DEF AckedIsDurable
<1> QED
  BY <1>2, <1>3
  DEF Next, Run, Call, Lock, SelectLastHash, SelectNextSequence, InsertConflict, StorageError,
      Drop, DropAfterInsert, DropBeforeInsert, DetachedInsert, Crash, vars

\* The INSERT a task is about to run, or has in flight, stays one that may run.
LEMMA InFlightStep == SafeInv /\ [Next]_vars => InFlight'
<1> SUFFICES ASSUME SafeInv, [Next]_vars PROVE InFlight'
  OBVIOUS
<1> DEFINE SeqOk(t) == pc[t] = "select_seq" => HashOfEarlier(audit_log, Size, prev_hash[t])
           InsOk(t) == pc[t] = "insert" => Insertable(audit_log, next_sequence[t], RowOf(t))
           Out == \A e \in detached : Insertable(audit_log, e.sequence, e.row)
<1>0. /\ TypeOK /\ InFlight
      /\ TableOk(audit_log) /\ TableOk(audit_log') /\ Grows(audit_log, audit_log')
  BY TableOfSafeInv, TableStep DEF SafeInv
<1>1. Size \in Nat /\ Size' \in Nat /\ Size <= Size'
  BY <1>0 DEF TableOk, Grows, Size
<1>2. ASSUME NEW t \in Tasks, Same(t) PROVE SeqOk(t)' /\ InsOk(t)'
  <2>1. SeqOk(t) /\ InsOk(t)
    BY <1>0 DEF InFlight
  <2>2. SeqOk(t)'
    BY <1>0, <1>1, <1>2, <2>1, EarlierStaysEarlier DEF Same
  <2>3. RowOf(t)' = RowOf(t)
    BY <1>2 DEF RowOf, Same
  <2>4. InsOk(t)'
    BY <1>0, <1>2, <2>1, <2>3, InsertableStays DEF Same
  <2> QED BY <2>2, <2>4
<1>3. \A e \in detached : Insertable(audit_log', e.sequence, e.row)
  BY <1>0, InsertableStays DEF InFlight
<1>4. ASSUME NEW t \in Tasks, pc'[t] \in {"idle", "lock", "select_hash"}
      PROVE  SeqOk(t)' /\ InsOk(t)'
  BY <1>4
<1>5. ASSUME NEW t \in Tasks, \A u \in Tasks \ {t} : Same(u),
             SeqOk(t)' /\ InsOk(t)', detached' \subseteq detached
      PROVE  InFlight'
  <2>1. \A u \in Tasks : SeqOk(u)' /\ InsOk(u)'
    BY <1>2, <1>5
  <2>2. Out'
    BY <1>3, <1>5
  <2> QED BY <2>1, <2>2 DEF InFlight
<1>6. ASSUME NEW t \in Tasks, NEW c \in Contents, Call(t, c) PROVE InFlight'
  <2>1. pc'[t] \in {"idle", "lock", "select_hash"} /\ detached' \subseteq detached
    BY <1>0, <1>6 DEF Call, TypeOK
  <2> QED BY <1>0, <1>4, <1>5, <1>6, <2>1, OthersSame
<1>7. ASSUME NEW t \in Tasks, Lock(t) PROVE InFlight'
  <2>1. pc'[t] \in {"idle", "lock", "select_hash"} /\ detached' \subseteq detached
    BY <1>0, <1>7 DEF Lock, TypeOK
  <2> QED BY <1>0, <1>4, <1>5, <1>7, <2>1, OthersSame DEF Run
<1>8. ASSUME NEW t \in Tasks, SelectLastHash(t) PROVE InFlight'
  <2>1. pc'[t] = "select_seq" /\ prev_hash'[t] = LastHash(audit_log)
        /\ audit_log' = audit_log /\ detached' \subseteq detached
    BY <1>0, <1>8 DEF SelectLastHash, TypeOK
  <2>2. HashOfEarlier(audit_log, Size, LastHash(audit_log))
    <3>1. LastHash(audit_log) = IF Size = 0 THEN GENESIS_HASH ELSE audit_log[Size - 1].hash
      BY <1>0, <1>1, DenseTable DEF TableOk, Size
    <3>2. Size # 0 => Size - 1 \in Before(audit_log, Size)
      BY <1>0, <1>1 DEF TableOk, Dense, Before, Size
    <3> QED BY <3>1, <3>2 DEF HashOfEarlier
  <2>3. SeqOk(t)' /\ InsOk(t)'
    BY <2>1, <2>2 DEF Size
  <2> QED BY <1>0, <1>5, <1>8, <2>1, <2>3, OthersSame DEF Run
<1>9. ASSUME NEW t \in Tasks, SelectNextSequence(t) PROVE InFlight'
  <2>1. /\ pc[t] = "select_seq" /\ pc'[t] = "insert"
        /\ next_sequence'[t] = NextSequence(audit_log)
        /\ audit_log' = audit_log /\ detached' \subseteq detached
        /\ prev_hash' = prev_hash /\ content' = content
    BY <1>0, <1>9 DEF SelectNextSequence, TypeOK
  <2>2. NextSequence(audit_log) = Size
    BY <1>0, <1>1, DenseTable DEF TableOk, Size
  <2>3. HashOfEarlier(audit_log, Size, prev_hash[t])
    BY <1>0, <2>1 DEF InFlight
  <2>4. Insertable(audit_log, Size, MakeRow(prev_hash[t], Size, content[t]))
    BY <1>1, <2>3 DEF Insertable, MakeRow, Size
  <2>5. SeqOk(t)' /\ InsOk(t)'
    BY <2>1, <2>2, <2>4 DEF RowOf
  <2> QED BY <1>0, <1>5, <1>9, <2>1, <2>5, OthersSame DEF Run
<1>10. ASSUME NEW t \in Tasks, Finish(t), detached' = detached,
              \/ Insert(t) \/ InsertConflict(t) \/ StorageError(t) \/ Drop(t) \/ DropAfterInsert(t)
       PROVE  InFlight'
  <2>1. pc'[t] \in {"idle", "lock", "select_hash"} /\ detached' \subseteq detached
    BY <1>0, <1>10 DEF Finish, TypeOK
  <2>2. \A u \in Tasks \ {t} : Same(u)
    BY <1>0, <1>10, OthersSame DEF Run
  <2> QED BY <1>4, <1>5, <2>1, <2>2
<1>11. ASSUME NEW t \in Tasks, DropBeforeInsert(t) PROVE InFlight'
  <2>1. pc'[t] = "idle" /\ \A u \in Tasks \ {t} : Same(u)
    BY <1>0, <1>11, OthersSame DEF DropBeforeInsert, Finish, TypeOK
  <2>2. \A u \in Tasks : SeqOk(u)' /\ InsOk(u)'
    BY <1>2, <1>4, <2>1
  <2>3. Insertable(audit_log, next_sequence[t], RowOf(t)) /\ audit_log' = audit_log
    BY <1>0, <1>11 DEF DropBeforeInsert, InFlight
  <2>4. detached' = detached \cup {Entry(next_sequence[t], RowOf(t))}
    BY <1>11 DEF DropBeforeInsert
  <2>5. Out'
    BY <1>3, <2>3, <2>4 DEF Entry
  <2> QED BY <2>2, <2>5 DEF InFlight
<1>12. ASSUME NEW e \in detached, DetachedInsert(e) PROVE InFlight'
  <2>1. detached' \subseteq detached /\ \A t \in Tasks : Same(t)
    BY <1>12 DEF DetachedInsert, Same
  <2>2. \A t \in Tasks : SeqOk(t)' /\ InsOk(t)'
    BY <1>2, <2>1
  <2> QED BY <1>3, <2>1, <2>2 DEF InFlight
<1>13. CASE Crash
  <2>1. detached' = {} /\ \A t \in Tasks : pc'[t] = "idle"
    BY <1>13 DEF Crash
  <2>2. \A t \in Tasks : SeqOk(t)' /\ InsOk(t)'
    BY <1>4, <2>1
  <2> QED BY <2>1, <2>2 DEF InFlight
<1>14. CASE UNCHANGED vars
  BY <1>0, <1>14 DEF vars, InFlight, RowOf, Size
<1> QED
  BY <1>6, <1>7, <1>8, <1>9, <1>10, <1>11, <1>12, <1>13, <1>14
  DEF Next, Run, Insert, InsertConflict, StorageError, Drop, DropAfterInsert

\* A call keeps its argument until it returns.
LEMMA ContentStep == SafeInv /\ [Next]_vars => HasContent'
<1> SUFFICES ASSUME SafeInv, [Next]_vars PROVE HasContent'
  OBVIOUS
<1> USE DEF HasContent
<1>0. TypeOK /\ HasContent
  BY DEF SafeInv
<1>1. ASSUME NEW t \in Tasks, Finish(t) PROVE HasContent'
  BY <1>0, <1>1 DEF TypeOK, Finish
<1>2. ASSUME NEW t \in Tasks, NEW c \in Contents, Call(t, c) PROVE HasContent'
  BY <1>0, <1>2 DEF TypeOK, Call
<1>3. ASSUME NEW t \in Tasks, Lock(t) \/ SelectLastHash(t) \/ SelectNextSequence(t)
      PROVE  HasContent'
  BY <1>0, <1>3 DEF TypeOK, Lock, SelectLastHash, SelectNextSequence
<1>4. CASE Crash
  BY <1>4 DEF Crash
<1>5. CASE UNCHANGED <<pc, content>>
  BY <1>0, <1>5
<1> QED
  BY <1>1, <1>2, <1>3, <1>4, <1>5
  DEF Next, Run, Insert, InsertConflict, StorageError, Drop, DropAfterInsert, DropBeforeInsert,
      DetachedInsert, vars

\* Every step of append, and a crash, preserves the invariant.
LEMMA SafeStep == SafeInv /\ [Next]_vars => SafeInv'
<1> SUFFICES ASSUME SafeInv, [Next]_vars PROVE SafeInv'
  OBVIOUS
<1>1. TableOk(audit_log')
  BY TableStep
<1>2. Contiguous' /\ RowsAreChained'
  BY <1>1, DenseTable DEF TableOk, Dense, Contiguous, RowsAreChained, Size
<1> QED BY <1>2, TypeStep, LockStep, ContentStep, AckedStep, InFlightStep DEF SafeInv

\* Whatever is interleaved, fails, is dropped, crashes or runs late, the state
\* of the store satisfies the inductive invariant.
THEOREM Safety == Spec => []SafeInv
BY InitSafe, SafeStep, PTL DEF Spec

\* Type correctness of SqliteAuditStore.
THEOREM TypeCorrect == Spec => []TypeOK
<1>1. SafeInv => TypeOK
  BY DEF SafeInv
<1> QED BY <1>1, Safety, PTL

\* Sequence numbers have no gap, every row is chained to an earlier one, and an
\* acknowledged record is never lost or replaced.
THEOREM LogIsSound == Spec => []SoundLog
<1>1. SafeInv => SoundLog
  BY DEF SafeInv, SoundLog
<1> QED BY <1>1, Safety, PTL

\* The table is append-only: no step of append changes or removes a row, or puts
\* one before another.
THEOREM LogIsAppendOnly == Spec => AppendOnly
<1> DEFINE Adds ==
             /\ \A k \in DOMAIN audit_log :
                  k \in DOMAIN audit_log' /\ audit_log'[k] = audit_log[k]
             /\ \A k \in DOMAIN audit_log' \ DOMAIN audit_log :
                  \A j \in DOMAIN audit_log : j < k
<1>1. SafeInv /\ [Next]_vars => [Adds]_vars
  BY TableStep DEF Grows
<1> QED BY <1>1, Safety, PTL DEF Spec, AppendOnly

-----------------------------------------------------------------------------
(***************************************************************************)
(* When no INSERT outlives its future, append_lock makes append atomic.    *)
(***************************************************************************)

\* With an empty table nothing has been read and nothing is unlinked.
LEMMA InitChain == Init => ReadsAreFresh /\ Linked
BY DEF Init, ReadsAreFresh, Linked, EmptyTable

\* Under the lock, the INSERT is of the row that an atomic append would add.
LEMMA FreshInsert ==
  ASSUME ChainInv, NEW t \in Tasks, pc[t] = "insert"
  PROVE  /\ next_sequence[t] = Size
         /\ RowOf(t) = MakeRow(LastHash(audit_log), Size, content[t])
         /\ Size \notin DOMAIN audit_log
         /\ Insertable(audit_log, Size, RowOf(t))
<1>1. TableOk(audit_log) /\ InFlight
  BY TableOfSafeInv DEF ChainInv, SafeInv
<1>2. NextSequence(audit_log) = Size /\ Size \in Nat
  BY <1>1, DenseTable DEF TableOk, Size
<1>3. next_sequence[t] = Size /\ prev_hash[t] = LastHash(audit_log)
  BY <1>2 DEF ChainInv, ReadsAreFresh
<1>4. Size \notin DOMAIN audit_log
  BY <1>1, <1>2 DEF TableOk, Dense, Size
<1> QED BY <1>1, <1>3, <1>4 DEF InFlight, RowOf

\* The rows stay linked when the row of an atomic append is added.
LEMMA AppendKeepsLinked ==
  ASSUME NEW T, TableOk(T), \A s \in DOMAIN T : LinkOk(T, s), NEW c,
         NEW n \in Nat, n = Cardinality(DOMAIN T),
         NEW U, U = InsertRow(T, n, MakeRow(LastHash(T), n, c))
  PROVE  \A s \in DOMAIN U : LinkOk(U, s)
<1> DEFINE row == MakeRow(LastHash(T), n, c)
<1>1. Dense(T, n) /\ n \in 0..n /\ n + 1 \in Nat
  BY DEF TableOk
<1>2. Dense(U, n + 1) /\ U[n] = row /\ \A k \in 0..(n - 1) : U[k] = T[k]
  BY <1>1, InsertIntoDense
<1>3. DOMAIN T = 0..(n - 1) /\ DOMAIN U = 0..n
  BY <1>1, <1>2 DEF Dense
<1>4. ASSUME NEW s \in DOMAIN U PROVE LinkOk(U, s)
  <2>1. s \in 0..n /\ s \in 0..(n + 1)
    BY <1>3
  <2>2. HashBefore(U, s) = IF s = 0 THEN GENESIS_HASH ELSE U[s - 1].hash
    BY <1>1, <1>2, <2>1, DenseTable
  <2>3. HashBefore(T, s) = IF s = 0 THEN GENESIS_HASH ELSE T[s - 1].hash
    BY <1>1, <2>1, DenseTable
  <2>4. s # 0 => U[s - 1] = T[s - 1]
    BY <1>2, <2>1
  <2>5. CASE s = n
    <3>1. LastHash(T) = IF n = 0 THEN GENESIS_HASH ELSE T[n - 1].hash
      BY <1>1, DenseTable
    <3>2. U[s].prev_hash = LastHash(T)
      BY <1>2, <2>5 DEF MakeRow
    <3> QED BY <2>2, <2>4, <2>5, <3>1, <3>2 DEF LinkOk
  <2>6. CASE s # n
    <3>0. s \in 0..(n - 1)
      BY <2>1, <2>6
    <3>1. s \in DOMAIN T /\ U[s] = T[s]
      BY <1>2, <1>3, <3>0
    <3> QED BY <2>2, <2>3, <2>4, <3>1 DEF LinkOk
  <2> QED BY <2>5, <2>6
<1> QED BY <1>4

\* If no INSERT outlives its future, what append has read stays fresh under the
\* lock, and the rows stay linked.
LEMMA ChainStep ==
  ASSUME DetachedWrites = FALSE, ChainInv, [Next]_vars
  PROVE  ReadsAreFresh' /\ Linked'
<1>0. /\ TypeOK /\ LockHeld /\ detached = {} /\ ReadsAreFresh /\ Linked
      /\ TableOk(audit_log) /\ Size \in Nat
  BY TableOfSafeInv DEF ChainInv, SafeInv, ReadsAreFresh, TableOk, Size
<1>1. ASSUME NEW t \in Tasks, Insert(t) \/ DropAfterInsert(t) PROVE ReadsAreFresh' /\ Linked'
  <2>1. pc[t] = "insert" /\ Finish(t) /\ detached' = detached
    BY <1>1 DEF Insert, DropAfterInsert
  <2>2. \A u \in Tasks : pc'[u] \notin {"select_seq", "insert"}
    BY <1>0, <2>1 DEF LockHeld, Critical, Finish, TypeOK
  <2>3. audit_log' = InsertRow(audit_log, Size, MakeRow(LastHash(audit_log), Size, content[t]))
    BY <1>1, <2>1, FreshInsert DEF Insert, DropAfterInsert
  <2>4. Linked'
    BY <1>0, <2>3, AppendKeepsLinked DEF Linked, Size
  <2> QED BY <1>0, <2>1, <2>2, <2>4 DEF ReadsAreFresh
<1>2. ASSUME audit_log' = audit_log PROVE Linked'
  BY <1>0, <1>2 DEF Linked
<1>3. ASSUME NEW t \in Tasks, Finish(t), audit_log' = audit_log, detached' = detached
      PROVE  ReadsAreFresh' /\ Linked'
  BY <1>0, <1>2, <1>3 DEF ReadsAreFresh, Finish, TypeOK
<1>4. ASSUME NEW t \in Tasks, NEW c \in Contents, Call(t, c) PROVE ReadsAreFresh' /\ Linked'
  BY <1>0, <1>2, <1>4 DEF ReadsAreFresh, Call, TypeOK
<1>5. ASSUME NEW t \in Tasks, Lock(t) PROVE ReadsAreFresh' /\ Linked'
  BY <1>0, <1>2, <1>5 DEF ReadsAreFresh, Lock, TypeOK
<1>6. ASSUME NEW t \in Tasks, SelectLastHash(t) PROVE ReadsAreFresh' /\ Linked'
  BY <1>0, <1>2, <1>6 DEF ReadsAreFresh, SelectLastHash, TypeOK
<1>7. ASSUME NEW t \in Tasks, SelectNextSequence(t) PROVE ReadsAreFresh' /\ Linked'
  BY <1>0, <1>2, <1>7 DEF ReadsAreFresh, SelectNextSequence, TypeOK
<1>8. CASE Crash
  BY <1>2, <1>8 DEF ReadsAreFresh, Crash
<1>9. CASE UNCHANGED vars
  BY <1>0, <1>2, <1>9 DEF ReadsAreFresh, vars
<1> QED
  BY <1>0, <1>1, <1>3, <1>4, <1>5, <1>6, <1>7, <1>8, <1>9
  DEF Next, Run, InsertConflict, StorageError, Drop, DropBeforeInsert

\* The inductive invariant of append without late INSERTs holds throughout.
LEMMA ChainInvHolds ==
  ASSUME DetachedWrites = FALSE
  PROVE  Spec => []ChainInv
<1>1. Init => ChainInv
  BY InitSafe, InitChain DEF ChainInv
<1>2. ChainInv /\ [Next]_vars => ChainInv'
  BY SafeStep, ChainStep DEF ChainInv
<1> QED BY <1>1, <1>2, PTL DEF Spec

\* If no INSERT outlives its future, verify_chain accepts every log the store
\* builds: however many requests append at once, fail, are dropped or crash, a
\* broken chain is never the store's own doing.
THEOREM ChainAlwaysValid ==
  ASSUME DetachedWrites = FALSE
  PROVE  Spec => []ChainValid
<1>1. ChainInv => ChainValid
  <2> SUFFICES ASSUME ChainInv PROVE ChainValid
    OBVIOUS
  <2>1. \A s \in DOMAIN audit_log : LinkOk(audit_log, s) /\ ContentOk(audit_log, s)
    BY DEF ChainInv, Linked, SafeInv, RowsAreChained
  <2> QED BY <2>1 DEF ChainValid, verify_chain
<1> QED BY <1>1, ChainInvHolds, PTL

\* The list of the reference store that a table stands for.
Listed(T) == [i \in 1..Cardinality(DOMAIN T) |-> T[i - 1]]

\* Listing a table with one more row appends that row.
LEMMA ListedAppend ==
  ASSUME NEW T, TableOk(T), NEW n \in Nat, n = Cardinality(DOMAIN T), NEW row,
         NEW U, U = InsertRow(T, n, row)
  PROVE  /\ Listed(U) = Append(Listed(T), row)
         /\ Len(Listed(T)) = n
         /\ Listed(T) = << >> <=> n = 0
         /\ n # 0 => Listed(T)[n] = T[n - 1]
<1> DEFINE S == {T[k] : k \in DOMAIN T} \cup {row}
<1>1. Dense(T, n) /\ n \in 0..n /\ n + 1 \in Nat
  BY DEF TableOk
<1>2. Dense(U, n + 1) /\ U[n] = row /\ \A k \in 0..(n - 1) : U[k] = T[k]
  BY <1>1, InsertIntoDense
<1>3. DOMAIN T = 0..(n - 1) /\ Cardinality(DOMAIN U) = n + 1
  BY <1>1, <1>2, DenseTable DEF Dense
<1>4. Listed(T) = [i \in 1..n |-> T[i - 1]] /\ Listed(U) = [i \in 1..(n + 1) |-> U[i - 1]]
  BY <1>3 DEF Listed
<1>5. \A i \in 1..n : T[i - 1] \in S
  <2>1. \A i \in 1..n : i - 1 \in 0..(n - 1)
    OBVIOUS
  <2>2. \A k \in 0..(n - 1) : T[k] \in S
    BY <1>3
  <2> QED BY <2>1, <2>2
<1>6. Listed(T) \in Seq(S) /\ Len(Listed(T)) = n
  BY <1>4, <1>5
<1>7. \A i \in 1..(n + 1) : U[i - 1] = IF i = n + 1 THEN row ELSE T[i - 1]
  BY <1>2
<1>8. Listed(U) \in Seq(S) /\ Len(Listed(U)) = n + 1
  <2>1. \A i \in 1..(n + 1) : U[i - 1] \in S
    BY <1>5, <1>7
  <2> QED BY <1>1, <1>4, <2>1
<1>9. row \in S
  OBVIOUS
<1>10. /\ Append(Listed(T), row) \in Seq(S)
       /\ Len(Append(Listed(T), row)) = n + 1
       /\ \A i \in 1..n : Append(Listed(T), row)[i] = Listed(T)[i]
       /\ Append(Listed(T), row)[n + 1] = row
  BY <1>6, <1>9, AppendProperties
<1>11. \A i \in 1..(n + 1) : Listed(U)[i] = Append(Listed(T), row)[i]
  BY <1>4, <1>7, <1>10
<1>12. Listed(U) = Append(Listed(T), row)
  BY <1>8, <1>10, <1>11, SeqEqual
<1>13. Listed(T) = << >> <=> n = 0
  BY <1>6, EmptySeq
<1>14. n # 0 => Listed(T)[n] = T[n - 1]
  BY <1>4
<1> QED BY <1>6, <1>12, <1>13, <1>14

\* If no INSERT outlives its future, the sqlite store implements the in-memory
\* reference store: each of its steps is one atomic append, or none.
THEOREM ImplementsInMemoryStore ==
  ASSUME DetachedWrites = FALSE
  PROVE  Spec => ImplementsReference
<1>1. Init => Reference!Init
  <2> SUFFICES ASSUME Init PROVE Reference!Init
    OBVIOUS
  <2>1. Cardinality(DOMAIN audit_log) = 0
    BY FS_EmptySet DEF Init, EmptyTable
  <2> QED BY <2>1 DEF Reference!Init
<1>2. ASSUME ChainInv, [Next]_vars
      PROVE  [Reference!Next]_(Listed(audit_log))
  <2>0. TableOk(audit_log) /\ Size \in Nat /\ HasContent /\ detached = {}
    BY TableOfSafeInv, <1>2 DEF ChainInv, SafeInv, ReadsAreFresh, TableOk, Size
  <2>1. ASSUME NEW t \in Tasks, Insert(t) \/ DropAfterInsert(t)
        PROVE  Reference!Next
    <3>0. pc[t] = "insert" /\ content[t] \in Contents
      BY <2>0, <2>1 DEF Insert, DropAfterInsert, HasContent
    <3>1. PICK c \in Contents : c = content[t]
      BY <3>0
    <3> DEFINE row == MakeRow(LastHash(audit_log), Size, c)
    <3>2. audit_log' = InsertRow(audit_log, Size, row)
      BY <1>2, <2>1, <3>0, <3>1, FreshInsert DEF Insert, DropAfterInsert
    <3>3. /\ Listed(audit_log') = Append(Listed(audit_log), row)
          /\ Len(Listed(audit_log)) = Size
          /\ Listed(audit_log) = << >> <=> Size = 0
          /\ Size # 0 => Listed(audit_log)[Size] = audit_log[Size - 1]
      BY <2>0, <3>2, ListedAppend DEF Size
    <3>4. LastHash(audit_log) = IF Size = 0 THEN GENESIS_HASH ELSE audit_log[Size - 1].hash
      BY <2>0, DenseTable DEF TableOk, Size
    <3>5. Reference!last_hash = LastHash(audit_log)
      BY <3>3, <3>4 DEF Reference!last_hash, Reference!GENESIS_HASH, GENESIS_HASH, Listed
    <3>6. Reference!append(c)
      BY <3>3, <3>5
      DEF Reference!append, Reference!MakeRow, Reference!compute_hash, MakeRow, compute_hash, Listed
    <3> QED BY <3>6 DEF Reference!Next
  <2>2. CASE UNCHANGED audit_log
    BY <2>2 DEF Listed
  <2> QED
    BY <1>2, <2>0, <2>1, <2>2
    DEF Next, Run, Call, Lock, SelectLastHash, SelectNextSequence, InsertConflict, StorageError,
        Drop, DropBeforeInsert, Crash, vars
<1> QED BY <1>1, <1>2, ChainInvHolds, PTL DEF Spec, ImplementsReference, Reference!Spec, Listed

-----------------------------------------------------------------------------
(***************************************************************************)
(* What verify_chain says of a log that was changed behind the store's     *)
(* back.                                                                   *)
(***************************************************************************)

\* The columns of a row.
RowsAreRecords == \A s \in DOMAIN audit_log : DOMAIN audit_log[s] = {"content", "prev_hash", "hash"}

LEMMA RecordsHold ==
  ASSUME DetachedWrites = FALSE
  PROVE  Spec => []RowsAreRecords
<1>1. Init => RowsAreRecords
  BY DEF Init, RowsAreRecords, EmptyTable
<1>2. ASSUME ChainInv, RowsAreRecords, [Next]_vars PROVE RowsAreRecords'
  <2>0. TableOk(audit_log) /\ Size \in Nat /\ detached = {}
    BY TableOfSafeInv, <1>2 DEF ChainInv, SafeInv, ReadsAreFresh, TableOk, Size
  <2>1. ASSUME NEW t \in Tasks, Insert(t) \/ DropAfterInsert(t)
        PROVE  RowsAreRecords'
    <3> DEFINE row == MakeRow(LastHash(audit_log), Size, content[t])
    <3>1. audit_log' = InsertRow(audit_log, Size, row)
      BY <1>2, <2>1, FreshInsert DEF Insert, DropAfterInsert
    <3>2. DOMAIN row = {"content", "prev_hash", "hash"}
      BY DEF MakeRow
    <3> HIDE DEF row
    <3> QED BY <1>2, <3>1, <3>2 DEF RowsAreRecords, InsertRow
  <2>2. CASE UNCHANGED audit_log
    BY <1>2, <2>2 DEF RowsAreRecords
  <2> QED
    BY <1>2, <2>0, <2>1, <2>2
    DEF Next, Run, Call, Lock, SelectLastHash, SelectNextSequence, InsertConflict, StorageError,
        Drop, DropBeforeInsert, Crash, vars
<1> QED BY <1>1, <1>2, ChainInvHolds, PTL DEF Spec

\* If s is the only row that does not check, verify_chain says so.
LEMMA OnlyOneIsBroken ==
  ASSUME NEW T, DOMAIN T \subseteq Nat, NEW s \in DOMAIN T, ~ (LinkOk(T, s) /\ ContentOk(T, s)),
         \A k \in DOMAIN T \ {s} : LinkOk(T, k) /\ ContentOk(T, k)
  PROVE  BrokenAt(T, s)
<1> DEFINE broken == {k \in DOMAIN T : ~(LinkOk(T, k) /\ ContentOk(T, k))}
<1>1. broken = {s}
  OBVIOUS
<1>2. MinKey({s}) = s
  BY DEF MinKey
<1>3. verify_chain(T) =
        [valid |-> FALSE, records_checked |-> Cardinality(Before(T, MinKey(broken))),
         broken_at_sequence |-> {MinKey(broken)}]
  BY <1>1 DEF verify_chain
<1> QED BY <1>1, <1>2, <1>3 DEF BrokenAt

\* A log the store has built, with keys 0..n-1: what each row says of the one
\* before it, and what its hash tells.
Chained(T, n) ==
  /\ DOMAIN T = 0..(n - 1) /\ T = [s \in DOMAIN T |-> T[s]]
  /\ \A s \in 0..(n - 1) :
       /\ DOMAIN T[s] = {"content", "prev_hash", "hash"}
       /\ T[s].hash = <<T[s].prev_hash, s, T[s].content.event>>
       /\ T[s].prev_hash = IF s = 0 THEN << >> ELSE T[s - 1].hash

LEMMA ChainedOfInv ==
  ASSUME ChainInv, RowsAreRecords
  PROVE  Size \in Nat /\ Chained(audit_log, Size)
<1> DEFINE T == audit_log
<1>1. TableOk(T) /\ Size \in Nat /\ Dense(T, Size)
  BY TableOfSafeInv DEF ChainInv, TableOk, Size
<1>2. DOMAIN T = 0..(Size - 1) /\ T = [s \in DOMAIN T |-> T[s]]
  BY <1>1 DEF Dense
<1>3. ASSUME NEW s \in 0..(Size - 1)
      PROVE  /\ DOMAIN T[s] = {"content", "prev_hash", "hash"}
             /\ T[s].hash = <<T[s].prev_hash, s, T[s].content.event>>
             /\ T[s].prev_hash = IF s = 0 THEN << >> ELSE T[s - 1].hash
  <2>1. s \in DOMAIN T /\ s \in 0..Size
    BY <1>1, <1>2
  <2>2. LinkOk(T, s) /\ ContentOk(T, s)
    BY <2>1 DEF ChainInv, Linked, SafeInv, RowsAreChained
  <2>3. HashBefore(T, s) = IF s = 0 THEN GENESIS_HASH ELSE T[s - 1].hash
    BY <1>1, <2>1, DenseTable
  <2> QED BY <2>1, <2>2, <2>3 DEF RowsAreRecords, LinkOk, ContentOk, compute_hash, GENESIS_HASH
<1> QED BY <1>1, <1>2, <1>3 DEF Chained

\* An edit is found at the row itself, whose hash does not fit any more.
LEMMA EditIsFound ==
  ASSUME NEW T, NEW n \in Nat, Chained(T, n), NEW s \in 0..(n - 1), NEW c, c.event # T[s].content.event
  PROVE  BrokenAt(Edited(T, s, c), s)
<1> DEFINE U == Edited(T, s, c)
<1>1. DOMAIN T = 0..(n - 1) /\ DOMAIN T[s] = {"content", "prev_hash", "hash"}
  BY DEF Chained
<1>2. /\ DOMAIN U = 0..(n - 1) /\ U = [k \in DOMAIN U |-> U[k]]
      /\ \A k \in 0..(n - 1) : k # s => U[k] = T[k]
      /\ U[s].content = c /\ U[s].prev_hash = T[s].prev_hash /\ U[s].hash = T[s].hash
  BY <1>1 DEF Edited, Chained
<1> HIDE DEF U
<1>3. Dense(U, n)
  BY <1>2 DEF Dense
<1>4. \A k \in 0..(n - 1) : U[k].hash = T[k].hash /\ U[k].prev_hash = T[k].prev_hash
  BY <1>2
<1>5. ASSUME NEW k \in 0..(n - 1) PROVE LinkOk(U, k)
  <2>1. k \in 0..n /\ (k # 0 => k - 1 \in 0..(n - 1))
    OBVIOUS
  <2>2. HashBefore(U, k) = IF k = 0 THEN GENESIS_HASH ELSE U[k - 1].hash
    BY <1>3, <2>1, DenseTable
  <2>3. T[k].prev_hash = IF k = 0 THEN << >> ELSE T[k - 1].hash
    BY DEF Chained
  <2> QED BY <1>4, <2>1, <2>2, <2>3 DEF LinkOk, GENESIS_HASH
<1>6. \A k \in 0..(n - 1) : k # s => ContentOk(U, k)
  BY <1>2 DEF Chained, ContentOk, compute_hash
<1>7. ~ ContentOk(U, s)
  <2>1. T[s].hash = <<T[s].prev_hash, s, T[s].content.event>>
    BY DEF Chained
  <2> QED BY <1>2, <2>1 DEF ContentOk, compute_hash
<1>8. DOMAIN U \subseteq Nat /\ s \in DOMAIN U
  BY <1>2
<1>9. BrokenAt(U, s)
  BY <1>2, <1>5, <1>6, <1>7, <1>8, OnlyOneIsBroken
<1> QED BY <1>9 DEF U

\* What is not hashed is not missed.
LEMMA SameEventPasses ==
  ASSUME NEW T, NEW n \in Nat, Chained(T, n), NEW s \in 0..(n - 1),
         NEW c, c.event = T[s].content.event
  PROVE  verify_chain(Edited(T, s, c)).valid
<1> DEFINE U == Edited(T, s, c)
<1>1. DOMAIN T = 0..(n - 1) /\ DOMAIN T[s] = {"content", "prev_hash", "hash"}
  BY DEF Chained
<1>2. /\ DOMAIN U = 0..(n - 1) /\ U = [k \in DOMAIN U |-> U[k]]
      /\ \A k \in 0..(n - 1) : k # s => U[k] = T[k]
      /\ U[s].content = c /\ U[s].prev_hash = T[s].prev_hash /\ U[s].hash = T[s].hash
  BY <1>1 DEF Edited, Chained
<1> HIDE DEF U
<1>3. Dense(U, n)
  BY <1>2 DEF Dense
<1>4. \A k \in 0..(n - 1) : /\ U[k].hash = T[k].hash /\ U[k].prev_hash = T[k].prev_hash
                           /\ U[k].content.event = T[k].content.event
  BY <1>2
<1>5. ASSUME NEW k \in DOMAIN U PROVE LinkOk(U, k) /\ ContentOk(U, k)
  <2>1. k \in 0..(n - 1) /\ k \in 0..n /\ (k # 0 => k - 1 \in 0..(n - 1))
    BY <1>2
  <2>2. HashBefore(U, k) = IF k = 0 THEN GENESIS_HASH ELSE U[k - 1].hash
    BY <1>3, <2>1, DenseTable
  <2>3. /\ T[k].prev_hash = IF k = 0 THEN << >> ELSE T[k - 1].hash
        /\ T[k].hash = <<T[k].prev_hash, k, T[k].content.event>>
    BY <2>1 DEF Chained
  <2> QED BY <1>4, <2>1, <2>2, <2>3 DEF LinkOk, ContentOk, compute_hash, GENESIS_HASH
<1>6. {k \in DOMAIN U : ~ (LinkOk(U, k) /\ ContentOk(U, k))} = {}
  BY <1>5
<1>7. verify_chain(U).valid
  BY <1>6 DEF verify_chain
<1> QED BY <1>7 DEF U

\* A forged row checks, but the row after it is chained to the old hash.
LEMMA ForgeryIsFound ==
  ASSUME NEW T, NEW n \in Nat, Chained(T, n), NEW s \in 0..(n - 1), s + 1 \in 0..(n - 1),
         NEW c, c.event # T[s].content.event
  PROVE  BrokenAt(Forged(T, s, c), s + 1)
<1> DEFINE U == Forged(T, s, c)
<1>1. DOMAIN T = 0..(n - 1)
  BY DEF Chained
<1>2. /\ DOMAIN U = 0..(n - 1) /\ U = [k \in DOMAIN U |-> U[k]]
      /\ \A k \in 0..(n - 1) : k # s => U[k] = T[k]
      /\ U[s].content = c /\ U[s].prev_hash = T[s].prev_hash
      /\ U[s].hash = <<T[s].prev_hash, s, c.event>>
  BY <1>1 DEF Forged, Chained, MakeRow, compute_hash
<1> HIDE DEF U
<1>3. Dense(U, n)
  BY <1>2 DEF Dense
<1>4. \A k \in 0..(n - 1) : U[k].prev_hash = T[k].prev_hash
  BY <1>2
<1>5. \A k \in 0..(n - 1) : ContentOk(U, k)
  BY <1>2 DEF Chained, ContentOk, compute_hash
<1>6. ASSUME NEW k \in 0..(n - 1)
      PROVE  HashBefore(U, k) = IF k = 0 THEN << >> ELSE U[k - 1].hash
  <2>1. k \in 0..n
    OBVIOUS
  <2> QED BY <1>3, <2>1, DenseTable DEF GENESIS_HASH
<1>7. ASSUME NEW k \in 0..(n - 1), k # s + 1 PROVE LinkOk(U, k)
  <2>1. k # 0 => (k - 1 \in 0..(n - 1) /\ k - 1 # s)
    BY <1>7
  <2>2. T[k].prev_hash = IF k = 0 THEN << >> ELSE T[k - 1].hash
    BY DEF Chained
  <2> QED BY <1>2, <1>4, <1>6, <2>1, <2>2 DEF LinkOk
<1>8. ~ LinkOk(U, s + 1)
  <2>1. s + 1 # 0 /\ (s + 1) - 1 = s
    OBVIOUS
  <2>2. HashBefore(U, s + 1) = <<T[s].prev_hash, s, c.event>>
    BY <1>2, <1>6, <2>1
  <2>3. T[s + 1].prev_hash = <<T[s].prev_hash, s, T[s].content.event>>
    BY <2>1 DEF Chained
  <2> QED BY <1>4, <2>2, <2>3 DEF LinkOk
<1>9. DOMAIN U \subseteq Nat /\ s + 1 \in DOMAIN U
  BY <1>2
<1>10. BrokenAt(U, s + 1)
  BY <1>2, <1>5, <1>7, <1>8, <1>9, OnlyOneIsBroken
<1> QED BY <1>10 DEF U

\* Without row s, the row after it follows one whose hash is of another sequence.
LEMMA DeletionIsFound ==
  ASSUME NEW T, NEW n \in Nat, Chained(T, n), NEW s \in 0..(n - 1), s + 1 \in 0..(n - 1)
  PROVE  BrokenAt(Deleted(T, s), s + 1)
<1> DEFINE U == Deleted(T, s)
<1>1. DOMAIN T = 0..(n - 1)
  BY DEF Chained
<1>2. DOMAIN U = (0..(n - 1)) \ {s} /\ \A k \in DOMAIN U : U[k] = T[k]
  BY <1>1 DEF Deleted
<1> HIDE DEF U
<1>3. \A k \in DOMAIN U : ContentOk(U, k)
  BY <1>2 DEF Chained, ContentOk, compute_hash
<1>4. ASSUME NEW k \in DOMAIN U, k # s + 1 PROVE LinkOk(U, k)
  <2>1. k \in Nat /\ k \in 0..(n - 1) /\ Before(U, k) = (0..(k - 1)) \ {s}
    BY <1>2 DEF Before
  <2>2. T[k].prev_hash = IF k = 0 THEN << >> ELSE T[k - 1].hash
    BY <2>1 DEF Chained
  <2>3. CASE k = 0
    <3>1. Before(U, k) = {}
      BY <2>1, <2>3
    <3> QED BY <1>2, <2>2, <2>3, <3>1 DEF LinkOk, HashBefore, GENESIS_HASH
  <2>4. CASE k # 0
    <3>1. k - 1 \in Before(U, k) /\ k - 1 \in DOMAIN U
      BY <1>2, <1>4, <2>1, <2>4
    <3>2. \A j \in Before(U, k) : j \in Nat /\ j <= k - 1
      BY <2>1
    <3>3. \A m \in Before(U, k) : (\A j \in Before(U, k) : j <= m) => m = k - 1
      BY <2>1, <3>1, <3>2
    <3>4. MaxKey(Before(U, k)) = k - 1
      BY <3>1, <3>2, <3>3 DEF MaxKey
    <3>5. HashBefore(U, k) = T[k - 1].hash
      BY <1>2, <3>1, <3>4 DEF HashBefore
    <3> QED BY <1>2, <2>2, <2>4, <3>5 DEF LinkOk
  <2> QED BY <2>3, <2>4
<1>5. ~ LinkOk(U, s + 1)
  <2>1. s + 1 \in DOMAIN U /\ s \in Nat /\ s + 1 # 0 /\ (s + 1) - 1 = s
    BY <1>2
  <2>2. Before(U, s + 1) = 0..(s - 1)
    BY <1>2 DEF Before
  <2>3. U[s + 1].prev_hash = <<T[s].prev_hash, s, T[s].content.event>>
    BY <1>2, <2>1 DEF Chained
  <2>4. CASE s = 0
    <3>1. HashBefore(U, s + 1) = << >>
      BY <2>2, <2>4 DEF HashBefore, GENESIS_HASH
    <3>2. <<T[s].prev_hash, s, T[s].content.event>> # << >>
      OBVIOUS
    <3>3. U[s + 1].prev_hash # HashBefore(U, s + 1)
      BY <2>3, <3>1, <3>2
    <3> QED BY <3>3 DEF LinkOk
  <2>5. CASE s # 0
    <3>1. s - 1 \in Nat /\ s - 1 \in 0..(s - 1) /\ s - 1 \in DOMAIN U /\ s - 1 # s
      BY <1>2, <2>5
    <3>2. HashBefore(U, s + 1) = T[s - 1].hash
      BY <1>2, <2>2, <3>1, MaxOfInterval DEF HashBefore
    <3>3. T[s - 1].hash = <<T[s - 1].prev_hash, s - 1, T[s - 1].content.event>>
      BY <1>2, <3>1 DEF Chained
    <3> QED BY <2>3, <3>1, <3>2, <3>3 DEF LinkOk
  <2> QED BY <2>4, <2>5
<1>6. DOMAIN U \subseteq Nat /\ s + 1 \in DOMAIN U
  BY <1>2
<1>7. BrokenAt(U, s + 1)
  BY <1>3, <1>4, <1>5, <1>6, OnlyOneIsBroken
<1> QED BY <1>7 DEF U

\* If no INSERT outlives its future, another event in any one row of the log is
\* found, and where, as soon as there is a row after it; an edit that leaves the
\* hash as it was, always.  Only the id may be edited unnoticed.
THEOREM TamperingIsAlwaysFound ==
  ASSUME DetachedWrites = FALSE
  PROVE  Spec => []TamperingIsFound
<1>1. ChainInv /\ RowsAreRecords => TamperingIsFound
  <2> SUFFICES ASSUME ChainInv, RowsAreRecords PROVE TamperingIsFound
    OBVIOUS
  <2>1. Size \in Nat /\ Chained(audit_log, Size) /\ DOMAIN audit_log = 0..(Size - 1)
    BY ChainedOfInv DEF Chained
  <2> QED BY <2>1, EditIsFound, SameEventPasses, ForgeryIsFound, DeletionIsFound DEF TamperingIsFound
<1> QED BY <1>1, ChainInvHolds, RecordsHold, PTL
=============================================================================
