-------------------------- MODULE Ingestion_proof --------------------------
(***************************************************************************)
(* Proofs about Ingestion, for any ledger, page size, demo list, set of    *)
(* suspicious transactions, and any number of posts and faults.            *)
(***************************************************************************)
EXTENDS Ingestion, FiniteSetTheorems, SequenceTheorems, TLAPS

\* The loop holds a batch.
Busy == pc.loop \in {"save", "evaluate", "audit", "advise", "dead_letter"}

\* How far a source's cursor can have got.
Limit(s) == IF s = "horizon" THEN ledger ELSE Demo

\* The number of the source's first transaction, less one.
Base == IF source = "demo" THEN MaxTx ELSE 0

\* The cursors: what is persisted, what the loop goes on from, and what the
\* batch in memory will set.
CursorInv ==
  /\ cursor_row \in [Sources -> Nat]
  /\ \A s \in Sources : cursor_row[s] <= Limit(s)
  /\ cursor <= Limit(source)
  /\ pc.loop = "load_cursor" => cursor = 0
  /\ cursor > 0 => cursor_row[source] <= cursor
  /\ (~misread /\ pc.loop # "load_cursor") => cursor_row[source] <= cursor
  /\ Busy => /\ cursor <= next_cursor /\ next_cursor <= Limit(source)
             /\ next_cursor > 0 => cursor_row[source] <= next_cursor
             /\ \A t \in todo : t <= Base + next_cursor

\* NoGap holds up to the loop's own cursor, and up to the batch's except for
\* what is left of the batch.
GapInv ==
  /\ (source = "horizon" /\ cursor > 0 /\ ~misread) => \A t \in first..cursor : Accounted(t)
  /\ (source = "horizon" /\ Busy /\ next_cursor > 0 /\ ~misread) =>
       \A t \in first..next_cursor : Accounted(t) \/ t \in todo \cup failures
  /\ source = "demo" => \A i \in 1..cursor : Accounted(MaxTx + i)
  /\ (source = "demo" /\ Busy) =>
       \A i \in 1..next_cursor : Accounted(MaxTx + i) \/ MaxTx + i \in todo \cup failures

\* What is being judged is stored, and what is being audited or explained has its
\* alert.
StoredInv ==
  \A who \in Actors, t \in Txs :
    Processes(who, t) =>
      /\ pc[who] \in {"evaluate", "audit", "advise"} => t \in transactions
      /\ pc[who] \in {"audit", "advise"} => alerts[t] > 0

\* The loop may still insert an alert for t before the process restarts.
LoopMayAlert(t) ==
  IF Busy
  THEN \/ t > Base + next_cursor
       \/ t \in todo /\ ~(IsLeast(t, todo) /\ pc.loop \in {"audit", "advise", "dead_letter"})
  ELSE t > Base + cursor

EndpointMayAlert(t) == tx = t /\ pc.endpoint \in {"save", "evaluate"}

\* Every alert there is and every one that may still come in this life of the
\* process is explained.
Budget(t) ==
  alerts[t] + (IF LoopMayAlert(t) THEN 1 ELSE 0) + (IF EndpointMayAlert(t) THEN 1 ELSE 0)
    <= 1 + restarts + TimesPosted(t)
BudgetInv == \A t \in Txs : Budget(t)

IInv == TypeOK /\ CursorInv /\ NoGap /\ GapInv /\ HandledIsAlerted /\ StoredInv /\ BudgetInv

-----------------------------------------------------------------------------

LEMMA InitInv == Init => IInv
<1> SUFFICES ASSUME Init PROVE IInv
  OBVIOUS
<1>1. TypeOK
  <2>1. alerts \in [Txs -> Nat] /\ tx \in Txs \cup {0} /\ posts \in Seq(Txs)
    BY DEF Init
  <2>2. pc \in [Actors -> PCs]
    BY DEF Init, Actors, PCs
  <2>3. cursor_row.horizon = 0 /\ cursor_row.demo = 0
    BY DEF Init, Sources
  <2>4. misread \in BOOLEAN /\ source \in Sources
    BY DEF Init
  <2> QED BY <2>1, <2>2, <2>3, <2>4, MaxTxAssumption, FaultsAssumption DEF Init, TypeOK
<1>2. CursorInv
  BY MaxTxAssumption DEF Init, CursorInv, Sources, Limit, Busy
<1>3. NoGap /\ GapInv
  BY DEF Init, NoGap, GapInv, Sources, Busy
<1>4. HandledIsAlerted /\ StoredInv
  BY DEF Init, HandledIsAlerted, StoredInv, Actors
<1>5. BudgetInv
  <2> SUFFICES ASSUME NEW t \in Txs PROVE Budget(t)
    BY DEF BudgetInv
  <2>1. TimesPosted(t) = 0
    <3>1. {i \in 1..Len(posts) : posts[i] = t} = {}
      BY DEF Init
    <3> QED BY <3>1, FS_EmptySet DEF TimesPosted
  <2>2. alerts[t] = 0 /\ restarts = 0 /\ ~EndpointMayAlert(t)
    BY DEF Init, EndpointMayAlert
  <2> QED BY <2>1, <2>2 DEF Budget
<1> QED BY <1>1, <1>2, <1>3, <1>4, <1>5 DEF IInv

\* The batch of a poll is a part of the ledger, and ends where the next one starts.
LEMMA PageFacts ==
  ASSUME TypeOK, CursorInv, source = "horizon"
  PROVE  /\ PageStart \in Nat \ {0} /\ PageEnd \in Nat /\ PageEnd <= ledger
         /\ Page \subseteq Txs
         /\ \A t \in Page : t \in Nat /\ cursor < t /\ t <= PageEnd
         /\ Page # {} => PageStart <= PageEnd /\ cursor < PageEnd
         /\ cursor > 0 => PageStart = cursor + 1
         /\ cursor = 0 => PageEnd = ledger
  BY MaxTxAssumption, PageAssumption
     DEF TypeOK, CursorInv, Limit, Sources, Txs, Page, PageStart, PageEnd

LEMMA TypeStep == TypeOK /\ CursorInv /\ [Next]_vars => TypeOK'
<1> SUFFICES ASSUME TypeOK, CursorInv, [Next]_vars PROVE TypeOK'
  OBVIOUS
<1> USE MaxTxAssumption, FaultsAssumption
    DEF TypeOK, tables, locals, request, history, Goto, Fault
<1>1. CASE Publish
  BY <1>1 DEF Publish
<1>2. CASE LoadCursor
  <2>1. SavedCursor \in 0..(MaxTx + Demo)
    BY DEF SavedCursor, Sources
  <2> QED BY <1>2, <2>1 DEF LoadCursor, PCs, Actors
<1>3. CASE LoadCursorFails
  <2>1. pc' \in [Actors -> PCs]
    BY <1>3 DEF LoadCursorFails, PCs, Actors
  <2>2. faults' \in 0..MaxFaults
    BY <1>3 DEF LoadCursorFails
  <2>3. cursor' \in 0..(MaxTx + Demo)
    BY <1>3 DEF LoadCursorFails
  <2> HIDE DEF Goto, Fault
  <2> QED BY <1>3, <2>1, <2>2, <2>3 DEF LoadCursorFails
<1>4. ASSUME NEW bad \in SUBSET Page, Poll(bad) PROVE TypeOK'
  <2>0. source = "horizon" /\ todo' = Page \ bad /\ failures' = bad
        /\ next_cursor' = IF Page # {} THEN PageEnd ELSE cursor
    BY <1>4 DEF Poll, Batch
  <2>1. todo' \subseteq Txs /\ failures' \subseteq Txs /\ next_cursor' \in 0..(MaxTx + Demo)
    <3>1. Page \subseteq Txs /\ PageEnd \in 0..(MaxTx + Demo)
      BY <2>0, PageFacts
    <3> HIDE DEF TypeOK
    <3>2. cursor \in 0..(MaxTx + Demo)
      BY DEF TypeOK
    <3> QED BY <2>0, <3>1, <3>2
  <2>2. first' \in 0..MaxTx
    <3>1. first' \in {PageStart, first} /\ (Page = {} => first' = first)
      BY <1>4 DEF Poll
    <3>2. Page # {} => PageStart \in 0..MaxTx
      <4>1. PageStart \in Nat /\ PageEnd \in Nat /\ PageEnd <= ledger
            /\ (Page # {} => PageStart <= PageEnd)
        BY <2>0, PageFacts
      <4> QED BY <4>1
    <3> QED BY <3>1, <3>2
  <2> QED BY <1>4, <2>1, <2>2 DEF Poll, Batch, PCs, Actors
<1>5. CASE PollDemo
  <2>1. todo' \subseteq Txs /\ failures' \subseteq Txs /\ next_cursor' \in 0..(MaxTx + Demo)
    BY <1>5 DEF PollDemo, Batch, Txs
  <2> QED BY <1>5, <2>1 DEF PollDemo, Batch, PCs, Actors
<1>6. ASSUME NEW t \in Postable, Post(t) PROVE TypeOK'
  <2>1. t \in Txs
    BY SuspiciousAssumption
  <2>2. tx' \in Txs \cup {0} /\ posts' \in Seq(Txs)
    BY <1>6, <2>1 DEF Post
  <2> QED BY <1>6, <2>2 DEF Post, PCs, Actors
<1>7. CASE PostDropped
  BY <1>7 DEF PostDropped, PCs, Actors
<1>8. ASSUME NEW who \in Actors, NEW t \in Txs, Save(who, t) PROVE TypeOK'
  BY <1>8 DEF Save, PCs
<1>18. ASSUME NEW who \in Actors, NEW t \in Txs, AuditAlert(who, t) PROVE TypeOK'
  BY <1>18 DEF AuditAlert, PCs
<1>9. ASSUME NEW who \in Actors, NEW t \in Txs, NotSuspicious(who, t) \/ Advise(who, t)
      PROVE  TypeOK'
  BY <1>9 DEF NotSuspicious, Advise, ReturnsOk, Finished, PCs, Actors
<1>10. ASSUME NEW who \in Actors, NEW t \in Txs, InsertAlert(who, t) PROVE TypeOK'
  BY <1>10 DEF InsertAlert, PCs
<1>11. ASSUME NEW who \in Actors, NEW t \in Txs, ProcessFails(who, t) PROVE TypeOK'
  BY <1>11 DEF ProcessFails, Finished, PCs, Actors
<1>12. ASSUME NEW t \in Txs, DeadLetter(t) \/ DeadLetterFails(t) PROVE TypeOK'
  <2>1. CASE DeadLetter(t)
    BY <2>1 DEF DeadLetter, Finished, PCs, Actors
  <2>2. CASE DeadLetterFails(t)
    BY <2>2 DEF DeadLetterFails, Finished, PCs, Actors
  <2> QED BY <1>12, <2>1, <2>2
<1>13. ASSUME NEW t \in Txs, DeadLetterFailure(t) \/ DeadLetterFailureFails(t) PROVE TypeOK'
  <2>1. CASE DeadLetterFailure(t)
    BY <2>1 DEF DeadLetterFailure
  <2>2. CASE DeadLetterFailureFails(t)
    BY <2>2 DEF DeadLetterFailureFails
  <2> QED BY <1>13, <2>1, <2>2
<1>14. CASE SetCursor
  <2>1. cursor_row.horizon' \in 0..MaxTx /\ cursor_row.demo' \in 0..Demo
    BY <1>14 DEF SetCursor, BatchDone, CursorInv, Busy, Limit, Sources
  <2> QED BY <1>14, <2>1 DEF SetCursor, PCs, Actors
<1>15. CASE SetCursorFails
  BY <1>15 DEF SetCursorFails, PCs, Actors
<1>16. CASE Crash
  <2>1. pc' \in [Actors -> PCs]
    BY <1>16 DEF Crash, Actors, PCs
  <2> QED BY <1>16, <2>1 DEF Crash
<1>17. CASE UNCHANGED vars
  BY <1>17 DEF vars
<1> QED
  <2>1. \A t \in todo \cup failures : t \in Txs
    OBVIOUS
  <2> QED
    BY <2>1, <1>1, <1>2, <1>3, <1>4, <1>5, <1>6, <1>7, <1>8, <1>9, <1>10, <1>11, <1>12, <1>13,
       <1>14, <1>15, <1>16, <1>17, <1>18
    DEF Next, LoopStep, Answer, EndpointStep, ProcessStep, Actors

LEMMA CursorStep == TypeOK /\ CursorInv /\ [Next]_vars => CursorInv'
<1> SUFFICES ASSUME TypeOK, CursorInv, [Next]_vars PROVE CursorInv'
  OBVIOUS
<1> USE MaxTxAssumption
    DEF TypeOK, CursorInv, Busy, Limit, Base, tables, locals, request, history, Goto, Actors, Sources
<1>1. CASE Publish
  BY <1>1 DEF Publish
<1>2. CASE LoadCursor
  BY <1>2 DEF LoadCursor, SavedCursor
<1>3. CASE LoadCursorFails
  BY <1>3 DEF LoadCursorFails
<1>4. ASSUME NEW bad \in SUBSET Page, Poll(bad) PROVE CursorInv'
  <2>1. source = "horizon" /\ pc.loop = "poll" /\ todo' = Page \ bad
        /\ next_cursor' = IF Page # {} THEN PageEnd ELSE cursor
    BY <1>4 DEF Poll, Batch
  <2>2. \A t \in todo' : t <= next_cursor'
    BY <2>1, PageFacts
  <2>3. cursor <= next_cursor' /\ next_cursor' <= ledger
        /\ (next_cursor' > 0 => cursor_row["horizon"] <= next_cursor')
    BY <2>1, PageFacts
  <2>4. pc'.loop = "save" /\ UNCHANGED <<ledger, source, cursor_row, cursor, misread>>
    BY <1>4 DEF Poll, Batch
  <2>5. Busy' /\ Limit(source)' = ledger /\ Base' = 0 /\ next_cursor' \in Nat
    BY <2>1, <2>4, PageFacts
  <2>6. \A t \in todo' : t <= (Base + next_cursor)'
    BY <2>2, <2>5
  <2> HIDE DEF Page, PageEnd
  <2> QED BY <2>1, <2>3, <2>4, <2>5, <2>6
<1>5. CASE PollDemo
  BY <1>5 DEF PollDemo, Batch
<1>6. ASSUME NEW t \in Postable, Post(t) PROVE CursorInv'
  BY <1>6 DEF Post
<1>7. CASE PostDropped
  BY <1>7 DEF PostDropped
<1>8. ASSUME NEW who \in Actors, NEW t \in Txs, Save(who, t) PROVE CursorInv'
  BY <1>8 DEF Save
<1>18. ASSUME NEW who \in Actors, NEW t \in Txs, AuditAlert(who, t) PROVE CursorInv'
  BY <1>18 DEF AuditAlert
<1>9. ASSUME NEW who \in Actors, NEW t \in Txs, NotSuspicious(who, t) \/ Advise(who, t)
      PROVE  CursorInv'
  BY <1>9 DEF NotSuspicious, Advise, ReturnsOk, Finished
<1>10. ASSUME NEW who \in Actors, NEW t \in Txs, InsertAlert(who, t) PROVE CursorInv'
  BY <1>10 DEF InsertAlert
<1>11. ASSUME NEW who \in Actors, NEW t \in Txs, ProcessFails(who, t) PROVE CursorInv'
  BY <1>11 DEF ProcessFails, Finished
<1>12. ASSUME NEW t \in Txs, DeadLetter(t) \/ DeadLetterFails(t) PROVE CursorInv'
  BY <1>12 DEF DeadLetter, DeadLetterFails, Finished
<1>13. ASSUME NEW t \in Txs, DeadLetterFailure(t) \/ DeadLetterFailureFails(t) PROVE CursorInv'
  BY <1>13 DEF DeadLetterFailure, DeadLetterFailureFails
<1>14. CASE SetCursor
  BY <1>14 DEF SetCursor, BatchDone
<1>15. CASE SetCursorFails
  BY <1>15 DEF SetCursorFails, BatchDone
<1>16. CASE Crash
  BY <1>16 DEF Crash
<1>17. CASE UNCHANGED vars
  BY <1>17 DEF vars
<1> QED
  <2>1. \A t \in todo \cup failures : t \in Txs
    BY DEF TypeOK
  <2> QED
    BY <2>1, <1>1, <1>2, <1>3, <1>4, <1>5, <1>6, <1>7, <1>8, <1>9, <1>10, <1>11, <1>12, <1>13,
       <1>14, <1>15, <1>16, <1>17, <1>18
    DEF Next, LoopStep, Answer, EndpointStep, ProcessStep, Actors

LEMMA StoredStep ==
  TypeOK /\ HandledIsAlerted /\ StoredInv /\ [Next]_vars => HandledIsAlerted' /\ StoredInv'
<1> SUFFICES ASSUME TypeOK, HandledIsAlerted, StoredInv, [Next]_vars
             PROVE  HandledIsAlerted' /\ StoredInv'
  OBVIOUS
<1> USE DEF TypeOK, HandledIsAlerted, StoredInv, Processes, IsLeast,
            tables, locals, request, history, Goto, Actors
<1>1. CASE Publish
  BY <1>1 DEF Publish
<1>2. CASE LoadCursor
  BY <1>2 DEF LoadCursor
<1>3. CASE LoadCursorFails
  BY <1>3 DEF LoadCursorFails
<1>4. ASSUME NEW bad \in SUBSET Page, Poll(bad) PROVE HandledIsAlerted' /\ StoredInv'
  BY <1>4 DEF Poll, Batch
<1>5. CASE PollDemo
  BY <1>5 DEF PollDemo, Batch
<1>6. ASSUME NEW t \in Postable, Post(t) PROVE HandledIsAlerted' /\ StoredInv'
  BY <1>6 DEF Post
<1>7. CASE PostDropped
  BY <1>7 DEF PostDropped
<1>8. ASSUME NEW who \in Actors, NEW t \in Txs, Save(who, t) PROVE HandledIsAlerted' /\ StoredInv'
  BY <1>8 DEF Save, Txs
<1>18. ASSUME NEW who \in Actors, NEW t \in Txs, AuditAlert(who, t) PROVE HandledIsAlerted' /\ StoredInv'
  BY <1>18 DEF AuditAlert
<1>9. ASSUME NEW who \in Actors, NEW t \in Txs, NotSuspicious(who, t) \/ Advise(who, t)
      PROVE  HandledIsAlerted' /\ StoredInv'
  BY <1>9 DEF NotSuspicious, Advise, ReturnsOk, Finished
<1>10. ASSUME NEW who \in Actors, NEW t \in Txs, InsertAlert(who, t)
       PROVE  HandledIsAlerted' /\ StoredInv'
  <2>1. HandledIsAlerted'
    BY <1>10 DEF InsertAlert, Txs
  <2>2. StoredInv'
    BY <1>10 DEF InsertAlert, Txs
  <2> QED BY <2>1, <2>2
<1>11. ASSUME NEW who \in Actors, NEW t \in Txs, ProcessFails(who, t)
       PROVE  HandledIsAlerted' /\ StoredInv'
  BY <1>11 DEF ProcessFails, Finished
<1>12. ASSUME NEW t \in Txs, DeadLetter(t) \/ DeadLetterFails(t)
       PROVE  HandledIsAlerted' /\ StoredInv'
  BY <1>12 DEF DeadLetter, DeadLetterFails, Finished
<1>13. ASSUME NEW t \in Txs, DeadLetterFailure(t) \/ DeadLetterFailureFails(t)
       PROVE  HandledIsAlerted' /\ StoredInv'
  BY <1>13 DEF DeadLetterFailure, DeadLetterFailureFails
<1>14. CASE SetCursor
  BY <1>14 DEF SetCursor, BatchDone
<1>15. CASE SetCursorFails
  BY <1>15 DEF SetCursorFails, BatchDone
<1>16. CASE Crash
  BY <1>16 DEF Crash
<1>17. CASE UNCHANGED vars
  BY <1>17 DEF vars
<1> QED
  <2>1. \A t \in todo \cup failures : t \in Txs
    BY DEF TypeOK
  <2> QED
    BY <2>1, <1>1, <1>2, <1>3, <1>4, <1>5, <1>6, <1>7, <1>8, <1>9, <1>10, <1>11, <1>12, <1>13,
       <1>14, <1>15, <1>16, <1>17, <1>18
    DEF Next, LoopStep, Answer, EndpointStep, ProcessStep, Actors

LEMMA GapStep == TypeOK /\ CursorInv /\ NoGap /\ GapInv /\ [Next]_vars => NoGap' /\ GapInv'
<1> SUFFICES ASSUME TypeOK, CursorInv, NoGap, GapInv, [Next]_vars PROVE NoGap' /\ GapInv'
  OBVIOUS
<1> USE MaxTxAssumption
    DEF TypeOK, CursorInv, NoGap, GapInv, Accounted, Busy, Limit,
        tables, locals, request, history, Goto, Actors, Sources
<1>1. CASE Publish
  BY <1>1 DEF Publish
<1>2. CASE LoadCursor
  BY <1>2 DEF LoadCursor, SavedCursor
<1>3. CASE LoadCursorFails
  BY <1>3 DEF LoadCursorFails
<1>4. ASSUME NEW bad \in SUBSET Page, Poll(bad) PROVE NoGap' /\ GapInv'
  <2>1. source = "horizon" /\ source' = source /\ cursor' = cursor /\ misread' = misread
    BY <1>4 DEF Poll
  <2>2. todo' \cup failures' = Page /\ UNCHANGED <<handled, dead_letters, lost, cursor_row>>
    BY <1>4 DEF Poll, Batch
  <2>3. NoGap' /\ (cursor > 0 => first' = first)
    BY <1>4 DEF Poll
  <2>4. ASSUME next_cursor' > 0, ~misread, NEW t \in first'..next_cursor'
        PROVE  Accounted(t) \/ t \in Page
    <3>1. CASE cursor > 0 /\ t <= cursor
      BY <3>1, <2>1, <2>3, <2>4
    <3>2. CASE cursor > 0 /\ t > cursor
      BY <3>2, <2>1, <2>4, <1>4, PageFacts DEF Poll, Batch, Page
    <3>3. CASE cursor = 0
      <4>1. Page # {} /\ cursor_row.horizon = 0
        BY <3>3, <2>1, <2>4, <1>4 DEF Poll, Batch
      <4>2. first' = PageStart /\ next_cursor' = PageEnd
        BY <3>3, <4>1, <1>4 DEF Poll, Batch
      <4> QED BY <4>2, <2>1, <2>4, PageFacts DEF Page
    <3> QED BY <3>1, <3>2, <3>3
  <2> QED BY <2>1, <2>2, <2>3, <2>4
<1>5. CASE PollDemo
  <2>1. source = "demo" /\ source' = source /\ cursor' = cursor
        /\ UNCHANGED <<handled, dead_letters, lost, cursor_row, misread, first>>
    BY <1>5 DEF PollDemo
  <2>2. ASSUME NEW i \in 1..next_cursor'
        PROVE  Accounted(MaxTx + i) \/ MaxTx + i \in todo' \cup failures'
    <3>1. CASE i <= cursor
      BY <3>1, <2>1
    <3>2. CASE i > cursor
      <4>1. cursor < Demo /\ next_cursor' = Demo
        BY <3>2, <1>5 DEF PollDemo, Batch
      <4>2. i \in (cursor + 1)..Demo
        BY <3>2, <4>1
      <4>3. MaxTx + i \in {MaxTx + j : j \in (cursor + 1)..Demo}
        BY <4>2
      <4>4. Batch({MaxTx + j : j \in (cursor + 1)..Demo}, {}, Demo)
        BY <4>1, <1>5 DEF PollDemo
      <4> QED BY <4>3, <4>4 DEF Batch
    <3> QED BY <3>1, <3>2, <1>5 DEF PollDemo, Batch
  <2> QED BY <2>1, <2>2
<1>6. ASSUME NEW t \in Postable, Post(t) PROVE NoGap' /\ GapInv'
  BY <1>6 DEF Post
<1>7. CASE PostDropped
  BY <1>7 DEF PostDropped
<1>8. ASSUME NEW who \in Actors, NEW t \in Txs, Save(who, t) PROVE NoGap' /\ GapInv'
  BY <1>8 DEF Save
<1>18. ASSUME NEW who \in Actors, NEW t \in Txs, AuditAlert(who, t) PROVE NoGap' /\ GapInv'
  BY <1>18 DEF AuditAlert
<1>9. ASSUME NEW who \in Actors, NEW t \in Txs, NotSuspicious(who, t) \/ Advise(who, t)
      PROVE  NoGap' /\ GapInv'
  BY <1>9 DEF NotSuspicious, Advise, ReturnsOk, Finished
<1>10. ASSUME NEW who \in Actors, NEW t \in Txs, InsertAlert(who, t) PROVE NoGap' /\ GapInv'
  BY <1>10 DEF InsertAlert
<1>11. ASSUME NEW who \in Actors, NEW t \in Txs, ProcessFails(who, t) PROVE NoGap' /\ GapInv'
  BY <1>11 DEF ProcessFails, Finished
<1>12. ASSUME NEW t \in Txs, DeadLetter(t) \/ DeadLetterFails(t) PROVE NoGap' /\ GapInv'
  BY <1>12 DEF DeadLetter, DeadLetterFails, Finished
<1>13. ASSUME NEW t \in Txs, DeadLetterFailure(t) \/ DeadLetterFailureFails(t)
       PROVE  NoGap' /\ GapInv'
  BY <1>13 DEF DeadLetterFailure, DeadLetterFailureFails
<1>14. CASE SetCursor
  BY <1>14 DEF SetCursor, BatchDone
<1>15. CASE SetCursorFails
  BY <1>15 DEF SetCursorFails, BatchDone
<1>16. CASE Crash
  BY <1>16 DEF Crash
<1>17. CASE UNCHANGED vars
  BY <1>17 DEF vars
<1> QED
  <2>1. \A t \in todo \cup failures : t \in Txs
    BY DEF TypeOK
  <2> QED
    BY <2>1, <1>1, <1>2, <1>3, <1>4, <1>5, <1>6, <1>7, <1>8, <1>9, <1>10, <1>11, <1>12, <1>13,
       <1>14, <1>15, <1>16, <1>17, <1>18
    DEF Next, LoopStep, Answer, EndpointStep, ProcessStep, Actors

-----------------------------------------------------------------------------
(* DuplicatesAreExplained. *)

\* The count of a transaction's posts goes up by one when it is posted.
LEMMA PostedOnce ==
  ASSUME TypeOK, NEW t \in Txs, NEW u \in Txs, posts' = Append(posts, u)
  PROVE  /\ TimesPosted(t) \in Nat
         /\ TimesPosted(t)' = TimesPosted(t) + (IF t = u THEN 1 ELSE 0)
<1> DEFINE S == {i \in 1..Len(posts) : posts[i] = t}
<1>1. posts \in Seq(Txs) /\ Len(posts) \in Nat
  BY DEF TypeOK
<1>2. IsFiniteSet(S) /\ Cardinality(S) \in Nat
  <2>1. IsFiniteSet(1..Len(posts))
    BY <1>1, FS_Interval
  <2>2. IsFiniteSet(S)
    BY <2>1, FS_Subset
  <2> QED BY <2>2, FS_CardinalityType
<1>3. Len(posts') = Len(posts) + 1 /\ posts'[Len(posts) + 1] = u
      /\ \A i \in 1..Len(posts) : posts'[i] = posts[i]
  BY <1>1
<1>4. {i \in 1..Len(posts') : posts'[i] = t} = IF t = u THEN S \cup {Len(posts) + 1} ELSE S
  <2>1. 1..Len(posts') = (1..Len(posts)) \cup {Len(posts) + 1}
    BY <1>1, <1>3
  <2> QED BY <1>3, <2>1
<1>5. Cardinality(S \cup {Len(posts) + 1}) = Cardinality(S) + 1
  <2>1. Len(posts) + 1 \notin S
    BY <1>1
  <2> QED BY <1>2, <2>1, FS_AddElement
<1>6. TimesPosted(t) = Cardinality(S)
      /\ TimesPosted(t)' = Cardinality({i \in 1..Len(posts') : posts'[i] = t})
  BY DEF TimesPosted
<1>7. TimesPosted(t) \in Nat
  BY <1>2, <1>6
<1>8. CASE t = u
  <2>1. {i \in 1..Len(posts') : posts'[i] = t} = S \cup {Len(posts) + 1}
    BY <1>4, <1>8
  <2>2. TimesPosted(t)' = TimesPosted(t) + 1
    BY <2>1, <1>5, <1>6, Zenon
  <2> QED BY <1>7, <1>8, <2>2
<1>9. CASE t # u
  <2>1. TimesPosted(t)' = TimesPosted(t)
    BY <1>4, <1>6, <1>9, Zenon
  <2> QED BY <1>7, <1>9, <2>1
<1> QED BY <1>8, <1>9

LEMMA PostedType == TypeOK => \A t \in Txs : TimesPosted(t) \in Nat
<1> SUFFICES ASSUME TypeOK, NEW t \in Txs PROVE TimesPosted(t) \in Nat
  OBVIOUS
<1>1. IsFiniteSet(1..Len(posts))
  BY FS_Interval DEF TypeOK
<1>2. IsFiniteSet({i \in 1..Len(posts) : posts[i] = t})
  BY <1>1, FS_Subset
<1> QED BY <1>2, FS_CardinalityType DEF TimesPosted

\* A step that inserts no alert, and after which neither process may insert one
\* that it could not before, keeps to the budget.
LEMMA BudgetKept ==
  ASSUME TypeOK, TypeOK', NEW t \in Txs, Budget(t),
         alerts'[t] = alerts[t], UNCHANGED <<restarts, posts>>,
         LoopMayAlert(t)' => LoopMayAlert(t), EndpointMayAlert(t)' => EndpointMayAlert(t)
  PROVE  Budget(t)'
<1>1. TimesPosted(t)' = TimesPosted(t) /\ TimesPosted(t) \in Nat
  BY PostedType DEF TimesPosted
<1>2. alerts[t] \in Nat /\ restarts \in Nat
  BY DEF TypeOK
<1> QED BY <1>1, <1>2 DEF Budget

LEMMA BudgetStep == TypeOK /\ TypeOK' /\ CursorInv /\ BudgetInv /\ [Next]_vars => BudgetInv'
<1> SUFFICES ASSUME TypeOK, TypeOK', CursorInv, BudgetInv, [Next]_vars, NEW t \in Txs
             PROVE  Budget(t)'
  BY DEF BudgetInv
<1>0. Budget(t)
  BY DEF BudgetInv
<1> DEFINE Quiet ==
      /\ alerts'[t] = alerts[t] /\ UNCHANGED <<restarts, posts>>
      /\ LoopMayAlert(t)' => LoopMayAlert(t)
      /\ EndpointMayAlert(t)' => EndpointMayAlert(t)
<1>q. Quiet => Budget(t)'
  BY <1>0, BudgetKept
<1>n. alerts[t] \in Nat /\ restarts \in Nat
  BY DEF TypeOK
<1> USE MaxTxAssumption
    DEF TypeOK, CursorInv, Busy, LoopMayAlert, EndpointMayAlert, IsLeast, Processes,
        tables, locals, request, history, Goto, Actors, Txs, Limit, Base
<1>1. CASE Publish
  BY <1>1, <1>q DEF Publish
<1>2. CASE LoadCursor
  BY <1>2, <1>q DEF LoadCursor, SavedCursor
<1>3. CASE LoadCursorFails
  BY <1>3, <1>q DEF LoadCursorFails
<1>4. ASSUME NEW bad \in SUBSET Page, Poll(bad) PROVE Budget(t)'
  <2>1. source = "horizon" /\ pc.loop = "poll" /\ todo' \subseteq Page
    BY <1>4 DEF Poll, Batch
  <2>3. cursor <= next_cursor'
    <3>1. next_cursor' = IF Page # {} THEN PageEnd ELSE cursor
      BY <1>4 DEF Poll, Batch
    <3>2. cursor \in Nat
      OBVIOUS
    <3> HIDE DEF TypeOK, CursorInv
    <3> QED BY <2>1, <3>1, <3>2, PageFacts
  <2>2. t \in Page => t > cursor
    BY <2>1, PageFacts
  <2> QED BY <1>4, <1>q, <2>1, <2>2, <2>3 DEF Poll, Batch
<1>5. CASE PollDemo
  <2>1. source = "demo" /\ pc.loop = "poll" /\ cursor <= next_cursor'
    BY <1>5 DEF PollDemo, Batch
  <2>2. t \in todo' => t > MaxTx + cursor
    BY <1>5 DEF PollDemo, Batch
  <2>3. source' = source /\ pc'.loop = "save"
    BY <1>5 DEF PollDemo, Batch
  <2>4. LoopMayAlert(t)' => LoopMayAlert(t)
    <3>1. cursor \in Nat /\ next_cursor' \in Nat /\ t \in Nat
      OBVIOUS
    <3> HIDE DEF TypeOK, CursorInv
    <3>2. LoopMayAlert(t) <=> t > MaxTx + cursor
      BY <2>1
    <3>3. LoopMayAlert(t)' => t > MaxTx + next_cursor' \/ t \in todo'
      BY <2>1, <2>3
    <3> HIDE DEF LoopMayAlert
    <3>4. PICK n \in Nat : n = next_cursor'
      BY <3>1
    <3>5. cursor <= n
      BY <2>1, <3>4
    <3>6. t > MaxTx + n => t > MaxTx + cursor
      BY <3>1, <3>5
    <3> QED BY <2>2, <3>2, <3>3, <3>4, <3>6
  <2> QED BY <1>5, <1>q, <2>4 DEF PollDemo, Batch
<1>6. ASSUME NEW u \in Postable, Post(u) PROVE Budget(t)'
  <2>1. u \in Txs /\ posts' = Append(posts, u)
    BY <1>6, SuspiciousAssumption DEF Post
  <2>2. TimesPosted(t) \in Nat /\ TimesPosted(t)' = TimesPosted(t) + (IF t = u THEN 1 ELSE 0)
    BY <2>1, PostedOnce
  <2>3. alerts' = alerts /\ restarts' = restarts /\ LoopMayAlert(t)' = LoopMayAlert(t)
    BY <1>6 DEF Post
  <2>4. ~EndpointMayAlert(t) /\ (EndpointMayAlert(t)' => t = u)
    BY <1>6 DEF Post
  <2> HIDE DEF LoopMayAlert, EndpointMayAlert, TypeOK, CursorInv
  <2> QED BY <1>0, <1>n, <2>2, <2>3, <2>4 DEF Budget
<1>7. CASE PostDropped
  BY <1>7, <1>q DEF PostDropped
<1>8. ASSUME NEW who \in Actors, NEW u \in Txs, Save(who, u) PROVE Budget(t)'
  BY <1>8, <1>q DEF Save
<1>18. ASSUME NEW who \in Actors, NEW u \in Txs, AuditAlert(who, u) PROVE Budget(t)'
  BY <1>18, <1>q DEF AuditAlert
<1>9. ASSUME NEW who \in Actors, NEW u \in Txs, NotSuspicious(who, u) \/ Advise(who, u)
      PROVE  Budget(t)'
  <2>1. Processes(who, u) /\ ReturnsOk(who, u) /\ pc[who] \in {"evaluate", "advise"}
    BY <1>9 DEF NotSuspicious, Advise
  <2>2. CASE who = "loop"
    BY <2>1, <2>2, <1>q DEF ReturnsOk, Finished
  <2>3. CASE who = "endpoint"
    BY <2>1, <2>3, <1>q DEF ReturnsOk, Finished
  <2> QED BY <2>2, <2>3
<1>10. ASSUME NEW who \in Actors, NEW u \in Txs, InsertAlert(who, u) PROVE Budget(t)'
  <2>1. CASE t # u
    BY <1>10, <1>q, <2>1 DEF InsertAlert
  <2>2. CASE t = u
    <3>1. alerts'[t] = alerts[t] + 1 /\ UNCHANGED <<restarts, posts>>
      BY <1>10, <2>2 DEF InsertAlert
    <3>2. TimesPosted(t)' = TimesPosted(t) /\ TimesPosted(t) \in Nat
      BY <3>1, PostedType DEF TimesPosted
    <3>3. CASE who = "loop"
      <4>1. LoopMayAlert(t) /\ ~LoopMayAlert(t)'
        BY <1>10, <2>2, <3>3 DEF InsertAlert
      <4>2. EndpointMayAlert(t)' = EndpointMayAlert(t)
        BY <1>10, <3>3 DEF InsertAlert
      <4> HIDE DEF LoopMayAlert, EndpointMayAlert, TypeOK, CursorInv
      <4> QED BY <1>0, <1>n, <3>1, <3>2, <4>1, <4>2 DEF Budget
    <3>4. CASE who = "endpoint"
      <4>1. EndpointMayAlert(t) /\ ~EndpointMayAlert(t)'
        BY <1>10, <2>2, <3>4 DEF InsertAlert
      <4>2. LoopMayAlert(t)' = LoopMayAlert(t)
        BY <1>10, <3>4 DEF InsertAlert
      <4> HIDE DEF LoopMayAlert, EndpointMayAlert, TypeOK, CursorInv
      <4> QED BY <1>0, <1>n, <3>1, <3>2, <4>1, <4>2 DEF Budget
    <3> QED BY <3>3, <3>4
  <2> QED BY <2>1, <2>2
<1>11. ASSUME NEW who \in Actors, NEW u \in Txs, ProcessFails(who, u) PROVE Budget(t)'
  BY <1>11, <1>q DEF ProcessFails, Finished
<1>12. ASSUME NEW u \in Txs, DeadLetter(u) \/ DeadLetterFails(u) PROVE Budget(t)'
  <2>1. pc.loop = "dead_letter" /\ Processes("loop", u) /\ Finished("loop", u)
        /\ UNCHANGED <<alerts, source, cursor, next_cursor, posts, restarts>>
    BY <1>12 DEF DeadLetter, DeadLetterFails
  <2>2. pc' = [pc EXCEPT !["loop"] = "save"] /\ todo' = todo \ {u} /\ tx' = tx
    BY <2>1 DEF Finished
  <2>3. EndpointMayAlert(t)' => EndpointMayAlert(t)
    BY <2>2
  <2>4. LoopMayAlert(t)' => LoopMayAlert(t)
    BY <2>1, <2>2
  <2> QED BY <1>q, <2>1, <2>3, <2>4
<1>13. ASSUME NEW u \in Txs, DeadLetterFailure(u) \/ DeadLetterFailureFails(u)
       PROVE  Budget(t)'
  BY <1>13, <1>q DEF DeadLetterFailure, DeadLetterFailureFails
<1>14. CASE SetCursor
  BY <1>14, <1>q DEF SetCursor, BatchDone
<1>15. CASE SetCursorFails
  BY <1>15, <1>q DEF SetCursorFails, BatchDone
<1>16. CASE Crash
  <2>1. alerts' = alerts /\ restarts' = restarts + 1 /\ posts' = posts /\ ~EndpointMayAlert(t)'
    BY <1>16 DEF Crash
  <2>2. TimesPosted(t)' = TimesPosted(t) /\ TimesPosted(t) \in Nat
    BY <2>1, PostedType DEF TimesPosted
  <2> HIDE DEF LoopMayAlert, EndpointMayAlert, TypeOK, CursorInv
  <2> QED BY <1>0, <1>n, <2>1, <2>2 DEF Budget
<1>17. CASE UNCHANGED vars
  BY <1>17, <1>q DEF vars
<1> QED
  <2>1. \A u \in todo \cup failures : u \in Txs
    BY DEF TypeOK
  <2> QED
    BY <2>1, <1>1, <1>2, <1>3, <1>4, <1>5, <1>6, <1>7, <1>8, <1>9, <1>10, <1>11, <1>12, <1>13,
       <1>14, <1>15, <1>16, <1>17, <1>18
    DEF Next, LoopStep, Answer, EndpointStep, ProcessStep, Actors

-----------------------------------------------------------------------------

LEMMA InvStep == IInv /\ [Next]_vars => IInv'
  BY TypeStep, CursorStep, GapStep, StoredStep, BudgetStep DEF IInv

\* The inductive invariant of the loop and the endpoint.
THEOREM Invariance == Spec => []IInv
  BY InitInv, InvStep, PTL DEF Spec

\* Every variable keeps its type; the cursors of both sources stay in their range.
THEOREM TypeCorrect == Spec => []TypeOK
<1>1. IInv => TypeOK
  BY DEF IInv
<1> QED BY <1>1, Invariance, PTL

\* run_source persists no cursor before everything up to it has been processed or
\* put into the dead-letter table, or its loss was logged: for every ledger, page
\* size and number of crashes and failures.
THEOREM NothingIsSkipped == Spec => []NoGap
<1>1. IInv => NoGap
  BY DEF IInv
<1> QED BY <1>1, Invariance, PTL

\* When process_transaction returns Ok, to the loop or to the endpoint's client,
\* the transaction is stored and, if the rules flag it, has an alert.
THEOREM OkMeansAlerted == Spec => []HandledIsAlerted
<1>1. IInv => HandledIsAlerted
  BY DEF IInv
<1> QED BY <1>1, Invariance, PTL

\* No transaction has more alerts than one for the loop, one for each restart of
\* the process and one for each time it was sent to the endpoint.
THEOREM DuplicatesHaveACause == Spec => []DuplicatesAreExplained
<1>1. IInv => DuplicatesAreExplained
  <2> SUFFICES ASSUME IInv, NEW t \in Txs PROVE alerts[t] <= 1 + restarts + TimesPosted(t)
    BY DEF DuplicatesAreExplained
  <2>1. Budget(t) /\ TimesPosted(t) \in Nat /\ alerts[t] \in Nat /\ restarts \in Nat
    BY PostedType DEF IInv, BudgetInv, TypeOK
  <2> QED BY <2>1 DEF Budget
<1> QED BY <1>1, Invariance, PTL

\* set_cursor never writes a cursor before the one in the table, even when the
\* loop started without one because it could not be read.
THEOREM CursorNeverGoesBack == Spec => CursorAdvances
<1>1. IInv /\ [Next]_vars => [\A s \in Sources : cursor_row'[s] >= cursor_row[s]]_vars
  <2> SUFFICES ASSUME IInv, [Next]_vars, NEW s \in Sources
               PROVE  cursor_row'[s] >= cursor_row[s]
    OBVIOUS
  <2>1. cursor_row \in [Sources -> Nat]
    BY DEF IInv, CursorInv
  <2>2. CASE SetCursor
    BY <2>1, <2>2 DEF SetCursor, BatchDone, IInv, CursorInv, Busy, TypeOK
  <2>3. CASE ~SetCursor
    <3>1. cursor_row' = cursor_row
      BY <2>3
         DEF Next, vars, LoopStep, EndpointStep, ProcessStep, Publish, LoadCursor, LoadCursorFails,
             Poll, PollDemo, Post, PostDropped, Save, NotSuspicious, AuditAlert, Advise, Answer, ReturnsOk,
             InsertAlert, ProcessFails, DeadLetter, DeadLetterFails, DeadLetterFailure,
             DeadLetterFailureFails, SetCursorFails, Crash, tables
    <3> QED BY <2>1, <3>1
  <2> QED BY <2>2, <2>3
<1> QED BY <1>1, Invariance, PTL DEF Spec, CursorAdvances
=============================================================================
