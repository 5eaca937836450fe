-------------------------- MODULE Detection_proof --------------------------
(***************************************************************************)
(* Proofs about Detection and the rules, for any transactions, any number  *)
(* of them, any windows and thresholds.                                    *)
(***************************************************************************)
EXTENDS Detection, FiniteSetTheorems, TLAPS

(***************************************************************************)
(* The invariant of one job, as a relation between its history h, its pc   *)
(* p, its verdict v, the table T, the table s when it began to read, and   *)
(* the transaction i that it judges.                                       *)
(***************************************************************************)

Recent(T, i) == Rows(T, i, history_lookback)
Baseline(T, i) == Rows(T, i, history_baseline_window)
Seen(h) == {rt.row : rt \in h.recent_transactions}

\* The AccountHistory that the SELECTs yield if nothing is saved between them.
HistoryOf(T, i) ==
  [recent_transactions |-> RecentOf(Recent(T, i)),
   baseline_observations |-> Cardinality(Baseline(T, i)),
   known_assets |-> AssetsOf(Baseline(T, i))]

BurstIn(T, i) ==
  {j \in Rows(T, i, velocity_window_secs) : tx[j].movements # << >>}

\* Nothing that counts for i was saved since.
Quiet(T, s, i) == Baseline(T, i) \subseteq s

\* What the first SELECT has read: rows that are there, their assets, and all
\* that moved something and were there when the job began to read.
RecentOK(h, p, T, s, i) ==
  p \in {"count", "rows", "evaluate"} =>
    /\ h.recent_transactions \subseteq RecentOf(Recent(T, i))
    /\ AssetsOf(Seen(h)) \subseteq h.known_assets
    /\ BurstIn(s, i) \subseteq Seen(h)
    /\ Quiet(T, s, i) =>
         /\ h.recent_transactions = RecentOf(Recent(T, i))
         /\ h.known_assets = IF p = "evaluate" THEN AssetsOf(Baseline(T, i))
                                               ELSE AssetsOf(Recent(T, i))

\* What the second one has counted.
CountOK(h, p, T, s, i) ==
  p \in {"rows", "evaluate"} =>
    /\ Cardinality(Seen(h)) <= h.baseline_observations
    /\ Quiet(T, s, i) => h.baseline_observations = Cardinality(Baseline(T, i))

\* What the rules have said.
VerdictOK(v, p, T, s, i) ==
  p = "done" =>
    /\ v.large_transfer = LargeTransferRule(tx[i])
    /\ v.flagged_account_interaction = FlaggedAccountRule(tx[i])
    /\ Quiet(T, s, i) => v = evaluate_all(tx[i], HistoryOf(T, i))
    /\ Cardinality(BurstIn(s, i)) >= velocity_max_tx_count => v.velocity = 1

OneOK(h, p, v, T, s, i) ==
  RecentOK(h, p, T, s, i) /\ CountOK(h, p, T, s, i) /\ VerdictOK(v, p, T, s, i)

\* The table only grows; an ingesting job judges its own transaction, and one of
\* the evaluate endpoint a row of the table.
SavedInv ==
  /\ IsFiniteSet(transactions)
  /\ \A i \in Jobs : at_start[i] \subseteq transactions
  /\ \A i \in Ids : subject[i] = i
  /\ \A r \in Replays : pc[r] \in Reading \cup {"done"} => subject[r] \in transactions

EachOK ==
  \A i \in Jobs : OneOK(history[i], pc[i], verdict[i], transactions, at_start[i], subject[i])

\* Only the ingesting jobs save, and only those of the evaluate endpoint get.
GetInv == (\A i \in Ids : pc[i] # "get") /\ (\A r \in Replays : pc[r] # "save")

IInv == TypeOK /\ SavedInv /\ GetInv /\ EachOK

-----------------------------------------------------------------------------
(* The transactions and the rows that count for one of them. *)

LEMMA TxFacts ==
  ASSUME TypeOK, NEW i \in Ids
  PROVE  /\ tx[i].created_at \in Nat /\ tx[i].created_at \in Times
         /\ DOMAIN tx[i].movements = 1..Len(tx[i].movements)
         /\ Len(tx[i].movements) \in Nat
         /\ tx[i].movements # << >> => 1 \in DOMAIN tx[i].movements
         /\ IsFiniteSet(DOMAIN tx[i].movements)
         /\ assets(tx[i]) \subseteq Assets
<1>1. tx[i] \in Transactions
  BY DEF TypeOK
<1>2. PICK n \in Ids, t \in Times, k \in Kinds :
        tx[i] = [tx_id |-> n, created_at |-> t, source_account |-> k.source_account,
                 movements |-> k.movements, operation_count |-> k.operation_count]
  BY <1>1 DEF Transactions
<1>3. tx[i].created_at = t /\ tx[i].movements = k.movements
  BY <1>2
<1>4. PICK S : k.movements \in Seq(S)
  BY KindsAssumption
<1>5. /\ DOMAIN k.movements = 1..Len(k.movements)
      /\ Len(k.movements) \in Nat
      /\ k.movements # << >> => 1 \in DOMAIN k.movements
  BY <1>4
<1>6. IsFiniteSet(DOMAIN k.movements)
  <2>1. 1 \in Int /\ Len(k.movements) \in Int
    BY <1>5
  <2>2. IsFiniteSet(1..Len(k.movements))
    BY <2>1, FS_Interval
  <2> QED BY <2>2, <1>5
<1>7. assets(tx[i]) = assets(k)
  BY <1>3 DEF assets
<1>8. assets(k) \subseteq Assets
  BY DEF Assets
<1> QED BY <1>3, <1>5, <1>6, <1>7, <1>8, TimesAssumption

\* The rows grow with the table and with the window.
LEMMA RowsFacts ==
  ASSUME TypeOK, NEW i \in Ids, NEW T \in SUBSET Ids, NEW U \in SUBSET Ids, T \subseteq U,
         NEW v \in Nat, NEW w \in Nat, v <= w
  PROVE  /\ Rows(T, i, v) \subseteq T
         /\ Rows(T, i, v) \subseteq Rows(U, i, w)
         /\ i \in T => i \in Rows(T, i, v)
<1>1. \A j \in Ids : tx[j].created_at \in Nat
  BY TxFacts
<1>2. \A j : j \in Rows(T, i, v) => j \in Rows(U, i, w)
  <2> SUFFICES ASSUME NEW j, j \in Rows(T, i, v) PROVE j \in Rows(U, i, w)
    OBVIOUS
  <2>1. /\ j \in T /\ tx[j].source_account = tx[i].source_account
        /\ tx[j].created_at >= tx[i].created_at - v /\ tx[j].created_at <= tx[i].created_at
    BY DEF Rows
  <2>2. tx[j].created_at >= tx[i].created_at - w
    BY <2>1, <1>1
  <2> QED BY <2>1, <2>2 DEF Rows
<1>3. i \in T => i \in Rows(T, i, v)
  BY <1>1 DEF Rows
<1>4. Rows(T, i, v) \subseteq T
  BY DEF Rows
<1> QED BY <1>2, <1>3, <1>4

\* If all rows of a window were in the table before it grew, so were those of a
\* smaller window.
LEMMA RowsSettled ==
  ASSUME TypeOK, NEW i \in Ids, NEW T \in SUBSET Ids, NEW U \in SUBSET Ids, T \subseteq U,
         NEW v \in Nat, NEW w \in Nat, v <= w, Rows(U, i, w) \subseteq T
  PROVE  Rows(T, i, v) = Rows(U, i, v)
<1>1. Rows(U, i, v) \subseteq Rows(U, i, w)
  BY RowsFacts
<1>2. Rows(U, i, v) \subseteq T
  BY <1>1
<1> QED BY <1>2 DEF Rows

\* What is recent is in the baseline.
LEMMA WindowsFacts ==
  ASSUME TypeOK, NEW i \in Ids, NEW T \in SUBSET Ids
  PROVE  /\ Recent(T, i) \subseteq Baseline(T, i) /\ Baseline(T, i) \subseteq T
         /\ Recent(T, i) \in SUBSET Ids /\ Baseline(T, i) \in SUBSET Ids
         /\ i \in T => i \in Baseline(T, i)
<1>1. /\ history_lookback \in Nat /\ history_baseline_window \in Nat
      /\ history_lookback <= history_baseline_window
      /\ history_baseline_window <= history_baseline_window
  BY WindowsAssumption
<1>2. Recent(T, i) \subseteq Baseline(T, i)
  BY <1>1, RowsFacts DEF Recent, Baseline
<1>3. Baseline(T, i) \subseteq T /\ (i \in T => i \in Baseline(T, i))
  BY <1>1, RowsFacts DEF Baseline
<1> QED BY <1>2, <1>3

\* What is derived from rows grows with them.
LEMMA DerivedFacts ==
  ASSUME TypeOK, NEW Q \in SUBSET Ids, NEW R \in SUBSET Ids, Q \subseteq R
  PROVE  /\ RecentOf(Q) \subseteq RecentOf(R) /\ AssetsOf(Q) \subseteq AssetsOf(R)
         /\ RecentOf(R) \in SUBSET RecentTransactions /\ AssetsOf(R) \in SUBSET Assets
         /\ \A rt \in RecentOf(R) : /\ rt.row \in R
                                    /\ rt.nr \in DOMAIN tx[rt.row].movements
                                    /\ rt.created_at = tx[rt.row].created_at
<1>1. RecentOf(Q) \subseteq RecentOf(R) /\ AssetsOf(Q) \subseteq AssetsOf(R)
  BY DEF RecentOf, AssetsOf
<1>2. ASSUME NEW rt \in RecentOf(R)
      PROVE  /\ rt.row \in R /\ rt.nr \in DOMAIN tx[rt.row].movements
             /\ rt.created_at = tx[rt.row].created_at /\ rt \in RecentTransactions
  <2>1. PICK j \in R : \E k \in DOMAIN tx[j].movements :
               rt = [row |-> j, nr |-> k, created_at |-> tx[j].created_at]
    BY DEF RecentOf
  <2>2. PICK k \in DOMAIN tx[j].movements :
               rt = [row |-> j, nr |-> k, created_at |-> tx[j].created_at]
    BY <2>1
  <2>3. k \in Nat /\ tx[j].created_at \in Times /\ j \in Ids
    BY TxFacts
  <2> QED BY <2>2, <2>3 DEF RecentTransactions
<1>3. AssetsOf(R) \subseteq Assets
  BY TxFacts DEF AssetsOf
<1> QED BY <1>1, <1>2, <1>3

-----------------------------------------------------------------------------
(* The transactions never change, so what depends on nothing else does not. *)

LEMMA Frozen ==
  ASSUME tx' = tx
  PROVE  /\ \A h, p, v, T, s, i : OneOK(h, p, v, T, s, i)' = OneOK(h, p, v, T, s, i)
         /\ EachOK' = \A i \in Jobs : OneOK(history'[i], pc'[i], verdict'[i], transactions',
                                            at_start'[i], subject'[i])
<1>1. \A T, i, w : Rows(T, i, w)' = Rows(T, i, w)
  BY DEF Rows
<1>2. \A R : RecentOf(R)' = RecentOf(R)
  BY DEF RecentOf
<1>3. \A R : AssetsOf(R)' = AssetsOf(R)
  BY DEF AssetsOf
<1>4. \A T, i : Recent(T, i)' = Recent(T, i) /\ Baseline(T, i)' = Baseline(T, i)
  BY <1>1 DEF Recent, Baseline
<1>5. \A T, i : BurstIn(T, i)' = BurstIn(T, i)
  BY <1>1 DEF BurstIn
<1>6. \A T, i : HistoryOf(T, i)' = HistoryOf(T, i)
  BY <1>2, <1>3, <1>4 DEF HistoryOf
<1>7. \A T, s, i : Quiet(T, s, i)' = Quiet(T, s, i)
  BY <1>4 DEF Quiet
<1>8. \A h, p, T, s, i : RecentOK(h, p, T, s, i)' = RecentOK(h, p, T, s, i)
  BY <1>2, <1>3, <1>4, <1>5, <1>7 DEF RecentOK
<1>9. \A h, p, T, s, i : CountOK(h, p, T, s, i)' = CountOK(h, p, T, s, i)
  BY <1>4, <1>7 DEF CountOK
<1>10. \A v, p, T, s, i : VerdictOK(v, p, T, s, i)' = VerdictOK(v, p, T, s, i)
  BY <1>5, <1>6, <1>7 DEF VerdictOK
<1>11. \A h, p, v, T, s, i : OneOK(h, p, v, T, s, i)' = OneOK(h, p, v, T, s, i)
  BY <1>8, <1>9, <1>10 DEF OneOK
<1>12. EachOK' = \A i \in Jobs : OneOK(history'[i], pc'[i], verdict'[i], transactions',
                                       at_start'[i], subject'[i])
  BY <1>11 DEF EachOK
<1> QED BY <1>11, <1>12

-----------------------------------------------------------------------------
(* The rules. *)

\* The image of a finite set under a function.
LEMMA ImageIsFinite ==
  ASSUME NEW S, IsFiniteSet(S), NEW f, f = [x \in S |-> f[x]]
  PROVE  IsFiniteSet({f[x] : x \in S})
<1> DEFINE T == {f[x] : x \in S}
<1>1. f \in [S -> T]
  OBVIOUS
<1>2. f \in Surjection(S, T)
  BY <1>1 DEF Surjection
<1> QED BY <1>2, FS_Surjection

LEMMA RecentIsFinite ==
  ASSUME TypeOK, NEW R \in SUBSET Ids, IsFiniteSet(R)
  PROVE  IsFiniteSet(RecentOf(R))
<1> DEFINE of(j) == {[row |-> j, nr |-> k, created_at |-> tx[j].created_at] :
                       k \in DOMAIN tx[j].movements}
           all == [j \in R |-> of(j)]
<1>1. ASSUME NEW j \in R PROVE IsFiniteSet(of(j))
  <2> DEFINE D == DOMAIN tx[j].movements
             f == [k \in D |-> [row |-> j, nr |-> k, created_at |-> tx[j].created_at]]
  <2>1. IsFiniteSet(D)
    BY TxFacts
  <2>2. f = [k \in D |-> f[k]]
    OBVIOUS
  <2>3. of(j) = {f[k] : k \in D}
    OBVIOUS
  <2> HIDE DEF D, f, of
  <2>4. IsFiniteSet({f[k] : k \in D})
    BY <2>1, <2>2, ImageIsFinite
  <2> QED BY <2>3, <2>4
<1>2. RecentOf(R) = UNION {all[j] : j \in R}
  BY DEF RecentOf
<1>3. all = [j \in R |-> all[j]] /\ \A j \in R : all[j] = of(j)
  OBVIOUS
<1> HIDE DEF of, all
<1>4. IsFiniteSet({all[j] : j \in R})
  BY <1>3, ImageIsFinite
<1>5. \A S \in {all[j] : j \in R} : IsFiniteSet(S)
  BY <1>1, <1>3
<1> QED BY <1>2, <1>4, <1>5, FS_UNION

LEMMA AssetsAreFinite ==
  ASSUME TypeOK, NEW i \in Ids
  PROVE  IsFiniteSet(assets(tx[i]))
<1> DEFINE D == DOMAIN tx[i].movements
           f == [k \in D |-> tx[i].movements[k].asset]
<1>1. IsFiniteSet(D)
  BY TxFacts
<1>2. f = [k \in D |-> f[k]] /\ assets(tx[i]) = {f[k] : k \in D}
  BY DEF assets
<1> HIDE DEF D, f
<1> QED BY <1>1, <1>2, ImageIsFinite

LEMMA AccountsAreFinite ==
  ASSUME TypeOK, NEW i \in Ids
  PROVE  IsFiniteSet(involved_accounts(tx[i]))
<1> DEFINE D == DOMAIN tx[i].movements
           f == [k \in D |-> tx[i].movements[k].from]
           g == [k \in D |-> tx[i].movements[k].to]
           F == {f[k] : k \in D}
           G == {g[k] : k \in D}
<1>1. IsFiniteSet(D)
  BY TxFacts
<1>2. f = [k \in D |-> f[k]] /\ g = [k \in D |-> g[k]]
  OBVIOUS
<1>3. involved_accounts(tx[i]) \subseteq (F \cup G) \cup {tx[i].source_account}
  <2> SUFFICES ASSUME NEW a \in involved_accounts(tx[i]), a # tx[i].source_account
               PROVE  a \in F \cup G
    OBVIOUS
  <2>1. PICK k \in D : a \in {tx[i].movements[k].from, tx[i].movements[k].to}
    BY DEF involved_accounts
  <2>2. f[k] = tx[i].movements[k].from /\ g[k] = tx[i].movements[k].to
    OBVIOUS
  <2> QED BY <2>1, <2>2
<1> HIDE DEF D, f, g
<1>4. IsFiniteSet(F) /\ IsFiniteSet(G)
  BY <1>1, <1>2, ImageIsFinite
<1> HIDE DEF F, G
<1>5. IsFiniteSet(F \cup G)
  BY <1>4, FS_Union
<1>6. IsFiniteSet((F \cup G) \cup {tx[i].source_account})
  BY <1>5, FS_AddElement
<1> QED BY <1>3, <1>6, FS_Subset

\* A rule triggers some number of times, and the two hard ones at least once when
\* they have a reason.
LEMMA RulesFacts ==
  ASSUME TypeOK, NEW i \in Ids, NEW h
  PROVE  /\ evaluate_all(tx[i], h) \in [RuleIds -> Nat]
         /\ (\E k \in DOMAIN tx[i].movements :
               tx[i].movements[k].amount > Threshold(tx[i].movements[k].asset))
              => LargeTransferRule(tx[i]) > 0
         /\ involved_accounts(tx[i]) \cap flagged_accounts # {} => FlaggedAccountRule(tx[i]) > 0
<1> DEFINE large == {k \in DOMAIN tx[i].movements :
                       tx[i].movements[k].amount > Threshold(tx[i].movements[k].asset)}
           flagged == involved_accounts(tx[i]) \cap flagged_accounts
           new == assets(tx[i]) \ h.known_assets
<1>1. IsFiniteSet(large)
  <2>1. large \in SUBSET DOMAIN tx[i].movements /\ IsFiniteSet(DOMAIN tx[i].movements)
    BY TxFacts
  <2> HIDE DEF large
  <2> QED BY <2>1, FS_Subset
<1>2. IsFiniteSet(flagged)
  BY AccountsAreFinite, FS_Intersection
<1>3. IsFiniteSet(new)
  BY AssetsAreFinite, FS_Difference
<1>4. LargeTransferRule(tx[i]) = Cardinality(large) /\ FlaggedAccountRule(tx[i]) = Cardinality(flagged)
  BY DEF LargeTransferRule, FlaggedAccountRule
<1>5. UnusualAssetMovementRule(tx[i], h) = IF h.known_assets = {} THEN 0 ELSE Cardinality(new)
  BY DEF UnusualAssetMovementRule
<1>6. (\E k \in DOMAIN tx[i].movements :
               tx[i].movements[k].amount > Threshold(tx[i].movements[k].asset)) => large # {}
  OBVIOUS
<1>7. involved_accounts(tx[i]) \cap flagged_accounts # {} => flagged # {}
  OBVIOUS
<1> HIDE DEF large, flagged, new
<1>8. Cardinality(large) \in Nat /\ Cardinality(flagged) \in Nat /\ Cardinality(new) \in Nat
  BY <1>1, <1>2, <1>3, FS_CardinalityType
<1>9. (large # {} => Cardinality(large) # 0) /\ (flagged # {} => Cardinality(flagged) # 0)
  BY <1>1, <1>2, FS_EmptySet
<1>10. UnusualAssetMovementRule(tx[i], h) \in Nat
  BY <1>5, <1>8
<1>11. /\ VelocityRule(tx[i], h) \in Nat /\ AbnormalFrequencyRule(tx[i], h) \in Nat
       /\ OperationCountThresholdRule(tx[i]) \in Nat
  BY DEF VelocityRule, AbnormalFrequencyRule, OperationCountThresholdRule
<1>12. evaluate_all(tx[i], h) \in [RuleIds -> Nat]
  BY <1>4, <1>8, <1>10, <1>11 DEF evaluate_all, RuleIds
<1> QED BY <1>4, <1>6, <1>7, <1>8, <1>9, <1>12

\* One trigger of a hard rule is enough for medium.
LEMMA HardTriggersWeigh ==
  ASSUME NEW v \in [RuleIds -> Nat], v.large_transfer > 0 \/ v.flagged_account_interaction > 0
  PROVE  severity(v) \in {"medium", "high", "critical"}
<1>1. /\ v.large_transfer \in Nat /\ v.velocity \in Nat /\ v.abnormal_frequency \in Nat
      /\ v.flagged_account_interaction \in Nat /\ v.unusual_asset_movement \in Nat
      /\ v.operation_count_threshold \in Nat
  BY DEF RuleIds
<1>2. raw(v) \in Nat /\ raw(v) >= 35
  BY <1>1 DEF raw
<1>3. score(v) \in Nat /\ score(v) >= 35
  BY <1>2 DEF score
<1>4. Band(score(v)) \in {"medium", "high", "critical"}
  BY <1>3 DEF Band
<1>5. ~ \A r \in RuleIds : v[r] = 0
  BY <1>1 DEF RuleIds
<1> QED BY <1>4, <1>5 DEF severity

\* Each transaction of a burst that was seen counts at least once.
LEMMA BurstTriggers ==
  ASSUME TypeOK, IsFiniteSet(transactions), NEW i \in Ids, NEW h, NEW s \in SUBSET Ids,
         h.recent_transactions \subseteq RecentOf(Recent(transactions, i)),
         BurstIn(s, i) \subseteq Seen(h),
         Cardinality(BurstIn(s, i)) >= velocity_max_tx_count
  PROVE  VelocityRule(tx[i], h) = 1
<1> DEFINE B == BurstIn(s, i)
           W == {rt \in h.recent_transactions :
                   /\ rt.created_at <= tx[i].created_at
                   /\ tx[i].created_at - rt.created_at <= velocity_window_secs}
           R == Recent(transactions, i)
           f == [j \in B |-> CHOOSE rt \in W : rt.row = j]
<1>1. transactions \in SUBSET Ids
  BY DEF TypeOK
<1>2. R \in SUBSET transactions /\ R \in SUBSET Ids
  BY <1>1 DEF Recent, Rows
<1>3. IsFiniteSet(W)
  <2>1. IsFiniteSet(R)
    BY <1>2, FS_Subset
  <2>2. IsFiniteSet(RecentOf(R))
    BY <1>2, <2>1, RecentIsFinite
  <2>3. W \in SUBSET RecentOf(R)
    OBVIOUS
  <2> HIDE DEF W, R
  <2> QED BY <2>2, <2>3, FS_Subset
<1>4. ASSUME NEW j \in B PROVE \E rt \in W : rt.row = j
  <2>1. PICK rt \in h.recent_transactions : rt.row = j
    BY DEF Seen
  <2>2. rt.created_at = tx[j].created_at
    BY <2>1, <1>2, DerivedFacts
  <2>3. /\ j \in Ids /\ tx[j].created_at >= tx[i].created_at - velocity_window_secs
        /\ tx[j].created_at <= tx[i].created_at
    BY <1>1 DEF BurstIn, Rows
  <2>4. tx[i].created_at \in Nat /\ tx[j].created_at \in Nat
    BY <1>1, <2>3, TxFacts
  <2>5. rt \in W
    BY <2>2, <2>3, <2>4, WindowsAssumption
  <2> QED BY <2>1, <2>5
<1>5. CountWithin(tx[i], h, velocity_window_secs) = 1 + Cardinality(W)
  BY DEF CountWithin
<1> HIDE DEF B, W
<1>6. f \in [B -> W] /\ \A j \in B : f[j].row = j
  BY <1>4
<1>7. f \in Injection(B, W)
  BY <1>6 DEF Injection, IsInjective
<1>8. Cardinality(B) <= Cardinality(W) /\ IsFiniteSet(B)
  BY <1>3, <1>7, FS_Injection
<1>9. Cardinality(B) \in Nat /\ Cardinality(W) \in Nat
  BY <1>3, <1>8, FS_CardinalityType
<1>10. Cardinality(B) >= velocity_max_tx_count
  BY DEF B
<1>11. CountWithin(tx[i], h, velocity_window_secs) >= velocity_max_tx_count
  BY <1>5, <1>8, <1>9, <1>10, CountsAssumption
<1> QED BY <1>11 DEF VelocityRule

-----------------------------------------------------------------------------
(* What one step does to the invariant of a transaction. *)

\* Another transaction is saved: if it counts for i then i is not quiet any more.
LEMMA SavedByAnother ==
  ASSUME TypeOK, NEW i \in Ids, NEW h, NEW p, NEW v, NEW T \in SUBSET Ids, NEW s, NEW j \in Ids,
         s \subseteq T, OneOK(h, p, v, T, s, i)
  PROVE  OneOK(h, p, v, T \cup {j}, s, i)
<1> DEFINE U == T \cup {j}
<1>1. U \in SUBSET Ids /\ T \subseteq U
  OBVIOUS
<1>2. /\ velocity_window_secs \in Nat /\ history_lookback \in Nat /\ history_baseline_window \in Nat
      /\ history_lookback <= history_baseline_window
      /\ history_baseline_window <= history_baseline_window
      /\ history_lookback <= history_lookback
  BY WindowsAssumption
<1>3. Recent(T, i) \subseteq Recent(U, i) /\ Recent(U, i) \in SUBSET Ids
  BY <1>1, <1>2, RowsFacts DEF Recent
<1>4. RecentOf(Recent(T, i)) \subseteq RecentOf(Recent(U, i))
  BY <1>3, DerivedFacts
<1>5. ASSUME Quiet(U, s, i)
      PROVE  /\ Quiet(T, s, i)
             /\ Recent(U, i) = Recent(T, i) /\ Baseline(U, i) = Baseline(T, i)
             /\ HistoryOf(U, i) = HistoryOf(T, i)
  <2>1. Rows(U, i, history_baseline_window) \subseteq T
    BY <1>5 DEF Quiet, Baseline
  <2> HIDE DEF U
  <2>2. Rows(T, i, history_lookback) = Rows(U, i, history_lookback)
    BY <1>1, <1>2, <2>1, RowsSettled
  <2>3. Rows(T, i, history_baseline_window) = Rows(U, i, history_baseline_window)
    BY <1>1, <1>2, <2>1, RowsSettled
  <2> QED BY <1>5, <2>2, <2>3 DEF Quiet, Recent, Baseline, HistoryOf
<1> HIDE DEF U
<1>6. RecentOK(h, p, U, s, i)
  <2> SUFFICES ASSUME p \in {"count", "rows", "evaluate"} PROVE RecentOK(h, p, U, s, i)
    BY DEF RecentOK
  <2>1. /\ h.recent_transactions \subseteq RecentOf(Recent(T, i))
        /\ AssetsOf(Seen(h)) \subseteq h.known_assets
        /\ BurstIn(s, i) \subseteq Seen(h)
        /\ Quiet(T, s, i) =>
             /\ h.recent_transactions = RecentOf(Recent(T, i))
             /\ h.known_assets = IF p = "evaluate" THEN AssetsOf(Baseline(T, i))
                                                   ELSE AssetsOf(Recent(T, i))
    BY DEF OneOK, RecentOK
  <2>2. h.recent_transactions \subseteq RecentOf(Recent(U, i))
    BY <2>1, <1>4
  <2>3. Quiet(U, s, i) =>
             /\ h.recent_transactions = RecentOf(Recent(U, i))
             /\ h.known_assets = IF p = "evaluate" THEN AssetsOf(Baseline(U, i))
                                                   ELSE AssetsOf(Recent(U, i))
    BY <2>1, <1>5
  <2> QED BY <2>1, <2>2, <2>3 DEF RecentOK
<1>7. CountOK(h, p, U, s, i)
  BY <1>5 DEF OneOK, CountOK
<1>8. VerdictOK(v, p, U, s, i)
  BY <1>5 DEF OneOK, VerdictOK
<1> QED BY <1>6, <1>7, <1>8 DEF OneOK, U

LEMMA RecentSelected ==
  ASSUME TypeOK, NEW i \in Ids, NEW T \in SUBSET Ids, NEW s \in SUBSET T, NEW v,
         NEW h, NEW g \in AccountHistories,
         g = [h EXCEPT !.recent_transactions = RecentOf(Recent(T, i)),
                       !.known_assets = AssetsOf(Recent(T, i))],
         h \in AccountHistories
  PROVE  OneOK(g, "count", v, T, s, i)
<1> DEFINE R == Recent(T, i)
<1>1. g.recent_transactions = RecentOf(R) /\ g.known_assets = AssetsOf(R)
  BY DEF AccountHistories
<1>2. R \in SUBSET Ids
  BY DEF Recent, Rows
<1>3. Seen(g) \subseteq R
  BY <1>1, <1>2, DerivedFacts DEF Seen
<1>4. AssetsOf(Seen(g)) \subseteq AssetsOf(R)
  BY <1>2, <1>3, DerivedFacts
<1>5. ASSUME NEW j \in BurstIn(s, i) PROVE j \in Seen(g)
  <2>1. j \in T /\ j \in Rows(T, i, velocity_window_secs) /\ tx[j].movements # << >>
    BY DEF BurstIn, Rows
  <2>2. j \in R
    BY <2>1, RowsFacts, WindowsAssumption DEF Recent
  <2>3. 1 \in DOMAIN tx[j].movements
    BY <2>1, TxFacts
  <2> DEFINE rt == [row |-> j, nr |-> 1, created_at |-> tx[j].created_at]
  <2>4. rt \in RecentOf(R)
    BY <2>2, <2>3 DEF RecentOf
  <2>5. rt.row = j
    OBVIOUS
  <2> QED BY <1>1, <2>4, <2>5 DEF Seen
<1>6. RecentOK(g, "count", T, s, i)
  BY <1>1, <1>4, <1>5 DEF RecentOK
<1> QED BY <1>6 DEF OneOK, CountOK, VerdictOK

LEMMA BaselineCounted ==
  ASSUME TypeOK, NEW i \in Ids, NEW T \in SUBSET Ids, IsFiniteSet(T), NEW s, NEW v,
         NEW h \in AccountHistories, NEW g,
         OneOK(h, "count", v, T, s, i),
         g = [h EXCEPT !.baseline_observations = Cardinality(Baseline(T, i))]
  PROVE  OneOK(g, "rows", v, T, s, i)
<1>1. /\ g.recent_transactions = h.recent_transactions /\ g.known_assets = h.known_assets
      /\ g.baseline_observations = Cardinality(Baseline(T, i))
  BY DEF AccountHistories
<1>2. Seen(g) = Seen(h)
  BY <1>1 DEF Seen
<1>3. RecentOK(g, "rows", T, s, i)
  BY <1>1, <1>2 DEF OneOK, RecentOK
<1>4. Seen(g) \in SUBSET Baseline(T, i)
  <2>1. /\ Recent(T, i) \subseteq Baseline(T, i)
        /\ Recent(T, i) \in SUBSET Ids
    BY WindowsFacts
  <2>2. \A rt \in g.recent_transactions : rt.row \in Recent(T, i)
    BY <1>1, <2>1, DerivedFacts DEF OneOK, RecentOK
  <2> QED BY <2>1, <2>2 DEF Seen
<1>5. IsFiniteSet(Baseline(T, i))
  <2>1. Baseline(T, i) \in SUBSET T
    BY DEF Baseline, Rows
  <2> QED BY <2>1, FS_Subset
<1>6. Cardinality(Seen(g)) <= Cardinality(Baseline(T, i))
  BY <1>4, <1>5, FS_Subset
<1>7. CountOK(g, "rows", T, s, i)
  BY <1>1, <1>6 DEF CountOK
<1> QED BY <1>3, <1>7 DEF OneOK, VerdictOK

LEMMA BaselineSelected ==
  ASSUME TypeOK, NEW i \in Ids, NEW T \in SUBSET Ids, NEW s, NEW v,
         NEW h \in AccountHistories, NEW g,
         OneOK(h, "rows", v, T, s, i),
         g = [h EXCEPT !.known_assets = @ \cup AssetsOf(Baseline(T, i))]
  PROVE  OneOK(g, "evaluate", v, T, s, i)
<1>1. /\ g.recent_transactions = h.recent_transactions
      /\ g.known_assets = h.known_assets \cup AssetsOf(Baseline(T, i))
      /\ g.baseline_observations = h.baseline_observations
  BY DEF AccountHistories
<1>2. Seen(g) = Seen(h)
  BY <1>1 DEF Seen
<1>3. /\ h.recent_transactions \subseteq RecentOf(Recent(T, i))
      /\ AssetsOf(Seen(h)) \subseteq h.known_assets
      /\ BurstIn(s, i) \subseteq Seen(h)
      /\ Quiet(T, s, i) => /\ h.recent_transactions = RecentOf(Recent(T, i))
                           /\ h.known_assets = AssetsOf(Recent(T, i))
  BY DEF OneOK, RecentOK
<1>4. AssetsOf(Recent(T, i)) \subseteq AssetsOf(Baseline(T, i))
  <2>1. Recent(T, i) \subseteq Baseline(T, i) /\ Baseline(T, i) \in SUBSET Ids
    BY WindowsFacts
  <2> QED BY <2>1, DerivedFacts
<1>5. RecentOK(g, "evaluate", T, s, i)
  BY <1>1, <1>2, <1>3, <1>4 DEF RecentOK
<1>6. CountOK(g, "evaluate", T, s, i)
  BY <1>1, <1>2 DEF OneOK, CountOK
<1> QED BY <1>5, <1>6 DEF OneOK, VerdictOK

LEMMA Evaluated ==
  ASSUME TypeOK, IsFiniteSet(transactions), NEW i \in Ids, NEW s \in SUBSET Ids, NEW u,
         NEW h \in AccountHistories, NEW g, NEW v,
         OneOK(h, "evaluate", u, transactions, s, i),
         v = evaluate_all(tx[i], h)
  PROVE  OneOK(g, "done", v, transactions, s, i)
<1>1. /\ v.large_transfer = LargeTransferRule(tx[i])
      /\ v.flagged_account_interaction = FlaggedAccountRule(tx[i])
      /\ v.velocity = VelocityRule(tx[i], h)
  BY DEF evaluate_all
<1>2. ASSUME Quiet(transactions, s, i)
      PROVE  h = HistoryOf(transactions, i)
  <2>1. /\ h.recent_transactions = RecentOf(Recent(transactions, i))
        /\ h.known_assets = AssetsOf(Baseline(transactions, i))
        /\ h.baseline_observations = Cardinality(Baseline(transactions, i))
    BY <1>2 DEF OneOK, RecentOK, CountOK
  <2> QED BY <2>1 DEF HistoryOf, Recent, Baseline, AccountHistories
<1>3. ASSUME Cardinality(BurstIn(s, i)) >= velocity_max_tx_count
      PROVE  VelocityRule(tx[i], h) = 1
  <2>1. /\ h.recent_transactions \subseteq RecentOf(Recent(transactions, i))
        /\ BurstIn(s, i) \subseteq Seen(h)
    BY DEF OneOK, RecentOK
  <2> QED BY <1>3, <2>1, BurstTriggers
<1>4. VerdictOK(v, "done", transactions, s, i)
  BY <1>1, <1>2, <1>3 DEF VerdictOK
<1> QED BY <1>4 DEF OneOK, RecentOK, CountOK

LEMMA NothingYet ==
  ASSUME NEW h, NEW p \in {"save", "get", "recent", "failed"}, NEW v, NEW T, NEW s, NEW i
  PROVE  OneOK(h, p, v, T, s, i)
  BY DEF OneOK, RecentOK, CountOK, VerdictOK

-----------------------------------------------------------------------------
(* The actions. *)

\* The job that is reading judges some transaction.
LEMMA SubjectFacts ==
  ASSUME IInv, NEW i \in Jobs, pc[i] \in Reading \cup {"done"}
  PROVE  subject[i] \in Ids
<1>1. i \in Ids \/ i \in Replays
  BY DEF Jobs
<1> QED BY <1>1 DEF IInv, SavedInv, TypeOK

LEMMA PCFacts ==
  /\ "save" \in PCs /\ "get" \in PCs /\ "recent" \in PCs /\ "count" \in PCs /\ "rows" \in PCs
  /\ "evaluate" \in PCs /\ "done" \in PCs /\ "failed" \in PCs
  BY DEF PCs, Reading, Ended

\* A step of i that leaves the table and the subjects alone, and moves i on within
\* its processing, keeps what is said of the table.
LEMMA StepKeepsTable ==
  ASSUME IInv, NEW i \in Jobs, NEW q \in {"count", "rows", "evaluate", "done", "failed"},
         pc[i] \in Reading \/ q = "failed",
         pc' = [pc EXCEPT ![i] = q], UNCHANGED <<tx, transactions, subject, at_start>>
  PROVE  SavedInv' /\ GetInv'
<1>1. /\ pc \in [Jobs -> PCs] /\ pc'[i] = q
      /\ \A k \in Jobs \ {i} : pc'[k] = pc[k]
      /\ Ids \subseteq Jobs /\ Replays \subseteq Jobs
  BY DEF IInv, TypeOK, Ids, Jobs
<1>2. SavedInv'
  <2>1. ASSUME NEW k \in Replays, pc'[k] \in Reading \cup {"done"}
        PROVE  subject[k] \in transactions
    <3>1. pc[k] \in Reading \cup {"done"}
      BY <1>1, <2>1 DEF Reading
    <3> QED BY <3>1 DEF IInv, SavedInv
  <2> QED BY <2>1 DEF IInv, SavedInv
<1>3. GetInv'
  BY <1>1 DEF IInv, GetInv
<1> QED BY <1>2, <1>3

LEMMA SaveStep ==
  ASSUME IInv, NEW i \in Jobs, Save(i)
  PROVE  IInv'
<1> DEFINE U == transactions'
<1>1. TypeOK
  BY DEF IInv
<1>2. /\ pc[i] = "save" /\ tx' = tx
      /\ history' = history /\ verdict' = verdict /\ subject' = subject
      /\ pc' = [pc EXCEPT ![i] = "recent"] /\ at_start' = [at_start EXCEPT ![i] = U]
      /\ U = transactions \/ U = transactions \cup {i}
  BY DEF Save
<1>3. i \in Ids /\ subject[i] = i
  <2>1. ASSUME i \in Replays PROVE FALSE
    BY <1>2, <2>1 DEF IInv, GetInv
  <2> QED BY <2>1 DEF Jobs, IInv, SavedInv
<1>4. /\ pc' \in [Jobs -> PCs] /\ pc'[i] = "recent" /\ \A k \in Jobs \ {i} : pc'[k] = pc[k]
      /\ U \in SUBSET Ids /\ transactions \in SUBSET Ids /\ transactions \subseteq U
  BY <1>1, <1>2, <1>3, PCFacts DEF TypeOK
<1>a. /\ at_start' \in [Jobs -> SUBSET Ids] /\ at_start'[i] = U
      /\ \A k \in Jobs \ {i} : at_start'[k] = at_start[k]
  BY <1>1, <1>2, <1>4 DEF TypeOK
<1>b. Ids \subseteq Jobs /\ Replays \subseteq Jobs
  BY DEF Ids, Jobs
<1>5. TypeOK'
  BY <1>1, <1>2, <1>4, <1>a DEF TypeOK
<1>6. SavedInv' /\ GetInv'
  <2>1. IsFiniteSet(U)
    BY <1>2, FS_AddElement DEF IInv, SavedInv
  <2>2. ASSUME NEW k \in Jobs PROVE at_start'[k] \subseteq U
    BY <1>4, <1>a DEF IInv, SavedInv
  <2>3. ASSUME NEW k \in Ids
        PROVE  subject'[k] = k /\ pc'[k] # "get"
    BY <1>2, <1>4, <1>b DEF IInv, SavedInv, GetInv
  <2>4. ASSUME NEW k \in Replays
        PROVE  /\ pc'[k] \in Reading \cup {"done"} => subject'[k] \in U
               /\ pc'[k] # "save"
    <3>1. k # i
      BY <1>3, JobsAssumption
    <3> QED BY <1>2, <1>4, <1>b, <3>1 DEF IInv, SavedInv, GetInv
  <2> QED BY <2>1, <2>2, <2>3, <2>4 DEF SavedInv, GetInv
<1>7. ASSUME NEW k \in Jobs
      PROVE  OneOK(history'[k], pc'[k], verdict'[k], transactions', at_start'[k], subject'[k])
  <2>1. CASE k = i
    BY <1>4, <2>1, NothingYet
  <2>2. CASE k # i /\ pc[k] \in {"save", "get", "recent", "failed"}
    BY <1>4, <2>2, NothingYet
  <2>3. CASE k # i /\ pc[k] \notin {"save", "get", "recent", "failed"}
    <3>1. OneOK(history[k], pc[k], verdict[k], transactions, at_start[k], subject[k])
      BY DEF IInv, EachOK
    <3>2. at_start[k] \subseteq transactions
      BY DEF IInv, SavedInv
    <3>3. subject[k] \in Ids
      <4>1. pc[k] \in Reading \cup {"done"}
        BY <1>1, <2>3 DEF TypeOK, PCs, Ended, Reading
      <4> QED BY <4>1, SubjectFacts
    <3>4. OneOK(history[k], pc[k], verdict[k], transactions \cup {i}, at_start[k], subject[k])
      BY <1>1, <1>3, <1>4, <3>1, <3>2, <3>3, SavedByAnother
    <3>5. OneOK(history[k], pc[k], verdict[k], U, at_start[k], subject[k])
      BY <1>2, <3>1, <3>4
    <3> QED BY <1>2, <1>4, <1>a, <2>3, <3>5
  <2> QED BY <2>1, <2>2, <2>3
<1>8. EachOK'
  BY <1>2, <1>7, Frozen
<1> QED BY <1>5, <1>6, <1>8 DEF IInv

LEMMA GetStep ==
  ASSUME IInv, NEW i \in Jobs, Get(i)
  PROVE  IInv'
<1>1. TypeOK
  BY DEF IInv
<1>2. PICK j \in transactions : subject' = [subject EXCEPT ![i] = j]
  BY DEF Get
<1>3. /\ pc[i] = "get" /\ UNCHANGED <<tx, transactions, history, verdict>>
      /\ pc' = [pc EXCEPT ![i] = "recent"] /\ at_start' = [at_start EXCEPT ![i] = transactions]
  BY DEF Get
<1>4. i \in Replays /\ i \notin Ids /\ j \in Ids
  BY <1>1, <1>3, JobsAssumption DEF Jobs, IInv, GetInv, TypeOK
<1>5. /\ pc' \in [Jobs -> PCs] /\ pc'[i] = "recent" /\ \A k \in Jobs \ {i} : pc'[k] = pc[k]
      /\ at_start' \in [Jobs -> SUBSET Ids] /\ at_start'[i] = transactions
      /\ \A k \in Jobs \ {i} : at_start'[k] = at_start[k]
      /\ subject' \in [Jobs -> Ids \cup {Nobody}] /\ subject'[i] = j
      /\ \A k \in Jobs \ {i} : subject'[k] = subject[k]
      /\ Ids \subseteq Jobs /\ Replays \subseteq Jobs
  BY <1>1, <1>2, <1>3, <1>4, PCFacts DEF TypeOK, Ids, Jobs
<1>6. TypeOK'
  BY <1>1, <1>3, <1>5 DEF TypeOK
<1>7. SavedInv' /\ GetInv'
  <2>1. ASSUME NEW k \in Jobs PROVE at_start'[k] \subseteq transactions
    BY <1>5 DEF IInv, SavedInv
  <2>2. ASSUME NEW k \in Ids
        PROVE  subject'[k] = k /\ pc'[k] # "get"
    BY <1>4, <1>5 DEF IInv, SavedInv, GetInv
  <2>3. ASSUME NEW k \in Replays
        PROVE  /\ pc'[k] \in Reading \cup {"done"} => subject'[k] \in transactions
               /\ pc'[k] # "save"
    BY <1>5 DEF IInv, SavedInv, GetInv
  <2> QED BY <1>3, <2>1, <2>2, <2>3 DEF IInv, SavedInv, GetInv
<1>8. ASSUME NEW k \in Jobs
      PROVE  OneOK(history'[k], pc'[k], verdict'[k], transactions', at_start'[k], subject'[k])
  <2>1. CASE k = i
    BY <1>5, <2>1, NothingYet
  <2>2. CASE k # i
    BY <1>3, <1>5, <2>2 DEF IInv, EachOK
  <2> QED BY <2>1, <2>2
<1>9. EachOK'
  BY <1>3, <1>8, Frozen
<1> QED BY <1>6, <1>7, <1>9 DEF IInv

LEMMA SelectRecentStep ==
  ASSUME IInv, NEW i \in Jobs, SelectRecent(i)
  PROVE  IInv'
<1> DEFINE h == history[i]
           m == subject[i]
           g == [h EXCEPT !.recent_transactions = RecentOf(Recent(transactions, m)),
                          !.known_assets = AssetsOf(Recent(transactions, m))]
<1>1. TypeOK /\ transactions \in SUBSET Ids
  BY DEF IInv, TypeOK
<1>m. m \in Ids
  BY SubjectFacts DEF SelectRecent, Reading
<1>2. /\ pc[i] = "recent" /\ pc' = [pc EXCEPT ![i] = "count"]
      /\ UNCHANGED <<tx, transactions, subject, verdict, at_start>>
  BY DEF SelectRecent
<1>3. h \in AccountHistories /\ history \in [Jobs -> AccountHistories]
  BY <1>1 DEF TypeOK
<1>4. history' = [history EXCEPT ![i] = g]
  BY <1>3 DEF SelectRecent, Recent, AccountHistories
<1>5. g \in AccountHistories
  <2>1. Recent(transactions, m) \in SUBSET Ids
    BY <1>1, <1>m, WindowsFacts
  <2>2. /\ RecentOf(Recent(transactions, m)) \in SUBSET RecentTransactions
        /\ AssetsOf(Recent(transactions, m)) \in SUBSET Assets
    BY <1>1, <2>1, DerivedFacts
  <2> QED BY <1>3, <2>2 DEF AccountHistories
<1>6. OneOK(g, "count", verdict[i], transactions, at_start[i], m)
  <2>1. at_start[i] \in SUBSET transactions
    BY DEF IInv, SavedInv
  <2> QED BY <1>1, <1>m, <1>3, <1>5, <2>1, RecentSelected
<1> HIDE DEF g, h, m
<1>7. /\ history' \in [Jobs -> AccountHistories] /\ history'[i] = g
      /\ \A k \in Jobs \ {i} : history'[k] = history[k]
      /\ pc' \in [Jobs -> PCs] /\ pc'[i] = "count" /\ \A k \in Jobs \ {i} : pc'[k] = pc[k]
  BY <1>1, <1>2, <1>3, <1>4, <1>5, PCFacts DEF TypeOK
<1>8. TypeOK'
  BY <1>1, <1>2, <1>7 DEF TypeOK
<1>9. EachOK'
  BY <1>2, <1>6, <1>7, Frozen DEF IInv, EachOK, m
<1>10. SavedInv' /\ GetInv'
  BY <1>2, StepKeepsTable DEF Reading
<1> QED BY <1>8, <1>9, <1>10 DEF IInv

LEMMA SelectBaselineCountStep ==
  ASSUME IInv, NEW i \in Jobs, SelectBaselineCount(i)
  PROVE  IInv'
<1> DEFINE h == history[i]
           m == subject[i]
           g == [h EXCEPT !.baseline_observations = Cardinality(Baseline(transactions, m))]
<1>1. TypeOK /\ transactions \in SUBSET Ids
  BY DEF IInv, TypeOK
<1>m. m \in Ids
  BY SubjectFacts DEF SelectBaselineCount, Reading
<1>2. /\ pc[i] = "count" /\ pc' = [pc EXCEPT ![i] = "rows"]
      /\ UNCHANGED <<tx, transactions, subject, verdict, at_start>>
  BY DEF SelectBaselineCount
<1>3. h \in AccountHistories /\ history \in [Jobs -> AccountHistories]
  BY <1>1 DEF TypeOK
<1>4. history' = [history EXCEPT ![i] = g]
  BY <1>3 DEF SelectBaselineCount, Baseline, AccountHistories
<1>5. g \in AccountHistories
  <2>1. Baseline(transactions, m) \in SUBSET transactions
    BY <1>1, <1>m, WindowsFacts
  <2>2. Cardinality(Baseline(transactions, m)) \in Nat
    BY <2>1, FS_Subset, FS_CardinalityType DEF IInv, SavedInv
  <2> QED BY <1>3, <2>2 DEF AccountHistories
<1>6. OneOK(g, "rows", verdict[i], transactions, at_start[i], m)
  <2>1. OneOK(h, "count", verdict[i], transactions, at_start[i], m)
    BY <1>2 DEF IInv, EachOK
  <2>2. IsFiniteSet(transactions)
    BY DEF IInv, SavedInv
  <2> QED BY <1>1, <1>m, <1>3, <2>1, <2>2, BaselineCounted
<1> HIDE DEF g, h, m
<1>7. /\ history' \in [Jobs -> AccountHistories] /\ history'[i] = g
      /\ \A k \in Jobs \ {i} : history'[k] = history[k]
      /\ pc' \in [Jobs -> PCs] /\ pc'[i] = "rows" /\ \A k \in Jobs \ {i} : pc'[k] = pc[k]
  BY <1>1, <1>2, <1>3, <1>4, <1>5, PCFacts DEF TypeOK
<1>8. TypeOK'
  BY <1>1, <1>2, <1>7 DEF TypeOK
<1>9. EachOK'
  BY <1>2, <1>6, <1>7, Frozen DEF IInv, EachOK, m
<1>10. SavedInv' /\ GetInv'
  BY <1>2, StepKeepsTable DEF Reading
<1> QED BY <1>8, <1>9, <1>10 DEF IInv

LEMMA SelectBaselineRowsStep ==
  ASSUME IInv, NEW i \in Jobs, SelectBaselineRows(i)
  PROVE  IInv'
<1> DEFINE h == history[i]
           m == subject[i]
           g == [h EXCEPT !.known_assets = @ \cup AssetsOf(Baseline(transactions, m))]
<1>1. TypeOK /\ transactions \in SUBSET Ids
  BY DEF IInv, TypeOK
<1>m. m \in Ids
  BY SubjectFacts DEF SelectBaselineRows, Reading
<1>2. /\ pc[i] = "rows" /\ pc' = [pc EXCEPT ![i] = "evaluate"]
      /\ UNCHANGED <<tx, transactions, subject, verdict, at_start>>
  BY DEF SelectBaselineRows
<1>3. h \in AccountHistories /\ history \in [Jobs -> AccountHistories]
  BY <1>1 DEF TypeOK
<1>4. history' = [history EXCEPT ![i] = g]
  BY <1>3 DEF SelectBaselineRows, Baseline, AccountHistories
<1>5. g \in AccountHistories
  <2>1. Baseline(transactions, m) \in SUBSET Ids
    BY <1>1, <1>m, WindowsFacts
  <2>2. AssetsOf(Baseline(transactions, m)) \in SUBSET Assets
    BY <1>1, <2>1, DerivedFacts
  <2> QED BY <1>3, <2>2 DEF AccountHistories
<1>6. OneOK(g, "evaluate", verdict[i], transactions, at_start[i], m)
  <2>1. OneOK(h, "rows", verdict[i], transactions, at_start[i], m)
    BY <1>2 DEF IInv, EachOK
  <2> QED BY <1>1, <1>m, <1>3, <2>1, BaselineSelected
<1> HIDE DEF g, h, m
<1>7. /\ history' \in [Jobs -> AccountHistories] /\ history'[i] = g
      /\ \A k \in Jobs \ {i} : history'[k] = history[k]
      /\ pc' \in [Jobs -> PCs] /\ pc'[i] = "evaluate" /\ \A k \in Jobs \ {i} : pc'[k] = pc[k]
  BY <1>1, <1>2, <1>3, <1>4, <1>5, PCFacts DEF TypeOK
<1>8. TypeOK'
  BY <1>1, <1>2, <1>7 DEF TypeOK
<1>9. EachOK'
  BY <1>2, <1>6, <1>7, Frozen DEF IInv, EachOK, m
<1>10. SavedInv' /\ GetInv'
  BY <1>2, StepKeepsTable DEF Reading
<1> QED BY <1>8, <1>9, <1>10 DEF IInv

LEMMA EmptyHistoryType == EmptyHistory \in AccountHistories
  BY DEF EmptyHistory, AccountHistories

LEMMA EvaluateStep ==
  ASSUME IInv, NEW i \in Jobs, Evaluate(i)
  PROVE  IInv'
<1> DEFINE h == history[i]
           m == subject[i]
           v == evaluate_all(tx[m], h)
<1>1. TypeOK /\ transactions \in SUBSET Ids
  BY DEF IInv, TypeOK
<1>m. m \in Ids
  BY SubjectFacts DEF Evaluate, Reading
<1>2. /\ pc[i] = "evaluate" /\ pc' = [pc EXCEPT ![i] = "done"]
      /\ verdict' = [verdict EXCEPT ![i] = v]
      /\ history' = [history EXCEPT ![i] = EmptyHistory]
      /\ UNCHANGED <<tx, transactions, subject, at_start>>
  BY DEF Evaluate
<1>3. h \in AccountHistories /\ v \in [RuleIds -> Nat]
  BY <1>1, <1>m, RulesFacts DEF TypeOK
<1>4. OneOK(EmptyHistory, "done", v, transactions, at_start[i], m)
  <2>1. OneOK(h, "evaluate", verdict[i], transactions, at_start[i], m)
    BY <1>2 DEF IInv, EachOK
  <2>2. IsFiniteSet(transactions) /\ at_start[i] \in SUBSET Ids
    BY <1>1 DEF IInv, SavedInv, TypeOK
  <2> QED BY <1>1, <1>m, <1>3, <2>1, <2>2, Evaluated
<1> HIDE DEF h, v, m
<1>5. /\ history' \in [Jobs -> AccountHistories] /\ history'[i] = EmptyHistory
      /\ \A k \in Jobs \ {i} : history'[k] = history[k]
      /\ pc' \in [Jobs -> PCs] /\ pc'[i] = "done" /\ \A k \in Jobs \ {i} : pc'[k] = pc[k]
      /\ verdict' \in [Jobs -> [RuleIds -> Nat]] /\ verdict'[i] = v
      /\ \A k \in Jobs \ {i} : verdict'[k] = verdict[k]
  BY <1>1, <1>2, <1>3, EmptyHistoryType, PCFacts DEF TypeOK
<1>6. TypeOK'
  BY <1>1, <1>2, <1>5 DEF TypeOK
<1>7. EachOK'
  BY <1>2, <1>4, <1>5, Frozen DEF IInv, EachOK, m
<1>8. SavedInv' /\ GetInv'
  BY <1>2, StepKeepsTable DEF Reading
<1> QED BY <1>6, <1>7, <1>8 DEF IInv

LEMMA FailStep ==
  ASSUME IInv, NEW i \in Jobs, Fail(i)
  PROVE  IInv'
<1>1. TypeOK
  BY DEF IInv
<1>2. /\ pc' = [pc EXCEPT ![i] = "failed"]
      /\ history' = [history EXCEPT ![i] = EmptyHistory]
      /\ UNCHANGED <<tx, transactions, subject, verdict, at_start>>
  BY DEF Fail
<1>3. /\ history' \in [Jobs -> AccountHistories]
      /\ \A k \in Jobs \ {i} : history'[k] = history[k]
      /\ pc' \in [Jobs -> PCs] /\ pc'[i] = "failed" /\ \A k \in Jobs \ {i} : pc'[k] = pc[k]
  BY <1>1, <1>2, EmptyHistoryType, PCFacts DEF TypeOK
<1>4. TypeOK'
  BY <1>1, <1>2, <1>3 DEF TypeOK
<1>5. EachOK'
  BY <1>2, <1>3, NothingYet, Frozen DEF IInv, EachOK
<1>6. SavedInv' /\ GetInv'
  BY <1>2, StepKeepsTable
<1> QED BY <1>4, <1>5, <1>6 DEF IInv

-----------------------------------------------------------------------------

THEOREM Invariance == Spec => []IInv
<1>1. Init => IInv
  <2> SUFFICES ASSUME Init PROVE IInv
    OBVIOUS
  <2>1. TypeOK
    BY EmptyHistoryType, PCFacts DEF Init, TypeOK, NoTriggers, Jobs
  <2>2. SavedInv /\ GetInv
    BY FS_EmptySet, JobsAssumption DEF Init, SavedInv, GetInv, Reading, Jobs
  <2>3. EachOK
    BY NothingYet DEF Init, EachOK
  <2> QED BY <2>1, <2>2, <2>3 DEF IInv
<1>2. IInv /\ [Next]_vars => IInv'
  <2> SUFFICES ASSUME IInv, [Next]_vars PROVE IInv'
    OBVIOUS
  <2>1. CASE Next
    BY <2>1, SaveStep, GetStep, SelectRecentStep, SelectBaselineCountStep, SelectBaselineRowsStep,
       EvaluateStep, FailStep DEF Next
  <2>2. CASE UNCHANGED vars
    <3>1. /\ tx' = tx /\ transactions' = transactions /\ pc' = pc /\ history' = history
          /\ verdict' = verdict /\ at_start' = at_start /\ subject' = subject
      BY <2>2 DEF vars
    <3>2. TypeOK'
      BY <3>1 DEF IInv, TypeOK
    <3>3. SavedInv' /\ GetInv'
      BY <3>1 DEF IInv, SavedInv, GetInv
    <3>4. EachOK'
      BY <3>1, Frozen DEF IInv, EachOK
    <3> QED BY <3>2, <3>3, <3>4 DEF IInv
  <2> QED BY <2>1, <2>2
<1> QED BY <1>1, <1>2, PTL DEF Spec

\* The table, the histories and the verdicts have their types.
THEOREM TypeCorrect == Spec => []TypeOK
<1>1. IInv => TypeOK
  BY DEF IInv
<1> QED BY <1>1, Invariance, PTL

\* The three SELECTs of build_account_history never contradict one another,
\* whatever is saved between them.
THEOREM HistoryAgrees == Spec => []SelectsAgree
<1>1. IInv => SelectsAgree
  <2> SUFFICES ASSUME IInv, NEW i \in Jobs, pc[i] = "evaluate"
               PROVE  /\ Cardinality(Seen(history[i])) <= history[i].baseline_observations
                      /\ \A rt \in history[i].recent_transactions :
                           tx[rt.row].movements[rt.nr].asset \in history[i].known_assets
    BY DEF SelectsAgree, Seen
  <2> DEFINE h == history[i]
             m == subject[i]
  <2>1. TypeOK /\ OneOK(h, "evaluate", verdict[i], transactions, at_start[i], m)
    BY DEF IInv, EachOK
  <2>2. /\ Cardinality(Seen(h)) <= h.baseline_observations
        /\ h.recent_transactions \subseteq RecentOf(Recent(transactions, m))
        /\ AssetsOf(Seen(h)) \subseteq h.known_assets
    BY <2>1 DEF OneOK, RecentOK, CountOK
  <2>3. ASSUME NEW rt \in h.recent_transactions
        PROVE  tx[rt.row].movements[rt.nr].asset \in h.known_assets
    <3>1. Recent(transactions, m) \in SUBSET Ids
      BY <2>1, SubjectFacts, WindowsFacts DEF TypeOK, Reading
    <3>2. rt.nr \in DOMAIN tx[rt.row].movements
      BY <2>1, <2>2, <3>1, DerivedFacts
    <3>3. rt.row \in Seen(h)
      BY DEF Seen
    <3> QED BY <2>2, <3>2, <3>3 DEF AssetsOf, assets
  <2> QED BY <2>2, <2>3
<1> QED BY <1>1, Invariance, PTL

\* A transaction that is judged again, by the evaluate endpoint or because it was
\* sent again, is judged alike as long as nothing that counts for it has been saved
\* since either began to read.
THEOREM VerdictIsRepeatable == Spec => []ReplayAgrees
<1>1. IInv => ReplayAgrees
  <2> SUFFICES ASSUME IInv, NEW i \in Jobs, NEW j \in Jobs, pc[i] = "done", pc[j] = "done",
                      tx[subject[i]] = tx[subject[j]],
                      Rows(transactions, subject[i], history_baseline_window)
                        \subseteq at_start[i] \cap at_start[j]
               PROVE  verdict[i] = verdict[j]
    BY DEF ReplayAgrees
  <2>1. \A w : Rows(transactions, subject[i], w) = Rows(transactions, subject[j], w)
    BY DEF Rows
  <2>2. HistoryOf(transactions, subject[i]) = HistoryOf(transactions, subject[j])
    BY <2>1 DEF HistoryOf, Recent, Baseline
  <2>3. /\ Quiet(transactions, at_start[i], subject[i])
        /\ Quiet(transactions, at_start[j], subject[j])
    BY <2>1 DEF Quiet, Baseline
  <2>4. verdict[i] = evaluate_all(tx[subject[i]], HistoryOf(transactions, subject[i]))
    BY <2>3 DEF IInv, EachOK, OneOK, VerdictOK
  <2>5. verdict[j] = evaluate_all(tx[subject[j]], HistoryOf(transactions, subject[j]))
    BY <2>3 DEF IInv, EachOK, OneOK, VerdictOK
  <2> QED BY <2>2, <2>4, <2>5
<1> QED BY <1>1, Invariance, PTL

\* The velocity rule triggers on every transaction that is one of more than
\* velocity_max_tx_count of its account's, saved by whichever job.
THEOREM BurstTriggersRule == Spec => []BurstIsCaught
<1>1. IInv => BurstIsCaught
  <2> SUFFICES ASSUME IInv, NEW i \in Jobs, pc[i] = "done",
                      Cardinality(Burst(i)) > velocity_max_tx_count
               PROVE  verdict[i].velocity = 1
    BY DEF BurstIsCaught
  <2>1. Burst(i) = BurstIn(at_start[i], subject[i])
    BY DEF Burst, BurstIn
  <2>2. VerdictOK(verdict[i], "done", transactions, at_start[i], subject[i])
    BY DEF IInv, EachOK, OneOK
  <2>3. Cardinality(Burst(i)) >= velocity_max_tx_count
    <3>1. Burst(i) \in SUBSET transactions
      BY DEF Burst, Rows, IInv, SavedInv
    <3>2. Cardinality(Burst(i)) \in Nat
      BY <3>1, FS_Subset, FS_CardinalityType DEF IInv, SavedInv
    <3> QED BY <3>2, CountsAssumption
  <2> QED BY <2>1, <2>2, <2>3 DEF VerdictOK
<1> QED BY <1>1, Invariance, PTL

\* A large movement or a flagged account gives an alert of at least medium severity.
THEOREM HardRulesDecide == Spec => []HardRulesWeigh
<1>1. IInv => HardRulesWeigh
  <2> SUFFICES ASSUME IInv, NEW i \in Jobs, NEW t, pc[i] = "done", t = tx[subject[i]],
                      \/ involved_accounts(t) \cap flagged_accounts # {}
                      \/ \E k \in DOMAIN t.movements :
                           t.movements[k].amount > Threshold(t.movements[k].asset)
               PROVE  severity(verdict[i]) \in {"medium", "high", "critical"}
    BY DEF HardRulesWeigh
  <2>1. TypeOK /\ verdict[i] \in [RuleIds -> Nat] /\ subject[i] \in Ids
    BY SubjectFacts DEF IInv, TypeOK
  <2>2. /\ verdict[i].large_transfer = LargeTransferRule(t)
        /\ verdict[i].flagged_account_interaction = FlaggedAccountRule(t)
    BY DEF IInv, EachOK, OneOK, VerdictOK
  <2>3. LargeTransferRule(t) > 0 \/ FlaggedAccountRule(t) > 0
    BY <2>1, RulesFacts
  <2> QED BY <2>1, <2>2, <2>3, HardTriggersWeigh
<1> QED BY <1>1, Invariance, PTL
=============================================================================
