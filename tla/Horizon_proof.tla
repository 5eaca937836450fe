--------------------------- MODULE Horizon_proof ---------------------------
(***************************************************************************)
(* Proofs about Horizon, for any number of transactions, page size, number *)
(* of retries and malformed records.                                       *)
(***************************************************************************)
EXTENDS Horizon, TLAPS

Taken == ToSet(transactions) \cup ToSet(failures)

\* The records of the page that are left are consecutive, and url is the first.
RecordsInv ==
  IF url = 0
  THEN records = <<>> /\ transactions = <<>> /\ failures = <<>>
  ELSE /\ records # <<>>
       /\ \A i \in DOMAIN records : records[i] = url + i - 1
       /\ url + Len(records) - 1 <= ledger

\* What has been taken from the page comes right before them, each record in one
\* of the two lists, in ledger order; the page starts after the cursor.
TakenInv ==
  url > 0 =>
    /\ Source!Ascending(transactions) /\ Source!Ascending(failures)
    /\ ToSet(transactions) \cap ToSet(failures) = {}
    /\ \E first \in 1..url :
         /\ Taken = first..(url - 1)
         /\ cursor > 0 => first = cursor + 1

\* While a request is under way, the attempts before it have failed for a while.
AttemptInv ==
  /\ attempt > 0
  /\ Len(log[url]) = attempt - 1
  /\ \A i \in DOMAIN log[url] : log[url][i] \in Transient
  /\ \A u \in Urls : u > url => log[u] = <<>>

\* What is in the lists is there for the reason its answers give.
Reasons(txs, fails) ==
  /\ \A t \in ToSet(fails) : GaveUp(t) \/ t \in Malformed
  /\ \A t \in ToSet(txs) : Last(log[t]) = "success" /\ t \notin Malformed

PollInv ==
  pc = "sent" =>
    RecordsInv /\ TakenInv /\ AttemptInv /\ Reasons(transactions, failures)

\* DeliveredOnce, with nothing left out before the cursor.
DeliveredInv ==
  /\ cursor <= ledger
  /\ \E first \in 1..(cursor + 1) :
       \A t \in Txs : delivered[t] = IF first <= t /\ t <= cursor THEN 1 ELSE 0

IInv ==
  /\ TypeOK /\ PollInv /\ DeliveredInv
  /\ RetriesOnlyTransient /\ FailuresAreJustified

-----------------------------------------------------------------------------
(* Sequences of records. *)

LEMMA AppendFacts ==
  ASSUME NEW S, NEW s \in Seq(S), NEW e \in S
  PROVE  /\ Append(s, e) \in Seq(S)
         /\ Len(s) \in Nat /\ Len(Append(s, e)) = Len(s) + 1
         /\ Append(s, e)[Len(s) + 1] = e
         /\ \A i \in 1..Len(s) : Append(s, e)[i] = s[i]
         /\ ToSet(Append(s, e)) = ToSet(s) \cup {e}
<1>1. /\ Append(s, e) \in Seq(S)
      /\ Len(s) \in Nat /\ Len(Append(s, e)) = Len(s) + 1
      /\ DOMAIN s = 1..Len(s) /\ DOMAIN Append(s, e) = 1..(Len(s) + 1)
      /\ Append(s, e)[Len(s) + 1] = e
      /\ \A i \in 1..Len(s) : Append(s, e)[i] = s[i]
  OBVIOUS
<1> DEFINE n == Len(s)
           t == Append(s, e)
<1>2. n \in Nat /\ DOMAIN s = 1..n /\ DOMAIN t = 1..(n + 1) /\ t[n + 1] = e
      /\ \A i \in 1..n : t[i] = s[i]
  BY <1>1
<1> HIDE DEF n, t
<1>3. ToSet(t) = ToSet(s) \cup {e}
  BY <1>2 DEF ToSet
<1> QED BY <1>1, <1>3 DEF t

LEMMA TailFacts ==
  ASSUME NEW S, NEW s \in Seq(S), s # <<>>
  PROVE  /\ Head(s) = s[1] /\ s[1] \in S
         /\ Tail(s) \in Seq(S) /\ Len(s) \in Nat /\ Len(s) > 0 /\ Len(Tail(s)) = Len(s) - 1
         /\ DOMAIN s = 1..Len(s) /\ DOMAIN Tail(s) = 1..(Len(s) - 1)
         /\ \A i \in 1..(Len(s) - 1) : Tail(s)[i] = s[i + 1]
  OBVIOUS

LEMMA ToSetType == ASSUME NEW S, NEW s \in Seq(S) PROVE ToSet(s) \subseteq S
  BY DEF ToSet

\* A record behind all others may be added at the end.
LEMMA AscendingAppend ==
  ASSUME NEW s \in Seq(Txs), Source!Ascending(s), NEW e \in Txs, \A t \in ToSet(s) : t < e
  PROVE  Source!Ascending(Append(s, e))
<1> DEFINE n == Len(s)
           t == Append(s, e)
<1>1. n \in Nat /\ DOMAIN s = 1..n /\ DOMAIN t = 1..(n + 1) /\ t[n + 1] = e
      /\ \A i \in 1..n : t[i] = s[i]
  BY AppendFacts
<1> HIDE DEF n, t
<1>2. \A i \in 1..n : s[i] < e
  BY <1>1 DEF ToSet
<1>3. \A i, j \in 1..n : i < j => s[i] < s[j]
  BY <1>1 DEF Source!Ascending
<1>4. ASSUME NEW i \in DOMAIN t, NEW j \in DOMAIN t, i < j PROVE t[i] < t[j]
  BY <1>1, <1>2, <1>3, <1>4
<1>5. Source!Ascending(t)
  BY <1>4 DEF Source!Ascending
<1> QED BY <1>5 DEF t

\* The page, in ascending order in both cases: consecutive records, up to the
\* newest at most, from the one after the cursor if there is one.
LEMMA PageFacts ==
  ASSUME TypeOK, cursor <= ledger
  PROVE  /\ Records \in Seq(Txs)
         /\ ToSet(Records) = Source!PageAfter(cursor, ledger)
         /\ \E first \in 1..(MaxTx + 1) :
              /\ \A i \in DOMAIN Records : Records[i] = first + i - 1
              /\ first + Len(Records) - 1 <= ledger
              /\ cursor > 0 => first = cursor + 1
<1>0. ledger \in 0..MaxTx /\ cursor \in 0..MaxTx /\ MaxTx \in Nat /\ PageLimit \in Nat \ {0}
  BY MaxTxAssumption, PageAssumption DEF TypeOK
<1>1. CASE cursor = 0
  <2> DEFINE n == PageLen(ledger)
  <2>1. n \in Nat /\ n <= ledger /\ n <= PageLimit /\ (n = ledger \/ n = PageLimit)
    BY <1>0 DEF PageLen
  <2> HIDE DEF n
  <2>2. Newest = [i \in 1..n |-> ledger - i + 1]
    BY DEF Newest, n
  <2>3. Len(Newest) = n /\ Newest \in Seq(Int)
    BY <1>0, <2>1, <2>2
  <2>4. Records = [i \in 1..n |-> Newest[n - i + 1]]
    BY <1>1, <2>3 DEF Records, Reverse
  <2>5. \A i \in 1..n : Newest[n - i + 1] = ledger - n + i
    BY <1>0, <2>1, <2>2
  <2>6. Records = [i \in 1..n |-> ledger - n + i]
    BY <2>4, <2>5
  <2>7. Records \in Seq(Txs) /\ Len(Records) = n /\ DOMAIN Records = 1..n
    BY <1>0, <2>1, <2>6 DEF Txs
  <2>8. ToSet(Records) = Source!PageAfter(cursor, ledger)
    <3>1. ToSet(Records) = {ledger - n + i : i \in 1..n}
      BY <2>6, <2>7 DEF ToSet
    <3>2. ASSUME NEW t \in Source!PageAfter(cursor, ledger) PROVE t \in ToSet(Records)
      <4>1. t \in 1..ledger /\ t > ledger - PageLimit
        BY <3>2, <1>1 DEF Source!PageAfter
      <4>2. t - (ledger - n) \in 1..n /\ t = ledger - n + (t - (ledger - n))
        BY <1>0, <2>1, <4>1
      <4> QED BY <3>1, <4>2
    <3>3. ASSUME NEW i \in 1..n PROVE ledger - n + i \in Source!PageAfter(cursor, ledger)
      BY <1>0, <1>1, <2>1 DEF Source!PageAfter
    <3> QED BY <3>1, <3>2, <3>3
  <2>9. ledger - n + 1 \in 1..(MaxTx + 1) /\ (ledger - n + 1) + n - 1 <= ledger
        /\ \A i \in DOMAIN Records : Records[i] = (ledger - n + 1) + i - 1
    BY <1>0, <2>1, <2>6, <2>7
  <2> QED BY <1>1, <2>7, <2>8, <2>9
<1>2. CASE cursor > 0
  <2> DEFINE n == PageLen(ledger - cursor)
  <2>1. n \in Nat /\ n <= ledger - cursor /\ n <= PageLimit /\ (n = ledger - cursor \/ n = PageLimit)
    BY <1>0, <1>2 DEF PageLen
  <2> HIDE DEF n
  <2>2. Records = [i \in 1..n |-> cursor + i]
    BY <1>0, <1>2 DEF Records, After, n
  <2>3. Records \in Seq(Txs) /\ Len(Records) = n /\ DOMAIN Records = 1..n
    BY <1>0, <2>1, <2>2 DEF Txs
  <2>4. ToSet(Records) = Source!PageAfter(cursor, ledger)
    <3>1. ToSet(Records) = {cursor + i : i \in 1..n}
      BY <2>2, <2>3 DEF ToSet
    <3>2. ASSUME NEW t \in Source!PageAfter(cursor, ledger) PROVE t \in ToSet(Records)
      <4>1. t \in 1..ledger /\ cursor < t /\ t <= cursor + PageLimit
        BY <3>2, <1>2 DEF Source!PageAfter
      <4>2. t - cursor \in 1..n /\ t = cursor + (t - cursor)
        BY <1>0, <2>1, <4>1
      <4> QED BY <3>1, <4>2
    <3>3. ASSUME NEW i \in 1..n PROVE cursor + i \in Source!PageAfter(cursor, ledger)
      BY <1>0, <1>2, <2>1 DEF Source!PageAfter
    <3> QED BY <3>1, <3>2, <3>3
  <2>5. cursor + 1 \in 1..(MaxTx + 1) /\ (cursor + 1) + n - 1 <= ledger
        /\ \A i \in DOMAIN Records : Records[i] = (cursor + 1) + i - 1
    BY <1>0, <2>1, <2>2, <2>3
  <2> QED BY <2>3, <2>4, <2>5
<1> QED BY <1>0, <1>1, <1>2

-----------------------------------------------------------------------------
(* Answers. *)

\* An answer is logged for its URL only, after what was logged for it.
LEMMA AnswerFacts ==
  ASSUME IInv, pc = "sent", NEW answer \in Answers, Answered(answer)
  PROVE  /\ log' \in [Urls -> Seq(Answers)]
         /\ \A u \in Urls : u # url => log'[u] = log[u]
         /\ Len(log'[url]) = attempt /\ Last(log'[url]) = answer /\ log'[url] # <<>>
         /\ \A i \in 1..(attempt - 1) : log'[url][i] \in Transient
<1>1. log \in [Urls -> Seq(Answers)] /\ url \in Urls /\ attempt \in Nat /\ attempt > 0
      /\ Len(log[url]) = attempt - 1 /\ \A i \in DOMAIN log[url] : log[url][i] \in Transient
  BY RetriesAssumption DEF IInv, TypeOK, PollInv, AttemptInv
<1>2. log' = [log EXCEPT ![url] = Append(log[url], answer)]
  BY DEF Answered
<1> DEFINE s == log[url]
           t == Append(s, answer)
<1>3. s \in Seq(Answers)
  BY <1>1
<1>4. t \in Seq(Answers) /\ Len(s) = attempt - 1 /\ DOMAIN s = 1..Len(s) /\ Len(t) = Len(s) + 1
      /\ t[Len(s) + 1] = answer /\ \A i \in 1..Len(s) : t[i] = s[i]
  BY <1>1, <1>3, AppendFacts
<1>5. log'[url] = t /\ \A u \in Urls : u # url => log'[u] = log[u]
  BY <1>1, <1>2
<1>6. log' \in [Urls -> Seq(Answers)]
  BY <1>1, <1>2, <1>4
<1>7. \A i \in 1..Len(s) : s[i] \in Transient
  BY <1>1, <1>4
<1> HIDE DEF s, t
<1>8. Len(t) = attempt /\ t[Len(t)] = answer /\ t # <<>>
      /\ \A i \in 1..(attempt - 1) : t[i] \in Transient
  BY <1>1, <1>4, <1>7
<1> QED BY <1>5, <1>6, <1>8 DEF Last

\* No answer breaks the retry policy.
LEMMA AnswerKeepsPolicy ==
  ASSUME IInv, pc = "sent", NEW answer \in Answers, Answered(answer)
  PROVE  RetriesOnlyTransient'
<1>1. attempt \in Nat /\ attempt <= MaxRetries
  BY RetriesAssumption DEF IInv, TypeOK
<1>2. ASSUME NEW u \in Urls
      PROVE  Len(log'[u]) <= MaxRetries /\ \A i \in 1..(Len(log'[u]) - 1) : log'[u][i] \in Transient
  <2>1. CASE u = url
    BY <1>1, <2>1, AnswerFacts
  <2>2. CASE u # url
    <3>1. log'[u] = log[u]
      BY <2>2, AnswerFacts
    <3> QED BY <3>1 DEF IInv, RetriesOnlyTransient
  <2> QED BY <2>1, <2>2
<1> QED BY <1>2 DEF RetriesOnlyTransient

\* An error that is not retried is one that settled it.
LEMMA GivenUp ==
  ASSUME IInv, pc = "sent", NEW answer \in Answers, Answered(answer),
         answer # "success", ~Retried(answer), NEW u, u = url
  PROVE  GaveUp(u)'
<1>1. attempt \in Nat /\ attempt <= MaxRetries /\ MaxRetries \in Nat
  BY RetriesAssumption DEF IInv, TypeOK
<1>2. answer \in Transient => attempt = MaxRetries
  BY <1>1 DEF Retried
<1>3. Len(log'[u]) = attempt /\ Last(log'[u]) = answer /\ log'[u] # <<>>
  BY AnswerFacts
<1> QED BY <1>2, <1>3 DEF GaveUp

-----------------------------------------------------------------------------
(* The record that has been answered for. *)

Consistent(txs, fails) ==
  /\ txs \in Seq(Txs) /\ fails \in Seq(Txs)
  /\ Source!Ascending(txs) /\ Source!Ascending(fails)
  /\ ToSet(txs) \cap ToSet(fails) = {}

\* It goes into one of the lists, for the reason its last answer gives.
Sorted(answer, txs, fails) ==
  \/ /\ txs = Append(transactions, url) /\ fails = failures
     /\ answer = "success" /\ url \notin Malformed
  \/ /\ txs = transactions /\ fails = Append(failures, url)
     /\ url \in Malformed \/ (answer # "success" /\ ~Retried(answer))

LEMMA SortedFacts ==
  ASSUME IInv, pc = "sent", url > 0, NEW answer \in Answers, Answered(answer),
         NEW txs, NEW fails, Sorted(answer, txs, fails)
  PROVE  /\ Consistent(txs, fails)
         /\ ToSet(txs) \cup ToSet(fails) = Taken \cup {url}
         /\ \E first \in 1..url :
              /\ Taken = first..(url - 1) /\ Taken \cup {url} = first..url
              /\ cursor > 0 => first = cursor + 1
         /\ \A t \in ToSet(fails) : GaveUp(t)' \/ t \in Malformed
         /\ \A t \in ToSet(txs) : Last(log'[t]) = "success" /\ t \notin Malformed
<1>0. /\ transactions \in Seq(Txs) /\ failures \in Seq(Txs) /\ url \in Urls /\ url \in Txs
      /\ MaxTx \in Nat /\ cursor \in Nat
  BY MaxTxAssumption DEF IInv, TypeOK, Urls, Txs
<1>1. TakenInv /\ Reasons(transactions, failures)
  BY DEF IInv, PollInv
<1>2. PICK first \in 1..url : Taken = first..(url - 1) /\ (cursor > 0 => first = cursor + 1)
  BY <1>1 DEF TakenInv
<1>3. first \in Nat /\ url \in Nat /\ Taken \cup {url} = first..url /\ \A t \in Taken : t < url
  BY <1>0, <1>2 DEF Urls
<1>4. Source!Ascending(transactions) /\ Source!Ascending(failures)
      /\ ToSet(transactions) \cap ToSet(failures) = {}
  BY <1>1 DEF TakenInv
<1>5. (\A t \in ToSet(transactions) : t < url) /\ (\A t \in ToSet(failures) : t < url)
  BY <1>3 DEF Taken
<1>u. url \notin ToSet(transactions) /\ url \notin ToSet(failures)
  <2>1. ~(url < url)
    BY <1>3
  <2> QED BY <1>5, <2>1
<1>6. \A t \in Taken : t \in Urls /\ t # url /\ log'[t] = log[t]
  <2>1. Taken \subseteq Txs
    BY <1>0, ToSetType DEF Taken
  <2>2. \A t \in Taken : t \in Urls
    BY <1>0, <2>1 DEF Txs, Urls
  <2>3. \A t \in Taken : t # url
    BY <1>3
  <2>4. \A u \in Urls : u # url => log'[u] = log[u]
    BY AnswerFacts
  <2> QED BY <2>2, <2>3, <2>4
<1>7. /\ \A t \in ToSet(failures) : GaveUp(t)' \/ t \in Malformed
      /\ \A t \in ToSet(transactions) : Last(log'[t]) = "success" /\ t \notin Malformed
  BY <1>1, <1>6 DEF Reasons, GaveUp, Taken
<1>8. ASSUME NEW u, u = url PROVE Last(log'[u]) = answer /\ (answer # "success" /\ ~Retried(answer) => GaveUp(u)')
  BY <1>8, AnswerFacts, GivenUp
<1>9. CASE /\ txs = Append(transactions, url) /\ fails = failures
           /\ answer = "success" /\ url \notin Malformed
  <2>1. txs \in Seq(Txs) /\ ToSet(txs) = ToSet(transactions) \cup {url} /\ Source!Ascending(txs)
    BY <1>0, <1>4, <1>5, <1>9, AppendFacts, AscendingAppend
  <2>2. ToSet(txs) \cap ToSet(fails) = {} /\ ToSet(txs) \cup ToSet(fails) = Taken \cup {url}
    BY <1>4, <1>u, <1>9, <2>1 DEF Taken
  <2>3. \A t \in ToSet(txs) : Last(log'[t]) = "success" /\ t \notin Malformed
    BY <1>7, <1>8, <1>9, <2>1
  <2> QED BY <1>0, <1>2, <1>3, <1>4, <1>7, <1>9, <2>1, <2>2, <2>3 DEF Consistent
<1>10. CASE /\ txs = transactions /\ fails = Append(failures, url)
            /\ url \in Malformed \/ (answer # "success" /\ ~Retried(answer))
  <2>1. fails \in Seq(Txs) /\ ToSet(fails) = ToSet(failures) \cup {url} /\ Source!Ascending(fails)
    BY <1>0, <1>4, <1>5, <1>10, AppendFacts, AscendingAppend
  <2>2. ToSet(txs) \cap ToSet(fails) = {} /\ ToSet(txs) \cup ToSet(fails) = Taken \cup {url}
    BY <1>4, <1>u, <1>10, <2>1 DEF Taken
  <2>3. \A t \in ToSet(fails) : GaveUp(t)' \/ t \in Malformed
    BY <1>7, <1>8, <1>10, <2>1
  <2> QED BY <1>0, <1>2, <1>3, <1>4, <1>7, <1>10, <2>1, <2>2, <2>3 DEF Consistent
<1> QED BY <1>9, <1>10 DEF Sorted

\* What is left of the page.
LEMMA RestFacts ==
  ASSUME IInv, pc = "sent", url > 0
  PROVE  /\ Tail(records) \in Seq(Txs) /\ url = records[1]
         /\ ToSet(records) = {url} \cup ToSet(Tail(records))
         /\ \A i \in DOMAIN Tail(records) : Tail(records)[i] = url + i
         /\ Len(Tail(records)) \in Nat /\ url + Len(Tail(records)) <= ledger
         /\ Tail(records) # <<>> => Head(Tail(records)) = url + 1
<1>0. records \in Seq(Txs) /\ records # <<>> /\ url \in Nat /\ ledger \in Nat
      /\ (\A i \in DOMAIN records : records[i] = url + i - 1) /\ url + Len(records) - 1 <= ledger
  BY MaxTxAssumption DEF IInv, TypeOK, PollInv, RecordsInv, Urls
<1> DEFINE n == Len(records)
           rest == Tail(records)
<1>1. /\ rest \in Seq(Txs) /\ n \in Nat /\ n > 0 /\ Len(rest) = n - 1
      /\ DOMAIN records = 1..n /\ DOMAIN rest = 1..(n - 1)
      /\ \A i \in 1..(n - 1) : rest[i] = records[i + 1]
  BY <1>0, TailFacts
<1>2. rest # <<>> => Head(rest) = rest[1] /\ Len(rest) > 0
  BY <1>1
<1>3. url + n - 1 <= ledger /\ \A i \in 1..n : records[i] = url + i - 1
  BY <1>0, <1>1
<1> HIDE DEF n, rest
<1>4. records[1] = url /\ \A i \in 1..(n - 1) : rest[i] = url + i
  BY <1>0, <1>1, <1>3
<1>5. ToSet(records) = {url} \cup ToSet(rest)
  <2>1. ASSUME NEW i \in 1..n PROVE records[i] \in {url} \cup ToSet(rest)
    <3>1. CASE i = 1
      BY <3>1, <1>4
    <3>2. CASE i # 1
      <4>1. i - 1 \in DOMAIN rest /\ rest[i - 1] = records[(i - 1) + 1] /\ (i - 1) + 1 = i
        BY <3>2, <1>1
      <4> QED BY <4>1 DEF ToSet
    <3> QED BY <3>1, <3>2
  <2>2. ASSUME NEW i \in 1..(n - 1) PROVE rest[i] \in ToSet(records)
    <3>1. i + 1 \in DOMAIN records /\ rest[i] = records[i + 1]
      BY <1>1
    <3> QED BY <3>1 DEF ToSet
  <2>3. 1 \in DOMAIN records
    BY <1>1
  <2> QED BY <1>1, <1>4, <2>1, <2>2, <2>3 DEF ToSet
<1> QED BY <1>0, <1>1, <1>2, <1>3, <1>4, <1>5 DEF rest

-----------------------------------------------------------------------------
(* The steps preserve the invariant. *)

LEMMA InitInv == Init => IInv
<1> SUFFICES ASSUME Init PROVE IInv
  OBVIOUS
<1>1. records = <<>> /\ transactions = <<>> /\ failures = <<>> /\ log = [u \in Urls |-> <<>>]
      /\ pc = "idle" /\ cursor = 0 /\ ledger = 0 /\ delivered = [t \in Txs |-> 0]
  BY DEF Init
<1>2. TypeOK
  BY MaxTxAssumption, RetriesAssumption DEF Init, TypeOK, Urls
<1>3. PollInv /\ FailuresAreJustified
  BY <1>1, MaxTxAssumption DEF PollInv, FailuresAreJustified, Urls
<1>4. DeliveredInv
  BY <1>1 DEF DeliveredInv, Txs
<1>5. RetriesOnlyTransient
  BY <1>1, RetriesAssumption DEF RetriesOnlyTransient
<1> QED BY <1>2, <1>3, <1>4, <1>5 DEF IInv

LEMMA PublishStep == ASSUME IInv, Publish PROVE IInv'
<1>1. ledger' = ledger + 1 /\ ledger \in Nat /\ ledger' \in 0..MaxTx
  BY MaxTxAssumption DEF Publish, IInv, TypeOK
<1>2. UNCHANGED <<cursor, batch, pc, url, attempt, records, transactions, failures, next_cursor, log,
                  delivered>>
  BY DEF Publish, locals
<1>3. TypeOK'
  BY <1>1, <1>2 DEF IInv, TypeOK
<1>4. PollInv'
  <2>1. CASE pc = "sent"
    <3>1. RecordsInv'
      <4>1. records \in Seq(Txs) /\ url \in Nat
        BY MaxTxAssumption DEF IInv, TypeOK, Urls
      <4> QED BY <1>1, <1>2, <2>1, <4>1 DEF IInv, PollInv, RecordsInv
    <3>2. TakenInv' /\ AttemptInv' /\ Reasons(transactions, failures)'
      BY <1>2, <2>1 DEF IInv, PollInv, TakenInv, Taken, AttemptInv, Reasons, GaveUp
    <3> QED BY <3>1, <3>2 DEF PollInv
  <2>2. CASE pc # "sent"
    BY <1>2, <2>2 DEF PollInv
  <2> QED BY <2>1, <2>2
<1>5. DeliveredInv'
  <2>1. cursor \in Nat
    BY MaxTxAssumption DEF IInv, TypeOK
  <2> QED BY <1>1, <1>2, <2>1 DEF IInv, DeliveredInv
<1>6. RetriesOnlyTransient' /\ FailuresAreJustified'
  BY <1>2 DEF IInv, RetriesOnlyTransient, FailuresAreJustified, GaveUp
<1> QED BY <1>3, <1>4, <1>5, <1>6 DEF IInv

LEMMA CallStep == ASSUME IInv, Call PROVE IInv'
<1>1. /\ pc' = "sent" /\ url' = 0 /\ attempt' = 1 /\ next_cursor' = cursor
      /\ records' = <<>> /\ transactions' = <<>> /\ failures' = <<>>
      /\ log' = [u \in Urls |-> <<>>]
      /\ UNCHANGED <<ledger, cursor, batch, delivered>>
  BY DEF Call, Send
<1>2. 0 \in Urls /\ 1 \in 0..MaxRetries
  BY MaxTxAssumption, RetriesAssumption DEF Urls
<1>3. TypeOK'
  BY <1>1, <1>2 DEF IInv, TypeOK
<1>4. PollInv'
  <2>1. ToSet(<<>>) = {}
    BY DEF ToSet
  <2>2. RecordsInv' /\ TakenInv' /\ AttemptInv' /\ Reasons(transactions, failures)'
    BY <1>1, <1>2, <2>1 DEF RecordsInv, TakenInv, AttemptInv, Reasons
  <2> QED BY <2>2 DEF PollInv
<1>5. DeliveredInv' /\ FailuresAreJustified'
  BY <1>1 DEF IInv, DeliveredInv, FailuresAreJustified
<1>6. RetriesOnlyTransient'
  BY <1>1, RetriesAssumption DEF RetriesOnlyTransient
<1> QED BY <1>3, <1>4, <1>5, <1>6 DEF IInv

LEMMA RetryStep == ASSUME IInv, NEW answer \in Answers, Retry(answer) PROVE IInv'
<1>1. /\ pc = "sent" /\ Answered(answer) /\ attempt' = attempt + 1
      /\ answer \in Transient /\ attempt < MaxRetries
      /\ UNCHANGED <<ledger, cursor, batch, pc, url, records, transactions, failures, next_cursor,
                     delivered>>
  BY DEF Retry, Retried
<1>2. attempt \in Nat /\ attempt > 0 /\ attempt' \in 0..MaxRetries /\ url \in Urls /\ url \in Nat
  BY <1>1, MaxTxAssumption, RetriesAssumption DEF IInv, TypeOK, PollInv, AttemptInv, Urls
<1>3. /\ log' \in [Urls -> Seq(Answers)]
      /\ \A u \in Urls : u # url => log'[u] = log[u]
      /\ Len(log'[url]) = attempt /\ Last(log'[url]) = answer
      /\ \A i \in 1..(attempt - 1) : log'[url][i] \in Transient
  BY <1>1, AnswerFacts
<1>4. TypeOK'
  BY <1>1, <1>2, <1>3 DEF IInv, TypeOK
<1>5. RecordsInv' /\ TakenInv'
  BY <1>1 DEF IInv, PollInv, RecordsInv, TakenInv, Taken
<1>6. AttemptInv'
  <2>1. \A i \in DOMAIN log'[url] : log'[url][i] \in Transient
    <3>1. log'[url] \in Seq(Answers)
      BY <1>2, <1>3
    <3>2. DOMAIN log'[url] = 1..attempt
      BY <1>3, <3>1
    <3>3. log'[url][attempt] \in Transient
      BY <1>1, <1>3 DEF Last
    <3> QED BY <1>2, <1>3, <3>2, <3>3
  <2>2. \A u \in Urls : u > url => log'[u] = <<>>
    <3>1. \A u \in Urls : u > url => log[u] = <<>> /\ u # url
      BY <1>1, <1>2 DEF IInv, PollInv, AttemptInv
    <3> QED BY <1>3, <3>1
  <2> QED BY <1>1, <1>2, <1>3, <2>1, <2>2 DEF AttemptInv
<1>7. Reasons(transactions, failures)'
  <2>1. Taken \subseteq Urls /\ url \notin Taken
    <3>1. transactions \in Seq(Txs) /\ failures \in Seq(Txs)
      BY DEF IInv, TypeOK
    <3>2. Taken \subseteq Txs
      BY <3>1, ToSetType DEF Taken
    <3>3. CASE url = 0
      <4>1. transactions = <<>> /\ failures = <<>>
        BY <1>1, <3>3 DEF IInv, PollInv, RecordsInv
      <4> QED BY <4>1 DEF Taken, ToSet
    <3>4. CASE url > 0
      <4>1. PICK first \in 1..url : Taken = first..(url - 1)
        BY <1>1, <3>4 DEF IInv, PollInv, TakenInv
      <4> QED BY <1>2, <3>2, <4>1, MaxTxAssumption DEF Txs, Urls
    <3> QED BY <1>2, <3>3, <3>4
  <2>2. \A t \in Taken : log'[t] = log[t]
    BY <1>3, <2>1
  <2> QED BY <1>1, <2>2 DEF IInv, PollInv, Reasons, GaveUp, Taken
<1>8. DeliveredInv' /\ FailuresAreJustified'
  BY <1>1 DEF IInv, DeliveredInv, FailuresAreJustified
<1>9. RetriesOnlyTransient'
  BY <1>1, AnswerKeepsPolicy
<1> QED BY <1>4, <1>5, <1>6, <1>7, <1>8, <1>9 DEF IInv, PollInv

LEMMA ListFailsStep == ASSUME IInv, NEW answer \in Answers, ListFails(answer) PROVE IInv'
<1>1. /\ pc = "sent" /\ url = 0 /\ answer # "success" /\ ~Retried(answer) /\ Answered(answer)
      /\ pc' = "idle" /\ batch' = Source!Err
      /\ UNCHANGED <<ledger, cursor, url, attempt, records, transactions, failures, next_cursor,
                     delivered>>
  BY DEF ListFails, locals
<1>2. log' \in [Urls -> Seq(Answers)]
  BY <1>1, AnswerFacts
<1>3. TypeOK'
  BY <1>1, <1>2 DEF IInv, TypeOK
<1>4. FailuresAreJustified'
  <2>1. GaveUp(0)'
    BY <1>1, GivenUp
  <2>2. ~batch'.ok
    BY <1>1 DEF Source!Err
  <2> QED BY <2>1, <2>2 DEF FailuresAreJustified
<1>5. PollInv' /\ DeliveredInv'
  BY <1>1 DEF IInv, PollInv, DeliveredInv
<1>6. RetriesOnlyTransient'
  BY <1>1, AnswerKeepsPolicy
<1> QED BY <1>3, <1>4, <1>5, <1>6 DEF IInv

LEMMA ListSucceedsStep == ASSUME IInv, ListSucceeds PROVE IInv'
<1>1. /\ pc = "sent" /\ url = 0 /\ Answered("success") /\ records' = Records
      /\ Continue(Records, <<>>, <<>>, cursor)
      /\ UNCHANGED <<ledger, transactions, failures, next_cursor>>
  BY DEF ListSucceeds
<1>2. "success" \in Answers
  BY DEF Answers
<1>3. log' \in [Urls -> Seq(Answers)] /\ \A u \in Urls : u # 0 => log'[u] = log[u]
  BY <1>1, <1>2, AnswerFacts
<1>4. RetriesOnlyTransient'
  BY <1>1, <1>2, AnswerKeepsPolicy
<1>5. transactions = <<>> /\ failures = <<>> /\ \A u \in Urls : u > 0 => log[u] = <<>>
  BY <1>1 DEF IInv, PollInv, RecordsInv, AttemptInv
<1>6. TypeOK /\ cursor <= ledger /\ cursor \in 0..MaxTx /\ ledger \in 0..MaxTx /\ MaxTx \in Nat
  BY MaxTxAssumption DEF IInv, TypeOK, DeliveredInv
<1>7. Records \in Seq(Txs)
  BY <1>6, PageFacts
<1>8. ToSet(<<>>) = {}
  BY DEF ToSet
<1>9. CASE Records = <<>>
  <2>1. Ok(Source!FetchedBatch(<<>>, <<>>, cursor)) /\ UNCHANGED <<url, attempt>>
    BY <1>1, <1>9 DEF Continue
  <2> DEFINE b == Source!FetchedBatch(<<>>, <<>>, cursor)
  <2>2. b.ok /\ b.transactions = <<>> /\ b.failures = <<>> /\ b.next_cursor = cursor
    BY DEF Source!FetchedBatch
  <2>3. pc' = "idle" /\ batch' = b /\ cursor' = (IF b.next_cursor > 0 THEN b.next_cursor ELSE cursor)
        /\ delivered' = [t \in Txs |-> IF t \in Elements(b) THEN delivered[t] + 1 ELSE delivered[t]]
    BY <2>1 DEF Ok
  <2>4. Elements(b) = {}
    BY <1>8, <2>2 DEF Elements
  <2> HIDE DEF b
  <2>5. delivered' = delivered /\ cursor' = cursor
    <3>1. delivered \in [Txs -> Nat]
      BY DEF IInv, TypeOK
    <3> QED BY <2>2, <2>3, <2>4, <3>1
  <2>6. TypeOK'
    <3>1. /\ batch'.ok /\ batch'.next_cursor \in 0..MaxTx
          /\ batch'.transactions \in Seq(Txs) /\ batch'.failures \in Seq(Txs)
      <4>1. <<>> \in Seq(Txs)
        OBVIOUS
      <4> QED BY <1>6, <2>2, <2>3, <4>1
    <3> QED BY <1>1, <1>3, <1>6, <1>7, <2>1, <2>3, <2>5, <3>1 DEF TypeOK
  <2>7. FailuresAreJustified'
    BY <1>8, <2>2, <2>3 DEF FailuresAreJustified
  <2>8. PollInv' /\ DeliveredInv'
    BY <1>1, <2>3, <2>5 DEF IInv, PollInv, DeliveredInv
  <2> QED BY <1>4, <2>6, <2>7, <2>8 DEF IInv
<1>10. CASE Records # <<>>
  <2>1. url' = Head(Records) /\ attempt' = 1 /\ UNCHANGED <<pc, batch, cursor, delivered>>
    BY <1>1, <1>10 DEF Continue, Send
  <2>2. PICK first \in 1..(MaxTx + 1) :
          /\ \A i \in DOMAIN Records : Records[i] = first + i - 1
          /\ first + Len(Records) - 1 <= ledger
          /\ cursor > 0 => first = cursor + 1
    BY <1>6, PageFacts
  <2>3. Head(Records) = first /\ first \in Txs /\ first \in Nat /\ first > 0
    <3>1. Head(Records) = Records[1] /\ Records[1] \in Txs /\ 1 \in DOMAIN Records
      BY <1>7, <1>10, TailFacts
    <3>2. Records[1] = first + 1 - 1
      BY <2>2, <3>1
    <3> QED BY <1>6, <3>1, <3>2 DEF Txs
  <2>4. first \in Urls /\ url' = first
    BY <2>1, <2>3 DEF Txs, Urls
  <2>5. TypeOK'
    BY <1>1, <1>3, <1>6, <1>7, <2>1, <2>4, RetriesAssumption DEF TypeOK
  <2>6. RecordsInv'
    BY <1>1, <1>10, <2>2, <2>3, <2>4 DEF RecordsInv
  <2>7. TakenInv'
    <3>1. Taken' = {}
      BY <1>1, <1>5, <1>8 DEF Taken
    <3>2. Source!Ascending(<<>>)
      BY DEF Source!Ascending
    <3>3. {} = first..(first - 1) /\ first \in 1..first
      BY <2>3
    <3> QED BY <1>1, <1>5, <1>8, <2>1, <2>2, <2>4, <3>1, <3>2, <3>3 DEF TakenInv
  <2>8. AttemptInv'
    <3>1. \A u \in Urls : u > 0 => log'[u] = <<>>
      BY <1>3, <1>5, MaxTxAssumption DEF Urls
    <3>2. log'[first] = <<>>
      BY <2>3, <2>4, <3>1
    <3>3. \A u \in Urls : u > first => log'[u] = <<>>
      BY <2>3, <3>1, MaxTxAssumption DEF Urls
    <3> QED BY <2>1, <2>4, <3>2, <3>3 DEF AttemptInv
  <2>9. Reasons(transactions, failures)'
    BY <1>1, <1>5, <1>8 DEF Reasons
  <2>10. DeliveredInv' /\ FailuresAreJustified'
    BY <1>1, <2>1 DEF IInv, DeliveredInv, FailuresAreJustified
  <2> QED BY <1>4, <2>5, <2>6, <2>7, <2>8, <2>9, <2>10 DEF IInv, PollInv
<1> QED BY <1>9, <1>10

\* A record is settled; either the next one is asked for, or poll returns.
LEMMA RecordStep ==
  ASSUME IInv, pc = "sent", url > 0, NEW answer \in Answers, Answered(answer),
         NEW txs, NEW fails, Sorted(answer, txs, fails), Record(txs, fails), UNCHANGED ledger
  PROVE  IInv'
<1>1. /\ records' = Tail(records) /\ transactions' = txs /\ failures' = fails /\ next_cursor' = url
      /\ Continue(Tail(records), txs, fails, url)
  BY DEF Record
<1>2. /\ ledger \in Nat /\ cursor \in Nat /\ url \in Nat /\ url \in Txs /\ url \in Urls /\ MaxTx \in Nat
      /\ ledger <= MaxTx /\ url \in 0..MaxTx /\ delivered \in [Txs -> Nat]
  BY MaxTxAssumption DEF IInv, TypeOK, Urls, Txs
<1>3. /\ Tail(records) \in Seq(Txs)
      /\ \A i \in DOMAIN Tail(records) : Tail(records)[i] = url + i
      /\ Len(Tail(records)) \in Nat /\ url + Len(Tail(records)) <= ledger
      /\ Tail(records) # <<>> => Head(Tail(records)) = url + 1
  BY RestFacts
<1>4. /\ Consistent(txs, fails) /\ ToSet(txs) \cup ToSet(fails) = Taken \cup {url}
      /\ \A t \in ToSet(fails) : GaveUp(t)' \/ t \in Malformed
      /\ \A t \in ToSet(txs) : Last(log'[t]) = "success" /\ t \notin Malformed
  BY SortedFacts
<1>5. PICK first \in 1..url :
        Taken \cup {url} = first..url /\ (cursor > 0 => first = cursor + 1)
  BY SortedFacts
<1>6. log' \in [Urls -> Seq(Answers)] /\ \A u \in Urls : u # url => log'[u] = log[u]
  BY AnswerFacts
<1>7. RetriesOnlyTransient'
  BY AnswerKeepsPolicy
<1>8. txs \in Seq(Txs) /\ fails \in Seq(Txs)
  BY <1>4 DEF Consistent
<1>9. CASE Tail(records) = <<>>
  <2> DEFINE b == Source!FetchedBatch(txs, fails, url)
  <2>1. Ok(b) /\ UNCHANGED <<url, attempt>>
    BY <1>1, <1>9 DEF Continue
  <2>2. b.ok /\ b.transactions = txs /\ b.failures = fails /\ b.next_cursor = url
    BY DEF Source!FetchedBatch
  <2>3. pc' = "idle" /\ batch' = b /\ cursor' = (IF b.next_cursor > 0 THEN b.next_cursor ELSE cursor)
        /\ delivered' = [t \in Txs |-> IF t \in Elements(b) THEN delivered[t] + 1 ELSE delivered[t]]
    BY <2>1 DEF Ok
  <2> HIDE DEF b
  <2>4. Elements(b) = first..url
    <3>1. Elements(b) = ToSet(txs) \cup ToSet(fails)
      BY <2>2 DEF Elements
    <3> QED BY <1>4, <1>5, <3>1
  <2>5. cursor' = url
    BY <2>2, <2>3
  <2>6. delivered' \in [Txs -> Nat]
    BY <1>2, <2>3
  <2>7. TypeOK'
    BY <1>1, <1>2, <1>3, <1>6, <1>8, <2>1, <2>2, <2>3, <2>5, <2>6 DEF IInv, TypeOK
  <2>8. FailuresAreJustified'
    BY <1>4, <2>2, <2>3 DEF FailuresAreJustified
  <2>9. DeliveredInv'
    <3>1. url <= ledger
      BY <1>2, <1>3
    <3>2. PICK old \in 1..(cursor + 1) :
            \A t \in Txs : delivered[t] = IF old <= t /\ t <= cursor THEN 1 ELSE 0
      BY DEF IInv, DeliveredInv
    <3> DEFINE new == IF cursor > 0 THEN old ELSE first
    <3>n. (cursor > 0 => new = old /\ first = cursor + 1) /\ (cursor = 0 => new = first)
      BY <1>5
    <3> HIDE DEF new
    <3>3. new \in 1..(url + 1)
      <4>1. CASE cursor > 0
        BY <1>2, <1>5, <3>2, <3>n, <4>1
      <4>2. CASE cursor = 0
        BY <1>2, <1>5, <3>n, <4>2
      <4> QED BY <1>2, <4>1, <4>2
    <3>4. ASSUME NEW t \in Txs PROVE delivered'[t] = IF new <= t /\ t <= url THEN 1 ELSE 0
      <4>1. delivered'[t] = IF t \in first..url THEN delivered[t] + 1 ELSE delivered[t]
        BY <2>3, <2>4
      <4>2. delivered[t] = (IF old <= t /\ t <= cursor THEN 1 ELSE 0) /\ t \in Nat /\ t > 0
        BY <1>2, <3>2 DEF Txs
      <4>3. CASE cursor > 0
        BY <1>2, <3>2, <3>n, <4>1, <4>2, <4>3
      <4>4. CASE cursor = 0
        BY <1>2, <3>n, <4>1, <4>2, <4>4
      <4> QED BY <1>2, <4>3, <4>4
    <3>5. new \in 1..(cursor' + 1) /\ cursor' <= ledger'
      BY <2>5, <3>1, <3>3
    <3>6. \A t \in Txs : delivered'[t] = IF new <= t /\ t <= cursor' THEN 1 ELSE 0
      BY <2>5, <3>4
    <3> QED BY <3>5, <3>6 DEF DeliveredInv
  <2> QED BY <1>7, <2>3, <2>7, <2>8, <2>9 DEF IInv, PollInv
<1>10. CASE Tail(records) # <<>>
  <2>1. url' = url + 1 /\ attempt' = 1 /\ UNCHANGED <<pc, batch, cursor, delivered>>
    BY <1>1, <1>3, <1>10 DEF Continue, Send
  <2>2. Len(Tail(records)) > 0 /\ url + 1 <= ledger /\ url + 1 \in Urls
    <3>1. Len(Tail(records)) > 0
      BY <1>3, <1>10
    <3> QED BY <1>2, <1>3, <3>1 DEF Urls
  <2>3. TypeOK'
    BY <1>1, <1>2, <1>3, <1>6, <1>8, <2>1, <2>2, RetriesAssumption DEF IInv, TypeOK
  <2>4. RecordsInv'
    <3>1. \A i \in DOMAIN Tail(records) : Tail(records)[i] = (url + 1) + i - 1
      <4>1. \A i \in DOMAIN Tail(records) : i \in Nat
        BY <1>3
      <4> QED BY <1>2, <1>3, <4>1
    <3>2. (url + 1) + Len(Tail(records)) - 1 <= ledger /\ url + 1 # 0
      BY <1>2, <1>3
    <3> QED BY <1>1, <1>10, <2>1, <3>1, <3>2 DEF RecordsInv
  <2>5. TakenInv'
    <3>0. Taken' = ToSet(txs) \cup ToSet(fails)
      BY <1>1 DEF Taken
    <3>1. Taken' = first..url
      BY <1>4, <1>5, <3>0
    <3>2. first..url = first..((url + 1) - 1) /\ first \in 1..(url + 1)
      BY <1>2, <1>5
    <3>3. /\ Source!Ascending(transactions') /\ Source!Ascending(failures')
          /\ ToSet(transactions') \cap ToSet(failures') = {}
      BY <1>1, <1>4 DEF Consistent
    <3>4. cursor' > 0 => first = cursor' + 1
      BY <1>5, <2>1
    <3>5. first \in 1..url' /\ Taken' = first..(url' - 1)
      BY <2>1, <3>1, <3>2
    <3> QED BY <3>3, <3>4, <3>5 DEF TakenInv
  <2>6. AttemptInv'
    <3>1. \A u \in Urls : u > url => log[u] = <<>> /\ u # url
      <4>1. AttemptInv
        BY DEF IInv, PollInv
      <4> QED BY <1>2, <4>1 DEF AttemptInv, Urls
    <3>2. \A u \in Urls : u > url => log'[u] = <<>>
      BY <1>6, <3>1
    <3>3. url + 1 > url /\ \A u \in Urls : u > url + 1 => u > url
      BY <1>2 DEF Urls
    <3>4. log'[url + 1] = <<>> /\ \A u \in Urls : u > url + 1 => log'[u] = <<>>
      BY <2>2, <3>2, <3>3
    <3> QED BY <2>1, <3>4 DEF AttemptInv
  <2>7. Reasons(transactions, failures)'
    BY <1>1, <1>4 DEF Reasons
  <2>8. DeliveredInv' /\ FailuresAreJustified'
    BY <2>1 DEF IInv, DeliveredInv, FailuresAreJustified
  <2> QED BY <1>7, <2>3, <2>4, <2>5, <2>6, <2>7, <2>8 DEF IInv, PollInv
<1> QED BY <1>9, <1>10

\* OperationsSucceed and OperationsFail.
Settles(answer, txs, fails) ==
  /\ pc = "sent" /\ url > 0
  /\ Answered(answer) /\ Sorted(answer, txs, fails) /\ Record(txs, fails)
  /\ UNCHANGED ledger

LEMMA StepCases ==
  ASSUME Next
  PROVE  \/ Publish \/ Call \/ ListSucceeds
         \/ \E answer \in Answers :
              Retry(answer) \/ ListFails(answer) \/ \E txs, fails : Settles(answer, txs, fails)
<1>1. ASSUME OperationsSucceed PROVE \E txs, fails : Settles("success", txs, fails)
  <2>1. pc = "sent" /\ url > 0 /\ Answered("success") /\ UNCHANGED ledger
    BY <1>1 DEF OperationsSucceed
  <2>2. CASE url \in Malformed
    <3>1. Record(transactions, Append(failures, url))
      BY <1>1, <2>2 DEF OperationsSucceed
    <3>2. Sorted("success", transactions, Append(failures, url))
      BY <2>2 DEF Sorted
    <3> QED BY <2>1, <3>1, <3>2 DEF Settles
  <2>3. CASE url \notin Malformed
    <3>1. Record(Append(transactions, url), failures)
      BY <1>1, <2>3 DEF OperationsSucceed
    <3>2. Sorted("success", Append(transactions, url), failures)
      BY <2>3 DEF Sorted
    <3> QED BY <2>1, <3>1, <3>2 DEF Settles
  <2> QED BY <2>2, <2>3
<1>2. ASSUME NEW answer \in Answers, OperationsFail(answer)
      PROVE  \E txs, fails : Settles(answer, txs, fails)
  <2>1. Settles(answer, transactions, Append(failures, url))
    BY <1>2 DEF OperationsFail, Settles, Sorted
  <2> QED BY <2>1
<1>3. "success" \in Answers
  BY DEF Answers
<1> QED BY <1>1, <1>2, <1>3 DEF Next, Step

LEMMA InvStep == IInv /\ [Next]_vars => IInv'
<1> SUFFICES ASSUME IInv, [Next]_vars PROVE IInv'
  OBVIOUS
<1>1. CASE Next
  <2>1. ASSUME NEW answer \in Answers, NEW txs, NEW fails, Settles(answer, txs, fails) PROVE IInv'
    BY <2>1, RecordStep DEF Settles
  <2> QED BY <1>1, <2>1, StepCases, PublishStep, CallStep, ListSucceedsStep, RetryStep, ListFailsStep
<1>2. CASE UNCHANGED vars
  <2>1. UNCHANGED <<ledger, cursor, batch, pc, url, attempt, records, transactions, failures,
                    next_cursor, log, delivered>>
    BY <1>2 DEF vars, locals
  <2>2. TypeOK'
    BY <2>1 DEF IInv, TypeOK
  <2>3. PollInv'
    BY <2>1 DEF IInv, PollInv, RecordsInv, TakenInv, Taken, AttemptInv, Reasons, GaveUp
  <2>4. DeliveredInv' /\ RetriesOnlyTransient' /\ FailuresAreJustified'
    BY <2>1 DEF IInv, DeliveredInv, RetriesOnlyTransient, FailuresAreJustified, GaveUp
  <2> QED BY <2>2, <2>3, <2>4 DEF IInv
<1> QED BY <1>1, <1>2

-----------------------------------------------------------------------------
(* The theorems. *)

\* The inductive invariant holds throughout, whatever Horizon answers and however
\* the ledger grows.
THEOREM Invariance == Spec => []IInv
  BY InitInv, InvStep, PTL DEF Spec

\* The locals of poll and get_json keep their types.
THEOREM TypeCorrect == Spec => []TypeOK
<1>1. IInv => TypeOK
  BY DEF IInv
<1> QED BY Invariance, <1>1, PTL

\* The batches of poll, one after the other, have every record up to the cursor
\* exactly once.
THEOREM EachRecordOnce == Spec => []DeliveredOnce
<1>1. IInv => DeliveredOnce
  <2> SUFFICES ASSUME IInv PROVE DeliveredOnce
    OBVIOUS
  <2>1. PICK first \in 1..(cursor + 1) :
          \A t \in Txs : delivered[t] = IF first <= t /\ t <= cursor THEN 1 ELSE 0
    BY DEF IInv, DeliveredInv
  <2>2. first \in 1..(MaxTx + 1)
    BY <2>1, MaxTxAssumption DEF IInv, TypeOK
  <2> QED BY <2>1, <2>2 DEF DeliveredOnce
<1> QED BY Invariance, <1>1, PTL

\* get_json repeats a request only after a server or network error, and no more
\* than max_retries times.
THEOREM RetryPolicy == Spec => []RetriesOnlyTransient
<1>1. IInv => RetriesOnlyTransient
  BY DEF IInv
<1> QED BY Invariance, <1>1, PTL

\* poll reports an error or a FetchFailure only when get_json has given up or the
\* record is malformed.
THEOREM OnlyJustifiedFailures == Spec => []FailuresAreJustified
<1>1. IInv => FailuresAreJustified
  BY DEF IInv
<1> QED BY Invariance, <1>1, PTL

-----------------------------------------------------------------------------
(* Horizon is a TransactionSource. *)

\* A record that is settled stays on the page; with the last one the page is
\* returned.
LEMMA RecordRefines ==
  ASSUME IInv, NEW answer \in Answers, NEW txs, NEW fails, Settles(answer, txs, fails)
  PROVE  [Source!Next]_(Source!vars)
<1>1. /\ pc = "sent" /\ url > 0 /\ Answered(answer) /\ Sorted(answer, txs, fails)
      /\ records' = Tail(records) /\ transactions' = txs /\ failures' = fails
      /\ Continue(Tail(records), txs, fails, url) /\ UNCHANGED ledger
  BY DEF Settles, Record
<1>2. /\ Consistent(txs, fails) /\ ToSet(txs) \cup ToSet(fails) = Taken \cup {url}
  BY <1>1, SortedFacts
<1>3. /\ ToSet(records) = {url} \cup ToSet(Tail(records))
      /\ Tail(records) \in Seq(Txs)
  BY <1>1, RestFacts
<1>4. Page = Taken \cup {url} \cup ToSet(Tail(records))
  BY <1>1, <1>3 DEF Page, Held, Taken
<1>5. CASE Tail(records) # <<>>
  <2>1. UNCHANGED <<pc, batch, cursor>>
    BY <1>1, <1>5 DEF Continue
  <2>2. Page' = ToSet(txs) \cup ToSet(fails) \cup ToSet(Tail(records))
    BY <1>1, <2>1 DEF Page, Held
  <2>3. Page' = Page
    BY <1>2, <1>4, <2>2
  <2> QED BY <1>1, <2>1, <2>3 DEF Source!vars
<1>6. CASE Tail(records) = <<>>
  <2> DEFINE b == Source!FetchedBatch(txs, fails, url)
  <2>1. pc' = "idle" /\ batch' = b /\ cursor' = (IF b.next_cursor > 0 THEN b.next_cursor ELSE cursor)
    BY <1>1, <1>6 DEF Continue, Ok
  <2>2. b.ok /\ b.transactions = txs /\ b.failures = fails /\ b.next_cursor = url
        /\ b = Source!FetchedBatch(b.transactions, b.failures, url)
    BY DEF Source!FetchedBatch
  <2> HIDE DEF b
  <2>3. cursor' = url /\ Page' = {}
    BY <1>1, <2>1, <2>2 DEF Page
  <2>4. ToSet(Tail(records)) = {}
    BY <1>6 DEF ToSet
  <2>5. Page = ToSet(txs) \cup ToSet(fails)
    BY <1>2, <1>4, <2>4
  <2>6. PICK first \in 1..url : Page = first..url
    <3>1. PICK first \in 1..url : Taken \cup {url} = first..url
      BY <1>1, SortedFacts
    <3> QED BY <1>4, <2>4, <3>1
  <2>7. url \in Page /\ (\A t \in Page : t <= url) /\ url \in 1..MaxTx
    <3>1. url \in Nat /\ url \in 1..MaxTx
      BY <1>1, MaxTxAssumption DEF IInv, TypeOK, Urls
    <3> QED BY <2>6, <3>1
  <2>8. Source!Splits(batch', Page)
    <3>1. Source!Entries(txs) = ToSet(txs) /\ Source!Entries(fails) = ToSet(fails)
      BY DEF Source!Entries, ToSet
    <3> QED BY <1>2, <2>1, <2>2, <2>5, <3>1 DEF Source!Splits, Consistent
  <2>9. Source!Return(url)
    BY <1>1, <2>1, <2>2, <2>3, <2>7, <2>8 DEF Source!Return
  <2> QED BY <2>7, <2>9 DEF Source!Next
<1> QED BY <1>5, <1>6

LEMMA StepRefines == ASSUME IInv, [Next]_vars PROVE [Source!Next]_(Source!vars)
<1>1. CASE Publish
  BY <1>1 DEF Publish, locals, Source!Next, Source!Publish, Page, Held
<1>2. CASE Call
  <2>1. Page = {} /\ Page' = {}
    BY <1>2 DEF Call, Page, Held, ToSet
  <2> QED BY <1>2, <2>1 DEF Call, Source!vars
<1>3. CASE ListSucceeds
  <2>1. /\ pc = "sent" /\ url = 0 /\ records' = Records
        /\ Continue(Records, <<>>, <<>>, cursor) /\ UNCHANGED <<ledger, transactions, failures>>
    BY <1>3 DEF ListSucceeds
  <2>2. records = <<>> /\ transactions = <<>> /\ failures = <<>>
    BY <2>1 DEF IInv, PollInv, RecordsInv
  <2>3. ToSet(Records) = Source!PageAfter(cursor, ledger)
    BY PageFacts DEF IInv, DeliveredInv
  <2>4. ToSet(<<>>) = {}
    BY DEF ToSet
  <2>5. Page = {}
    BY <2>1, <2>2, <2>4 DEF Page, Held
  <2>6. CASE Records = <<>>
    <3> DEFINE b == Source!FetchedBatch(<<>>, <<>>, cursor)
    <3>1. pc' = "idle" /\ batch' = b /\ cursor' = (IF b.next_cursor > 0 THEN b.next_cursor ELSE cursor)
      BY <2>1, <2>6 DEF Continue, Ok
    <3>2. b.next_cursor = cursor
      BY DEF Source!FetchedBatch
    <3>3. cursor' = cursor /\ Page' = {} /\ Source!PageAfter(cursor, ledger) = {}
      BY <2>3, <2>4, <2>6, <3>1, <3>2 DEF Page
    <3> QED BY <2>1, <2>5, <3>1, <3>3 DEF Source!Next, Source!ReturnEmpty
  <2>7. CASE Records # <<>>
    <3>1. UNCHANGED <<pc, batch, cursor>>
      BY <2>1, <2>7 DEF Continue
    <3>2. Page' = ToSet(Records)
      BY <2>1, <2>2, <2>4, <3>1 DEF Page, Held
    <3> QED BY <2>1, <2>3, <2>5, <3>1, <3>2 DEF Source!Next, Source!Look
  <2> QED BY <2>6, <2>7
<1>4. ASSUME NEW answer \in Answers, Retry(answer) PROVE [Source!Next]_(Source!vars)
  BY <1>4 DEF Retry, Source!vars, Page, Held
<1>5. ASSUME NEW answer \in Answers, ListFails(answer) PROVE [Source!Next]_(Source!vars)
  <2>1. pc = "sent" /\ url = 0 /\ pc' = "idle" /\ batch' = Source!Err /\ UNCHANGED <<ledger, cursor>>
    BY <1>5 DEF ListFails
  <2>2. records = <<>> /\ transactions = <<>> /\ failures = <<>>
    BY <2>1 DEF IInv, PollInv, RecordsInv
  <2>3. Page = {} /\ Page' = {}
    BY <2>1, <2>2 DEF Page, Held, ToSet
  <2> QED BY <2>1, <2>3 DEF Source!Next, Source!ReturnErr
<1>6. CASE UNCHANGED vars
  BY <1>6 DEF vars, locals, Source!vars, Page, Held
<1> QED BY <1>1, <1>2, <1>3, <1>4, <1>5, <1>6, StepCases, RecordRefines

\* To run_source, HorizonTransactionSource is a TransactionSource: however poll's
\* requests, retries and the growth of the ledger interleave, it looks as if each
\* poll had seen the ledger once and returned all it saw, in order, or an error.
THEOREM Refinement == Spec => ImplementsSource
<1>1. Init => Source!Init
  BY DEF Init, Source!Init, Page
<1>2. IInv /\ [Next]_vars => [Source!Next]_(Source!vars)
  BY StepRefines
<1> QED BY Invariance, <1>1, <1>2, PTL DEF Spec, ImplementsSource, Source!Spec
=============================================================================
