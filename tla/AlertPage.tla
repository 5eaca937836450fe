----------------------------- MODULE AlertPage -----------------------------
(***************************************************************************)
(* The page of an alert (alert_detail in                                   *)
(* crates/api/src/routes/dashboard.rs) next to everything that changes the *)
(* alert.  The page is put together from queries that are awaited one      *)
(* after the other, outside a transaction: the alert, its decisions, its   *)
(* audit trail, and its transaction, which was saved before the alert and  *)
(* stays as it is.  A page that cannot be completed is not shown, and      *)
(* changes nothing.                                                        *)
(***************************************************************************)
EXTENDS AlertService, FiniteSets, SequencesExt

CONSTANT MaxPages   \* bound on the pages that are loaded

ASSUME PagesAssumption == MaxPages \in Nat

VARIABLES
  view,    \* the page being loaded: how far it is, and what it has read
  shown,   \* the page last shown, if any
  pages    \* how many have been shown

pvars == <<vars, view, shown, pages>>

NoPage == [step |-> 0]

PInit ==
  /\ Init
  /\ view = NoPage /\ shown = NoPage
  /\ pages = 0

\* The elements of a table at some positions, ORDER BY key.
OrderBy(table, positions, key) ==
  LET upto(i) == {k \in positions : key[k] < key[i] \/ (key[k] = key[i] /\ k <= i)}
      nth(n) == CHOOSE i \in positions : Cardinality(upto(i)) = n
  IN  [n \in 1..Cardinality(positions) |-> table[nth(n)]]

DecisionsOf(a) == {i \in DOMAIN decisions : decisions[i].alert = a}
TrailOf(a) == {i \in DOMAIN audit : audit[i].alert = a}

\* ORDER BY created_at
decision_history(a) ==
  OrderBy(decisions, DecisionsOf(a), [i \in DOMAIN decisions |-> decisions[i].created_at])

\* Mutant: ORDER BY sequence DESC.
audit_history_Descending(a) == OrderBy(audit, TrailOf(a), [i \in DOMAIN audit |-> - i])

\* ORDER BY sequence
audit_history(a) == OrderBy(audit, TrailOf(a), [i \in DOMAIN audit |-> i])

\* Mutant: the decisions are read before the alert.
Queries_DecisionsFirst == <<"decisions", "alert", "trail">>

Queries == <<"alert", "decisions", "trail">>

OpenPage(a) ==
  /\ view = NoPage /\ pages < MaxPages
  /\ view' = [step |-> 1, id |-> a, status |-> "open", ai |-> "pending",
              decisions |-> <<>>, trail |-> <<>>]
  /\ UNCHANGED <<vars, shown, pages>>

\* The alert is looked for before anything else, and not found.
PageNotFound ==
  /\ view.step = 1
  /\ view.id \notin DOMAIN alerts
  /\ view' = NoPage
  /\ UNCHANGED <<vars, shown, pages>>

Answer(query) ==
  CASE query = "alert" -> [view EXCEPT !.status = alerts[view.id].status, !.ai = alerts[view.id].ai]
    [] query = "decisions" -> [view EXCEPT !.decisions = decision_history(view.id)]
    [] query = "trail" -> [view EXCEPT !.trail = audit_history(view.id)]

\* The next query; after the last one the page is shown.
ReadNext ==
  /\ view.step > 0
  /\ view.id \in DOMAIN alerts
  /\ LET read == Answer(Queries[view.step]) IN
     IF view.step < Len(Queries)
     THEN view' = [read EXCEPT !.step = @ + 1] /\ UNCHANGED <<shown, pages>>
     ELSE view' = NoPage /\ shown' = read /\ pages' = pages + 1
  /\ UNCHANGED vars

PNext ==
  \/ Next /\ UNCHANGED <<view, shown, pages>>
  \/ \E a \in Alerts : OpenPage(a)
  \/ PageNotFound
  \/ ReadNext

PSpec == PInit /\ [][PNext]_pvars

-----------------------------------------------------------------------------

IsShown == shown # NoPage
TrailKinds == {shown.trail[i].kind : i \in DOMAIN shown.trail}

\* Whoever decides while the page is loaded, the status on the page is Open or
\* one of the decisions listed below it, which may be ahead of it; and a page that
\* shows how the advisory went has the creation of the alert in its trail and,
\* unless a statement failed, also that the advisory was asked for.
PageIsExplained ==
  IsShown =>
    /\ \/ shown.status = "open"
       \/ \E i \in DOMAIN shown.decisions : shown.decisions[i].decision = shown.status
    /\ shown.ai # "pending" =>
         /\ "alert_created" \in TrailKinds
         /\ faults = 0 => "ai_advisory_requested" \in TrailKinds

\* A page that is loaded again takes nothing back: every decision is still
\* there, and the trail goes on where it ended.
PagesOnlyGrow ==
  [][(IsShown /\ shown' # shown /\ shown'.id = shown.id) =>
       /\ ToSet(shown.decisions) \subseteq ToSet(shown'.decisions)
       /\ IsPrefix(shown.trail, shown'.trail)
       /\ (shown.ai # "pending" => shown'.ai = shown.ai)]_pvars
=============================================================================
