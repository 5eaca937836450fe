---------------------------- MODULE RulesEngine ----------------------------
(***************************************************************************)
(* The rules engine (crates/rules_engine): six rules, each a function of a *)
(* transaction and of the history of its source account, and the score.    *)
(*                                                                         *)
(* A transaction has a source_account, a created_at, an operation_count    *)
(* and a sequence of movements.  Of a trigger only the rule and its weight *)
(* matter here, so the outcome of a rule is the number of its triggers.    *)
(* Rates are compared after multiplying out, so that all is integer.       *)
(***************************************************************************)
EXTENDS Integers, FiniteSets, Sequences

CONSTANTS
  \* RulesConfig
  large_transfer_thresholds, large_transfer_default_threshold,
  velocity_window_secs, velocity_max_tx_count,
  frequency_deviation_multiplier, min_baseline_observations,
  max_operations_per_tx,
  \* what bootstrap passes to build_account_history, and one hour
  history_lookback, history_baseline_window, one_hour,
  flagged_accounts   \* table flagged_accounts, filled before the loop starts

ASSUME WindowsAssumption ==
  /\ velocity_window_secs \in Nat /\ history_lookback \in Nat
  /\ history_baseline_window \in Nat /\ one_hour \in Nat \ {0}
  /\ velocity_window_secs <= history_lookback
  /\ history_lookback <= history_baseline_window
  /\ history_baseline_window % one_hour = 0
ASSUME CountsAssumption ==
  /\ velocity_max_tx_count \in Nat /\ min_baseline_observations \in Nat
  /\ frequency_deviation_multiplier \in Nat /\ max_operations_per_tx \in Nat

assets(tx) == {tx.movements[k].asset : k \in DOMAIN tx.movements}

involved_accounts(tx) ==
  {tx.source_account} \cup UNION {{tx.movements[k].from, tx.movements[k].to} :
                                    k \in DOMAIN tx.movements}

-----------------------------------------------------------------------------

Threshold(asset) ==
  IF asset \in DOMAIN large_transfer_thresholds
  THEN large_transfer_thresholds[asset] ELSE large_transfer_default_threshold

LargeTransferRule(tx) ==
  Cardinality({k \in DOMAIN tx.movements :
                 tx.movements[k].amount > Threshold(tx.movements[k].asset)})

\* Mutant: a transaction of the same second does not count.
CountWithin_Before(tx, history, window) ==
  1 + Cardinality({rt \in history.recent_transactions :
                     /\ rt.created_at < tx.created_at
                     /\ tx.created_at - rt.created_at <= window})

\* recent_transactions has one entry per movement; the 1 is the transaction itself.
CountWithin(tx, history, window) ==
  1 + Cardinality({rt \in history.recent_transactions :
                     /\ rt.created_at <= tx.created_at
                     /\ tx.created_at - rt.created_at <= window})

VelocityRule(tx, history) ==
  IF CountWithin(tx, history, velocity_window_secs) >= velocity_max_tx_count THEN 1 ELSE 0

\* baseline_tx_per_hour is baseline_observations divided by this.
baseline_hours ==
  IF history_baseline_window < one_hour THEN 1 ELSE history_baseline_window \div one_hour

AbnormalFrequencyRule(tx, history) ==
  IF /\ history.baseline_observations >= min_baseline_observations
     /\ history.baseline_observations > 0
     /\ CountWithin(tx, history, one_hour) * baseline_hours
          > history.baseline_observations * frequency_deviation_multiplier
  THEN 1 ELSE 0

FlaggedAccountRule(tx) == Cardinality(involved_accounts(tx) \cap flagged_accounts)

UnusualAssetMovementRule(tx, history) ==
  IF history.known_assets = {} THEN 0 ELSE Cardinality(assets(tx) \ history.known_assets)

OperationCountThresholdRule(tx) == IF tx.operation_count > max_operations_per_tx THEN 1 ELSE 0

\* All built-in rules: how often each triggers.
evaluate_all(tx, history) ==
  [large_transfer |-> LargeTransferRule(tx),
   velocity |-> VelocityRule(tx, history),
   abnormal_frequency |-> AbnormalFrequencyRule(tx, history),
   flagged_account_interaction |-> FlaggedAccountRule(tx),
   unusual_asset_movement |-> UnusualAssetMovementRule(tx, history),
   operation_count_threshold |-> OperationCountThresholdRule(tx)]

-----------------------------------------------------------------------------
(* Scoring, under ScoringConfig::default(). *)

RuleIds == {"large_transfer", "velocity", "abnormal_frequency",
            "flagged_account_interaction", "unusual_asset_movement",
            "operation_count_threshold"}

raw(triggers) ==
  35 * triggers.large_transfer + 25 * triggers.velocity
    + 20 * triggers.abnormal_frequency + 40 * triggers.flagged_account_interaction
    + 15 * triggers.unusual_asset_movement + 10 * triggers.operation_count_threshold

score(triggers) == IF raw(triggers) < 100 THEN raw(triggers) ELSE 100

\* Mutant: the bands are open below.
Band_Open(s) ==
  IF s > 80 THEN "critical" ELSE IF s > 60 THEN "high" ELSE IF s > 35 THEN "medium" ELSE "low"

Band(s) ==
  IF s >= 80 THEN "critical" ELSE IF s >= 60 THEN "high" ELSE IF s >= 35 THEN "medium" ELSE "low"

severity(triggers) ==
  IF \A r \in RuleIds : triggers[r] = 0 THEN "none" ELSE Band(score(triggers))
=============================================================================
