SPECIFICATION Spec
CONSTANTS
  large_transfer_thresholds <- MCThresholds
  large_transfer_default_threshold = 1
  velocity_window_secs = 1
  velocity_max_tx_count = 2
  frequency_deviation_multiplier = 1
  min_baseline_observations = 2
  max_operations_per_tx = 2
  history_lookback = 2
  history_baseline_window = 4
  one_hour = 4
  flagged_accounts = {"mallory"}
  LoopLen = 2
  Manual = {9}
  Replays = {10}
  Kinds <- MCKinds
  Times = {1, 3}
  MaxFailed = 1
CHECK_DEADLOCK FALSE
INVARIANTS
  SelectsAgree
  ReplayAgrees
  BurstIsCaught
  HardRulesWeigh
