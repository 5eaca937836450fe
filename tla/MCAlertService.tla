--------------------------- MODULE MCAlertService ---------------------------
EXTENDS AlertService, TLC

RequestSymmetry == Permutations(Requests) \cup Permutations(Alerts)
=============================================================================
