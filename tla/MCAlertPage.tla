---------------------------- MODULE MCAlertPage ----------------------------
EXTENDS AlertPage

RequestSymmetry == Permutations(Requests)

\* The page reads nothing from the contract: it need not be set up here.
NotOnChain == ~admin
=============================================================================
