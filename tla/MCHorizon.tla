----------------------------- MODULE MCHorizon -----------------------------
EXTENDS Horizon
=============================================================================
