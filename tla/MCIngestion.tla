---------------------------- MODULE MCIngestion ----------------------------
EXTENDS Ingestion
=============================================================================
