----------------------------- MODULE AuditChain -----------------------------
(***************************************************************************)
(* The hash chain of crates/audit/src/chain.rs, over the audit_log table.  *)
(*                                                                         *)
(* A table is a function from its PRIMARY KEY, sequence, to a row.  What a *)
(* row says besides its place in the chain is its content: its id, and an  *)
(* opaque event (alert_id, tx_id, event_json, created_at).  SHA-256 is     *)
(* taken to be collision free: a digest is the tuple of what was hashed,   *)
(* which leaves the id out.                                                *)
(***************************************************************************)
EXTENDS Integers, FiniteSets

EmptyTable == [s \in {} |-> << >>]

GENESIS_HASH == << >>

\* Mutant: the event is not part of what is hashed.
compute_hash_NoContent(prev_hash, sequence, content) == <<prev_hash, sequence>>

compute_hash(prev_hash, sequence, content) == <<prev_hash, sequence, content.event>>

MakeRow(prev_hash, sequence, content) ==
  [content |-> content, prev_hash |-> prev_hash,
   hash |-> compute_hash(prev_hash, sequence, content)]

MaxKey(S) == CHOOSE m \in S : \A k \in S : k <= m
MinKey(S) == CHOOSE m \in S : \A k \in S : m <= k

Before(T, s) == {k \in DOMAIN T : k < s}

\* The hash of the row with the largest key below s, or the genesis hash.
HashBefore(T, s) ==
  IF Before(T, s) = {} THEN GENESIS_HASH ELSE T[MaxKey(Before(T, s))].hash

\* Mutant: the DESC of the query is missing.
LastHash_Ascending(T) == IF DOMAIN T = {} THEN GENESIS_HASH ELSE T[MinKey(DOMAIN T)].hash

\* SELECT hash FROM audit_log ORDER BY sequence DESC LIMIT 1, or GENESIS_HASH.
LastHash(T) == IF DOMAIN T = {} THEN GENESIS_HASH ELSE T[MaxKey(DOMAIN T)].hash

\* Mutant: COALESCE(MAX(sequence), 0) + 1.
NextSequence_FromOne(T) == IF DOMAIN T = {} THEN 1 ELSE MaxKey(DOMAIN T) + 1

\* SELECT COALESCE(MAX(sequence), -1) + 1 FROM audit_log.
NextSequence(T) == IF DOMAIN T = {} THEN 0 ELSE MaxKey(DOMAIN T) + 1

\* Mutant: INSERT OR REPLACE.
InsertRow_OrReplace(T, sequence, row) ==
  [s \in DOMAIN T \cup {sequence} |-> IF s = sequence THEN row ELSE T[s]]

\* INSERT of one row.  The primary key refuses a sequence that is taken; the
\* caller tells the two cases apart by asking whether the key was free.
InsertRow(T, sequence, row) ==
  IF sequence \in DOMAIN T
  THEN T
  ELSE [s \in DOMAIN T \cup {sequence} |-> IF s = sequence THEN row ELSE T[s]]

\* One turn of the loop of verify_chain.
LinkOk(T, s) == T[s].prev_hash = HashBefore(T, s)
ContentOk(T, s) == T[s].hash = compute_hash(T[s].prev_hash, s, T[s].content)

\* broken_at_sequence is an Option: the empty set, or the set of one key.
verify_chain(T) ==
  LET broken == {s \in DOMAIN T : ~(LinkOk(T, s) /\ ContentOk(T, s))}
  IN  IF broken = {}
      THEN [valid |-> TRUE, records_checked |-> Cardinality(DOMAIN T),
            broken_at_sequence |-> {}]
      ELSE [valid |-> FALSE,
            records_checked |-> Cardinality(Before(T, MinKey(broken))),
            broken_at_sequence |-> {MinKey(broken)}]
=============================================================================
