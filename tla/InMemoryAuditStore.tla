------------------------- MODULE InMemoryAuditStore -------------------------
(***************************************************************************)
(* What an AuditStore promises, as its reference implementation keeps it   *)
(* (crates/audit/src/store.rs): a list of records under one mutex, which   *)
(* append extends in a single step.  The trait has no update or delete.    *)
(***************************************************************************)
EXTENDS Sequences, AuditChain

CONSTANT Contents

VARIABLE records

last_hash == IF records = << >> THEN GENESIS_HASH ELSE records[Len(records)].hash

append(c) ==
  records' = Append(records, MakeRow(last_hash, Len(records), c))

Init == records = << >>
Next == \E c \in Contents : append(c)
Spec == Init /\ [][Next]_records
=============================================================================
