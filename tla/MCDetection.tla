---------------------------- MODULE MCDetection ----------------------------
EXTENDS Detection

MCThresholds == [x \in {"USDC"} |-> 2]

Move(asset, to, amount) == [asset |-> asset, from |-> "alice", to |-> to, amount |-> amount]

Kind(source, movements, ops) ==
  [source_account |-> source, movements |-> movements, operation_count |-> ops]

\* A payment just above its threshold, which alone scores 35, the bound of medium;
\* two payments, one of them large for its asset; and a payment of alice to a
\* flagged account, at its threshold, in a transaction of carol's with too many
\* operations.
MCKinds ==
  {Kind("alice", <<Move("native", "bob", 2)>>, 1),
   Kind("alice", <<Move("native", "bob", 1), Move("USDC", "bob", 3)>>, 2),
   Kind("carol", <<Move("USDC", "mallory", 2)>>, 3)}

\* Two payments that differ in their asset.
MCNewAssetKinds ==
  {Kind("alice", <<Move("native", "bob", 1)>>, 1),
   Kind("alice", <<Move("USDC", "bob", 1)>>, 1)}
=============================================================================
