------------------------- MODULE MCSqliteAuditStore -------------------------
EXTENDS SqliteAuditStore, TLC

CONSTANTS a, b

Content(id, event) == [id |-> id, event |-> event]

\* Two events, one of them under two ids.
MCContents == {Content(1, a), Content(2, a), Content(3, b)}
OneContent == {Content(1, a)}

TaskSymmetry == Permutations(Tasks)
=============================================================================
