----------------------------- MODULE MCAdvisor -----------------------------
EXTENDS Advisor

MaxLen == 5

\* A submission in which only the summary varies ...
Plain ==
  [summary |-> <<"letter">>, suspicious_signals |-> <<>>, relevant_history |-> <<>>,
   risk_level |-> [word |-> "high", decorated |-> FALSE], risk_rationale |-> <<>>,
   recommended_next_steps |-> <<>>, confidence |-> 50, explanation |-> <<"letter", "control">>]

\* ... and one in which the rest does.
Items == {<<>>, <<"letter", "letter", "letter", "letter">>, <<"<", "control", "script", ">">>}
Levels2 == [word : {"high", "fraud"}, decorated : BOOLEAN]

MCInputs ==
  {[Plain EXCEPT !.summary = text] : text \in SeqOf(Characters, MaxLen)} \cup
  {[Plain EXCEPT !.suspicious_signals = list, !.recommended_next_steps = Reverse(list),
                 !.risk_level = level, !.confidence = n] :
     list \in SeqOf(Items, 3), level \in Levels2, n \in {-1, 0, 100, 101}}
=============================================================================
