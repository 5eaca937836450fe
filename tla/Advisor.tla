------------------------------ MODULE Advisor ------------------------------
(***************************************************************************)
(* AnthropicAdvisor::investigate (crates/ai_advisor/src/client.rs) and the *)
(* validation of what the model answers (crates/ai_advisor/src/            *)
(* validate.rs): an advisory that is stored, or a reason why there is none.*)
(*                                                                         *)
(* A text is a sequence of characters, of which there are as many kinds as *)
(* the validation tells apart.  The word script, in whatever case, counts  *)
(* as one character: nothing but its position after a < matters. A return  *)
(* is whitespace and a control character, a newline is kept, and a tab is  *)
(* like a blank. Confidence is in percent. A risk level is a word and      *)
(* whether it is written with capitals or blanks around it.                *)
(***************************************************************************)
EXTENDS Integers, SequencesExt

CONSTANTS
  MAX_TEXT_LEN,
  MAX_SHORT_LEN,
  MAX_LIST_ITEMS,
  Inputs           \* what the model may submit with the tool

Levels == {"low", "elevated", "high", "critical"}
Whitespace == {"blank", "newline", "return"}
Controls == {"control", "return"}
Characters == Whitespace \cup Controls \cup {"letter", "<", ">", "script"}

RawAdvisoryInput ==
  [summary : Seq(Characters), suspicious_signals : Seq(Seq(Characters)),
   relevant_history : Seq(Characters), risk_level : [word : STRING, decorated : BOOLEAN],
   risk_rationale : Seq(Characters), recommended_next_steps : Seq(Seq(Characters)),
   confidence : Int, explanation : Seq(Characters)]

ASSUME LengthAssumption ==
  MAX_TEXT_LEN \in Nat /\ MAX_SHORT_LEN \in Nat /\ MAX_LIST_ITEMS \in Nat
ASSUME InputsAssumption == Inputs \subseteq RawAdvisoryInput

VARIABLES
  configured,   \* ANTHROPIC_API_KEY is set: AnthropicAdvisor, not NullAdvisor
  tool_input,   \* what the model has submitted, if it has
  outcome       \* what investigate has returned

vars == <<configured, tool_input, outcome>>

NoInput == [summary |-> <<>>]
Waiting == [state |-> "waiting"]
Unavailable(error) == [state |-> "unavailable", error |-> error]
Ready(advisory) == [state |-> "ready", advisory |-> advisory]

-----------------------------------------------------------------------------
(* validate.rs *)

Take(s, n) == SubSeq(s, 1, IF Len(s) <= n THEN Len(s) ELSE n)

\* The n-th of a set of positions, and a text without the characters in dropped.
Nth(S, n) == CHOOSE i \in S : Cardinality({k \in S : k <= i}) = n
Without(text, dropped) ==
  LET kept == {i \in DOMAIN text : text[i] \notin dropped}
  IN  [n \in 1..Cardinality(kept) |-> text[Nth(kept, n)]]

Strip(text) == Without(text, Controls)
HasScript(text) == \E i \in 1..(Len(text) - 1) : text[i] = "<" /\ text[i + 1] = "script"
NoBrackets(text) == Without(text, {"<", ">"})
IsBlank(text) == \A i \in DOMAIN text : text[i] \in Whitespace

\* Mutants: the script tag is looked for before the text is stripped; the
\* length is capped first.
sanitize_text_ScriptFirst(text, max_len) ==
  Take(Strip(IF HasScript(text) THEN NoBrackets(text) ELSE text), max_len)

sanitize_text_CapFirst(text, max_len) ==
  LET stripped == Strip(Take(text, max_len))
  IN  IF HasScript(stripped) THEN NoBrackets(stripped) ELSE stripped

sanitize_text(text, max_len) ==
  LET stripped == Strip(text)
  IN  Take(IF HasScript(stripped) THEN NoBrackets(stripped) ELSE stripped, max_len)

SanitizeList(list) ==
  LET kept == Take(list, MAX_LIST_ITEMS)
  IN  [i \in DOMAIN kept |-> sanitize_text(kept[i], MAX_SHORT_LEN)]

\* trim and to_ascii_lowercase leave the word.
RiskLevel(level) == IF level.word \in Levels THEN level.word ELSE "unspecified"

Clamp(n) == IF n < 0 THEN 0 ELSE IF n > 100 THEN 100 ELSE n

Sanitized(raw) ==
  [summary |-> sanitize_text(raw.summary, MAX_TEXT_LEN),
   suspicious_signals |-> SanitizeList(raw.suspicious_signals),
   relevant_history |-> sanitize_text(raw.relevant_history, MAX_TEXT_LEN),
   level |-> RiskLevel(raw.risk_level),
   rationale |-> sanitize_text(raw.risk_rationale, MAX_TEXT_LEN),
   recommended_next_steps |-> SanitizeList(raw.recommended_next_steps),
   confidence |-> Clamp(raw.confidence),
   explanation |-> sanitize_text(raw.explanation, MAX_TEXT_LEN)]

\* Mutant: an empty summary is let through.
validate_and_sanitize_AnySummary(raw) == Ready(Sanitized(raw))

validate_and_sanitize(raw) ==
  IF IsBlank(raw.summary) THEN Unavailable("InvalidResponse") ELSE Ready(Sanitized(raw))

-----------------------------------------------------------------------------
(* client.rs *)

Init ==
  /\ configured \in BOOLEAN
  /\ tool_input = NoInput
  /\ outcome = Waiting

NotConfigured ==
  /\ outcome = Waiting /\ ~configured
  /\ outcome' = Unavailable("NotConfigured")
  /\ UNCHANGED <<configured, tool_input>>

\* The early returns, in their order, and the errors they give.
ErrorOf ==
  [no_connection |-> "Network", not_success |-> "Provider", not_json |-> "InvalidResponse",
   refusal |-> "Provider", no_content |-> "InvalidResponse", no_tool_use |-> "InvalidResponse",
   malformed_input |-> "InvalidResponse"]

Fails(kind) ==
  /\ outcome = Waiting /\ configured
  /\ outcome' = Unavailable(ErrorOf[kind])
  /\ UNCHANGED <<configured, tool_input>>

Answers(raw) ==
  /\ outcome = Waiting /\ configured
  /\ tool_input' = raw
  /\ outcome' = validate_and_sanitize(raw)
  /\ UNCHANGED configured

\* record_ai_advisory or record_ai_unavailable takes it from here; another
\* alert, another call.
Stored ==
  /\ outcome # Waiting
  /\ outcome' = Waiting
  /\ tool_input' = NoInput
  /\ UNCHANGED configured

Next ==
  \/ NotConfigured
  \/ \E kind \in DOMAIN ErrorOf : Fails(kind)
  \/ \E raw \in Inputs : Answers(raw)
  \/ Stored

Spec == Init /\ [][Next]_vars

-----------------------------------------------------------------------------

AdvisoryReady == outcome.state = "ready"
LongTexts(a) == {a.summary, a.relevant_history, a.rationale, a.explanation}
ShortTexts(a) == ToSet(a.suspicious_signals) \cup ToSet(a.recommended_next_steps)

\* What is stored is within the caps, and no text of it has a control character
\* or a script tag, not even one that comes about only when the control characters
\* inside it are taken out.
StoredIsSafe ==
  AdvisoryReady =>
    /\ outcome.advisory.level \in Levels \cup {"unspecified"}
    /\ outcome.advisory.confidence \in 0..100
    /\ Len(outcome.advisory.suspicious_signals) <= MAX_LIST_ITEMS
    /\ Len(outcome.advisory.recommended_next_steps) <= MAX_LIST_ITEMS
    /\ \A text \in LongTexts(outcome.advisory) : Len(text) <= MAX_TEXT_LEN
    /\ \A text \in ShortTexts(outcome.advisory) : Len(text) <= MAX_SHORT_LEN
    /\ \A text \in LongTexts(outcome.advisory) \cup ShortTexts(outcome.advisory) :
         Controls \cap ToSet(text) = {} /\ ~HasScript(text)

\* Nothing else is lost: a text without control characters and script tags is
\* stored as it is, up to the cap; and the cap is on what is left of the others:
\* one that is shorter has all its printable characters that are not brackets.
NothingElseIsLost ==
  AdvisoryReady =>
    LET raw == tool_input.summary
        text == outcome.advisory.summary
    IN  /\ (Controls \cap ToSet(raw) = {} /\ ~HasScript(raw)) => text = Take(raw, MAX_TEXT_LEN)
        /\ Len(text) < MAX_TEXT_LEN => NoBrackets(text) = NoBrackets(Strip(raw))

\* A stored summary that shows nothing was not empty when it was checked: there
\* were control characters in it, which are taken out after the check, or its
\* printable characters are beyond the cap.
BlankSummaryIsExplained ==
  (AdvisoryReady /\ IsBlank(outcome.advisory.summary)) =>
    \/ "control" \in ToSet(tool_input.summary)
    \/ Len(tool_input.summary) > MAX_TEXT_LEN
=============================================================================
