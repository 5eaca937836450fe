--------------------------- MODULE Advisor_proof ---------------------------
(***************************************************************************)
(* Proofs about Advisor: whatever the model submits, however long its      *)
(* texts and lists are, and whatever the caps.                             *)
(***************************************************************************)
EXTENDS Advisor, FiniteSetTheorems, TLAPS

Rank(S, i) == Cardinality({k \in S : k <= i})

\* Positions are ranked one after the other.
LEMMA RankFacts ==
  ASSUME NEW n \in Nat, NEW S \in SUBSET (1..n)
  PROVE  /\ IsFiniteSet(S) /\ Cardinality(S) \in Nat /\ Cardinality(S) <= n
         /\ \A i \in S : Rank(S, i) \in 1..Cardinality(S)
         /\ \A i, j \in S : Rank(S, i) = Rank(S, j) => i = j
         /\ \A j \in 1..Cardinality(S) : \E i \in S : Rank(S, i) = j
<1>1. IsFiniteSet(S) /\ Cardinality(S) \in Nat /\ Cardinality(S) <= n
  <2>1. IsFiniteSet(1..n) /\ Cardinality(1..n) = n
    BY FS_Interval
  <2> QED BY <2>1, FS_Subset, FS_CardinalityType
<1> DEFINE m == Cardinality(S)
           upto(i) == {k \in S : k <= i}
<1>2. ASSUME NEW i \in S
      PROVE  /\ IsFiniteSet(upto(i)) /\ Rank(S, i) = Cardinality(upto(i)) /\ Rank(S, i) \in 1..m
  <2>1. upto(i) \in SUBSET S /\ i \in upto(i)
    OBVIOUS
  <2>2. IsFiniteSet(upto(i)) /\ Cardinality(upto(i)) <= m
    BY <1>1, <2>1, FS_Subset
  <2>3. Cardinality(upto(i)) \in Nat /\ Cardinality(upto(i)) # 0
    BY <2>1, <2>2, FS_CardinalityType, FS_EmptySet
  <2>4. Rank(S, i) = Cardinality(upto(i))
    BY DEF Rank
  <2> QED BY <1>1, <2>2, <2>3, <2>4
<1>3. ASSUME NEW i \in S, NEW j \in S, i < j PROVE Rank(S, i) # Rank(S, j)
  <2>0. \A k \in S : k \in Nat
    OBVIOUS
  <2>1. upto(i) \in SUBSET upto(j) /\ j \in upto(j) /\ j \notin upto(i)
    <3>1. \A k \in S : k <= i => k <= j
      BY <1>3, <2>0
    <3>2. j <= j /\ ~ (j <= i)
      BY <1>3, <2>0
    <3> QED BY <3>1, <3>2
  <2>2. upto(i) # upto(j)
    BY <2>1
  <2>3. Cardinality(upto(i)) # Cardinality(upto(j))
    BY <1>2, <2>1, <2>2, FS_Subset
  <2> QED BY <1>2, <2>3
<1>4. ASSUME NEW i \in S, NEW j \in S, Rank(S, i) = Rank(S, j) PROVE i = j
  <2>1. i < j \/ j < i \/ i = j
    OBVIOUS
  <2> QED BY <1>3, <1>4, <2>1
<1>5. ASSUME NEW j \in 1..m PROVE \E i \in S : Rank(S, i) = j
  <2> DEFINE f == [i \in S |-> Rank(S, i)]
  <2>1. f \in Injection(S, 1..m)
    BY <1>2, <1>4 DEF Injection, IsInjective
  <2>2. IsFiniteSet(1..m) /\ Cardinality(1..m) = m
    BY <1>1, FS_Interval
  <2>3. f \in Surjection(S, 1..m)
    BY <2>1, <2>2, FS_Injection
  <2> QED BY <2>3 DEF Surjection
<1> QED BY <1>1, <1>2, <1>4, <1>5

\* So the n-th position is the one of rank n.
LEMMA NthFacts ==
  ASSUME NEW n \in Nat, NEW S \in SUBSET (1..n)
  PROVE  /\ \A j \in 1..Cardinality(S) : Nth(S, j) \in S
         /\ \A i \in S : Nth(S, Rank(S, i)) = i
<1>1. ASSUME NEW j \in 1..Cardinality(S) PROVE Nth(S, j) \in S /\ Rank(S, Nth(S, j)) = j
  <2>1. \E i \in S : Rank(S, i) = j
    BY RankFacts
  <2> QED BY <2>1 DEF Nth, Rank
<1>2. ASSUME NEW i \in S PROVE Nth(S, Rank(S, i)) = i
  <2>1. Rank(S, i) \in 1..Cardinality(S)
    BY RankFacts
  <2>2. Nth(S, Rank(S, i)) \in S /\ Rank(S, Nth(S, Rank(S, i))) = Rank(S, i)
    BY <1>1, <2>1
  <2> QED BY <2>2, RankFacts
<1> QED BY <1>1, <1>2

LEMMA NthOfAll ==
  ASSUME NEW n \in Nat, NEW i \in 1..n
  PROVE  Nth(1..n, i) = i
<1>1. {k \in 1..n : k <= i} = 1..i /\ 1..n \in SUBSET (1..n)
  OBVIOUS
<1>2. Cardinality(1..i) = i
  BY FS_Interval
<1>3. Rank(1..n, i) = i
  BY <1>1, <1>2 DEF Rank
<1> QED BY <1>1, <1>3, NthFacts

-----------------------------------------------------------------------------
(* Texts. *)

\* Taking characters out of a text leaves all the others, and nothing else; if
\* there are none to take out, the text stays as it is.
LEMMA WithoutFacts ==
  ASSUME NEW text \in Seq(Characters), NEW dropped
  PROVE  /\ Without(text, dropped) \in Seq(Characters)
         /\ Len(Without(text, dropped)) <= Len(text)
         /\ ToSet(Without(text, dropped)) = ToSet(text) \ dropped
         /\ ToSet(text) \cap dropped = {} => Without(text, dropped) = text
<1> DEFINE n == Len(text)
           kept == {i \in DOMAIN text : text[i] \notin dropped}
           m == Cardinality(kept)
           out == Without(text, dropped)
<1>1. n \in Nat /\ DOMAIN text = 1..n /\ kept \in SUBSET (1..n)
  OBVIOUS
<1>2. \A i \in 1..n : text[i] \in Characters
  BY <1>1
<1>3. out = [j \in 1..m |-> text[Nth(kept, j)]]
  BY DEF Without
<1>4. \A i : i \in kept <=> i \in 1..n /\ text[i] \notin dropped
  BY <1>1
<1>5. text = [i \in 1..n |-> text[i]]
  BY <1>1
<1>6. ToSet(text) = {text[i] : i \in 1..n}
  BY <1>1 DEF ToSet
<1> HIDE DEF kept, m, out, n
<1>7. m \in Nat /\ m <= n /\ \A j \in 1..m : Nth(kept, j) \in kept
  BY <1>1, RankFacts, NthFacts DEF m
<1>8. \A j \in 1..m : text[Nth(kept, j)] \in Characters
  BY <1>2, <1>4, <1>7
<1>9. out \in Seq(Characters) /\ Len(out) = m /\ DOMAIN out = 1..m
  BY <1>3, <1>7, <1>8
<1>10. ASSUME NEW c \in ToSet(out) PROVE c \in ToSet(text) \ dropped
  <2>1. PICK j \in 1..m : c = text[Nth(kept, j)]
    BY <1>3, <1>9 DEF ToSet
  <2> QED BY <1>4, <1>6, <1>7, <2>1
<1>11. ASSUME NEW c \in ToSet(text) \ dropped PROVE c \in ToSet(out)
  <2>1. PICK i \in 1..n : c = text[i]
    BY <1>6
  <2>2. i \in kept
    BY <1>4, <1>11, <2>1
  <2>3. Rank(kept, i) \in 1..m /\ Nth(kept, Rank(kept, i)) = i
    BY <1>1, <2>2, RankFacts, NthFacts DEF m
  <2>4. out[Rank(kept, i)] = c
    BY <1>3, <2>1, <2>3
  <2> QED BY <1>9, <2>3, <2>4 DEF ToSet
<1>12. ASSUME ToSet(text) \cap dropped = {} PROVE out = text
  <2>1. kept = 1..n
    BY <1>4, <1>6, <1>12
  <2>2. m = n
    BY <1>1, <2>1, FS_Interval DEF m
  <2>3. \A i \in 1..n : Nth(kept, i) = i
    BY <1>1, <2>1, NthOfAll
  <2> QED BY <1>3, <1>5, <2>2, <2>3
<1>13. /\ out \in Seq(Characters) /\ Len(out) <= n /\ ToSet(out) = ToSet(text) \ dropped
       /\ ToSet(text) \cap dropped = {} => out = text
  BY <1>7, <1>9, <1>10, <1>11, <1>12
<1> QED BY <1>13 DEF out, n

\* A text is cut at its end.
LEMMA TakeFacts ==
  ASSUME NEW S, NEW s \in Seq(S), NEW n \in Nat
  PROVE  /\ Take(s, n) \in Seq(S)
         /\ Len(Take(s, n)) <= n /\ Len(Take(s, n)) <= Len(s)
         /\ \A i \in 1..Len(Take(s, n)) : Take(s, n)[i] = s[i]
         /\ Len(s) <= n => Take(s, n) = s
         /\ Len(Take(s, n)) < n => Take(s, n) = s
<1>1. CASE Len(s) <= n
  <2>1. Take(s, n) = SubSeq(s, 1, Len(s))
    BY <1>1 DEF Take
  <2>2. SubSeq(s, 1, Len(s)) = s
    OBVIOUS
  <2> QED BY <1>1, <2>1, <2>2
<1>2. CASE Len(s) > n
  <2>1. Take(s, n) = SubSeq(s, 1, n)
    BY <1>2 DEF Take
  <2>2. /\ SubSeq(s, 1, n) \in Seq(S) /\ Len(SubSeq(s, 1, n)) = n
        /\ \A i \in 1..n : SubSeq(s, 1, n)[i] = s[i]
    BY <1>2
  <2> QED BY <1>2, <2>1, <2>2
<1> QED BY <1>1, <1>2

\* A text that is sanitized is within its cap and inert; whatever it has is in the
\* text, and what is missing was dropped, or cut off.
LEMMA SanitizeFacts ==
  ASSUME NEW text \in Seq(Characters), NEW n \in Nat
  PROVE  /\ sanitize_text(text, n) \in Seq(Characters)
         /\ Len(sanitize_text(text, n)) <= n
         /\ Controls \cap ToSet(sanitize_text(text, n)) = {}
         /\ ~ HasScript(sanitize_text(text, n))
<1> DEFINE stripped == Strip(text)
           cleaned == IF HasScript(stripped) THEN NoBrackets(stripped) ELSE stripped
           out == sanitize_text(text, n)
<1>1. stripped \in Seq(Characters) /\ Controls \cap ToSet(stripped) = {}
  BY WithoutFacts DEF Strip
<1>2. out = Take(cleaned, n)
  BY DEF sanitize_text
<1> HIDE DEF stripped
<1>3. NoBrackets(stripped) \in Seq(Characters) /\ ToSet(NoBrackets(stripped)) = ToSet(stripped) \ {"<", ">"}
  BY <1>1, WithoutFacts DEF NoBrackets
<1>4. cleaned \in Seq(Characters) /\ Controls \cap ToSet(cleaned) = {} /\ ~ HasScript(cleaned)
  <2>1. CASE HasScript(stripped)
    <3>1. cleaned = NoBrackets(stripped) /\ "<" \notin ToSet(cleaned) /\ cleaned \in Seq(Characters)
      BY <1>3, <2>1
    <3> HIDE DEF cleaned
    <3>2. \A i \in 1..(Len(cleaned) - 1) : cleaned[i] # "<"
      BY <3>1 DEF ToSet
    <3> QED BY <1>1, <1>3, <3>1, <3>2 DEF HasScript
  <2>2. CASE ~ HasScript(stripped)
    BY <1>1, <2>2
  <2> QED BY <2>1, <2>2
<1> HIDE DEF cleaned, out
<1>5. /\ out \in Seq(Characters) /\ Len(out) <= n /\ Len(out) <= Len(cleaned)
      /\ \A i \in 1..Len(out) : out[i] = cleaned[i]
  BY <1>2, <1>4, TakeFacts
<1>6. Len(out) \in Nat /\ Len(cleaned) \in Nat /\ DOMAIN out = 1..Len(out) /\ DOMAIN cleaned = 1..Len(cleaned)
  BY <1>4, <1>5
<1>7. Controls \cap ToSet(out) = {}
  BY <1>4, <1>5, <1>6 DEF ToSet
<1>8. ~ HasScript(out)
  <2> SUFFICES ASSUME NEW i \in 1..(Len(out) - 1), out[i] = "<", out[i + 1] = "script"
               PROVE  FALSE
    BY DEF HasScript
  <2>1. i \in 1..Len(out) /\ i + 1 \in 1..Len(out) /\ i \in 1..(Len(cleaned) - 1)
    BY <1>5, <1>6
  <2> QED BY <1>4, <1>5, <2>1 DEF HasScript
<1> QED BY <1>5, <1>7, <1>8 DEF out

\* A list is cut, and each of its texts sanitized.
LEMMA SanitizeListFacts ==
  ASSUME NEW list \in Seq(Seq(Characters))
  PROVE  /\ Len(SanitizeList(list)) <= MAX_LIST_ITEMS
         /\ \A text \in ToSet(SanitizeList(list)) :
              /\ Len(text) <= MAX_SHORT_LEN
              /\ Controls \cap ToSet(text) = {} /\ ~ HasScript(text)
<1> DEFINE kept == Take(list, MAX_LIST_ITEMS)
           out == SanitizeList(list)
<1>1. kept \in Seq(Seq(Characters)) /\ Len(kept) <= MAX_LIST_ITEMS
  BY TakeFacts, LengthAssumption
<1>2. out = [i \in DOMAIN kept |-> sanitize_text(kept[i], MAX_SHORT_LEN)]
  BY DEF SanitizeList
<1> HIDE DEF kept
<1>3. Len(kept) \in Nat /\ DOMAIN kept = 1..Len(kept) /\ \A i \in DOMAIN kept : kept[i] \in Seq(Characters)
  BY <1>1
<1>4. \A i \in DOMAIN kept : sanitize_text(kept[i], MAX_SHORT_LEN) \in Seq(Characters)
  BY <1>3, SanitizeFacts, LengthAssumption
<1> HIDE DEF out
<1>5. Len(out) = Len(kept) /\ DOMAIN out = DOMAIN kept
  BY <1>2, <1>3, <1>4
<1>6. ASSUME NEW text \in ToSet(out)
      PROVE  /\ Len(text) <= MAX_SHORT_LEN
             /\ Controls \cap ToSet(text) = {} /\ ~ HasScript(text)
  <2>1. PICK i \in DOMAIN kept : text = sanitize_text(kept[i], MAX_SHORT_LEN)
    BY <1>2, <1>5 DEF ToSet
  <2>2. kept[i] \in Seq(Characters) /\ MAX_SHORT_LEN \in Nat
    BY <1>3, LengthAssumption
  <2> QED BY <2>1, <2>2, SanitizeFacts
<1> QED BY <1>1, <1>5, <1>6 DEF out

-----------------------------------------------------------------------------

\* An advisory is what the validation makes of what the model has submitted.
OutcomeInv ==
  AdvisoryReady =>
    /\ tool_input \in Inputs
    /\ outcome = Ready(Sanitized(tool_input))
    /\ ~ IsBlank(tool_input.summary)

LEMMA StatesDiffer ==
  /\ Waiting.state = "waiting"
  /\ \A e : Unavailable(e).state = "unavailable"
  /\ \A a : Ready(a).state = "ready" /\ Ready(a).advisory = a
  BY DEF Waiting, Unavailable, Ready

THEOREM Invariance == Spec => []OutcomeInv
<1>1. Init => OutcomeInv
  BY StatesDiffer DEF Init, OutcomeInv, AdvisoryReady
<1>2. OutcomeInv /\ [Next]_vars => OutcomeInv'
  <2> SUFFICES ASSUME OutcomeInv, [Next]_vars PROVE OutcomeInv'
    OBVIOUS
  <2>1. CASE NotConfigured
    BY <2>1, StatesDiffer DEF NotConfigured, OutcomeInv, AdvisoryReady
  <2>2. ASSUME NEW kind \in DOMAIN ErrorOf, Fails(kind) PROVE OutcomeInv'
    BY <2>2, StatesDiffer DEF Fails, OutcomeInv, AdvisoryReady
  <2>3. ASSUME NEW raw \in Inputs, Answers(raw) PROVE OutcomeInv'
    <3>1. tool_input' = raw /\ outcome' = validate_and_sanitize(raw)
      BY <2>3 DEF Answers
    <3>2. CASE IsBlank(raw.summary)
      BY <3>1, <3>2, StatesDiffer DEF validate_and_sanitize, OutcomeInv, AdvisoryReady
    <3>3. CASE ~ IsBlank(raw.summary)
      <4>1. outcome' = Ready(Sanitized(raw))
        BY <3>1, <3>3 DEF validate_and_sanitize
      <4> QED BY <3>1, <3>3, <4>1 DEF OutcomeInv, IsBlank
    <3> QED BY <3>2, <3>3
  <2>4. CASE Stored
    BY <2>4, StatesDiffer DEF Stored, OutcomeInv, AdvisoryReady
  <2>5. CASE UNCHANGED vars
    BY <2>5 DEF vars, OutcomeInv, AdvisoryReady, IsBlank
  <2> QED BY <2>1, <2>2, <2>3, <2>4, <2>5 DEF Next
<1> QED BY <1>1, <1>2, PTL DEF Spec

\* What a submission that became an advisory was.
LEMMA ReadyFacts ==
  ASSUME OutcomeInv, AdvisoryReady
  PROVE  /\ tool_input \in RawAdvisoryInput
         /\ outcome.advisory = Sanitized(tool_input)
         /\ ~ IsBlank(tool_input.summary)
  BY InputsAssumption, StatesDiffer DEF OutcomeInv

LEMMA InputFacts ==
  ASSUME NEW raw \in RawAdvisoryInput
  PROVE  /\ raw.summary \in Seq(Characters) /\ raw.relevant_history \in Seq(Characters)
         /\ raw.risk_rationale \in Seq(Characters) /\ raw.explanation \in Seq(Characters)
         /\ raw.suspicious_signals \in Seq(Seq(Characters))
         /\ raw.recommended_next_steps \in Seq(Seq(Characters))
         /\ raw.confidence \in Int
  BY DEF RawAdvisoryInput

\* Every advisory that is stored is within the caps and inert, whatever the model
\* has submitted.
THEOREM AdvisoriesAreSafe == Spec => []StoredIsSafe
<1>1. OutcomeInv => StoredIsSafe
  <2> SUFFICES ASSUME OutcomeInv, AdvisoryReady PROVE StoredIsSafe
    BY DEF StoredIsSafe
  <2>1. PICK raw \in RawAdvisoryInput : outcome.advisory = Sanitized(raw)
    BY ReadyFacts
  <2> DEFINE a == outcome.advisory
  <2>2. /\ a.level = RiskLevel(raw.risk_level) /\ a.confidence = Clamp(raw.confidence)
        /\ a.suspicious_signals = SanitizeList(raw.suspicious_signals)
        /\ a.recommended_next_steps = SanitizeList(raw.recommended_next_steps)
        /\ LongTexts(a) = {sanitize_text(raw.summary, MAX_TEXT_LEN),
                           sanitize_text(raw.relevant_history, MAX_TEXT_LEN),
                           sanitize_text(raw.risk_rationale, MAX_TEXT_LEN),
                           sanitize_text(raw.explanation, MAX_TEXT_LEN)}
    BY <2>1 DEF Sanitized, LongTexts
  <2> HIDE DEF a
  <2>3. a.level \in Levels \cup {"unspecified"}
    BY <2>2 DEF RiskLevel
  <2>4. a.confidence \in 0..100
    <3>1. raw.confidence \in Int
      BY InputFacts
    <3>2. \A n \in Int : Clamp(n) \in 0..100
      BY DEF Clamp
    <3> QED BY <2>2, <3>1, <3>2
  <2>5. \A text \in LongTexts(a) :
          Len(text) <= MAX_TEXT_LEN /\ Controls \cap ToSet(text) = {} /\ ~ HasScript(text)
    <3>1. \A text \in Seq(Characters) :
            LET clean == sanitize_text(text, MAX_TEXT_LEN)
            IN  Len(clean) <= MAX_TEXT_LEN /\ Controls \cap ToSet(clean) = {} /\ ~ HasScript(clean)
      BY SanitizeFacts, LengthAssumption
    <3>2. {raw.summary, raw.relevant_history, raw.risk_rationale, raw.explanation}
            \subseteq Seq(Characters)
      BY InputFacts
    <3> QED BY <2>2, <3>1, <3>2
  <2>6. /\ Len(a.suspicious_signals) <= MAX_LIST_ITEMS
        /\ Len(a.recommended_next_steps) <= MAX_LIST_ITEMS
        /\ \A text \in ShortTexts(a) :
             Len(text) <= MAX_SHORT_LEN /\ Controls \cap ToSet(text) = {} /\ ~ HasScript(text)
    BY <2>2, InputFacts, SanitizeListFacts DEF ShortTexts
  <2> QED BY <2>3, <2>4, <2>5, <2>6 DEF StoredIsSafe, a
<1> QED BY <1>1, Invariance, PTL

\* The validation drops control characters, brackets of a text with a script tag,
\* and what is beyond the cap, and nothing else.
THEOREM RestIsKept == Spec => []NothingElseIsLost
<1>1. OutcomeInv => NothingElseIsLost
  <2> SUFFICES ASSUME OutcomeInv, AdvisoryReady PROVE NothingElseIsLost
    BY DEF NothingElseIsLost
  <2> DEFINE raw == tool_input.summary
             text == outcome.advisory.summary
             stripped == Strip(raw)
             cleaned == IF HasScript(stripped) THEN NoBrackets(stripped) ELSE stripped
  <2>1. raw \in Seq(Characters) /\ text = sanitize_text(raw, MAX_TEXT_LEN)
    BY ReadyFacts, InputFacts DEF Sanitized
  <2>2. text = Take(cleaned, MAX_TEXT_LEN)
    BY <2>1 DEF sanitize_text
  <2>3. SUFFICES /\ (Controls \cap ToSet(raw) = {} /\ ~HasScript(raw)) => text = Take(raw, MAX_TEXT_LEN)
                 /\ Len(text) < MAX_TEXT_LEN => NoBrackets(text) = NoBrackets(stripped)
    BY DEF NothingElseIsLost
  <2> HIDE DEF raw, text
  <2>4. stripped \in Seq(Characters) /\ (Controls \cap ToSet(raw) = {} => stripped = raw)
    BY <2>1, WithoutFacts DEF Strip
  <2> HIDE DEF stripped
  <2>5. /\ NoBrackets(stripped) \in Seq(Characters)
        /\ ToSet(NoBrackets(stripped)) \cap {"<", ">"} = {}
    BY <2>4, WithoutFacts DEF NoBrackets
  <2>6. NoBrackets(NoBrackets(stripped)) = NoBrackets(stripped)
    BY <2>5, WithoutFacts DEF NoBrackets
  <2>7. cleaned \in Seq(Characters) /\ NoBrackets(cleaned) = NoBrackets(stripped)
    BY <2>4, <2>5, <2>6
  <2>8. Len(text) < MAX_TEXT_LEN => text = cleaned
    <3> HIDE DEF cleaned
    <3> QED BY <2>2, <2>7, TakeFacts, LengthAssumption
  <2> QED BY <2>2, <2>4, <2>7, <2>8
<1> QED BY <1>1, Invariance, PTL

\* A summary that shows nothing is stored only if its control characters, or its
\* length, hid that from the check.
THEOREM BlankSummaries == Spec => []BlankSummaryIsExplained
<1>1. OutcomeInv => BlankSummaryIsExplained
  <2> DEFINE raw == tool_input.summary
             text == outcome.advisory.summary
             stripped == Strip(raw)
             cleaned == IF HasScript(stripped) THEN NoBrackets(stripped) ELSE stripped
  <2> SUFFICES ASSUME OutcomeInv, AdvisoryReady, IsBlank(text), "control" \notin ToSet(raw),
                      ~ (Len(raw) > MAX_TEXT_LEN)
               PROVE  FALSE
    BY DEF BlankSummaryIsExplained
  <2>1. raw \in Seq(Characters) /\ text = sanitize_text(raw, MAX_TEXT_LEN) /\ ~ IsBlank(raw)
    BY ReadyFacts, InputFacts DEF Sanitized
  <2>2. text = Take(cleaned, MAX_TEXT_LEN)
    BY <2>1 DEF sanitize_text
  <2> HIDE DEF raw, text
  <2>3. /\ stripped \in Seq(Characters) /\ Len(stripped) <= Len(raw)
        /\ ToSet(stripped) = ToSet(raw) \ Controls
    BY <2>1, WithoutFacts DEF Strip
  <2> HIDE DEF stripped
  <2>4. /\ NoBrackets(stripped) \in Seq(Characters) /\ Len(NoBrackets(stripped)) <= Len(stripped)
        /\ ToSet(NoBrackets(stripped)) = ToSet(stripped) \ {"<", ">"}
    BY <2>3, WithoutFacts DEF NoBrackets
  <2>5. cleaned \in Seq(Characters) /\ Len(cleaned) <= Len(stripped)
    BY <2>3, <2>4
  <2>6. text = cleaned
    <3> HIDE DEF cleaned
    <3>1. Len(cleaned) <= MAX_TEXT_LEN
      BY <2>1, <2>3, <2>5, LengthAssumption
    <3> QED BY <2>2, <2>5, <3>1, TakeFacts, LengthAssumption
  <2>7. ToSet(cleaned) \subseteq Whitespace
    BY <2>6 DEF IsBlank, ToSet
  <2>8. PICK c \in ToSet(raw) : c \notin Whitespace
    BY <2>1 DEF IsBlank, ToSet
  <2>9. c \in ToSet(stripped)
    BY <2>3, <2>8 DEF Controls, Whitespace
  <2>10. CASE HasScript(stripped)
    <3>1. "script" \in ToSet(stripped)
      BY <2>3, <2>10 DEF HasScript, ToSet
    <3> QED BY <2>4, <2>7, <2>10, <3>1 DEF Whitespace
  <2>11. CASE ~ HasScript(stripped)
    BY <2>7, <2>8, <2>9, <2>11
  <2> QED BY <2>10, <2>11
<1> QED BY <1>1, Invariance, PTL
=============================================================================
