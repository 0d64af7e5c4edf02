--------------------------- MODULE TerminalTracker --------------------------
(***************************************************************************)
(* The state that is read off a terminal (fold-activity tracker.ts and     *)
(* classifier.ts).  The normalized tail of the output is a sequence of     *)
(* marks: a mark is a piece of text that one rule's pattern matches, the   *)
(* piece "cancelled" with which one rule begins, or other text.            *)
(***************************************************************************)
EXTENDS Naturals, Sequences, FiniteSets

CONSTANTS
  source,          \* "claude", "codex" or "gemini"
  Marks,           \* pieces of text the terminal prints
  RecentTail,      \* marks that the classifier looks at
  ConflictTail,    \* marks in which gemini's readiness is contested
  MaxFeeds

TrackerConstants == {RecentTail, ConflictTail, MaxFeeds} \subseteq Nat /\ ConflictTail <= RecentTail

VARIABLES
  normalizedTail,
  current,              \* the classification that is shown
  geminiReadySignals,
  geminiPendingActive,  \* [state, ruleId, count]; count 0: none
  raw,                  \* the last classifications before stabilising, oldest first
  feeds
vars == <<normalizedTail, current, geminiReadySignals, geminiPendingActive, raw, feeds>>

-----------------------------------------------------------------------------
(* Rules, from the highest priority to the lowest                          *)
Any == "any"
DEFAULT_TERMINAL_STATE_RULES == <<
  [id |-> "awaiting_input_claude_interrupted", state |-> "awaiting_input",    source |-> "claude"],
  [id |-> "awaiting_approval_claude_menu",     state |-> "awaiting_approval", source |-> "claude"],
  [id |-> "awaiting_approval_codex",           state |-> "awaiting_approval", source |-> "codex"],
  [id |-> "awaiting_input_shell",              state |-> "awaiting_input",    source |-> Any],
  [id |-> "awaiting_approval_gemini",          state |-> "awaiting_approval", source |-> "gemini"],
  [id |-> "awaiting_auth",                     state |-> "awaiting_auth",     source |-> Any],
  [id |-> "busy_status_line",                  state |-> "busy_streaming",    source |-> Any],
  [id |-> "ready_prompt_gemini_after_cancel",  state |-> "ready_for_input",   source |-> "gemini"],
  [id |-> "ready_prompt_claude",               state |-> "ready_for_input",   source |-> "claude"],
  [id |-> "ready_prompt_codex",                state |-> "ready_for_input",   source |-> "codex"],
  [id |-> "ready_prompt_gemini",               state |-> "ready_for_input",   source |-> "gemini"],
  [id |-> "completed_claude_duration",         state |-> "completed",         source |-> "claude"] >>
AfterCancel == "ready_prompt_gemini_after_cancel"
Priorities == 1..Len(DEFAULT_TERMINAL_STATE_RULES)
Rule(p) == DEFAULT_TERMINAL_STATE_RULES[p]

\* Where the pattern of a rule matches.  The prompt of claude is anchored at
\* the end; a cancelled request must be followed by gemini's prompt.
MatchesAt(rule, tail, i) ==
  IF rule.id = AfterCancel
  THEN tail[i] = "cancelled" /\ \E j \in i + 1..Len(tail) : tail[j] = "ready_prompt_gemini"
  ELSE tail[i] = rule.id /\ (rule.id = "ready_prompt_claude" => i = Len(tail))
\* search: the first place only.
Matches(tail) ==
  {m \in Priorities \X (1..Len(tail)) :
     /\ Rule(m[1]).source \in {Any, source} /\ MatchesAt(Rule(m[1]), tail, m[2])
     /\ \A i \in 1..m[2] - 1 : ~MatchesAt(Rule(m[1]), tail, i)}
Unknown == [state |-> "unknown", ruleId |-> "none"]
Found(m) == [state |-> Rule(m[1]).state, ruleId |-> Rule(m[1]).id]

\* The match that starts last; for gemini, readiness yields to whatever else
\* was printed lately, the highest priority first.
classifyTerminalState(tail) ==
  LET matches == Matches(tail)
      selected == CHOOSE m \in matches : \A o \in matches : o[2] < m[2] \/ (o[2] = m[2] /\ o[1] >= m[1])
      conflicts == {m \in matches : /\ Rule(m[1]).state \notin {"ready_for_input", "completed"}
                                    /\ m[2] + ConflictTail > Len(tail)}
      contested == source = "gemini" /\ Rule(selected[1]).state = "ready_for_input" /\ Rule(selected[1]).id # AfterCancel
  IN IF matches = {} THEN Unknown
     ELSE IF contested /\ conflicts # {} THEN Found(CHOOSE m \in conflicts : \A o \in conflicts : o[1] >= m[1])
     ELSE Found(selected)
isActiveTerminalState(state) == state \in {"busy_streaming", "awaiting_input", "awaiting_approval", "awaiting_auth"}

-----------------------------------------------------------------------------
(* Tracking                                                                *)
Init == /\ normalizedTail = <<>> /\ current = Unknown /\ geminiReadySignals = 0
        /\ geminiPendingActive = [state |-> "none", ruleId |-> "none", count |-> 0]
        /\ raw = <<>> /\ feeds = 0
NoPending == [state |-> "none", ruleId |-> "none", count |-> 0]

Shown(classified, signals, pending) == [classification |-> classified, signals |-> signals, pending |-> pending]
\* A prompt replaces an active state with the third one in a row.
StableReady(classified) ==
  IF classified.ruleId = AfterCancel \/ ~isActiveTerminalState(current.state) \/ geminiReadySignals + 1 >= 3
  THEN Shown(classified, 0, NoPending)
  ELSE Shown(current, geminiReadySignals + 1, NoPending)
\* An active state replaces the prompt with the second one in a row.
StableActive(classified) ==
  LET same == geminiPendingActive.count > 0 /\ geminiPendingActive.state = classified.state /\ geminiPendingActive.ruleId = classified.ruleId
  IN IF current.state # "ready_for_input" \/ ~isActiveTerminalState(classified.state) \/ same THEN Shown(classified, 0, NoPending)
     ELSE Shown(current, 0, [state |-> classified.state, ruleId |-> classified.ruleId, count |-> 1])
applyGeminiStability(classified) ==
  IF source # "gemini" THEN Shown(classified, geminiReadySignals, geminiPendingActive)
  ELSE IF classified.state = "ready_for_input" THEN StableReady(classified)
  ELSE StableActive(classified)

\* The last n elements of a sequence.
Last(seq, n) == SubSeq(seq, IF Len(seq) > n THEN Len(seq) - n + 1 ELSE 1, Len(seq))
\* feed: a chunk with one more mark (a chunk that normalizes to nothing
\* changes nothing).
feed(mark) ==
  /\ feeds < MaxFeeds /\ feeds' = feeds + 1
  /\ normalizedTail' = Last(Append(normalizedTail, mark), RecentTail)
  /\ \E classified \in {classifyTerminalState(normalizedTail')} :
       /\ raw' = Last(Append(raw, classified), 3)
       /\ \E s \in {applyGeminiStability(classified)} :
            current' = s.classification /\ geminiReadySignals' = s.signals /\ geminiPendingActive' = s.pending
Next == \E mark \in Marks : feed(mark)
Spec == Init /\ [][Next]_vars

-----------------------------------------------------------------------------
(* Properties                                                              *)
\* Gemini repaints its prompt while it works: what is shown turns from active
\* to ready only after three prompts in a row or a cancelled request, and back
\* only after the same active reading twice in a row.
StableSwitch ==
  [][source = "gemini" =>
       /\ isActiveTerminalState(current.state) /\ current'.state = "ready_for_input" /\ current'.ruleId # AfterCancel =>
            Len(raw') = 3 /\ \A i \in 1..3 : raw'[i].state = "ready_for_input"
       /\ current.state = "ready_for_input" /\ isActiveTerminalState(current'.state) =>
            Len(raw') >= 2 /\ raw'[Len(raw')] = raw'[Len(raw') - 1]]_vars

\* Stabilising only delays: what is read three times in a row is shown.
Settles == Len(raw) = 3 /\ raw[1] = raw[2] /\ raw[2] = raw[3] => current = raw[3]
=============================================================================
