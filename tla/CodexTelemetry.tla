--------------------------- MODULE CodexTelemetry ---------------------------
(***************************************************************************)
(* What one Codex process said, as parse_codex_capture judges it.  A line  *)
(* of the event stream is reduced to the kind of thing it is:              *)
(*   "garbled"    not JSON             "scalar"     JSON, not an object    *)
(*   "untyped"    no type              "error"      a provider error event *)
(*   "completed"  turn.completed       "unmetered"  ... with invalid usage *)
(*   "other"      any other event                                          *)
(***************************************************************************)
EXTENDS Naturals, Sequences, FiniteSets

LineKinds == {"garbled", "scalar", "untyped", "error", "completed", "unmetered", "other"}
Texts == {"rate_limit", "transient", "plain"}

\* The process seam: no process at all, or a capture; 124 after the timeout.
TimedOut == [code |-> 124, text |-> "plain", lines |-> << >>]

NonzeroKind(text) ==
    CASE text = "rate_limit" -> "rate_limit"
      [] text = "transient"  -> "transient_provider"
      [] OTHER               -> "nonzero_exit"

LineFailure(kind) ==
    CASE kind = "garbled"               -> "invalid_jsonl"
      [] kind \in {"scalar", "untyped"} -> "invalid_event"
      [] kind = "error"                 -> "provider_error"

\* The lines of given kinds.
Of(lines, kinds) == {i \in DOMAIN lines : lines[i] \in kinds}
Terminal(lines) == Of(lines, {"completed", "unmetered"})

\* Mutant of ParseCapture: further turns after the first are not counted.
ParseFirstTurn(capture) ==
    LET terminal == Terminal(capture.lines)
        First(i) == i \in terminal /\ \A j \in terminal : i <= j
    IN  IF capture.code # 0 THEN NonzeroKind(capture.text)
        ELSE IF terminal = {} THEN "missing_terminal_event"
        ELSE IF \E i \in terminal : First(i) /\ capture.lines[i] = "unmetered" THEN "invalid_usage"
        ELSE "completed"

\* "completed", or the kind of the infrastructure failure.  The first bad line
\* decides before the terminal events are counted.
ParseCapture(capture) ==
    LET bad == Of(capture.lines, {"garbled", "scalar", "untyped", "error"})
        first == CHOOSE i \in bad : \A j \in bad : i <= j
        terminal == Terminal(capture.lines)
    IN  IF capture.code # 0 THEN NonzeroKind(capture.text)
        ELSE IF bad # {} THEN LineFailure(capture.lines[first])
        ELSE IF terminal = {} THEN "missing_terminal_event"
        ELSE IF Cardinality(terminal) # 1 THEN "duplicate_terminal_event"
        ELSE IF \E i \in terminal : capture.lines[i] = "unmetered" THEN "invalid_usage"
        ELSE "completed"
=============================================================================
