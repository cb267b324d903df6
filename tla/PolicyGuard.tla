----------------------------- MODULE PolicyGuard -----------------------------
(***************************************************************************)
(* The verdicts of DefaultPolicyGuard                                      *)
(* (infrastructure/policy_guard/guard.rs), which keeps no state.  A text   *)
(* is what they depend on: its size, whether a suspicious pattern matches  *)
(* it, and whether the byte at which redact() cuts lies inside one of its  *)
(* characters, where slicing a string panics.                              *)
(***************************************************************************)
EXTENDS Integers

CONSTANTS PolicyEnabled,      \* PolicyConfig::enabled
          MaxInputBytes,      \* PolicyConfig::max_input_bytes
          RedactionEnabled,   \* PolicyConfig::enable_redaction
          RedactedBytes       \* what redact() leaves of a text, 50 bytes

ASSUME PolicyConfig ==
    /\ PolicyEnabled \in BOOLEAN /\ RedactionEnabled \in BOOLEAN
    /\ MaxInputBytes \in Nat /\ RedactedBytes \in Nat

Text == [bytes: Nat, suspicious: BOOLEAN, cut_in_char: BOOLEAN]

Verdict == {"pass", "fail", "panic"}

RedactPanics(text) == RedactionEnabled /\ text.bytes > RedactedBytes /\ text.cut_in_char

\* check_user_input(): only a suspicious text is redacted, for its violation.
CheckUserInput(text) ==
    IF ~PolicyEnabled THEN "pass"
    ELSE IF text.bytes > MaxInputBytes THEN "fail"
    ELSE IF ~text.suspicious THEN "pass"
    ELSE IF RedactPanics(text) THEN "panic" ELSE "fail"

\* check_agent_output(), of an output of a size.
CheckAgentOutput(bytes) ==
    IF PolicyEnabled /\ bytes > 2 * MaxInputBytes THEN "fail" ELSE "pass"
=============================================================================
