----------------------------- MODULE MCNativeAgent -----------------------------
(* Small instances of NativeAgent for TLC.                                   *)
EXTENDS NativeAgent

\* One prompt after the other, in a context that has to be compacted.
Summarizing ==
    [turns |-> 2, retries |-> 0, calls |-> 1, limit |-> 4, summarizes |-> TRUE,
     prompts |-> 2, waits |-> TRUE, cancels |-> FALSE, beats |-> 0]
Truncating ==
    [turns |-> 2, retries |-> 0, calls |-> 2, limit |-> 6, summarizes |-> FALSE,
     prompts |-> 2, waits |-> TRUE, cancels |-> TRUE, beats |-> 0]

\* A follow-up that may begin while its predecessor is at work.
Racing ==
    [turns |-> 1, retries |-> 0, calls |-> 1, limit |-> 0, summarizes |-> FALSE,
     prompts |-> 2, waits |-> FALSE, cancels |-> FALSE, beats |-> 0]

\* One prompt with retries, heartbeats and a cancel.
Alone ==
    [turns |-> 2, retries |-> 2, calls |-> 1, limit |-> 0, summarizes |-> FALSE,
     prompts |-> 1, waits |-> TRUE, cancels |-> TRUE, beats |-> 2]

AllSettings == {Summarizing, Truncating, Racing, Alone}
=============================================================================
