--------------------------- MODULE MCContextManager ---------------------------
(* ContextManager on messages that reach each limit separately. *)
EXTENDS ContextManager

\* A short message, one with many tokens for its bytes, and one that no session
\* can keep; the first and the last are the user's.
MCMessages == {[role |-> "User", tokens |-> 1, bytes |-> 1],
               [role |-> "Assistant", tokens |-> 3, bytes |-> 1],
               [role |-> "User", tokens |-> 1, bytes |-> 9]}
=============================================================================
