------------------------------- MODULE Context -------------------------------
(***************************************************************************)
(* One session of the context manager: SessionContext of                   *)
(* application/context_service/mod.rs and what the methods of              *)
(* InMemoryContextManager (manager.rs) do to it.  A message is what the    *)
(* limits see of it, its token estimate and its size in bytes, with the    *)
(* role and the other fields its users need; the ledger is the sequence of *)
(* the kinds of its entries.                                               *)
(***************************************************************************)
EXTENDS Integers, Sequences, SequencesExt

CONSTANTS MaxMessages,   \* ContextConfig::max_messages
          MaxBytes,      \* ContextConfig::max_bytes
          MaxTokens      \* ContextConfig::max_tokens

ASSUME ContextLimits == MaxMessages \in Nat /\ MaxBytes \in Nat /\ MaxTokens \in Nat

LedgerEntryKind == {"Fact", "Decision", "Constraint", "Summary"}

\* The sum of the first n values of f.
SumTo(f, n) ==
    LET sum[i \in 0..n] == IF i = 0 THEN 0 ELSE sum[i - 1] + f[i]
    IN  sum[n]

NewSession == [messages |-> << >>, ledger |-> << >>, total_tokens |-> 0, total_bytes |-> 0]

SaturatingSub(a, b) == IF a < b THEN 0 ELSE a - b

AfterAddMessage(ctx, m) ==
    [ctx EXCEPT !.messages = Append(@, m),
                !.total_tokens = @ + m.tokens,
                !.total_bytes = @ + m.bytes]

AfterAddLedgerEntry(ctx, kind) == [ctx EXCEPT !.ledger = Append(@, kind)]

\* Ledger::by_kind(): the places of the entries of a kind, which they keep for
\* as long as there is a session.
ByKind(ledger, kind) == {i \in DOMAIN ledger : ledger[i] = kind}

\* The constraints and decisions that build_system_prompt() lists, each in the
\* order of the ledger.
SystemPromptOf(ctx) == [constraints |-> ByKind(ctx.ledger, "Constraint"),
                        decisions |-> ByKind(ctx.ledger, "Decision")]

\* Mutant of AfterTrimFirst: the newest message is dropped.
AfterTrimFirst_DropsNewest(ctx) ==
    LET r == Last(ctx.messages)
    IN  [ctx EXCEPT !.messages = Front(@),
                    !.total_tokens = SaturatingSub(@, r.tokens),
                    !.total_bytes = SaturatingSub(@, r.bytes)]

\* Mutants of AfterTrimFirst: the byte total is not lowered, and the message is
\* not removed.
AfterTrimFirst_KeepsBytes(ctx) ==
    [ctx EXCEPT !.messages = Tail(@),
                !.total_tokens = SaturatingSub(@, Head(ctx.messages).tokens)]

AfterTrimFirst_KeepsMessage(ctx) ==
    LET r == Head(ctx.messages)
    IN  [ctx EXCEPT !.total_tokens = SaturatingSub(@, r.tokens),
                    !.total_bytes = SaturatingSub(@, r.bytes)]

\* trim_first(), of a session that has a message.
AfterTrimFirst(ctx) ==
    LET r == Head(ctx.messages)
    IN  [ctx EXCEPT !.messages = Tail(@),
                    !.total_tokens = SaturatingSub(@, r.tokens),
                    !.total_bytes = SaturatingSub(@, r.bytes)]

\* The conditions of the three loops of trim_context().
OverMessages(ctx) == Len(ctx.messages) > MaxMessages
OverBytes(ctx) == ctx.total_bytes > MaxBytes /\ ctx.messages # << >>
OverTokens(ctx) == ctx.total_tokens > MaxTokens /\ ctx.messages # << >>

\* The session once its n oldest messages are trimmed.
TrimmedBy(ctx, n) ==
    LET after[i \in 0..n] == IF i = 0 THEN ctx ELSE AfterTrimFirst(after[i - 1])
    IN  after[n]

WithinLimits(ctx) == ~OverMessages(ctx) /\ ~OverBytes(ctx) /\ ~OverTokens(ctx)

\* trim_context() as a whole.  A loop cannot make the condition of an earlier
\* one true again, so the three drop messages until no condition holds.
AfterTrim(ctx) ==
    TrimmedBy(ctx, CHOOSE n \in 0..Len(ctx.messages) :
                      /\ WithinLimits(TrimmedBy(ctx, n))
                      /\ \A k \in 0..(n - 1) : ~WithinLimits(TrimmedBy(ctx, k)))

-----------------------------------------------------------------------------
(* What trimming is for, without its loops and totals. *)

TokensOf(messages) == SumTo([i \in DOMAIN messages |-> messages[i].tokens], Len(messages))
BytesOf(messages) == SumTo([i \in DOMAIN messages |-> messages[i].bytes], Len(messages))

Fits(messages) ==
    /\ Len(messages) <= MaxMessages
    /\ BytesOf(messages) <= MaxBytes
    /\ TokensOf(messages) <= MaxTokens

\* The most recent messages that fit, as many of them as do.
LongestFittingSuffix(messages) ==
    CHOOSE s \in Suffixes(messages) :
        Fits(s) /\ \A other \in Suffixes(messages) : Fits(other) => Len(other) <= Len(s)
=============================================================================
