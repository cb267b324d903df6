---------------------------- MODULE ContextProofs ----------------------------
(***************************************************************************)
(* Facts about the operators of Context, for any limits and any messages.  *)
(* ContextManagerProofs and OrchestratorProofs cite them.                  *)
(***************************************************************************)
EXTENDS Context, WellFoundedInduction, SequenceTheorems, TLAPS

-----------------------------------------------------------------------------
(* Induction on sets of numbers, from the order being well-founded. *)

LEMMA LeastNatural ==
    ASSUME NEW S, S \subseteq Nat, S # {}
    PROVE  \E n \in S : \A m \in S : n <= m
<1> DEFINE R == {ss \in Nat \X Nat : ss[1] < ss[2]}
<1>1. R = OpToRel(<, Nat)
  BY DEF OpToRel
<1>2. IsWellFoundedOn(R, Nat)
  BY <1>1, NatLessThanWellFounded, Zenon
<1> HIDE DEF R
<1>3. PICK n \in S : \A m \in S : <<m, n>> \notin R
  BY <1>2, WFMin
<1>4. \A m \in S : m \in Nat /\ n \in Nat /\ ~(m < n)
  BY <1>3 DEF R
<1>5. QED
  BY <1>4

LEMMA NaturalInduction ==
    ASSUME NEW S, 0 \in S, \A n \in Nat : n \in S => n + 1 \in S
    PROVE  Nat \subseteq S
<1> DEFINE T == Nat \ S
<1> SUFFICES ASSUME T # {} PROVE FALSE
  OBVIOUS
<1>1. PICK n \in T : \A m \in T : n <= m
  BY LeastNatural
<1>2. n \in Nat /\ n # 0 /\ n \notin S
  BY <1>1
<1>3. n - 1 \in Nat /\ n - 1 \notin T
  BY <1>1, <1>2
<1>4. QED
  BY <1>2, <1>3

-----------------------------------------------------------------------------
(* Sums. *)

\* s is the function that SumTo(f, n) chooses.
IsSum(s, f, n) == s = [i \in 0..n |-> IF i = 0 THEN 0 ELSE s[i - 1] + f[i]]

LEMMA SumExists == ASSUME NEW f, NEW n \in Nat PROVE \E s : IsSum(s, f, n)
<1> DEFINE S == {m \in Nat : \E s : IsSum(s, f, m)}
<1>1. 0 \in S
  <2> DEFINE s == [i \in 0..0 |-> 0]
  <2>1. IsSum(s, f, 0)
    BY DEF IsSum
  <2>2. QED
    BY <2>1
<1>2. ASSUME NEW m \in Nat, m \in S PROVE m + 1 \in S
  <2>1. PICK s : IsSum(s, f, m)
    BY <1>2
  <2> DEFINE t == [i \in 0..(m + 1) |-> IF i = m + 1 THEN s[m] + f[m + 1] ELSE s[i]]
             u == [i \in 0..(m + 1) |-> IF i = 0 THEN 0 ELSE t[i - 1] + f[i]]
  <2>2. ASSUME NEW i \in 0..(m + 1) PROVE t[i] = u[i]
    <3>1. CASE i = m + 1
      BY <3>1
    <3>2. CASE i # m + 1
      <4>1. i \in 0..m /\ (i # 0 => i - 1 \in 0..m /\ i - 1 # m + 1)
        BY <3>2
      <4>2. s[i] = IF i = 0 THEN 0 ELSE s[i - 1] + f[i]
        BY <2>1, <4>1 DEF IsSum
      <4>3. QED
        BY <3>2, <4>1, <4>2
    <3>3. QED
      BY <3>1, <3>2
  <2>3. t = u
    BY <2>2
  <2>4. IsSum(t, f, m + 1)
    BY <2>3 DEF IsSum
  <2> HIDE DEF t
  <2>5. QED
    BY <2>4
<1> HIDE DEF S
<1>3. Nat \subseteq S
  BY <1>1, <1>2, NaturalInduction
<1>4. QED
  BY <1>3 DEF S

LEMMA SumIsSum ==
    ASSUME NEW f, NEW n \in Nat
    PROVE  \E s : IsSum(s, f, n) /\ SumTo(f, n) = s[n]
<1> DEFINE s == CHOOSE t : IsSum(t, f, n)
<1>1. IsSum(s, f, n)
  BY SumExists
<1>2. SumTo(f, n) = s[n]
  BY DEF SumTo, IsSum
<1>3. QED
  BY <1>1, <1>2

\* Two sums of the same numbers agree as far as both go.
LEMMA SumsAgree ==
    ASSUME NEW f, NEW g, NEW s, NEW t, NEW m \in Nat, NEW n \in Nat, NEW k \in Nat,
           IsSum(s, f, m), IsSum(t, g, n), k <= m, k <= n, \A i \in 1..k : f[i] = g[i]
    PROVE  s[k] = t[k]
<1> DEFINE S == {i \in Nat : i <= k => s[i] = t[i]}
<1>1. 0 \in S
  BY DEF IsSum
<1>2. ASSUME NEW i \in Nat, i \in S PROVE i + 1 \in S
  <2> SUFFICES ASSUME i + 1 <= k PROVE s[i + 1] = t[i + 1]
    OBVIOUS
  <2>1. i + 1 \in 1..k /\ i + 1 \in 0..m /\ i + 1 \in 0..n /\ i + 1 # 0 /\ (i + 1) - 1 = i
    OBVIOUS
  <2>2. s[i + 1] = s[i] + f[i + 1] /\ t[i + 1] = t[i] + g[i + 1]
    BY <2>1 DEF IsSum
  <2>3. QED
    BY <1>2, <2>1, <2>2
<1> HIDE DEF S
<1>3. k \in S
  BY <1>1, <1>2, NaturalInduction
<1>4. QED
  BY <1>3 DEF S

LEMMA SumOfEqual ==
    ASSUME NEW f, NEW g, NEW n \in Nat, \A i \in 1..n : f[i] = g[i]
    PROVE  SumTo(f, n) = SumTo(g, n)
BY SumIsSum, SumsAgree

LEMMA SumStep ==
    ASSUME NEW f
    PROVE  SumTo(f, 0) = 0 /\ \A n \in Nat : SumTo(f, n + 1) = SumTo(f, n) + f[n + 1]
<1>1. SumTo(f, 0) = 0
  BY SumIsSum DEF IsSum
<1>2. ASSUME NEW n \in Nat PROVE SumTo(f, n + 1) = SumTo(f, n) + f[n + 1]
  <2>1. PICK s : IsSum(s, f, n) /\ SumTo(f, n) = s[n]
    BY SumIsSum
  <2>2. PICK t : IsSum(t, f, n + 1) /\ SumTo(f, n + 1) = t[n + 1]
    BY SumIsSum
  <2>3. s[n] = t[n]
    BY <2>1, <2>2, SumsAgree
  <2>4. t[n + 1] = t[n] + f[n + 1]
    BY <2>2 DEF IsSum
  <2>5. QED
    BY <2>1, <2>2, <2>3, <2>4
<1>3. QED
  BY <1>1, <1>2

LEMMA SumIsNat ==
    ASSUME NEW f, NEW n \in Nat, \A i \in 1..n : f[i] \in Nat
    PROVE  SumTo(f, n) \in Nat
<1> DEFINE S == {i \in Nat : i <= n => SumTo(f, i) \in Nat}
<1>1. 0 \in S
  BY SumStep
<1>2. ASSUME NEW i \in Nat, i \in S PROVE i + 1 \in S
  <2> SUFFICES ASSUME i + 1 <= n PROVE SumTo(f, i + 1) \in Nat
    OBVIOUS
  <2>1. i + 1 \in 1..n /\ SumTo(f, i) \in Nat
    BY <1>2
  <2>2. QED
    BY <2>1, SumStep
<1> HIDE DEF S
<1>3. n \in S
  BY <1>1, <1>2, NaturalInduction
<1>4. QED
  BY <1>3 DEF S

\* A sum without its first number.
LEMMA SumShift ==
    ASSUME NEW f, NEW g, NEW n \in Nat, \A i \in 1..(n + 1) : f[i] \in Nat,
           \A i \in 1..n : g[i] = f[i + 1]
    PROVE  SumTo(f, n + 1) = f[1] + SumTo(g, n)
<1> DEFINE S == {i \in Nat : i <= n => SumTo(f, i + 1) = f[1] + SumTo(g, i)}
<1>1. 0 \in S
  <2>1. SumTo(f, 0 + 1) = SumTo(f, 0) + f[0 + 1] /\ SumTo(f, 0) = 0 /\ SumTo(g, 0) = 0
    BY SumStep
  <2>2. f[1] \in Nat
    OBVIOUS
  <2>3. QED
    BY <2>1, <2>2
<1>2. ASSUME NEW i \in Nat, i \in S PROVE i + 1 \in S
  <2> SUFFICES ASSUME i + 1 <= n PROVE SumTo(f, (i + 1) + 1) = f[1] + SumTo(g, i + 1)
    OBVIOUS
  <2>1. SumTo(f, i + 1) = f[1] + SumTo(g, i)
    BY <1>2
  <2>2. g[i + 1] = f[(i + 1) + 1] /\ f[(i + 1) + 1] \in Nat /\ f[1] \in Nat
    OBVIOUS
  <2>3. \A j \in 1..i : g[j] \in Nat
    OBVIOUS
  <2>4. SumTo(g, i) \in Nat
    BY <2>3, SumIsNat
  <2>5. /\ SumTo(f, (i + 1) + 1) = SumTo(f, i + 1) + f[(i + 1) + 1]
        /\ SumTo(g, i + 1) = SumTo(g, i) + g[i + 1]
    BY SumStep
  <2>6. QED
    BY <2>1, <2>2, <2>4, <2>5
<1> HIDE DEF S
<1>3. n \in S
  BY <1>1, <1>2, NaturalInduction
<1>4. QED
  BY <1>3 DEF S

-----------------------------------------------------------------------------
(* Sequences of messages. *)

\* Messages with the sizes that the limits are about.
Sized(M) == \A m \in M : m.tokens \in Nat /\ m.bytes \in Nat

\* What is left once the n oldest messages are gone.
Rest(messages, n) == SubSeq(messages, n + 1, Len(messages))

LEMMA Elements ==
    ASSUME NEW M, NEW ms \in Seq(M)
    PROVE  /\ Len(ms) \in Nat /\ DOMAIN ms = 1..Len(ms)
           /\ \A i \in 1..Len(ms) : ms[i] \in M
OBVIOUS

LEMMA RestType ==
    ASSUME NEW M, NEW ms \in Seq(M), NEW n \in 0..Len(ms)
    PROVE  /\ Rest(ms, n) \in Seq(M)
           /\ Len(Rest(ms, n)) = Len(ms) - n
           /\ \A i \in 1..(Len(ms) - n) : Rest(ms, n)[i] = ms[n + i]
BY DEF Rest

LEMMA RestOfNone == ASSUME NEW M, NEW ms \in Seq(M) PROVE Rest(ms, 0) = ms
BY DEF Rest

LEMMA RestOfAll == ASSUME NEW M, NEW ms \in Seq(M) PROVE Rest(ms, Len(ms)) = << >>
BY DEF Rest

LEMMA RestStep ==
    ASSUME NEW M, NEW ms \in Seq(M), NEW n \in Nat, n < Len(ms)
    PROVE  /\ Rest(ms, n) # << >>
           /\ Head(Rest(ms, n)) = ms[n + 1]
           /\ Tail(Rest(ms, n)) = Rest(ms, n + 1)
<1>1. /\ Rest(ms, n) \in Seq(M) /\ Len(Rest(ms, n)) = Len(ms) - n
      /\ \A i \in 1..(Len(ms) - n) : Rest(ms, n)[i] = ms[n + i]
  BY RestType
<1>2. /\ Rest(ms, n + 1) \in Seq(M) /\ Len(Rest(ms, n + 1)) = Len(ms) - (n + 1)
      /\ \A i \in 1..(Len(ms) - (n + 1)) : Rest(ms, n + 1)[i] = ms[(n + 1) + i]
  BY RestType
<1> DEFINE r == Rest(ms, n)
<1> HIDE DEF r
<1>3. r # << >> /\ Head(r) = ms[n + 1]
  BY <1>1 DEF r
<1>4. /\ Tail(r) \in Seq(M) /\ Len(Tail(r)) = Len(r) - 1
      /\ \A i \in 1..(Len(r) - 1) : Tail(r)[i] = r[i + 1]
  BY <1>1, <1>3 DEF r
<1>5. Len(Tail(r)) = Len(Rest(ms, n + 1))
      /\ \A i \in 1..Len(Tail(r)) : Tail(r)[i] = Rest(ms, n + 1)[i]
  <2>1. Len(r) = Len(ms) - n /\ \A i \in 1..(Len(ms) - n) : r[i] = ms[n + i]
    BY <1>1 DEF r
  <2>2. Len(ms) \in Nat
    OBVIOUS
  <2>3. Len(Tail(r)) = Len(ms) - (n + 1)
    BY <1>4, <2>1, <2>2
  <2>4. ASSUME NEW i \in 1..(Len(ms) - (n + 1))
        PROVE  Tail(r)[i] = Rest(ms, n + 1)[i]
    <3>1. i \in 1..(Len(r) - 1) /\ i + 1 \in 1..(Len(ms) - n) /\ n + (i + 1) = (n + 1) + i
      BY <2>1, <2>2
    <3>2. QED
      BY <1>2, <1>4, <2>1, <3>1
  <2>5. QED
    BY <1>2, <2>3, <2>4
<1>6. Tail(r) = Rest(ms, n + 1)
  BY <1>2, <1>4, <1>5, SeqEqual
<1>7. QED
  BY <1>3, <1>6 DEF r

LEMMA TotalsOfNone == TokensOf(<< >>) = 0 /\ BytesOf(<< >>) = 0
BY SumStep DEF TokensOf, BytesOf

LEMMA TotalsAreNat ==
    ASSUME NEW M, Sized(M), NEW ms \in Seq(M)
    PROVE  TokensOf(ms) \in Nat /\ BytesOf(ms) \in Nat
<1> DEFINE f == [i \in DOMAIN ms |-> ms[i].tokens]
           g == [i \in DOMAIN ms |-> ms[i].bytes]
<1>1. Len(ms) \in Nat /\ \A i \in 1..Len(ms) : f[i] \in Nat /\ g[i] \in Nat
  BY DEF Sized
<1> HIDE DEF f, g
<1>2. SumTo(f, Len(ms)) \in Nat /\ SumTo(g, Len(ms)) \in Nat
  BY <1>1, SumIsNat
<1>3. QED
  BY <1>2 DEF f, g, TokensOf, BytesOf

\* A message adds its sizes to the sums.
LEMMA TotalsOfAppend ==
    ASSUME NEW M, Sized(M), NEW ms \in Seq(M), NEW m \in M
    PROVE  /\ TokensOf(Append(ms, m)) = TokensOf(ms) + m.tokens
           /\ BytesOf(Append(ms, m)) = BytesOf(ms) + m.bytes
<1> DEFINE n == Len(ms)
           all == Append(ms, m)
           f == [i \in DOMAIN ms |-> ms[i].tokens]
           fm == [i \in DOMAIN all |-> all[i].tokens]
           g == [i \in DOMAIN ms |-> ms[i].bytes]
           gm == [i \in DOMAIN all |-> all[i].bytes]
<1>1. /\ n \in Nat /\ Len(all) = n + 1 /\ DOMAIN ms = 1..n /\ DOMAIN all = 1..(n + 1)
      /\ all[n + 1] = m /\ \A i \in 1..n : all[i] = ms[i]
  OBVIOUS
<1> HIDE DEF n, all
<1>2. /\ \A i \in 1..n : f[i] = fm[i] /\ g[i] = gm[i]
      /\ fm[n + 1] = m.tokens /\ gm[n + 1] = m.bytes
  BY <1>1
<1> HIDE DEF f, g, fm, gm
<1>3. SumTo(f, n) = SumTo(fm, n) /\ SumTo(g, n) = SumTo(gm, n)
  BY <1>1, <1>2, SumOfEqual
<1>4. /\ SumTo(fm, n + 1) = SumTo(fm, n) + fm[n + 1]
      /\ SumTo(gm, n + 1) = SumTo(gm, n) + gm[n + 1]
  BY <1>1, SumStep
<1>5. /\ TokensOf(ms) = SumTo(f, n) /\ TokensOf(all) = SumTo(fm, n + 1)
      /\ BytesOf(ms) = SumTo(g, n) /\ BytesOf(all) = SumTo(gm, n + 1)
  BY <1>1 DEF TokensOf, BytesOf, f, g, fm, gm, n
<1>6. QED
  BY <1>2, <1>3, <1>4, <1>5 DEF all

\* The oldest message takes its sizes off the sums, which are never less.
LEMMA TotalsOfTail ==
    ASSUME NEW M, Sized(M), NEW ms \in Seq(M), ms # << >>
    PROVE  /\ TokensOf(ms) = Head(ms).tokens + TokensOf(Tail(ms))
           /\ BytesOf(ms) = Head(ms).bytes + BytesOf(Tail(ms))
<1> DEFINE n == Len(ms) - 1
           rest == Tail(ms)
           f == [i \in DOMAIN ms |-> ms[i].tokens]
           fr == [i \in DOMAIN rest |-> rest[i].tokens]
           g == [i \in DOMAIN ms |-> ms[i].bytes]
           gr == [i \in DOMAIN rest |-> rest[i].bytes]
<1>1. /\ n \in Nat /\ Len(ms) = n + 1 /\ Len(rest) = n
      /\ DOMAIN ms = 1..(n + 1) /\ DOMAIN rest = 1..n
      /\ Head(ms) = ms[1] /\ \A i \in 1..n : rest[i] = ms[i + 1]
      /\ \A i \in 1..(n + 1) : ms[i].tokens \in Nat /\ ms[i].bytes \in Nat
  BY DEF Sized
<1> HIDE DEF n, rest
<1>2. /\ \A i \in 1..n : fr[i] = f[i + 1] /\ gr[i] = g[i + 1]
      /\ \A i \in 1..(n + 1) : f[i] \in Nat /\ g[i] \in Nat
      /\ f[1] = Head(ms).tokens /\ g[1] = Head(ms).bytes
  BY <1>1
<1> HIDE DEF f, g, fr, gr
<1>3. SumTo(f, n + 1) = f[1] + SumTo(fr, n) /\ SumTo(g, n + 1) = g[1] + SumTo(gr, n)
  BY <1>1, <1>2, SumShift
<1>4. /\ TokensOf(ms) = SumTo(f, n + 1) /\ TokensOf(rest) = SumTo(fr, n)
      /\ BytesOf(ms) = SumTo(g, n + 1) /\ BytesOf(rest) = SumTo(gr, n)
  BY <1>1 DEF TokensOf, BytesOf, f, g, fr, gr
<1>5. QED
  BY <1>2, <1>3, <1>4 DEF rest

-----------------------------------------------------------------------------
(* Sessions. *)

SessionOf(M) == [messages: Seq(M), ledger: Seq(LedgerEntryKind),
                 total_tokens: Nat, total_bytes: Nat]

\* A session of messages of M whose totals are the sums.
SessionOK(ctx, M) ==
    /\ ctx \in SessionOf(M)
    /\ ctx.total_tokens = TokensOf(ctx.messages)
    /\ ctx.total_bytes = BytesOf(ctx.messages)

LEMMA NewSessionOK == ASSUME NEW M PROVE SessionOK(NewSession, M)
BY TotalsOfNone DEF SessionOK, SessionOf, NewSession

LEMMA SessionUpdate ==
    ASSUME NEW M, NEW ctx \in SessionOf(M), NEW ms, NEW t, NEW b
    PROVE  [ctx EXCEPT !.messages = ms, !.total_tokens = t, !.total_bytes = b]
           = [messages |-> ms, ledger |-> ctx.ledger, total_tokens |-> t, total_bytes |-> b]
<1> DEFINE c1 == [ctx EXCEPT !.messages = ms]
           c2 == [c1 EXCEPT !.total_tokens = t]
           c3 == [c2 EXCEPT !.total_bytes = b]
<1>1. ctx = [messages |-> ctx.messages, ledger |-> ctx.ledger,
             total_tokens |-> ctx.total_tokens, total_bytes |-> ctx.total_bytes]
  BY DEF SessionOf
<1>2. c1 = [messages |-> ms, ledger |-> ctx.ledger,
            total_tokens |-> ctx.total_tokens, total_bytes |-> ctx.total_bytes]
  BY <1>1
<1> HIDE DEF c1
<1>3. c2 = [messages |-> ms, ledger |-> ctx.ledger,
            total_tokens |-> t, total_bytes |-> ctx.total_bytes]
  BY <1>2
<1> HIDE DEF c2
<1>4. c3 = [messages |-> ms, ledger |-> ctx.ledger, total_tokens |-> t, total_bytes |-> b]
  BY <1>3
<1> HIDE DEF c3
<1>5. [ctx EXCEPT !.messages = ms, !.total_tokens = t, !.total_bytes = b] = c3
  BY Zenon DEF c1, c2, c3
<1>6. QED
  BY <1>4, <1>5

LEMMA AddMessageOK ==
    ASSUME NEW M, Sized(M), NEW ctx, SessionOK(ctx, M), NEW m \in M
    PROVE  LET d == AfterAddMessage(ctx, m)
           IN  SessionOK(d, M) /\ d.messages = Append(ctx.messages, m) /\ d.ledger = ctx.ledger
<1> DEFINE d == AfterAddMessage(ctx, m)
<1>1. /\ ctx.messages \in Seq(M) /\ m.tokens \in Nat /\ m.bytes \in Nat
      /\ Append(ctx.messages, m) \in Seq(M)
  BY DEF SessionOK, SessionOf, Sized
<1>2. d \in SessionOf(M) /\ d.messages = Append(ctx.messages, m) /\ d.ledger = ctx.ledger
      /\ d.total_tokens = ctx.total_tokens + m.tokens
      /\ d.total_bytes = ctx.total_bytes + m.bytes
  <2> DEFINE ms == Append(ctx.messages, m)
             t == ctx.total_tokens + m.tokens
             b == ctx.total_bytes + m.bytes
  <2>1. d = [ctx EXCEPT !.messages = ms, !.total_tokens = t, !.total_bytes = b]
    BY DEF AfterAddMessage
  <2>2. ctx \in SessionOf(M) /\ ctx.ledger \in Seq(LedgerEntryKind) /\ t \in Nat /\ b \in Nat
    BY <1>1 DEF SessionOK, SessionOf
  <2>3. ms \in Seq(M)
    BY <1>1
  <2> HIDE DEF d, ms, t, b
  <2>4. d = [messages |-> ms, ledger |-> ctx.ledger, total_tokens |-> t, total_bytes |-> b]
    BY <2>1, <2>2, SessionUpdate
  <2>5. d \in SessionOf(M) /\ d.messages = ms /\ d.ledger = ctx.ledger /\ d.total_tokens = t /\ d.total_bytes = b
    BY <2>2, <2>3, <2>4 DEF SessionOf
  <2>6. QED
    BY <2>5 DEF ms, t, b
<1> HIDE DEF d
<1>3. SessionOK(d, M)
  BY <1>1, <1>2, TotalsOfAppend DEF SessionOK
<1>4. QED
  BY <1>2, <1>3 DEF d

LEMMA AddEntryOK ==
    ASSUME NEW M, NEW ctx, SessionOK(ctx, M), NEW kind \in LedgerEntryKind
    PROVE  LET d == AfterAddLedgerEntry(ctx, kind)
           IN  /\ SessionOK(d, M) /\ d.messages = ctx.messages
               /\ \A k : ByKind(ctx.ledger, k) \subseteq ByKind(d.ledger, k)
<1> DEFINE d == AfterAddLedgerEntry(ctx, kind)
           l == Append(ctx.ledger, kind)
<1>1. /\ ctx.ledger \in Seq(LedgerEntryKind) /\ l \in Seq(LedgerEntryKind)
      /\ DOMAIN ctx.ledger \subseteq DOMAIN l
      /\ \A i \in DOMAIN ctx.ledger : l[i] = ctx.ledger[i]
  BY DEF SessionOK, SessionOf
<1>2. d = [ctx EXCEPT !.ledger = l]
  BY DEF AfterAddLedgerEntry
<1> HIDE DEF d, l
<1>3. d \in SessionOf(M) /\ d.messages = ctx.messages /\ d.ledger = l
      /\ d.total_tokens = ctx.total_tokens /\ d.total_bytes = ctx.total_bytes
  BY <1>1, <1>2 DEF SessionOK, SessionOf
<1>4. SessionOK(d, M)
  BY <1>3 DEF SessionOK
<1>5. \A k : ByKind(ctx.ledger, k) \subseteq ByKind(l, k)
  BY <1>1 DEF ByKind
<1>6. QED
  BY <1>3, <1>4, <1>5 DEF d

\* The session once its n oldest messages are gone, without the steps there.
Remainder(ctx, n) ==
    LET ms == Rest(ctx.messages, n)
    IN  [messages |-> ms, ledger |-> ctx.ledger,
         total_tokens |-> TokensOf(ms), total_bytes |-> BytesOf(ms)]

LEMMA RemainderOK ==
    ASSUME NEW M, Sized(M), NEW ctx, SessionOK(ctx, M), NEW n \in 0..Len(ctx.messages)
    PROVE  /\ SessionOK(Remainder(ctx, n), M)
           /\ Remainder(ctx, n).messages = Rest(ctx.messages, n)
           /\ Remainder(ctx, n).ledger = ctx.ledger
<1> DEFINE ms == Rest(ctx.messages, n)
<1>1. ms \in Seq(M)
  BY RestType DEF SessionOK, SessionOf
<1>2. TokensOf(ms) \in Nat /\ BytesOf(ms) \in Nat
  BY <1>1, TotalsAreNat
<1> HIDE DEF ms
<1>3. Remainder(ctx, n) = [messages |-> ms, ledger |-> ctx.ledger,
                           total_tokens |-> TokensOf(ms), total_bytes |-> BytesOf(ms)]
  BY DEF Remainder, ms
<1>4. QED
  BY <1>1, <1>2, <1>3 DEF SessionOK, SessionOf, ms

LEMMA RemainderOfNone ==
    ASSUME NEW M, NEW ctx, SessionOK(ctx, M)
    PROVE  Remainder(ctx, 0) = ctx
<1>1. Rest(ctx.messages, 0) = ctx.messages
  BY RestOfNone DEF SessionOK, SessionOf
<1>2. ctx = [messages |-> ctx.messages, ledger |-> ctx.ledger,
             total_tokens |-> ctx.total_tokens, total_bytes |-> ctx.total_bytes]
  BY DEF SessionOK, SessionOf
<1>3. QED
  BY <1>1, <1>2 DEF Remainder, SessionOK

\* trim_first() takes the oldest message and its sizes, and its subtractions do
\* not saturate.
LEMMA TrimFirstStep ==
    ASSUME NEW M, Sized(M), NEW ctx, SessionOK(ctx, M), NEW n \in Nat, n < Len(ctx.messages)
    PROVE  AfterTrimFirst(Remainder(ctx, n)) = Remainder(ctx, n + 1)
<1> DEFINE ms == Rest(ctx.messages, n)
           rest == Rest(ctx.messages, n + 1)
           c == Remainder(ctx, n)
           d == AfterTrimFirst(c)
<1>1. ctx.messages \in Seq(M)
  BY DEF SessionOK, SessionOf
<1>2. ms \in Seq(M) /\ rest \in Seq(M)
  BY <1>1, RestType
<1>3. ms # << >> /\ Tail(ms) = rest /\ Head(ms) \in M
  <2>1. ms # << >> /\ Tail(ms) = rest
    BY <1>1, RestStep
  <2>2. QED
    BY <1>2, <2>1
<1>4. c = [messages |-> ms, ledger |-> ctx.ledger,
           total_tokens |-> TokensOf(ms), total_bytes |-> BytesOf(ms)]
  BY DEF Remainder
<1>5. /\ TokensOf(ms) = Head(ms).tokens + TokensOf(rest)
      /\ BytesOf(ms) = Head(ms).bytes + BytesOf(rest)
  BY <1>2, <1>3, TotalsOfTail
<1>6. TokensOf(rest) \in Nat /\ BytesOf(rest) \in Nat
  BY <1>2, TotalsAreNat
<1> HIDE DEF ms, rest, c
<1>7. Head(ms).tokens \in Nat /\ Head(ms).bytes \in Nat
  BY <1>3 DEF Sized
<1>8. /\ SaturatingSub(TokensOf(ms), Head(ms).tokens) = TokensOf(rest)
      /\ SaturatingSub(BytesOf(ms), Head(ms).bytes) = BytesOf(rest)
  BY <1>5, <1>6, <1>7 DEF SaturatingSub
<1>9. d = [messages |-> Tail(ms), ledger |-> ctx.ledger,
           total_tokens |-> SaturatingSub(TokensOf(ms), Head(ms).tokens),
           total_bytes |-> SaturatingSub(BytesOf(ms), Head(ms).bytes)]
  <2> DEFINE t == SaturatingSub(TokensOf(ms), Head(ms).tokens)
             b == SaturatingSub(BytesOf(ms), Head(ms).bytes)
             tail == Tail(ms)
  <2>1. c \in SessionOf(M) /\ c.ledger = ctx.ledger
    BY <1>2, <1>4, <1>5, <1>6, <1>7 DEF SessionOf, SessionOK
  <2>2. /\ c.messages = ms
        /\ c.total_tokens = TokensOf(ms) /\ c.total_bytes = BytesOf(ms)
    BY <1>4
  <2>3. d = [c EXCEPT !.messages = Tail(c.messages),
                      !.total_tokens = SaturatingSub(c.total_tokens, Head(c.messages).tokens),
                      !.total_bytes = SaturatingSub(c.total_bytes, Head(c.messages).bytes)]
    BY DEF AfterTrimFirst
  <2>4. d = [c EXCEPT !.messages = tail, !.total_tokens = t, !.total_bytes = b]
    BY <2>2, <2>3, Zenon
  <2> HIDE DEF d, t, b, tail
  <2>5. d = [messages |-> tail, ledger |-> c.ledger, total_tokens |-> t, total_bytes |-> b]
    BY <2>1, <2>4, SessionUpdate
  <2>6. QED
    BY <2>1, <2>5 DEF t, b, tail
<1>10. Remainder(ctx, n + 1) = [messages |-> rest, ledger |-> ctx.ledger,
                                total_tokens |-> TokensOf(rest), total_bytes |-> BytesOf(rest)]
  BY DEF Remainder, rest
<1>11. d = Remainder(ctx, n + 1)
  BY <1>3, <1>8, <1>9, <1>10
<1>12. QED
  BY <1>11 DEF c

-----------------------------------------------------------------------------
(* The trim. *)

\* after is the function that TrimmedBy(ctx, n) chooses.
IsTrim(after, ctx, n) ==
    after = [i \in 0..n |-> IF i = 0 THEN ctx ELSE AfterTrimFirst(after[i - 1])]

LEMMA TrimmedByIsRemainder ==
    ASSUME NEW M, Sized(M), NEW ctx, SessionOK(ctx, M), NEW n \in 0..Len(ctx.messages)
    PROVE  TrimmedBy(ctx, n) = Remainder(ctx, n)
<1> DEFINE g == [i \in 0..n |-> Remainder(ctx, i)]
           h == [i \in 0..n |-> IF i = 0 THEN ctx ELSE AfterTrimFirst(g[i - 1])]
           after == CHOOSE f : IsTrim(f, ctx, n)
           S == {i \in Nat : i <= n => after[i] = Remainder(ctx, i)}
<1>1. Len(ctx.messages) \in Nat
  BY DEF SessionOK, SessionOf
<1>2. Remainder(ctx, 0) = ctx
  BY RemainderOfNone
<1>3. ASSUME NEW i \in Nat, i < n
      PROVE  AfterTrimFirst(Remainder(ctx, i)) = Remainder(ctx, i + 1)
  <2>1. i < Len(ctx.messages)
    BY <1>1, <1>3
  <2>2. QED
    BY <2>1, TrimFirstStep
<1>4. g = h
  <2>1. ASSUME NEW i \in 0..n PROVE g[i] = h[i]
    <3>1. CASE i = 0
      BY <1>2, <3>1
    <3>2. CASE i # 0
      <4>1. i - 1 \in 0..n /\ i - 1 \in Nat /\ i - 1 < n /\ (i - 1) + 1 = i
        BY <3>2
      <4>2. QED
        BY <1>3, <3>2, <4>1
    <3>3. QED
      BY <3>1, <3>2
  <2>2. QED
    BY <2>1
<1>5. IsTrim(g, ctx, n)
  BY <1>4 DEF IsTrim
<1> HIDE DEF g
<1>6. IsTrim(after, ctx, n)
  BY <1>5
<1>7. TrimmedBy(ctx, n) = after[n]
  BY DEF TrimmedBy, IsTrim
<1> HIDE DEF after
<1>8. 0 \in S
  BY <1>1, <1>2, <1>6 DEF IsTrim
<1>9. ASSUME NEW i \in Nat, i \in S PROVE i + 1 \in S
  <2> SUFFICES ASSUME i + 1 <= n PROVE after[i + 1] = Remainder(ctx, i + 1)
    OBVIOUS
  <2>1. i + 1 \in 0..n /\ i + 1 # 0 /\ (i + 1) - 1 = i /\ i < n /\ after[i] = Remainder(ctx, i)
    BY <1>1, <1>9
  <2>2. after[i + 1] = AfterTrimFirst(after[i])
    BY <1>6, <2>1 DEF IsTrim
  <2>3. QED
    BY <1>3, <2>1, <2>2
<1> HIDE DEF S
<1>10. n \in S
  BY <1>8, <1>9, NaturalInduction
<1>11. QED
  BY <1>7, <1>10 DEF S

\* The loops' conditions, on a session whose totals are the sums, say whether
\* its messages fit.
LEMMA LimitsAreFits ==
    ASSUME NEW M, Sized(M), NEW ctx, SessionOK(ctx, M)
    PROVE  WithinLimits(ctx) <=> Fits(ctx.messages)
<1>1. ctx.messages \in Seq(M) /\ Len(ctx.messages) \in Nat
  BY DEF SessionOK, SessionOf
<1>2. TokensOf(ctx.messages) \in Nat /\ BytesOf(ctx.messages) \in Nat
  BY <1>1, TotalsAreNat
<1>3. CASE ctx.messages = << >>
  <2>1. Fits(ctx.messages)
    BY <1>3, TotalsOfNone, ContextLimits DEF Fits
  <2>2. WithinLimits(ctx)
    BY <1>3, ContextLimits DEF WithinLimits, OverMessages, OverBytes, OverTokens
  <2>3. QED
    BY <2>1, <2>2
<1>4. CASE ctx.messages # << >>
  BY <1>1, <1>2, <1>4, ContextLimits
     DEF SessionOK, WithinLimits, OverMessages, OverBytes, OverTokens, Fits
<1>5. QED
  BY <1>3, <1>4

LEMMA NothingFits == Fits(<< >>)
BY TotalsOfNone, ContextLimits DEF Fits

\* n is the least number of messages that must go.
LeastTrim(ms, n) ==
    /\ n \in 0..Len(ms)
    /\ Fits(Rest(ms, n))
    /\ \A k \in 0..(n - 1) : ~Fits(Rest(ms, k))

LEMMA LeastTrimExists ==
    ASSUME NEW M, NEW ms \in Seq(M)
    PROVE  \E n : LeastTrim(ms, n)
<1> DEFINE S == {n \in 0..Len(ms) : Fits(Rest(ms, n))}
<1>1. Len(ms) \in S
  BY RestOfAll, NothingFits
<1>2. S \subseteq Nat /\ S # {}
  BY <1>1
<1>3. PICK n \in S : \A m \in S : n <= m
  BY <1>2, LeastNatural
<1>4. ASSUME NEW k \in 0..(n - 1) PROVE ~Fits(Rest(ms, k))
  <2>1. n \in Nat /\ Len(ms) \in Nat /\ n <= Len(ms)
    BY <1>3
  <2>2. k \in 0..Len(ms) /\ ~(n <= k)
    BY <2>1
  <2>3. k \notin S
    BY <1>3, <2>2
  <2>4. QED
    BY <2>2, <2>3
<1>5. QED
  BY <1>3, <1>4 DEF LeastTrim

LEMMA LeastTrimUnique ==
    ASSUME NEW M, NEW ms \in Seq(M), NEW m, NEW n, LeastTrim(ms, m), LeastTrim(ms, n)
    PROVE  m = n
<1>1. m \in Nat /\ n \in Nat
  BY DEF LeastTrim
<1>2. ~(m < n) /\ ~(n < m)
  BY <1>1 DEF LeastTrim
<1>3. QED
  BY <1>1, <1>2

\* trim_context() drops the least number of messages that must go and nothing
\* else, and leaves the totals right.
LEMMA AfterTrimIsLeast ==
    ASSUME NEW M, Sized(M), NEW ctx, SessionOK(ctx, M), NEW n, LeastTrim(ctx.messages, n)
    PROVE  AfterTrim(ctx) = Remainder(ctx, n)
<1> DEFINE ms == ctx.messages
           P(k) == /\ WithinLimits(TrimmedBy(ctx, k))
                   /\ \A i \in 0..(k - 1) : ~WithinLimits(TrimmedBy(ctx, i))
<1>1. ms \in Seq(M) /\ Len(ms) \in Nat
  BY DEF SessionOK, SessionOf
<1>2. ASSUME NEW k \in 0..Len(ms) PROVE WithinLimits(TrimmedBy(ctx, k)) <=> Fits(Rest(ms, k))
  <2>1. TrimmedBy(ctx, k) = Remainder(ctx, k)
    BY TrimmedByIsRemainder
  <2>2. SessionOK(Remainder(ctx, k), M) /\ Remainder(ctx, k).messages = Rest(ms, k)
    BY RemainderOK
  <2>3. QED
    BY <2>1, <2>2, LimitsAreFits
<1>3. ASSUME NEW k \in 0..Len(ms) PROVE P(k) <=> LeastTrim(ms, k)
  <2>1. \A i \in 0..(k - 1) : i \in 0..Len(ms)
    BY <1>1
  <2>2. QED
    BY <1>2, <2>1 DEF LeastTrim
<1> HIDE DEF P
<1>4. n \in 0..Len(ms) /\ P(n)
  BY <1>3 DEF LeastTrim
<1> DEFINE c == CHOOSE k \in 0..Len(ms) : P(k)
<1>5. c \in 0..Len(ms) /\ P(c)
  BY <1>4
<1>6. AfterTrim(ctx) = TrimmedBy(ctx, c)
  BY DEF AfterTrim, P
<1> HIDE DEF c
<1>7. LeastTrim(ms, c)
  BY <1>3, <1>5
<1>8. c = n
  BY <1>1, <1>7, LeastTrimUnique
<1>9. QED
  BY <1>4, <1>6, <1>8, TrimmedByIsRemainder

LEMMA AfterTrimOK ==
    ASSUME NEW M, Sized(M), NEW ctx, SessionOK(ctx, M)
    PROVE  /\ SessionOK(AfterTrim(ctx), M)
           /\ \E n : /\ LeastTrim(ctx.messages, n)
                     /\ AfterTrim(ctx).messages = Rest(ctx.messages, n)
<1>1. PICK n : LeastTrim(ctx.messages, n)
  BY LeastTrimExists DEF SessionOK, SessionOf
<1>2. n \in 0..Len(ctx.messages)
  BY <1>1 DEF LeastTrim
<1>3. AfterTrim(ctx) = Remainder(ctx, n)
  BY <1>1, AfterTrimIsLeast
<1>4. QED
  BY <1>1, <1>2, <1>3, RemainderOK

\* The fewest messages are dropped when the longest suffix that fits is left.
LEMMA LeastTrimIsLongestFit ==
    ASSUME NEW M, NEW ms \in Seq(M), NEW n, LeastTrim(ms, n)
    PROVE  Rest(ms, n) = LongestFittingSuffix(ms)
<1> DEFINE Longest(s) == /\ Fits(s)
                         /\ \A other \in Suffixes(ms) : Fits(other) => Len(other) <= Len(s)
<1>1. n \in 0..Len(ms) /\ Len(ms) \in Nat
  BY DEF LeastTrim
<1>2. Suffixes(ms) = {Rest(ms, k) : k \in 0..Len(ms)}
  <2>1. ASSUME NEW s \in Suffixes(ms) PROVE \E k \in 0..Len(ms) : s = Rest(ms, k)
    <3>1. CASE s = << >>
      <4>1. s = Rest(ms, Len(ms))
        BY <3>1, RestOfAll
      <4>2. QED
        BY <1>1, <4>1
    <3>2. CASE s # << >>
      <4>1. PICK l \in 1..Len(ms) : s = SubSeq(ms, l, Len(ms))
        BY <3>2 DEF Suffixes
      <4>2. l - 1 \in 0..Len(ms) /\ (l - 1) + 1 = l
        BY <1>1
      <4>3. s = Rest(ms, l - 1)
        BY <4>1, <4>2 DEF Rest
      <4>4. QED
        BY <4>2, <4>3
    <3>3. QED
      BY <3>1, <3>2
  <2>2. ASSUME NEW k \in 0..Len(ms) PROVE Rest(ms, k) \in Suffixes(ms)
    <3>1. CASE k = Len(ms)
      BY <3>1, RestOfAll DEF Suffixes
    <3>2. CASE k # Len(ms)
      <4>1. k + 1 \in 1..Len(ms)
        BY <1>1, <3>2
      <4>2. QED
        BY <4>1 DEF Suffixes, Rest
    <3>3. QED
      BY <3>1, <3>2
  <2>3. QED
    BY <2>1, <2>2
<1>3. \A k \in 0..Len(ms) : Len(Rest(ms, k)) = Len(ms) - k
  BY RestType
<1>4. ASSUME NEW k \in 0..Len(ms), Fits(Rest(ms, k)) PROVE n <= k
  <2>1. n \in Nat /\ k \in Nat /\ ~(k \in 0..(n - 1))
    BY <1>1, <1>4 DEF LeastTrim
  <2>2. QED
    BY <2>1
<1>5. Rest(ms, n) \in Suffixes(ms) /\ Longest(Rest(ms, n))
  <2>1. ASSUME NEW other \in Suffixes(ms), Fits(other) PROVE Len(other) <= Len(Rest(ms, n))
    <3>1. PICK k \in 0..Len(ms) : other = Rest(ms, k)
      BY <1>2
    <3>2. n <= k
      BY <1>4, <2>1, <3>1
    <3>3. QED
      BY <1>1, <1>3, <3>1, <3>2
  <2>2. QED
    BY <1>1, <1>2, <2>1 DEF LeastTrim
<1>6. ASSUME NEW s \in Suffixes(ms), Longest(s) PROVE s = Rest(ms, n)
  <2>1. PICK k \in 0..Len(ms) : s = Rest(ms, k)
    BY <1>2
  <2>2. n <= k
    BY <1>4, <1>6, <2>1
  <2>3. Len(Rest(ms, n)) <= Len(s)
    BY <1>5, <1>6
  <2>4. k = n
    BY <1>1, <1>3, <2>1, <2>2, <2>3
  <2>5. QED
    BY <2>1, <2>4
<1> HIDE DEF Longest
<1>7. (CHOOSE s \in Suffixes(ms) : Longest(s)) = Rest(ms, n)
  BY <1>5, <1>6
<1>8. QED
  BY <1>7 DEF LongestFittingSuffix, Longest
=============================================================================
