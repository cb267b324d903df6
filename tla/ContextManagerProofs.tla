------------------------- MODULE ContextManagerProofs -------------------------
(***************************************************************************)
(* Proofs about ContextManager for any sessions, messages and limits: the  *)
(* running totals are the sums, trim_context() leaves the longest suffix   *)
(* that fits, and the three reads of build_agent_input() make one          *)
(* conversation.                                                           *)
(***************************************************************************)
EXTENDS ContextManager, ContextProofs

-----------------------------------------------------------------------------
(* The last message of the user. *)

LEMMA MaxIs ==
    ASSUME NEW S, S \subseteq Int, NEW x \in S, \A y \in S : x >= y
    PROVE  Max(S) = x
<1>1. Max(S) \in S /\ \A y \in S : Max(S) >= y
  BY DEF Max
<1>2. Max(S) >= x /\ x >= Max(S) /\ Max(S) \in Int /\ x \in Int
  BY <1>1
<1> HIDE DEF Max
<1>3. QED
  BY <1>2

LEMMA MaxExists ==
    ASSUME NEW n \in Nat, NEW S, S \subseteq 1..n, S # {}
    PROVE  Max(S) \in S /\ \A y \in S : Max(S) >= y
<1> DEFINE T == {n - i : i \in S}
<1>1. T \subseteq Nat /\ T # {}
  OBVIOUS
<1>2. PICK t \in T : \A u \in T : t <= u
  BY <1>1, LeastNatural
<1>3. PICK x \in S : t = n - x
  BY <1>2
<1>4. \A y \in S : x >= y
  <2> SUFFICES ASSUME NEW y \in S PROVE x >= y
    OBVIOUS
  <2>1. n - y \in T
    OBVIOUS
  <2>2. n - x <= n - y
    BY <1>2, <1>3, <2>1
  <2>3. x \in Int /\ y \in Int
    OBVIOUS
  <2>4. QED
    BY <2>2, <2>3
<1>5. S \subseteq Int
  OBVIOUS
<1>6. Max(S) = x
  BY <1>3, <1>4, <1>5, MaxIs
<1>7. QED
  BY <1>3, <1>4, <1>6

LEMMA LatestUserType ==
    ASSUME NEW ms \in Seq(Messages)
    PROVE  LatestUser(ms) \in Messages \cup {NoMessage}
<1> DEFINE said == {i \in DOMAIN ms : ms[i].role = "User"}
<1>1. said \subseteq 1..Len(ms) /\ Len(ms) \in Nat
  OBVIOUS
<1> HIDE DEF said
<1>2. said # {} => Max(said) \in 1..Len(ms)
  BY <1>1, MaxExists
<1>3. LatestUser(ms) = IF said = {} THEN NoMessage ELSE ms[Max(said)]
  BY DEF LatestUser, said
<1>4. QED
  BY <1>2, <1>3

\* To drop old messages loses the last of the user's or leaves it the last.
LEMMA LatestUserOfRest ==
    ASSUME NEW ms \in Seq(Messages), NEW n \in 0..Len(ms)
    PROVE  LatestUser(Rest(ms, n)) \in {LatestUser(ms), NoMessage}
<1> DEFINE r == Rest(ms, n)
           said == {i \in DOMAIN ms : ms[i].role = "User"}
           left == {i \in DOMAIN r : r[i].role = "User"}
<1>1. /\ r \in Seq(Messages) /\ Len(r) = Len(ms) - n
      /\ \A i \in 1..(Len(ms) - n) : r[i] = ms[n + i]
  BY RestType
<1>2. /\ Len(ms) \in Nat /\ n \in Nat /\ n <= Len(ms)
      /\ DOMAIN ms = 1..Len(ms) /\ DOMAIN r = 1..(Len(ms) - n)
  BY <1>1
<1>3. LatestUser(ms) = (IF said = {} THEN NoMessage ELSE ms[Max(said)])
      /\ LatestUser(r) = (IF left = {} THEN NoMessage ELSE r[Max(left)])
  BY DEF LatestUser
<1>4. CASE left # {}
  <2>1. left \subseteq 1..(Len(ms) - n) /\ Len(ms) - n \in Nat
    BY <1>2
  <2>2. PICK j \in left : j = Max(left) /\ \A y \in left : j >= y
    BY <1>4, <2>1, MaxExists
  <2>3. j \in 1..(Len(ms) - n) /\ r[j] = ms[n + j] /\ r[j].role = "User"
    BY <1>1, <1>2, <2>2
  <2>4. n + j \in said
    BY <1>2, <2>3
  <2>5. ASSUME NEW k \in said PROVE n + j >= k
    <3> SUFFICES ASSUME ~(n + j >= k) PROVE FALSE
      OBVIOUS
    <3>1. k \in 1..Len(ms) /\ ms[k].role = "User"
      BY <1>2
    <3>2. k - n \in 1..(Len(ms) - n) /\ n + (k - n) = k
      BY <1>2, <2>3, <3>1
    <3>3. k - n \in left
      BY <1>1, <1>2, <3>1, <3>2
    <3>4. j >= k - n
      BY <2>2, <3>3
    <3>5. QED
      BY <1>2, <2>3, <3>1, <3>4
  <2>6. said \subseteq Int
    BY <1>2
  <2> HIDE DEF said, left, r
  <2>7. Max(said) = n + j
    BY <2>4, <2>5, <2>6, MaxIs
  <2>8. LatestUser(r) = LatestUser(ms)
    BY <1>3, <1>4, <2>2, <2>3, <2>4, <2>7
  <2>9. QED
    BY <2>8 DEF r
<1>5. CASE left = {}
  BY <1>3, <1>5
<1>6. QED
  BY <1>4, <1>5

-----------------------------------------------------------------------------
(* The inductive invariant. *)

\* What a call that has read r may rely on: the session still has what the
\* system prompt lists, and the last message of the user is the one read, or
\* has been trimmed.
Agrees(ctx, r) ==
    LET now == SystemPromptOf(ctx)
    IN  /\ r.system.constraints \subseteq now.constraints
        /\ r.system.decisions \subseteq now.decisions
        /\ "entry" \notin r.meanwhile => r.system = now
        /\ r.at = "context" /\ "message" \notin r.meanwhile =>
              LatestUser(ctx.messages) \in {r.user, NoMessage}

\* trim_context() has dropped only messages that had to go, and its first loops
\* have done their work for good.
TrimOK ==
    trim # NotTrimming =>
        LET now == sessions[trim.sid]
        IN  /\ SessionOK(trim.before, Messages)
            /\ \E n \in 0..Len(trim.before.messages) :
                  /\ now = Remainder(trim.before, n)
                  /\ \A k \in 0..(n - 1) : ~Fits(Rest(trim.before.messages, k))
            /\ trim.loop # "messages" => ~OverMessages(now)
            /\ trim.loop = "tokens" => ~OverBytes(now)

ReadingOK ==
    reading # NotReading /\ "cleared" \notin reading.meanwhile =>
        Agrees(EntryOf(reading.sid), reading)

IInv == TypeOK /\ TotalsMatchMessages /\ TrimOK /\ ReadingOK

-----------------------------------------------------------------------------
(* Sessions, whole. *)

LEMMA MessagesAreSized == Sized(Messages) /\ SessionContext = SessionOf(Messages)
BY ManagerConfig DEF Sized, SessionContext, SessionOf

LEMMA EntryOK ==
    ASSUME TypeOK, TotalsMatchMessages, NEW s \in Sessions
    PROVE  /\ SessionOK(EntryOf(s), Messages)
           /\ sessions[s] # NoSession => SessionOK(sessions[s], Messages)
<1>1. CASE sessions[s] = NoSession
  BY <1>1, NewSessionOK DEF EntryOf
<1>2. CASE sessions[s] # NoSession
  <2>1. sessions[s] \in SessionOf(Messages)
    BY <1>2, MessagesAreSized DEF TypeOK
  <2>2. SessionOK(sessions[s], Messages)
    BY <1>2, <2>1 DEF SessionOK, TotalsMatchMessages
  <2>3. QED
    BY <1>2, <2>2 DEF EntryOf
<1>3. QED
  BY <1>1, <1>2

\* A method that leaves one session changed, and well.
LEMMA SessionChange ==
    ASSUME TypeOK, TotalsMatchMessages, NEW s \in Sessions, NEW d, SessionOK(d, Messages),
           sessions' = [sessions EXCEPT ![s] = d]
    PROVE  /\ sessions' \in [Sessions -> SessionContext \cup {NoSession}]
           /\ TotalsMatchMessages'
           /\ sessions'[s] = d /\ d # NoSession /\ EntryOf(s)' = d
           /\ \A other \in Sessions : other # s =>
                 sessions'[other] = sessions[other] /\ EntryOf(other)' = EntryOf(other)
<1>1. d \in SessionContext /\ d # NoSession
  BY MessagesAreSized, ManagerConfig DEF SessionOK
<1>2. sessions \in [Sessions -> SessionContext \cup {NoSession}]
  BY DEF TypeOK
<1>3. /\ sessions'[s] = d
      /\ \A other \in Sessions : other # s => sessions'[other] = sessions[other]
  BY <1>2
<1>4. TotalsMatchMessages'
  BY <1>1, <1>3 DEF TotalsMatchMessages, SessionOK
<1>5. EntryOf(s)' = d /\ \A other \in Sessions : other # s => EntryOf(other)' = EntryOf(other)
  BY <1>1, <1>3 DEF EntryOf
<1>6. QED
  BY <1>1, <1>2, <1>3, <1>4, <1>5

\* A method takes note of itself in a call of build_agent_input() and leaves
\* what that has read.
LEMMA NotedOK ==
    ASSUME TypeOK, NEW s, NEW what \in {"message", "entry", "cleared"}, Noted(s, what)
    PROVE  /\ reading' \in Reading \cup {NotReading}
           /\ reading' # NotReading =>
                 /\ reading # NotReading
                 /\ reading'.sid = reading.sid /\ reading'.at = reading.at
                 /\ reading'.system = reading.system /\ reading'.user = reading.user
                 /\ reading'.meanwhile = reading.meanwhile
                                         \cup (IF reading.sid = s THEN {what} ELSE {})
<1>1. CASE reading # NotReading /\ reading.sid = s
  <2>1. reading \in Reading
    BY <1>1 DEF TypeOK
  <2> DEFINE w == reading.meanwhile \cup {what}
  <2>2. w \in SUBSET {"message", "entry", "cleared"}
    BY <2>1 DEF Reading
  <2>3. reading' = [reading EXCEPT !.meanwhile = w]
    BY <1>1 DEF Noted
  <2> HIDE DEF w
  <2>4. /\ reading' \in Reading
        /\ reading'.sid = reading.sid /\ reading'.at = reading.at
        /\ reading'.system = reading.system /\ reading'.user = reading.user
        /\ reading'.meanwhile = w
    BY <2>1, <2>2, <2>3 DEF Reading
  <2>5. QED
    BY <1>1, <2>4 DEF w
<1>2. CASE ~(reading # NotReading /\ reading.sid = s)
  BY <1>2 DEF Noted, TypeOK
<1>3. QED
  BY <1>1, <1>2

-----------------------------------------------------------------------------
(* The steps of the methods. *)

LEMMA InitOK == Init => IInv
BY DEF Init, IInv, TypeOK, TotalsMatchMessages, TrimOK, ReadingOK

\* add_message(): the next message may be the user's, so what was read as the
\* last is excused.
LEMMA AddMessageInv ==
    ASSUME IInv, NEW s \in Sessions, NEW m \in Messages, AddMessage(s, m)
    PROVE  IInv'
<1> DEFINE ctx == EntryOf(s)
           d == AfterAddMessage(ctx, m)
<1>1. SessionOK(d, Messages) /\ d.ledger = ctx.ledger
  BY EntryOK, MessagesAreSized, AddMessageOK DEF IInv
<1>2. sessions' = [sessions EXCEPT ![s] = d]
  BY DEF AddMessage
<1> HIDE DEF d
<1>3. /\ sessions' \in [Sessions -> SessionContext \cup {NoSession}]
      /\ TotalsMatchMessages'
      /\ EntryOf(s)' = d
      /\ \A other \in Sessions : other # s => EntryOf(other)' = EntryOf(other)
  BY <1>1, <1>2, SessionChange DEF IInv
<1>4. trim = NotTrimming /\ trim' = NotTrimming
  BY DEF AddMessage, Unlocked
<1>5. /\ reading' \in Reading \cup {NotReading}
      /\ reading' # NotReading =>
            /\ reading # NotReading
            /\ reading'.sid = reading.sid /\ reading'.at = reading.at
            /\ reading'.system = reading.system /\ reading'.user = reading.user
            /\ reading'.meanwhile = reading.meanwhile
                                    \cup (IF reading.sid = s THEN {"message"} ELSE {})
  BY NotedOK DEF AddMessage, IInv
<1>6. ReadingOK'
  <2> SUFFICES ASSUME NEW q \in Sessions, q = reading.sid,
                      reading' # NotReading, "cleared" \notin reading'.meanwhile
               PROVE  Agrees(EntryOf(q)', reading')
    BY <1>5 DEF ReadingOK, IInv, TypeOK, Reading
  <2>1. Agrees(EntryOf(q), reading)
    BY <1>5 DEF IInv, ReadingOK
  <2>2. CASE q = s
    <3>1. EntryOf(q)' = d /\ SystemPromptOf(d) = SystemPromptOf(ctx)
      BY <1>1, <1>3, <2>2 DEF SystemPromptOf
    <3>2. "message" \in reading'.meanwhile
      BY <1>5, <2>2
    <3>3. QED
      BY <1>5, <2>1, <2>2, <3>1, <3>2 DEF Agrees
  <2>3. CASE q # s
    BY <1>3, <1>5, <2>1, <2>3 DEF Agrees
  <2>4. QED
    BY <2>2, <2>3
<1>7. QED
  BY <1>3, <1>4, <1>5, <1>6 DEF IInv, TypeOK, TrimOK

\* add_ledger_entry(): an entry keeps its place, so that the system prompt may
\* lack entries but has none that is gone.
LEMMA AddLedgerEntryInv ==
    ASSUME IInv, NEW s \in Sessions, NEW kind \in LedgerEntryKind, AddLedgerEntry(s, kind)
    PROVE  IInv'
<1> DEFINE ctx == EntryOf(s)
           d == AfterAddLedgerEntry(ctx, kind)
<1>1. /\ SessionOK(d, Messages) /\ d.messages = ctx.messages
      /\ \A k : ByKind(ctx.ledger, k) \subseteq ByKind(d.ledger, k)
  BY EntryOK, AddEntryOK DEF IInv
<1>2. sessions' = [sessions EXCEPT ![s] = d]
  BY DEF AddLedgerEntry
<1> HIDE DEF d
<1>3. /\ sessions' \in [Sessions -> SessionContext \cup {NoSession}]
      /\ TotalsMatchMessages'
      /\ EntryOf(s)' = d
      /\ \A other \in Sessions : other # s => EntryOf(other)' = EntryOf(other)
  BY <1>1, <1>2, SessionChange DEF IInv
<1>4. trim = NotTrimming /\ trim' = NotTrimming
  BY DEF AddLedgerEntry, Unlocked
<1>5. /\ reading' \in Reading \cup {NotReading}
      /\ reading' # NotReading =>
            /\ reading # NotReading
            /\ reading'.sid = reading.sid /\ reading'.at = reading.at
            /\ reading'.system = reading.system /\ reading'.user = reading.user
            /\ reading'.meanwhile = reading.meanwhile
                                    \cup (IF reading.sid = s THEN {"entry"} ELSE {})
  BY NotedOK DEF AddLedgerEntry, IInv
<1>6. ReadingOK'
  <2> SUFFICES ASSUME NEW q \in Sessions, q = reading.sid,
                      reading' # NotReading, "cleared" \notin reading'.meanwhile
               PROVE  Agrees(EntryOf(q)', reading')
    BY <1>5 DEF ReadingOK, IInv, TypeOK, Reading
  <2>1. Agrees(EntryOf(q), reading)
    BY <1>5 DEF IInv, ReadingOK
  <2>2. CASE q = s
    <3>1. /\ EntryOf(q)' = d
          /\ SystemPromptOf(ctx).constraints \subseteq SystemPromptOf(d).constraints
          /\ SystemPromptOf(ctx).decisions \subseteq SystemPromptOf(d).decisions
      BY <1>1, <1>3, <2>2 DEF SystemPromptOf
    <3>2. "entry" \in reading'.meanwhile
          /\ ("message" \in reading'.meanwhile <=> "message" \in reading.meanwhile)
      BY <1>5, <2>2
    <3>3. QED
      BY <1>1, <1>5, <2>1, <2>2, <3>1, <3>2 DEF Agrees
  <2>3. CASE q # s
    BY <1>3, <1>5, <2>1, <2>3 DEF Agrees
  <2>4. QED
    BY <2>2, <2>3
<1>7. QED
  BY <1>3, <1>4, <1>5, <1>6 DEF IInv, TypeOK, TrimOK

LEMMA ClearSessionInv ==
    ASSUME IInv, NEW s \in Sessions, ClearSession(s)
    PROVE  IInv'
<1>1. /\ sessions \in [Sessions -> SessionContext \cup {NoSession}]
      /\ sessions' = [sessions EXCEPT ![s] = NoSession]
  BY DEF ClearSession, IInv, TypeOK
<1>2. /\ sessions' \in [Sessions -> SessionContext \cup {NoSession}]
      /\ sessions'[s] = NoSession
      /\ \A other \in Sessions : other # s => sessions'[other] = sessions[other]
  BY <1>1
<1>3. TotalsMatchMessages'
  BY <1>2 DEF IInv, TotalsMatchMessages
<1>4. trim = NotTrimming /\ trim' = NotTrimming
  BY DEF ClearSession, Unlocked
<1>5. /\ reading' \in Reading \cup {NotReading}
      /\ reading' # NotReading =>
            /\ reading # NotReading
            /\ reading'.sid = reading.sid /\ reading'.at = reading.at
            /\ reading'.system = reading.system /\ reading'.user = reading.user
            /\ reading'.meanwhile = reading.meanwhile
                                    \cup (IF reading.sid = s THEN {"cleared"} ELSE {})
  BY NotedOK DEF ClearSession, IInv
<1>6. ReadingOK'
  <2> SUFFICES ASSUME NEW q \in Sessions, q = reading.sid,
                      reading' # NotReading, "cleared" \notin reading'.meanwhile
               PROVE  Agrees(EntryOf(q)', reading')
    BY <1>5 DEF ReadingOK, IInv, TypeOK, Reading
  <2>1. Agrees(EntryOf(q), reading)
    BY <1>5 DEF IInv, ReadingOK
  <2>2. q # s
    BY <1>5
  <2>3. EntryOf(q)' = EntryOf(q)
    BY <1>2, <2>1, <2>2 DEF EntryOf
  <2>4. QED
    BY <1>5, <2>1, <2>2, <2>3 DEF Agrees
<1>7. QED
  BY <1>2, <1>3, <1>4, <1>5, <1>6 DEF IInv, TypeOK, TrimOK

\* trim_context() has the lock: it starts with nothing dropped.
LEMMA TrimBeginInv ==
    ASSUME IInv, NEW s \in Sessions, TrimBegin(s)
    PROVE  IInv'
<1> DEFINE ctx == sessions[s]
<1>1. ctx # NoSession /\ trim' = [sid |-> s, loop |-> "messages", before |-> ctx]
      /\ sessions' = sessions /\ reading' = reading
  BY DEF TrimBegin
<1>2. SessionOK(ctx, Messages) /\ ctx \in SessionContext
  BY <1>1, EntryOK, MessagesAreSized DEF IInv, SessionOK
<1>3. Remainder(ctx, 0) = ctx
  BY <1>2, RemainderOfNone
<1>4. Len(ctx.messages) \in Nat
  BY <1>2 DEF SessionContext
<1> HIDE DEF ctx
<1>5. trim' \in TrimState /\ trim'.sid = s /\ trim'.before = ctx /\ trim'.loop = "messages"
  BY <1>1, <1>2 DEF TrimState
<1>6. TypeOK'
  <2>1. sessions \in [Sessions -> SessionContext \cup {NoSession}]
        /\ reading \in Reading \cup {NotReading} /\ sessions[s] # NoSession
    BY <1>1 DEF IInv, TypeOK, ctx
  <2>2. QED
    BY <1>1, <1>5, <2>1 DEF TypeOK
<1>7. TrimOK'
  <2>1. 0 \in 0..Len(ctx.messages)
        /\ \A k \in 0..(0 - 1) : ~Fits(Rest(ctx.messages, k))
    BY <1>4
  <2>2. sessions'[s] = Remainder(ctx, 0)
    BY <1>1, <1>3 DEF ctx
  <2>3. QED
    BY <1>2, <1>5, <2>1, <2>2 DEF TrimOK
<1>8. TotalsMatchMessages' /\ ReadingOK'
  BY <1>1 DEF IInv, TotalsMatchMessages, ReadingOK, EntryOf
<1>9. QED
  BY <1>6, <1>7, <1>8 DEF IInv

\* An iteration of a loop drops a message only of a session over a limit, and
\* makes no condition true that was false.
LEMMA DropInv ==
    ASSUME IInv, trim # NotTrimming, Drop,
           ~WithinLimits(sessions[trim.sid]), sessions[trim.sid].messages # << >>
    PROVE  IInv'
<1>1. trim \in TrimState /\ trim' = trim /\ reading' = reading
  BY DEF IInv, TypeOK, Drop
<1>2. PICK s \in Sessions : s = trim.sid
  BY <1>1 DEF TrimState
<1> DEFINE now == sessions[s]
           d == AfterTrimFirst(now)
           b == trim.before
<1>3. /\ SessionOK(now, Messages) /\ now # NoSession
      /\ now.messages \in Seq(Messages) /\ now.messages # << >>
  BY <1>2, EntryOK DEF IInv, TypeOK, SessionOK, SessionOf
<1>4. PICK n \in 0..Len(b.messages) :
         now = Remainder(b, n) /\ \A k \in 0..(n - 1) : ~Fits(Rest(b.messages, k))
  BY <1>2 DEF IInv, TrimOK
<1>5. SessionOK(b, Messages) /\ b.messages \in Seq(Messages) /\ now.messages = Rest(b.messages, n)
  <2>1. SessionOK(b, Messages)
    BY DEF IInv, TrimOK
  <2>2. now.messages = Rest(b.messages, n)
    BY <1>4, <2>1, MessagesAreSized, RemainderOK
  <2>3. QED
    BY <2>1, <2>2 DEF SessionOK, SessionOf
<1>6. n \in Nat /\ n < Len(b.messages)
  <2>1. Len(Rest(b.messages, n)) = Len(b.messages) - n /\ Len(b.messages) \in Nat
    <3> DEFINE old == b.messages
    <3>1. old \in Seq(Messages) /\ n \in 0..Len(old)
      BY <1>4, <1>5
    <3> HIDE DEF old
    <3>2. Len(Rest(old, n)) = Len(old) - n /\ Len(old) \in Nat
      BY <3>1, RestType
    <3>3. QED
      BY <3>2 DEF old
  <2>2. Len(now.messages) \in Nat /\ Len(now.messages) > 0
    BY <1>3
  <2> HIDE DEF now
  <2>3. QED
    BY <1>5, <2>1, <2>2
<1>7. d = Remainder(b, n + 1)
  BY <1>4, <1>5, <1>6, MessagesAreSized, TrimFirstStep
<1>8. ~Fits(Rest(b.messages, n))
  BY <1>2, <1>3, <1>5, MessagesAreSized, LimitsAreFits
<1>9. n + 1 \in 0..Len(b.messages) /\ \A k \in 0..((n + 1) - 1) : ~Fits(Rest(b.messages, k))
  BY <1>4, <1>6, <1>8
<1>10. /\ SessionOK(d, Messages) /\ d.messages = Rest(b.messages, n + 1)
       /\ d.ledger = b.ledger /\ now.ledger = b.ledger
  BY <1>4, <1>5, <1>7, <1>9, MessagesAreSized, RemainderOK
<1> DEFINE ms == now.messages
<1>11. Tail(ms) = d.messages /\ Rest(ms, 1) = d.messages
  <2>1. Tail(ms) = d.messages
    BY <1>5, <1>6, <1>10, RestStep
  <2>2. ms \in Seq(Messages) /\ ms # << >>
    BY <1>3
  <2> HIDE DEF ms
  <2>3. 0 < Len(ms) /\ Rest(ms, 0) = ms
    BY <2>2, RestOfNone
  <2>4. Tail(Rest(ms, 0)) = Rest(ms, 0 + 1)
    BY <2>2, <2>3, RestStep
  <2>5. QED
    BY <2>1, <2>3, <2>4
<1>12. (~OverMessages(now) => ~OverMessages(d)) /\ (~OverBytes(now) => ~OverBytes(d))
  <2>1. BytesOf(ms) = Head(ms).bytes + BytesOf(d.messages)
    BY <1>3, <1>11, MessagesAreSized, TotalsOfTail
  <2>2. /\ Head(ms).bytes \in Nat /\ Len(d.messages) = Len(ms) - 1
        /\ Len(ms) \in Nat /\ ms # << >>
    <3>1. ms \in Seq(Messages) /\ ms # << >> /\ Tail(ms) = d.messages
      BY <1>3, <1>11
    <3> HIDE DEF ms
    <3>2. Head(ms) \in Messages /\ Len(Tail(ms)) = Len(ms) - 1 /\ Len(ms) \in Nat
      BY <3>1
    <3>3. QED
      BY <3>1, <3>2, MessagesAreSized DEF Sized
  <2>3. BytesOf(d.messages) \in Nat
    BY <1>10, MessagesAreSized, TotalsAreNat DEF SessionOK, SessionOf
  <2>4. now.total_bytes = BytesOf(now.messages) /\ d.total_bytes = BytesOf(d.messages)
    BY <1>3, <1>10 DEF SessionOK
  <2> HIDE DEF now, d
  <2>5. QED
    BY <2>1, <2>2, <2>3, <2>4, ContextLimits DEF OverMessages, OverBytes
<1>13. sessions' = [sessions EXCEPT ![s] = d]
  BY <1>2 DEF Drop
<1> HIDE DEF d
<1>14. /\ sessions' \in [Sessions -> SessionContext \cup {NoSession}]
       /\ TotalsMatchMessages'
       /\ sessions'[s] = d /\ d # NoSession /\ EntryOf(s)' = d
       /\ \A other \in Sessions : other # s => EntryOf(other)' = EntryOf(other)
  BY <1>10, <1>13, SessionChange DEF IInv
<1>15. TypeOK'
  BY <1>1, <1>2, <1>14 DEF IInv, TypeOK
<1>16. TrimOK'
  <2>1. /\ trim.loop # "messages" => ~OverMessages(now)
        /\ trim.loop = "tokens" => ~OverBytes(now)
    BY <1>2 DEF IInv, TrimOK
  <2>2. sessions'[s] = d /\ s = trim'.sid /\ b = trim'.before
    BY <1>1, <1>2, <1>14
  <2> HIDE DEF now, b
  <2>3. /\ SessionOK(b, Messages)
        /\ \E k \in 0..Len(b.messages) :
              d = Remainder(b, k) /\ \A i \in 0..(k - 1) : ~Fits(Rest(b.messages, i))
    BY <1>5, <1>7, <1>9
  <2>4. /\ trim'.loop # "messages" => ~OverMessages(d)
        /\ trim'.loop = "tokens" => ~OverBytes(d)
    BY <1>1, <1>12, <2>1
  <2>5. QED
    BY <2>2, <2>3, <2>4 DEF TrimOK
<1>17. ReadingOK'
  <2> SUFFICES ASSUME NEW q \in Sessions, q = reading.sid,
                      reading # NotReading, "cleared" \notin reading.meanwhile
               PROVE  Agrees(EntryOf(q)', reading)
    BY <1>1 DEF ReadingOK, IInv, TypeOK, Reading
  <2>1. Agrees(EntryOf(q), reading)
    BY DEF IInv, ReadingOK
  <2>2. CASE q = s
    <3>1. EntryOf(q) = now /\ EntryOf(q)' = d
      BY <1>3, <1>14, <2>2 DEF EntryOf
    <3>2. SystemPromptOf(d) = SystemPromptOf(now)
      BY <1>10 DEF SystemPromptOf
    <3>3. LatestUser(d.messages) \in {LatestUser(now.messages), NoMessage}
      <4>1. now.messages \in Seq(Messages) /\ 1 \in 0..Len(now.messages)
        BY <1>2, <1>3 DEF SessionOK, SessionOf
      <4>2. QED
        BY <1>11, <4>1, LatestUserOfRest
    <3>4. QED
      BY <2>1, <3>1, <3>2, <3>3 DEF Agrees
  <2>3. CASE q # s
    BY <1>14, <2>1, <2>3
  <2>4. QED
    BY <2>2, <2>3
<1>18. QED
  BY <1>14, <1>15, <1>16, <1>17 DEF IInv

\* A loop ends: its condition stays false.
LEMMA NextLoopInv ==
    ASSUME IInv, trim # NotTrimming, NEW loop \in {"bytes", "tokens"}, NextLoop(loop),
           ~OverMessages(sessions[trim.sid]), loop = "tokens" => ~OverBytes(sessions[trim.sid])
    PROVE  IInv'
<1>1. trim \in TrimState /\ trim' = [trim EXCEPT !.loop = loop]
      /\ sessions' = sessions /\ reading' = reading
  BY DEF IInv, TypeOK, NextLoop
<1>2. trim' \in TrimState /\ trim'.sid = trim.sid /\ trim'.before = trim.before /\ trim'.loop = loop
  BY <1>1 DEF TrimState
<1>3. TypeOK'
  BY <1>1, <1>2 DEF IInv, TypeOK
<1>4. TrimOK'
  BY <1>1, <1>2 DEF IInv, TrimOK
<1>5. TotalsMatchMessages' /\ ReadingOK'
  BY <1>1 DEF IInv, TotalsMatchMessages, ReadingOK, EntryOf
<1>6. QED
  BY <1>3, <1>4, <1>5 DEF IInv

LEMMA TrimStepInv == ASSUME IInv, TrimStep PROVE IInv'
<1>1. trim # NotTrimming /\ trim \in TrimState /\ trim.sid \in Sessions
  BY DEF TrimStep, TrimMessages, TrimBytes, TrimTokens, Unlocked, IInv, TypeOK, TrimState
<1> DEFINE now == sessions[trim.sid]
<1>2. SessionOK(now, Messages) /\ Len(now.messages) \in Nat
  BY <1>1, EntryOK DEF IInv, TypeOK, SessionOK, SessionOf
<1>3. OverMessages(now) \/ OverBytes(now) \/ OverTokens(now)
      => ~WithinLimits(now) /\ now.messages # << >>
  BY <1>2, ContextLimits DEF WithinLimits, OverMessages, OverBytes, OverTokens
<1>4. /\ trim.loop # "messages" => ~OverMessages(now)
      /\ trim.loop = "tokens" => ~OverBytes(now)
  BY <1>1 DEF IInv, TrimOK
<1> HIDE DEF now
<1>5. CASE TrimMessages
  BY <1>1, <1>3, <1>5, DropInv, NextLoopInv DEF TrimMessages, now
<1>6. CASE TrimBytes
  BY <1>1, <1>3, <1>4, <1>6, DropInv, NextLoopInv DEF TrimBytes, now
<1>7. CASE TrimTokens
  <2>1. CASE OverTokens(now)
    BY <1>1, <1>3, <1>7, <2>1, DropInv DEF TrimTokens, now
  <2>2. CASE ~OverTokens(now)
    <3>1. trim' = NotTrimming /\ sessions' = sessions /\ reading' = reading
      BY <1>7, <2>2 DEF TrimTokens, now
    <3>2. QED
      BY <3>1 DEF IInv, TypeOK, TotalsMatchMessages, TrimOK, ReadingOK, EntryOf
  <2>3. QED
    BY <2>1, <2>2
<1>8. QED
  BY <1>5, <1>6, <1>7 DEF TrimStep

LEMMA ReadSystemPromptInv ==
    ASSUME IInv, NEW s \in Sessions, ReadSystemPrompt(s)
    PROVE  IInv'
<1> DEFINE ctx == EntryOf(s)
           p == SystemPromptOf(ctx)
<1>1. /\ reading' = [sid |-> s, at |-> "user", system |-> p, user |-> NoMessage, meanwhile |-> {}]
      /\ sessions' = sessions /\ trim' = trim
  BY DEF ReadSystemPrompt
<1>2. ctx.ledger \in Seq(LedgerEntryKind)
  BY EntryOK DEF IInv, SessionOK, SessionOf
<1> HIDE DEF ctx
<1>3. p \in SystemPrompt
  BY <1>2 DEF SystemPrompt, SystemPromptOf, ByKind
<1> HIDE DEF p
<1>4. /\ reading' \in Reading /\ reading'.sid = s /\ reading'.at = "user"
      /\ reading'.system = p /\ reading'.meanwhile = {}
  BY <1>1, <1>3 DEF Reading
<1>5. EntryOf(s)' = ctx
  BY <1>1 DEF EntryOf, ctx
<1>6. ReadingOK'
  BY <1>4, <1>5 DEF ReadingOK, Agrees, p
<1>7. QED
  BY <1>1, <1>4, <1>6 DEF IInv, TypeOK, TotalsMatchMessages, TrimOK

LEMMA ReadUserPromptInv == ASSUME IInv, ReadUserPrompt PROVE IInv'
<1>1. sessions' = sessions /\ trim' = trim /\ reading \in Reading /\ reading # NotReading
  BY DEF ReadUserPrompt, IInv, TypeOK
<1>2. PICK s \in Sessions : s = reading.sid
  BY <1>1 DEF Reading
<1>3. CASE sessions[s] = NoSession
  <2>1. reading' = NotReading
    BY <1>2, <1>3 DEF ReadUserPrompt
  <2>2. QED
    BY <1>1, <2>1 DEF IInv, TypeOK, TotalsMatchMessages, TrimOK, ReadingOK
<1>4. CASE sessions[s] # NoSession
  <2> DEFINE ms == sessions[s].messages
             u == LatestUser(ms)
  <2>1. ms \in Seq(Messages) /\ EntryOf(s) = sessions[s] /\ EntryOf(s)' = sessions[s]
    BY <1>1, <1>4, EntryOK DEF IInv, SessionOK, SessionOf, EntryOf
  <2>2. u \in Messages \cup {NoMessage}
    BY <2>1, LatestUserType
  <2>3. reading' = [reading EXCEPT !.at = "context", !.user = u]
    BY <1>2, <1>4 DEF ReadUserPrompt
  <2> HIDE DEF u
  <2>4. /\ reading' \in Reading /\ reading'.sid = s
        /\ reading'.system = reading.system /\ reading'.user = u
        /\ reading'.meanwhile = reading.meanwhile
    <3> DEFINE r == [reading EXCEPT !.at = "context"]
    <3>1. /\ r \in Reading /\ r.sid = s /\ r.system = reading.system
          /\ r.meanwhile = reading.meanwhile
      BY <1>1, <1>2 DEF Reading
    <3>2. reading' = [r EXCEPT !.user = u]
      BY <2>3
    <3> HIDE DEF r
    <3>3. QED
      BY <2>2, <3>1, <3>2 DEF Reading
  <2>5. ReadingOK'
    <3> SUFFICES ASSUME "cleared" \notin reading.meanwhile
                 PROVE  Agrees(sessions[s], reading')
      BY <2>1, <2>4 DEF ReadingOK
    <3>1. Agrees(sessions[s], reading)
      BY <1>1, <1>2, <2>1 DEF IInv, ReadingOK
    <3>2. LatestUser(sessions[s].messages) = u
      BY DEF u
    <3>3. QED
      BY <2>4, <3>1, <3>2 DEF Agrees
  <2>6. QED
    BY <1>1, <2>4, <2>5 DEF IInv, TypeOK, TotalsMatchMessages, TrimOK
<1>5. QED
  BY <1>3, <1>4

LEMMA ReadContextInv == ASSUME IInv, ReadContext PROVE IInv'
BY DEF IInv, ReadContext, TypeOK, TotalsMatchMessages, TrimOK, ReadingOK

LEMMA NextInv == ASSUME IInv, [Next]_vars PROVE IInv'
<1>1. CASE Next
  BY <1>1, AddMessageInv, AddLedgerEntryInv, ClearSessionInv, TrimBeginInv, TrimStepInv,
     ReadSystemPromptInv, ReadUserPromptInv, ReadContextInv DEF Next
<1>2. CASE UNCHANGED vars
  BY <1>2 DEF vars, IInv, TypeOK, TotalsMatchMessages, TrimOK, ReadingOK, EntryOf
<1>3. QED
  BY <1>1, <1>2

THEOREM Invariance == Spec => []IInv
BY InitOK, NextInv, PTL DEF Spec

-----------------------------------------------------------------------------
(* Theorems *)

\* Every session that a method of the manager finds or leaves has the right
\* type, and its running totals of tokens and bytes are the sums over its
\* messages, so that the limits are tested on the truth, also in the middle of
\* trim_context().
THEOREM TotalsAreRight == Spec => []Consistent
<1>1. IInv => Consistent
  BY DEF IInv, Consistent
<1>2. QED
  BY <1>1, Invariance, PTL

\* trim_context() as it returns: the invariant knows the messages dropped so
\* far to be the oldest and to have been too many with each of them, and the
\* three conditions to be false.
LEMMA TrimReturns ==
    ASSUME IInv, [Next]_vars, trim # NotTrimming, trim' = NotTrimming
    PROVE  LET after == sessions[trim.sid]
           IN  /\ after.messages = LongestFittingSuffix(trim.before.messages)
               /\ SystemPromptOf(after) = SystemPromptOf(trim.before)
               /\ after = AfterTrim(trim.before)
<1>1. trim \in TrimState /\ trim.sid \in Sessions
  BY DEF IInv, TypeOK, TrimState
<1> DEFINE now == sessions[trim.sid]
           b == trim.before
<1>2. TrimTokens /\ ~OverTokens(now)
  <2>1. NotTrimming # trim /\ ~Unlocked
    BY DEF Unlocked
  <2>2. trim' # [trim EXCEPT !.loop = "bytes"] /\ trim' # [trim EXCEPT !.loop = "tokens"]
    BY <1>1, ManagerConfig DEF TrimState
  <2>3. QED
    BY <2>1, <2>2 DEF Next, vars, AddMessage, AddLedgerEntry, ClearSession, TrimBegin,
       ReadSystemPrompt, ReadUserPrompt, ReadContext, AnswersInput, TrimStep,
       TrimMessages, TrimBytes, TrimTokens, Drop, NextLoop
<1>3. SessionOK(b, Messages) /\ ~OverMessages(now) /\ ~OverBytes(now)
  BY <1>2 DEF IInv, TrimOK, TrimTokens
<1>4. PICK n \in 0..Len(b.messages) :
         now = Remainder(b, n) /\ \A k \in 0..(n - 1) : ~Fits(Rest(b.messages, k))
  BY DEF IInv, TrimOK
<1>5. /\ SessionOK(now, Messages) /\ now.messages = Rest(b.messages, n)
      /\ now.ledger = b.ledger
  BY <1>3, <1>4, MessagesAreSized, RemainderOK
<1>6. Fits(Rest(b.messages, n))
  BY <1>2, <1>3, <1>5, MessagesAreSized, LimitsAreFits DEF WithinLimits
<1>7. LeastTrim(b.messages, n)
  BY <1>4, <1>6 DEF LeastTrim
<1>8. now.messages = LongestFittingSuffix(b.messages)
  BY <1>3, <1>5, <1>7, LeastTrimIsLongestFit DEF SessionOK, SessionOf
<1>9. now = AfterTrim(b)
  BY <1>3, <1>4, <1>7, MessagesAreSized, AfterTrimIsLeast
<1>10. SystemPromptOf(now) = SystemPromptOf(b)
  BY <1>5 DEF SystemPromptOf
<1>11. QED
  BY <1>8, <1>9, <1>10

\* When trim_context() returns, the session is left with its most recent
\* messages that fit the three limits together and not one fewer, with the
\* ledger it had; the three loops compute the trim in one step of Context.
THEOREM TrimIsLongestFit == Spec => TrimKeepsRecent
<1>1. IInv /\ [Next]_vars =>
        [trim # NotTrimming /\ trim' = NotTrimming =>
            LET after == sessions[trim.sid]
            IN  /\ after.messages = LongestFittingSuffix(trim.before.messages)
                /\ SystemPromptOf(after) = SystemPromptOf(trim.before)
                /\ after = AfterTrim(trim.before)]_vars
  BY TrimReturns
<1>2. QED
  BY <1>1, Invariance, PTL DEF Spec, TrimKeepsRecent

\* The three reads of build_agent_input() make one conversation whatever the
\* other methods do between them, trims included.
THEOREM InputIsConsistent == Spec => []InputIsOneConversation
<1>1. IInv => InputIsOneConversation
  <2> SUFFICES ASSUME IInv, AnswersInput, "cleared" \notin reading.meanwhile
               PROVE  InputIsOneConversation
    BY DEF InputIsOneConversation
  <2>1. reading \in Reading /\ reading # NotReading /\ reading.at = "context"
    BY DEF AnswersInput, IInv, TypeOK
  <2>2. PICK s \in Sessions : s = reading.sid
    BY <2>1 DEF Reading
  <2> DEFINE ctx == EntryOf(s)
             ms == ctx.messages
             w == Window(ms)
  <2>3. Agrees(ctx, reading)
    BY <2>1, <2>2 DEF IInv, ReadingOK
  <2>4. ms \in Seq(Messages) /\ Len(ms) \in Nat
    BY EntryOK DEF IInv, SessionOK, SessionOf
  <2> HIDE DEF ctx
  <2>5. LatestUser(w) \in {LatestUser(ms), NoMessage}
    <3> DEFINE n == SaturatingSub(Len(ms), MaxMessages)
    <3>1. n \in 0..Len(ms)
      BY <2>4, ContextLimits DEF SaturatingSub
    <3>2. w = Rest(ms, n)
      BY DEF Window, Rest
    <3> HIDE DEF n, w
    <3>3. QED
      BY <2>4, <3>1, <3>2, LatestUserOfRest
  <2> HIDE DEF w, ms
  <2>6. AgentInput = [system |-> reading.system, user |-> reading.user, context |-> w]
    BY <2>2 DEF AgentInput, w, ms, ctx
  <2>7. "message" \notin reading.meanwhile => LatestUser(w) \in {reading.user, NoMessage}
    BY <2>1, <2>3, <2>5 DEF Agrees, ms
  <2>8. QED
    BY <2>2, <2>3, <2>6, <2>7 DEF InputIsOneConversation, Agrees, ctx
<1>2. QED
  BY <1>1, Invariance, PTL
=============================================================================
