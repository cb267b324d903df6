-------------------------- MODULE OrchestratorProofs --------------------------
(***************************************************************************)
(* Proofs about Orchestrator for any requests, sessions, plans, agents and *)
(* limits: what process() leaves in a session and in the pool of subtasks, *)
(* on every way it may return and however requests interleave.             *)
(***************************************************************************)
EXTENDS Orchestrator, ContextProofs

-----------------------------------------------------------------------------
(* The inductive invariant. *)

\* The request's question, and its answer, have been added to its session.
HasAsked(r) ==
    \/ pc[r] \in {"plan", "route", "get_agent", "await", "add_assistant", "trim"}
    \/ outcome[r] \in {"ok", "error"}

HasAnswered(r) == pc[r] = "trim" \/ outcome[r] = "ok"

\* Where process() is, and what it has.
StageOK(r) ==
    /\ outcome[r] = "pending" <=> pc[r] # "returned"
    /\ pc[r] # "policy" /\ outcome[r] \notin {"policy_violation", "panic"}
          => CheckUserInput(request[r].message) = "pass"
    /\ ~HasAsked(r) \/ pc[r] = "plan" => spawned[r] = 0
    /\ pc[r] = "get_agent" => spawned[r] < Len(plan[r]) /\ chosen[r] \in Agents
    /\ pc[r] \in {"await", "add_assistant"} \/ HasAnswered(r) => spawned[r] = Len(plan[r])
    /\ pc[r] = "add_assistant" \/ HasAnswered(r) => Len(responses[r]) = Len(plan[r])

\* The subtasks of a request that are spawned are the first of its plan, and
\* the responses collected are those of the first of them, in their order.
SubtasksOK(r) ==
    /\ Len(responses[r]) <= spawned[r]
    /\ spawned[r] <= Len(plan[r])
    /\ Len(plan[r]) <= MaxSubtasks
    /\ \A i \in 1..MaxSubtasks : status[<<r, i>>] = "unspawned" <=> i > spawned[r]
    /\ \A k \in DOMAIN responses[r] :
          /\ status[<<r, k>>] = "done"
          /\ responses[r][k] = [of |-> <<r, k>>, result |-> result[<<r, k>>]]

ResultsOK == \A t \in Subtasks : status[t] = "done" => result[t] \in Responses

\* A message of a session is of a request of the session that has added it.
MessageOK(m, s) ==
    /\ Session(m.from) = s
    /\ m.role = "User" => HasAsked(m.from)
    /\ m.role = "Assistant" => HasAnswered(m.from) /\ m = Answer(m.from)

\* Of two messages of a request, the earlier is its question and the later its
\* answer; a question is not left without the answer it had.
OrderOK(messages) ==
    /\ \A i, j \in DOMAIN messages :
          messages[i].from = messages[j].from /\ i < j =>
             messages[i].role = "User" /\ messages[j].role = "Assistant"
    /\ \A i \in DOMAIN messages :
          LET r == messages[i].from
          IN  messages[i].role = "User" /\ HasAnswered(r)
                 => \E j \in DOMAIN messages : messages[j] = Answer(r)

\* A session is about to be trimmed, or what takes it over its limits are
\* questions that have no answer.
LimitsOK(s) ==
    LET messages == context[s].messages
    IN  \/ \E r \in Requests : Session(r) = s /\ pc[r] = "trim"
        \/ \E n \in 0..Len(messages) :
              /\ Fits(SubSeq(messages, 1, n))
              /\ \A i \in (n + 1)..Len(messages) :
                    messages[i].role = "User" /\ ~HasAnswered(messages[i].from)

SessionInv(s) ==
    /\ SessionOK(context[s], Message)
    /\ \A i \in DOMAIN context[s].messages : MessageOK(context[s].messages[i], s)
    /\ OrderOK(context[s].messages)
    /\ LimitsOK(s)

IInv ==
    /\ TypeOK
    /\ ResultsOK
    /\ \A r \in Requests : StageOK(r) /\ SubtasksOK(r)
    /\ context \in [Sessions -> SessionOf(Message)]
    /\ \A s \in Sessions : SessionInv(s)

-----------------------------------------------------------------------------
(* Messages. *)

LEMMA MessagesAreSized == Sized(Message)
BY DEF Sized, Message

LEMMA TokensAreNat == ASSUME NEW bytes \in Nat PROVE CountTokens(bytes) \in Nat
BY DEF CountTokens

LEMMA AggregateIsNat ==
    ASSUME NEW T, NEW collected \in Seq([of: T, result: Responses])
    PROVE  AggregateBytes(collected) \in Nat
<1> DEFINE R == [of: T, result: Responses]
           f == [i \in DOMAIN collected |-> collected[i].result.bytes]
<1>a. collected \in Seq(R)
  OBVIOUS
<1> HIDE DEF R, f
<1>1. /\ Len(collected) \in Nat /\ DOMAIN collected = 1..Len(collected)
      /\ \A i \in 1..Len(collected) : collected[i] \in R
  BY <1>a
<1>2. \A i \in 1..Len(collected) : f[i] \in Nat
  <2> SUFFICES ASSUME NEW i \in 1..Len(collected) PROVE f[i] \in Nat
    OBVIOUS
  <2>1. collected[i].result \in Response
    BY <1>1, OrchestratorConfig DEF R
  <2>2. collected[i].result.bytes \in Nat
    BY <2>1 DEF Response
  <2>3. QED
    BY <1>1, <2>2 DEF f
<1>3. SumTo(f, Len(collected)) \in Nat
  BY <1>1, <1>2, SumIsNat
<1>4. CASE collected = << >>
  <2>1. AggregateBytes(collected) = 0
    BY <1>4 DEF AggregateBytes
  <2>2. QED
    BY <2>1
<1>5. CASE collected # << >>
  <2>1. AggregateBytes(collected) = 2 * (Len(collected) - 1) + SumTo(f, Len(collected))
    BY <1>5 DEF AggregateBytes, f
  <2>2. Len(collected) - 1 \in Nat
    BY <1>1, <1>5
  <2>3. QED
    BY <1>3, <2>1, <2>2
<1>6. QED
  BY <1>4, <1>5

LEMMA QuestionAndAnswer ==
    ASSUME TypeOK, NEW r \in Requests
    PROVE  /\ Session(r) \in Sessions
           /\ Question(r) \in Message /\ Question(r).role = "User" /\ Question(r).from = r
           /\ Answer(r) \in Message /\ Answer(r).role = "Assistant" /\ Answer(r).from = r
<1>1. request[r] \in UserRequest
  BY OrchestratorConfig DEF TypeOK
<1>2. Session(r) \in Sessions /\ request[r].message.bytes \in Nat
  BY <1>1 DEF UserRequest, Text, Session
<1>3. AggregateBytes(responses[r]) \in Nat
  <2>1. responses[r] \in Seq([of: Subtasks, result: Responses])
    BY DEF TypeOK
  <2>2. QED
    BY <2>1, AggregateIsNat
<1>4. ASSUME NEW bytes \in Nat, NEW role \in {"User", "Assistant"}
      PROVE  /\ MessageOf(r, role, bytes) \in Message
             /\ MessageOf(r, role, bytes).role = role /\ MessageOf(r, role, bytes).from = r
  BY TokensAreNat DEF MessageOf, Message
<1>5. QED
  BY <1>2, <1>3, <1>4 DEF Question, Answer

-----------------------------------------------------------------------------
(* Sessions. *)

\* A session that a step leaves alone, and none of whose requests it answers or
\* trims for.
LEMMA SessionKept ==
    ASSUME IInv, NEW s \in Sessions, context'[s] = context[s], request' = request,
           \A r \in Requests : /\ HasAsked(r) => HasAsked(r)'
                               /\ Session(r) = s => (HasAnswered(r)' <=> HasAnswered(r))
                               /\ HasAnswered(r) => HasAnswered(r)' /\ responses'[r] = responses[r]
                               /\ Session(r) = s /\ pc[r] = "trim" => pc'[r] = "trim"
    PROVE  SessionInv(s)'
<1> DEFINE ms == context[s].messages
<1>1. SessionInv(s)
  BY DEF IInv
<1>2. ms \in Seq(Message)
  BY <1>1 DEF SessionInv, SessionOK, SessionOf
<1>3. /\ DOMAIN ms = 1..Len(ms) /\ Len(ms) \in Nat
      /\ \A i \in DOMAIN ms : ms[i].from \in Requests
  <2> HIDE DEF ms
  <2>1. /\ DOMAIN ms = 1..Len(ms) /\ Len(ms) \in Nat
        /\ \A i \in DOMAIN ms : ms[i] \in Message
    BY <1>2, Elements
  <2>2. QED
    BY <2>1 DEF Message
<1>4. \A r \in Requests : HasAnswered(r) => Answer(r)' = Answer(r)
  <2> SUFFICES ASSUME NEW r \in Requests, HasAnswered(r)
               PROVE  Answer(r)' = Answer(r)
    OBVIOUS
  <2>1. responses'[r] = responses[r]
    OBVIOUS
  <2>2. AggregateBytes(responses'[r]) = AggregateBytes(responses[r])
    BY <2>1
  <2>3. QED
    BY <2>2 DEF Answer
<1>5. \A i \in DOMAIN ms : MessageOK(ms[i], s)'
  <2> SUFFICES ASSUME NEW m, m \in {ms[i] : i \in DOMAIN ms} PROVE MessageOK(m, s)'
    OBVIOUS
  <2>1. MessageOK(m, s) /\ m.from \in Requests
    BY <1>1, <1>3 DEF SessionInv
  <2>2. QED
    BY <1>4, <2>1 DEF MessageOK, Session
<1>6. \A i \in DOMAIN ms : Session(ms[i].from) = s
  BY <1>1 DEF SessionInv, MessageOK
<1>7. OrderOK(ms)'
  <2> SUFFICES ASSUME NEW i \in DOMAIN ms, ms[i].role = "User", HasAnswered(ms[i].from)'
               PROVE  \E j \in DOMAIN ms : ms[j] = Answer(ms[i].from)'
    BY <1>1 DEF SessionInv, OrderOK
  <2>1. HasAnswered(ms[i].from) /\ Answer(ms[i].from)' = Answer(ms[i].from)
    BY <1>3, <1>4, <1>6
  <2>2. QED
    BY <1>1, <2>1 DEF SessionInv, OrderOK
<1>8. LimitsOK(s)'
  <2>1. CASE \E r \in Requests : Session(r) = s /\ pc[r] = "trim"
    BY <2>1 DEF LimitsOK, Session
  <2>2. CASE \E n \in 0..Len(ms) :
                /\ Fits(SubSeq(ms, 1, n))
                /\ \A i \in (n + 1)..Len(ms) : ms[i].role = "User" /\ ~HasAnswered(ms[i].from)
    <3>1. PICK n \in 0..Len(ms) :
                /\ Fits(SubSeq(ms, 1, n))
                /\ \A i \in (n + 1)..Len(ms) : ms[i].role = "User" /\ ~HasAnswered(ms[i].from)
      BY <2>2
    <3>2. ASSUME NEW i \in (n + 1)..Len(ms) PROVE ~HasAnswered(ms[i].from)'
      <4>1. i \in DOMAIN ms
        BY <1>3
      <4>2. ms[i].from \in Requests /\ ~HasAnswered(ms[i].from) /\ Session(ms[i].from) = s
        BY <1>3, <1>6, <3>1, <4>1
      <4>3. QED
        BY <4>2
    <3>3. QED
      BY <3>1, <3>2 DEF LimitsOK
  <2>3. QED
    BY <1>1, <2>1, <2>2 DEF SessionInv, LimitsOK
<1>9. QED
  BY <1>1, <1>5, <1>7, <1>8 DEF SessionInv

LEMMA SessionsKept ==
    ASSUME IInv, context' = context, request' = request,
           \A r \in Requests : /\ HasAsked(r) => HasAsked(r)'
                               /\ HasAnswered(r)' <=> HasAnswered(r)
                               /\ HasAnswered(r) => responses'[r] = responses[r]
                               /\ pc[r] = "trim" => pc'[r] = "trim"
    PROVE  /\ context' \in [Sessions -> SessionOf(Message)]
           /\ \A s \in Sessions : SessionInv(s)'
BY SessionKept DEF IInv

\* add_message() by process(): the question of a request that has asked
\* nothing yet, or the answer of one that has not answered and will trim next.
LEMMA MessageAdded ==
    ASSUME IInv, NEW r \in Requests, NEW m \in Message,
           context' = [context EXCEPT ![Session(r)] = AfterAddMessage(context[Session(r)], m)],
           request' = request, responses' = responses, ~HasAnswered(r), HasAsked(r)',
           \A q \in Requests \ {r} : /\ HasAsked(q)' <=> HasAsked(q)
                                     /\ HasAnswered(q)' <=> HasAnswered(q)
                                     /\ pc'[q] = pc[q],
           \/ m = Question(r) /\ ~HasAsked(r) /\ ~HasAnswered(r)'
           \/ m = Answer(r) /\ HasAnswered(r)' /\ pc'[r] = "trim"
    PROVE  /\ context' \in [Sessions -> SessionOf(Message)]
           /\ \A s \in Sessions : SessionInv(s)'
<1>1. PICK own \in Sessions : TypeOK /\ own = Session(r) /\ SessionInv(own)
  BY QuestionAndAnswer DEF IInv
<1>2. PICK ms, d, all :
         /\ ms = context[own].messages /\ d = AfterAddMessage(context[own], m)
         /\ SessionOK(d, Message) /\ all = Append(ms, m) /\ d.messages = all
  BY <1>1, MessagesAreSized, AddMessageOK DEF SessionInv
<1> DEFINE n == Len(ms)
<1>3. context' \in [Sessions -> SessionOf(Message)] /\ context'[own] = d
      /\ \A s \in Sessions \ {own} : context'[s] = context[s]
  <2>1. context \in [Sessions -> SessionOf(Message)] /\ d \in SessionOf(Message)
        /\ context' = [context EXCEPT ![own] = d]
    BY <1>1, <1>2 DEF IInv, SessionOK
  <2>2. QED
    BY <1>1, <2>1
<1>4. ~(pc[r] = "trim")
  BY DEF HasAnswered
<1>5. ASSUME NEW s \in Sessions \ {own} PROVE SessionInv(s)'
  <2>1. \A q \in Requests : Session(q) = s => q # r
    BY <1>1
  <2>2. QED
    BY <1>3, <1>4, <2>1, SessionKept
<1>6. /\ ms \in Seq(Message) /\ n \in Nat /\ DOMAIN ms = 1..n
      /\ DOMAIN all = 1..(n + 1) /\ Len(all) = n + 1
      /\ all[n + 1] = m /\ \A i \in 1..n : all[i] = ms[i]
  <2>1. ms \in Seq(Message)
    BY <1>1, <1>2 DEF SessionInv, SessionOK, SessionOf
  <2>2. QED
    BY <1>2, <2>1
<1>7. \A i \in 1..n : ms[i] \in Message
  BY <1>6, Elements
<1>8. \A i \in 1..n : MessageOK(ms[i], own) /\ ms[i].from \in Requests
                       /\ ms[i].role \in {"User", "Assistant"}
  BY <1>1, <1>2, <1>6, <1>7 DEF SessionInv, Message
<1>9. m.from = r /\ \A q \in Requests : Answer(q)' = Answer(q)
  <2>1. \A q \in Requests : Answer(q)' = Answer(q)
    <3> SUFFICES ASSUME NEW q \in Requests PROVE Answer(q)' = Answer(q)
      OBVIOUS
    <3>1. AggregateBytes(responses'[q]) = AggregateBytes(responses[q])
      OBVIOUS
    <3>2. QED
      BY <3>1 DEF Answer
  <2>2. QED
    BY <1>1, <2>1, QuestionAndAnswer
<1> HIDE DEF n
<1>10. \A i \in 1..(n + 1) : MessageOK(all[i], own)'
  <2>1. MessageOK(m, own)'
    <3>1. /\ Question(r).role = "User" /\ Answer(r).role = "Assistant"
          /\ Session(r)' = own
      BY <1>1, QuestionAndAnswer DEF Session
    <3>2. QED
      BY <1>9, <3>1 DEF MessageOK, Session
  <2>2. ASSUME NEW i \in 1..n PROVE MessageOK(ms[i], own)'
    <3>1. PICK q \in Requests : q = ms[i].from
      BY <1>8
    <3>2. /\ Session(q) = own
          /\ ms[i].role = "User" => HasAsked(q)
          /\ ms[i].role = "Assistant" => HasAnswered(q) /\ ms[i] = Answer(q)
      BY <1>8, <3>1 DEF MessageOK
    <3>3. (HasAsked(q) => HasAsked(q)') /\ (HasAnswered(q) => HasAnswered(q)')
      OBVIOUS
    <3>4. Session(q)' = own /\ Answer(q)' = Answer(q)
      BY <1>9, <3>2 DEF Session
    <3>5. QED
      BY <3>1, <3>2, <3>3, <3>4 DEF MessageOK, Session
  <2>3. QED
    BY <1>6, <2>1, <2>2
<1>11. OrderOK(ms) /\ LimitsOK(own)
  BY <1>1, <1>2 DEF SessionInv
<1>12. \A i \in 1..n : ms[i].from = r => m = Answer(r) /\ ms[i].role = "User"
  BY <1>8 DEF MessageOK, HasAsked, HasAnswered
<1>13. m.role = IF m = Answer(r) THEN "Assistant" ELSE "User"
  BY <1>1, QuestionAndAnswer
<1>14. ASSUME NEW i \in 1..(n + 1), NEW j \in 1..(n + 1), all[i].from = all[j].from, i < j
       PROVE  all[i].role = "User" /\ all[j].role = "Assistant"
  <2>1. CASE j = n + 1
    <3>1. i \in 1..n /\ all[i] = ms[i] /\ all[j] = m
      BY <1>6, <1>14, <2>1
    <3>2. QED
      BY <1>9, <1>12, <1>13, <1>14, <3>1
  <2>2. CASE j # n + 1
    <3>1. i \in 1..n /\ j \in 1..n /\ all[i] = ms[i] /\ all[j] = ms[j]
      BY <1>6, <1>14, <2>2
    <3>2. QED
      BY <1>6, <1>11, <1>14, <3>1 DEF OrderOK
  <2>3. QED
    BY <2>1, <2>2
<1>15. ASSUME NEW i \in 1..(n + 1), all[i].role = "User", HasAnswered(all[i].from)'
       PROVE  \E j \in 1..(n + 1) : all[j] = Answer(all[i].from)'
  <2>1. CASE all[i].from = r
    <3>1. m = Answer(r) /\ Answer(r)' = Answer(r) /\ Answer(all[i].from)' = Answer(r)'
      BY <1>9, <1>15, <2>1
    <3>2. QED
      BY <1>6, <3>1
  <2>2. CASE all[i].from # r
    <3>1. i \in 1..n /\ all[i] = ms[i]
      BY <1>6, <1>9, <2>2
    <3>2. PICK q \in Requests : q = ms[i].from
      BY <1>8, <3>1
    <3>3. HasAnswered(q) /\ ms[i].role = "User"
      BY <1>15, <2>2, <3>1, <3>2
    <3>4. PICK j \in 1..n : ms[j] = Answer(q)
      BY <1>6, <1>11, <3>1, <3>2, <3>3 DEF OrderOK
    <3>5. j \in 1..(n + 1) /\ all[j] = Answer(q)
      BY <1>6, <3>4
    <3>6. Answer(all[i].from)' = Answer(q)
      BY <1>9, <3>1, <3>2
    <3>7. QED
      BY <3>5, <3>6
  <2>3. QED
    BY <2>1, <2>2
<1>16. OrderOK(all)'
  BY <1>6, <1>14, <1>15 DEF OrderOK
<1>17. LimitsOK(own)'
  <2>1. context'[own].messages = all
    BY <1>2, <1>3
  <2>2. CASE m = Answer(r) /\ pc'[r] = "trim"
    BY <1>1, <2>2 DEF LimitsOK, Session
  <2>3. CASE ~HasAnswered(r)' /\ \E q \in Requests : Session(q) = own /\ pc[q] = "trim"
    <3>1. PICK q \in Requests : Session(q) = own /\ pc[q] = "trim"
      BY <2>3
    <3>2. Session(q)' = own /\ pc'[q] = "trim"
      BY <1>4, <3>1 DEF Session
    <3>3. QED
      BY <3>2 DEF LimitsOK
  <2>4. CASE ~HasAnswered(r)' /\ m = Question(r) /\ \E k \in 0..n :
                /\ Fits(SubSeq(ms, 1, k))
                /\ \A i \in (k + 1)..n : ms[i].role = "User" /\ ~HasAnswered(ms[i].from)
    <3>1. PICK k \in 0..n :
                /\ Fits(SubSeq(ms, 1, k))
                /\ \A i \in (k + 1)..n : ms[i].role = "User" /\ ~HasAnswered(ms[i].from)
      BY <2>4
    <3>2. SubSeq(all, 1, k) = SubSeq(ms, 1, k)
      BY <1>6
    <3>3. m.role = "User"
      BY <1>1, <2>4, QuestionAndAnswer
    <3>4. ASSUME NEW i \in (k + 1)..(n + 1)
          PROVE  all[i].role = "User" /\ ~HasAnswered(all[i].from)'
      <4>1. CASE i = n + 1
        BY <1>6, <1>9, <2>4, <3>3, <4>1
      <4>2. CASE i # n + 1
        <5>1. i \in (k + 1)..n /\ i \in 1..n /\ all[i] = ms[i]
          BY <1>6, <3>4, <4>2
        <5>2. PICK q \in Requests : q = ms[i].from
          BY <1>8, <5>1
        <5>3. ms[i].role = "User" /\ ~HasAnswered(q)
          BY <3>1, <5>1, <5>2
        <5>4. ~HasAnswered(q)'
          BY <2>4, <5>3
        <5>5. QED
          BY <5>1, <5>2, <5>3, <5>4
      <4>3. QED
        BY <4>1, <4>2
    <3>5. k \in 0..(n + 1)
      BY <1>6
    <3>6. /\ k \in 0..Len(all) /\ Fits(SubSeq(all, 1, k))
          /\ \A i \in (k + 1)..Len(all) :
                /\ all[i].role = "User"
                /\ ~(pc'[all[i].from] = "trim" \/ outcome'[all[i].from] = "ok")
      BY <1>6, <3>1, <3>2, <3>4, <3>5 DEF HasAnswered
    <3>7. QED
      BY <2>1, <3>6 DEF LimitsOK, HasAnswered
  <2>5. QED
    BY <1>2, <1>11, <2>2, <2>3, <2>4 DEF LimitsOK, n
<1>18. SessionInv(own)'
  BY <1>2, <1>3, <1>6, <1>10, <1>16, <1>17 DEF SessionInv
<1>19. QED
  BY <1>3, <1>5, <1>18

\* trim_context() by process(), which has answered: what is left fits, and an
\* answer goes only after its question.
LEMMA SessionTrimmed ==
    ASSUME IInv, NEW r \in Requests, HasAnswered(r), HasAnswered(r)', HasAsked(r)',
           context' = [context EXCEPT ![Session(r)] = AfterTrim(context[Session(r)])],
           request' = request, responses' = responses,
           \A q \in Requests \ {r} : /\ HasAsked(q)' <=> HasAsked(q)
                                     /\ HasAnswered(q)' <=> HasAnswered(q)
                                     /\ pc'[q] = pc[q]
    PROVE  /\ context' \in [Sessions -> SessionOf(Message)]
           /\ \A s \in Sessions : SessionInv(s)'
<1>1. PICK own \in Sessions : TypeOK /\ own = Session(r) /\ SessionInv(own)
  BY QuestionAndAnswer DEF IInv
<1>2. PICK ms, d, left, n :
         /\ ms = context[own].messages /\ d = AfterTrim(context[own])
         /\ SessionOK(d, Message) /\ d.messages = left
         /\ LeastTrim(ms, n) /\ left = Rest(ms, n)
  BY <1>1, MessagesAreSized, AfterTrimOK DEF SessionInv
<1>3. context' \in [Sessions -> SessionOf(Message)] /\ context'[own] = d
      /\ \A s \in Sessions \ {own} : context'[s] = context[s]
  <2>1. context \in [Sessions -> SessionOf(Message)] /\ d \in SessionOf(Message)
        /\ context' = [context EXCEPT ![own] = d]
    BY <1>1, <1>2 DEF IInv, SessionOK
  <2>2. QED
    BY <1>1, <2>1
<1>4. ASSUME NEW s \in Sessions \ {own} PROVE SessionInv(s)'
  <2>1. \A q \in Requests : Session(q) = s => q # r
    BY <1>1
  <2>2. QED
    BY <1>3, <2>1, SessionKept
<1>5. /\ ms \in Seq(Message) /\ n \in 0..Len(ms) /\ Fits(left)
  BY <1>1, <1>2 DEF SessionInv, SessionOK, SessionOf, LeastTrim
<1>6. /\ Len(ms) \in Nat /\ n \in Nat /\ DOMAIN ms = 1..Len(ms)
      /\ left \in Seq(Message) /\ Len(left) = Len(ms) - n
      /\ DOMAIN left = 1..Len(left)
      /\ \A i \in 1..Len(left) : left[i] = ms[n + i] /\ n + i \in 1..Len(ms)
  <2>1. /\ left \in Seq(Message) /\ Len(left) = Len(ms) - n
        /\ \A i \in 1..(Len(ms) - n) : left[i] = ms[n + i]
    <3>1. /\ Rest(ms, n) \in Seq(Message) /\ Len(Rest(ms, n)) = Len(ms) - n
          /\ \A i \in 1..(Len(ms) - n) : Rest(ms, n)[i] = ms[n + i]
      BY <1>5, RestType
    <3>2. QED
      BY <1>2, <3>1
  <2>2. QED
    BY <1>5, <2>1
<1>7. \A i \in 1..Len(ms) : MessageOK(ms[i], own) /\ ms[i].from \in Requests
  <2>1. \A i \in 1..Len(ms) : ms[i] \in Message
    BY <1>5, Elements
  <2>2. QED
    BY <1>1, <1>2, <1>6, <2>1 DEF SessionInv, Message
<1>8. OrderOK(ms)
  BY <1>1, <1>2 DEF SessionInv
<1>9. ASSUME NEW q \in Requests
      PROVE  /\ Answer(q)' = Answer(q) /\ Session(q)' = Session(q)
             /\ (HasAsked(q) => HasAsked(q)') /\ (HasAnswered(q)' <=> HasAnswered(q))
  <2>1. AggregateBytes(responses'[q]) = AggregateBytes(responses[q])
    OBVIOUS
  <2>2. Answer(q)' = Answer(q)
    BY <2>1 DEF Answer
  <2>3. QED
    BY <2>2 DEF Session
<1>10. \A i \in 1..Len(left) : MessageOK(left[i], own)'
  <2> SUFFICES ASSUME NEW i \in 1..Len(left) PROVE MessageOK(left[i], own)'
    OBVIOUS
  <2>1. PICK q \in Requests : q = left[i].from /\ MessageOK(left[i], own)
    BY <1>6, <1>7
  <2>2. QED
    BY <1>9, <2>1 DEF MessageOK
<1>11. \A i, j \in 1..Len(left) :
          left[i].from = left[j].from /\ i < j =>
             left[i].role = "User" /\ left[j].role = "Assistant"
  <2> SUFFICES ASSUME NEW i \in 1..Len(left), NEW j \in 1..Len(left),
                      left[i].from = left[j].from, i < j
               PROVE  left[i].role = "User" /\ left[j].role = "Assistant"
    OBVIOUS
  <2>1. /\ left[i] = ms[n + i] /\ left[j] = ms[n + j] /\ n + i < n + j
        /\ n + i \in DOMAIN ms /\ n + j \in DOMAIN ms
    BY <1>6
  <2>2. QED
    BY <1>8, <2>1 DEF OrderOK
<1>12. ASSUME NEW i \in 1..Len(left), left[i].role = "User", HasAnswered(left[i].from)'
       PROVE  \E j \in 1..Len(left) : left[j] = Answer(left[i].from)'
  <2>1. left[i] = ms[n + i] /\ n + i \in 1..Len(ms)
    BY <1>6
  <2>2. PICK q \in Requests : q = left[i].from
    BY <1>7, <2>1
  <2>3. HasAnswered(q)
    BY <1>9, <1>12, <2>2
  <2>4. PICK k \in 1..Len(ms) : ms[k] = Answer(q)
    BY <1>6, <1>8, <1>12, <2>1, <2>2, <2>3 DEF OrderOK
  <2>5. ms[k].from = ms[n + i].from /\ ms[k].role = "Assistant"
    BY <1>1, <2>1, <2>2, <2>4, QuestionAndAnswer
  <2>6. n + i < k
    <3>1. ms[n + i].role # "Assistant"
      BY <1>12, <2>1
    <3>2. k # n + i
      BY <2>5, <3>1
    <3>3. ~(k < n + i)
      BY <1>6, <1>8, <2>1, <2>5 DEF OrderOK
    <3>4. QED
      BY <1>6, <2>1, <3>2, <3>3
  <2>7. k - n \in 1..Len(left) /\ n + (k - n) = k
    BY <1>6, <2>6
  <2>8. left[k - n] = Answer(q) /\ Answer(left[i].from)' = Answer(q)
    BY <1>6, <1>9, <2>2, <2>4, <2>7
  <2>9. QED
    BY <2>7, <2>8
<1>13. OrderOK(left)'
  BY <1>6, <1>11, <1>12 DEF OrderOK
<1>14. LimitsOK(own)'
  <2>1. context'[own].messages = left
    BY <1>2, <1>3
  <2>2. SubSeq(left, 1, Len(left)) = left
    BY <1>6
  <2>3. Len(left) \in 0..Len(left) /\ Fits(SubSeq(left, 1, Len(left)))
    <3>1. Len(left) \in Nat
      BY <1>5, <1>6
    <3>2. Len(left) \in 0..Len(left)
      BY <3>1
    <3>3. Fits(SubSeq(left, 1, Len(left)))
      BY <1>5, <2>2, Zenon
    <3>4. QED
      BY <3>2, <3>3
  <2>4. \A i : i \notin (Len(left) + 1)..Len(left)
    <3>1. Len(left) \in Nat
      BY <1>5, <1>6
    <3>2. QED
      BY <3>1
  <2>5. QED
    BY <2>1, <2>3, <2>4 DEF LimitsOK
<1>15. SessionInv(own)'
  BY <1>2, <1>3, <1>6, <1>10, <1>13, <1>14 DEF SessionInv
<1>16. QED
  BY <1>3, <1>4, <1>15

-----------------------------------------------------------------------------
(* Requests that a step is not about. *)

\* What a subtask that was spawned may do: not to have been, and what a subtask
\* finished with is final.
PoolKept(t) ==
    /\ status'[t] = "unspawned" <=> status[t] = "unspawned"
    /\ status[t] = "done" => status'[t] = "done" /\ result'[t] = result[t]

LEMMA SubtasksKept ==
    ASSUME IInv, NEW q \in Requests,
           plan'[q] = plan[q], spawned'[q] = spawned[q], responses'[q] = responses[q],
           \A i \in 1..MaxSubtasks : PoolKept(<<q, i>>)
    PROVE  SubtasksOK(q)'
<1>1. SubtasksOK(q)
  BY DEF IInv
<1>2. /\ DOMAIN responses[q] = 1..Len(responses[q]) /\ Len(responses[q]) \in Nat
      /\ spawned[q] \in Nat /\ Len(plan[q]) \in Nat
  <2>1. /\ responses[q] \in Seq([of: Subtasks, result: Responses])
        /\ spawned[q] \in 0..MaxSubtasks /\ plan[q] \in Seq(Capabilities)
    BY DEF IInv, TypeOK
  <2>2. QED
    BY <2>1, Elements
<1>3. DOMAIN responses[q] \subseteq 1..MaxSubtasks
  BY <1>1, <1>2, OrchestratorConfig DEF SubtasksOK
<1>4. QED
  BY <1>1, <1>3 DEF SubtasksOK, PoolKept

LEMMA RequestKept ==
    ASSUME IInv, NEW q \in Requests, request' = request,
           pc'[q] = pc[q], outcome'[q] = outcome[q], plan'[q] = plan[q],
           chosen'[q] = chosen[q], spawned'[q] = spawned[q], responses'[q] = responses[q],
           \A i \in 1..MaxSubtasks : PoolKept(<<q, i>>)
    PROVE  /\ StageOK(q)' /\ SubtasksOK(q)'
           /\ HasAsked(q)' <=> HasAsked(q)
           /\ HasAnswered(q)' <=> HasAnswered(q)
<1>1. SubtasksOK(q)'
  BY SubtasksKept
<1>2. (HasAsked(q)' <=> HasAsked(q)) /\ (HasAnswered(q)' <=> HasAnswered(q))
  BY DEF HasAsked, HasAnswered
<1>3. StageOK(q)
  BY DEF IInv
<1>4. StageOK(q)'
  BY <1>2, <1>3 DEF StageOK
<1>5. QED
  BY <1>1, <1>2, <1>4

\* A step of process() that only goes on or returns, for a request.
LEMMA Moves ==
    ASSUME IInv, NEW r \in Requests,
           UNCHANGED <<request, plan, spawned, responses, pool>>,
           \A q \in Requests \ {r} : pc'[q] = pc[q] /\ outcome'[q] = outcome[q]
                                     /\ chosen'[q] = chosen[q],
           StageOK(r)'
    PROVE  /\ ResultsOK'
           /\ \A q \in Requests : StageOK(q)' /\ SubtasksOK(q)'
           /\ \A q \in Requests \ {r} : /\ HasAsked(q)' <=> HasAsked(q)
                                        /\ HasAnswered(q)' <=> HasAnswered(q)
<1>1. status' = status /\ result' = result
  BY DEF pool
<1>2. ResultsOK'
  BY <1>1 DEF IInv, ResultsOK
<1>3. \A q \in Requests : \A i \in 1..MaxSubtasks : PoolKept(<<q, i>>)
  BY <1>1 DEF PoolKept
<1>4. SubtasksOK(r)'
  BY <1>3, SubtasksKept
<1>5. ASSUME NEW q \in Requests \ {r}
      PROVE  /\ StageOK(q)' /\ SubtasksOK(q)'
             /\ HasAsked(q)' <=> HasAsked(q)
             /\ HasAnswered(q)' <=> HasAnswered(q)
  BY <1>3, RequestKept
<1>6. QED
  BY <1>2, <1>4, <1>5

-----------------------------------------------------------------------------
(* The steps of process(). *)

LEMMA InitOK == Init => IInv
<1> SUFFICES ASSUME Init PROVE IInv
  OBVIOUS
<1>1. TypeOK
  <2>1. registry \in RegistryType
    BY OrchestratorConfig DEF Init, RegistryType
  <2>2. \A s \in Sessions : context[s].messages = << >>
    BY DEF Init, NewSession
  <2>3. spawned \in [Requests -> 0..MaxSubtasks]
    BY OrchestratorConfig DEF Init
  <2>4. \A S : << >> \in Seq(S)
    OBVIOUS
  <2>5. /\ plan \in [Requests -> Seq(Capabilities)]
        /\ responses \in [Requests -> Seq([of: Subtasks, result: Responses])]
        /\ \A s \in Sessions : context[s].messages \in Seq(Message)
    BY <2>2, <2>4, Zenon DEF Init
  <2>6. Pool!PoolTypeOK
    BY DEF Init, Pool!PoolInit, Pool!PoolTypeOK, Pool!Status
  <2>7. /\ request \in [Requests -> UserRequests] /\ pc \in [Requests -> PC]
        /\ chosen \in [Requests -> Agents \cup {NoAgent}]
        /\ outcome \in [Requests -> Outcome]
    BY DEF Init, PC, Outcome
  <2>8. QED
    BY <2>1, <2>3, <2>5, <2>6, <2>7 DEF TypeOK
<1>2. ResultsOK
  BY DEF Init, ResultsOK, Pool!PoolInit, Subtasks
<1>3. ASSUME NEW r \in Requests PROVE StageOK(r) /\ SubtasksOK(r) /\ ~HasAnswered(r)
  <2>1. /\ pc[r] = "policy" /\ outcome[r] = "pending" /\ spawned[r] = 0
        /\ plan[r] = << >> /\ responses[r] = << >>
        /\ \A i \in 1..MaxSubtasks : status[<<r, i>>] = "unspawned"
    BY DEF Init, Pool!PoolInit, Subtasks
  <2>2. QED
    BY <2>1, OrchestratorConfig DEF StageOK, SubtasksOK, HasAsked, HasAnswered
<1>4. context \in [Sessions -> SessionOf(Message)] /\ \A s \in Sessions : SessionInv(s)
  <2>1. context = [s \in Sessions |-> NewSession]
    BY DEF Init
  <2>2. SessionOK(NewSession, Message) /\ NewSession.messages = << >>
    BY NewSessionOK DEF NewSession
  <2>3. ASSUME NEW s \in Sessions PROVE SessionInv(s)
    <3>1. context[s] = NewSession
      BY <2>1
    <3>2. SubSeq(<< >>, 1, 0) = << >> /\ DOMAIN << >> = {} /\ Len(<< >>) = 0
      OBVIOUS
    <3>3. LimitsOK(s)
      <4>1. 0 \in 0..Len(context[s].messages) /\ (0 + 1)..Len(context[s].messages) = {}
        BY <2>2, <3>1
      <4>2. Fits(SubSeq(context[s].messages, 1, 0))
        BY <2>2, <3>1, <3>2, NothingFits
      <4>3. QED
        BY <4>1, <4>2 DEF LimitsOK
    <3>4. QED
      BY <2>2, <3>1, <3>2, <3>3 DEF SessionInv, OrderOK
  <2>4. NewSession \in SessionOf(Message)
    BY <2>2 DEF SessionOK
  <2>5. QED
    BY <2>1, <2>3, <2>4
<1>5. QED
  BY <1>1, <1>2, <1>3, <1>4 DEF IInv

\* The verdict is remembered by where process() goes.
LEMMA CheckPolicyInv ==
    ASSUME IInv, NEW r \in Requests, CheckPolicy(r)
    PROVE  IInv'
<1>1. /\ UNCHANGED <<request, plan, chosen, spawned, responses, context, registry, pool>>
      /\ pc[r] = "policy" /\ outcome[r] = "pending" /\ StageOK(r)
      /\ pc \in [Requests -> PC] /\ outcome \in [Requests -> Outcome]
  BY DEF CheckPolicy, At, IInv, StageOK, TypeOK
<1> DEFINE verdict == CheckUserInput(request[r].message)
<1>2. \/ verdict = "pass" /\ Goto(r, "budget")
      \/ verdict = "fail" /\ Return(r, "policy_violation")
      \/ verdict = "panic" /\ Return(r, "panic")
  <2>1. verdict \in {"pass", "fail", "panic"}
    BY DEF CheckUserInput
  <2>2. QED
    BY <2>1 DEF CheckPolicy
<1>3. /\ pc' \in [Requests -> PC] /\ outcome' \in [Requests -> Outcome]
      /\ \A q \in Requests \ {r} : pc'[q] = pc[q] /\ outcome'[q] = outcome[q]
      /\ \/ verdict = "pass" /\ pc'[r] = "budget" /\ outcome'[r] = "pending"
         \/ pc'[r] = "returned" /\ outcome'[r] \in {"policy_violation", "panic"}
  BY <1>1, <1>2 DEF Goto, Return, PC, Outcome
<1>4. TypeOK'
  BY <1>1, <1>3 DEF IInv, TypeOK, pool, Pool!PoolTypeOK
<1>5. (~HasAsked(r) /\ ~HasAnswered(r)) /\ (~HasAsked(r) /\ ~HasAnswered(r))'
  BY <1>1, <1>3 DEF HasAsked, HasAnswered
<1>6. StageOK(r)'
  BY <1>1, <1>3, <1>5 DEF StageOK
<1>7. /\ ResultsOK'
      /\ \A q \in Requests : StageOK(q)' /\ SubtasksOK(q)'
      /\ \A q \in Requests \ {r} : /\ HasAsked(q)' <=> HasAsked(q)
                                   /\ HasAnswered(q)' <=> HasAnswered(q)
  BY <1>1, <1>3, <1>6, Moves
<1>8. /\ context' \in [Sessions -> SessionOf(Message)]
      /\ \A s \in Sessions : SessionInv(s)'
  BY <1>1, <1>3, <1>5, <1>7, SessionsKept
<1>9. QED
  BY <1>4, <1>7, <1>8 DEF IInv

LEMMA CheckBudgetInv ==
    ASSUME IInv, NEW r \in Requests, CheckBudget(r)
    PROVE  IInv'
<1>1. /\ UNCHANGED <<request, plan, chosen, spawned, responses, context, registry, pool>>
      /\ pc[r] = "budget" /\ outcome[r] = "pending" /\ StageOK(r)
      /\ pc \in [Requests -> PC] /\ outcome \in [Requests -> Outcome]
  BY DEF CheckBudget, At, IInv, StageOK, TypeOK
<1>2. /\ pc' \in [Requests -> PC] /\ outcome' \in [Requests -> Outcome]
      /\ \A q \in Requests \ {r} : pc'[q] = pc[q] /\ outcome'[q] = outcome[q]
      /\ \/ pc'[r] = "add_user" /\ outcome'[r] = "pending"
         \/ pc'[r] = "returned" /\ outcome'[r] = "budget_exceeded"
  BY <1>1 DEF CheckBudget, Goto, Return, PC, Outcome
<1>3. TypeOK'
  BY <1>1, <1>2 DEF IInv, TypeOK, pool, Pool!PoolTypeOK
<1>4. (~HasAsked(r) /\ ~HasAnswered(r)) /\ (~HasAsked(r) /\ ~HasAnswered(r))'
  BY <1>1, <1>2 DEF HasAsked, HasAnswered
<1>5. StageOK(r)'
  BY <1>1, <1>2, <1>4 DEF StageOK
<1>6. /\ ResultsOK'
      /\ \A q \in Requests : StageOK(q)' /\ SubtasksOK(q)'
      /\ \A q \in Requests \ {r} : /\ HasAsked(q)' <=> HasAsked(q)
                                   /\ HasAnswered(q)' <=> HasAnswered(q)
  BY <1>1, <1>2, <1>5, Moves
<1>7. /\ context' \in [Sessions -> SessionOf(Message)]
      /\ \A s \in Sessions : SessionInv(s)'
  BY <1>1, <1>2, <1>4, <1>6, SessionsKept
<1>8. QED
  BY <1>3, <1>6, <1>7 DEF IInv

LEMMA MakePlanInv ==
    ASSUME IInv, NEW r \in Requests, MakePlan(r)
    PROVE  IInv'
<1>1. /\ UNCHANGED <<request, chosen, spawned, responses, context, registry, pool>>
      /\ pc[r] = "plan" /\ outcome[r] = "pending" /\ StageOK(r) /\ SubtasksOK(r)
      /\ pc \in [Requests -> PC] /\ outcome \in [Requests -> Outcome]
      /\ plan \in [Requests -> Seq(Capabilities)]
  BY DEF MakePlan, At, IInv, StageOK, TypeOK
<1>2. ASSUME NEW p \in Plans \cup {DeterministicPlan(r)}
      PROVE  p \in Seq(Capabilities) /\ Len(p) \in 0..MaxSubtasks
  <2>1. CASE p \in Plans
    <3>1. PICK n \in 0..MaxSubtasks : p \in [1..n -> Capabilities]
      BY <2>1, OrchestratorConfig
    <3>2. n \in Nat
      BY OrchestratorConfig
    <3>3. QED
      BY <3>1, <3>2
  <2>2. CASE p = DeterministicPlan(r)
    <3>1. request[r] \in UserRequest
      BY OrchestratorConfig DEF IInv, TypeOK
    <3>2. PICK c \in Capabilities : p = <<c>>
      BY <2>2, <3>1, OrchestratorConfig DEF DeterministicPlan, UserRequest
    <3>3. QED
      BY <3>2, OrchestratorConfig
  <2>3. QED
    BY <2>1, <2>2
<1>3. /\ pc' \in [Requests -> PC] /\ outcome' \in [Requests -> Outcome]
      /\ plan' \in [Requests -> Seq(Capabilities)] /\ Len(plan'[r]) \in 0..MaxSubtasks
      /\ \A q \in Requests \ {r} : /\ pc'[q] = pc[q] /\ outcome'[q] = outcome[q]
                                   /\ plan'[q] = plan[q]
      /\ \/ pc'[r] = "route" /\ outcome'[r] = "pending"
         \/ pc'[r] = "returned" /\ outcome'[r] = "error"
  <2>1. CASE /\ plan' \in {[plan EXCEPT ![r] = p] : p \in Plans \cup {DeterministicPlan(r)}}
             /\ Goto(r, "route")
    <3>1. PICK p \in Plans \cup {DeterministicPlan(r)} : plan' = [plan EXCEPT ![r] = p]
      BY <2>1
    <3>2. p \in Seq(Capabilities) /\ Len(p) \in 0..MaxSubtasks
      BY <1>2
    <3>3. QED
      BY <1>1, <2>1, <3>1, <3>2 DEF Goto, PC, Outcome
  <2>2. CASE Return(r, "error") /\ UNCHANGED plan
    <3>1. Len(plan[r]) \in 0..MaxSubtasks
      <4>1. Len(plan[r]) \in Nat /\ Len(plan[r]) <= MaxSubtasks
        BY <1>1, Elements DEF SubtasksOK
      <4>2. QED
        BY <4>1, OrchestratorConfig
    <3>2. QED
      BY <1>1, <2>2, <3>1 DEF Return, PC, Outcome
  <2>3. QED
    BY <2>1, <2>2 DEF MakePlan
<1>4. TypeOK'
  BY <1>1, <1>3 DEF IInv, TypeOK, pool, Pool!PoolTypeOK
<1>5. (HasAsked(r) /\ ~HasAnswered(r)) /\ (HasAsked(r) /\ ~HasAnswered(r))'
  BY <1>1, <1>3 DEF HasAsked, HasAnswered
<1>6. status' = status /\ result' = result
  BY <1>1 DEF pool
<1>7. StageOK(r)' /\ SubtasksOK(r)'
  <2>1. spawned[r] = 0 /\ spawned'[r] = 0 /\ Len(plan'[r]) \in Nat /\ Len(plan'[r]) <= MaxSubtasks
    BY <1>1, <1>3, OrchestratorConfig DEF StageOK
  <2>2. StageOK(r)'
    BY <1>1, <1>3, <1>5, <2>1 DEF StageOK
  <2>3. QED
    BY <1>1, <1>6, <2>1, <2>2 DEF SubtasksOK
<1>8. \A q \in Requests : \A i \in 1..MaxSubtasks : PoolKept(<<q, i>>)
  BY <1>6 DEF PoolKept
<1>9. ASSUME NEW q \in Requests \ {r}
      PROVE  /\ StageOK(q)' /\ SubtasksOK(q)'
             /\ HasAsked(q)' <=> HasAsked(q)
             /\ HasAnswered(q)' <=> HasAnswered(q)
  BY <1>1, <1>3, <1>8, RequestKept
<1>10. ResultsOK'
  BY <1>6 DEF IInv, ResultsOK
<1>11. /\ context' \in [Sessions -> SessionOf(Message)]
       /\ \A s \in Sessions : SessionInv(s)'
  BY <1>1, <1>3, <1>5, <1>9, SessionsKept
<1>12. QED
  BY <1>4, <1>7, <1>9, <1>10, <1>11 DEF IInv

\* No agent, or one that route() may have chosen.
LEMMA RouteInv ==
    ASSUME IInv, NEW r \in Requests, Route(r)
    PROVE  IInv'
<1>1. /\ UNCHANGED <<request, plan, spawned, responses, context, registry, pool>>
      /\ pc[r] = "route" /\ outcome[r] = "pending" /\ StageOK(r) /\ SubtasksOK(r)
      /\ pc \in [Requests -> PC] /\ outcome \in [Requests -> Outcome]
      /\ chosen \in [Requests -> Agents \cup {NoAgent}]
      /\ spawned[r] \in Nat /\ Len(plan[r]) \in Nat
  <2>1. plan[r] \in Seq(Capabilities) /\ spawned[r] \in 0..MaxSubtasks
    BY DEF IInv, TypeOK
  <2>2. QED
    BY <2>1, Elements DEF Route, At, IInv, StageOK, TypeOK
<1> DEFINE best == BestFor(registry, plan[r][spawned[r] + 1])
<1>2. best \subseteq Agents
  BY DEF BestFor, Capable, Registered
<1>3. /\ pc' \in [Requests -> PC] /\ outcome' \in [Requests -> Outcome]
      /\ chosen' \in [Requests -> Agents \cup {NoAgent}]
      /\ \A q \in Requests \ {r} : /\ pc'[q] = pc[q] /\ outcome'[q] = outcome[q]
                                   /\ chosen'[q] = chosen[q]
      /\ \/ pc'[r] = "await" /\ outcome'[r] = "pending" /\ spawned[r] = Len(plan[r])
         \/ pc'[r] = "returned" /\ outcome'[r] = "error"
         \/ /\ pc'[r] = "get_agent" /\ outcome'[r] = "pending"
            /\ spawned[r] # Len(plan[r]) /\ chosen'[r] \in Agents
  <2>1. CASE spawned[r] = Len(plan[r])
    BY <1>1, <2>1 DEF Route, Goto, PC
  <2>2. CASE spawned[r] # Len(plan[r]) /\ best = {}
    BY <1>1, <2>2 DEF Route, Return, PC, Outcome
  <2>3. CASE spawned[r] # Len(plan[r]) /\ best # {}
    <3> HIDE DEF best
    <3>1. PICK a \in best : chosen' = [chosen EXCEPT ![r] = a] /\ Goto(r, "get_agent")
      BY <2>3 DEF Route, best
    <3>2. QED
      BY <1>1, <1>2, <2>3, <3>1 DEF Goto, PC
  <2>4. QED
    BY <2>1, <2>2, <2>3
<1> HIDE DEF best
<1>4. TypeOK'
  BY <1>1, <1>3 DEF IInv, TypeOK, pool, Pool!PoolTypeOK
<1>5. (HasAsked(r) /\ ~HasAnswered(r)) /\ (HasAsked(r) /\ ~HasAnswered(r))'
  BY <1>1, <1>3 DEF HasAsked, HasAnswered
<1>6. StageOK(r)'
  BY <1>1, <1>3, <1>5 DEF StageOK, SubtasksOK
<1>7. /\ ResultsOK'
      /\ \A q \in Requests : StageOK(q)' /\ SubtasksOK(q)'
      /\ \A q \in Requests \ {r} : /\ HasAsked(q)' <=> HasAsked(q)
                                   /\ HasAnswered(q)' <=> HasAnswered(q)
  BY <1>1, <1>3, <1>6, Moves
<1>8. /\ context' \in [Sessions -> SessionOf(Message)]
      /\ \A s \in Sessions : SessionInv(s)'
  BY <1>1, <1>3, <1>5, <1>7, SessionsKept
<1>9. QED
  BY <1>4, <1>7, <1>8 DEF IInv

\* The next subtask of the plan is spawned: it never was before.
LEMMA GetAgentInv ==
    ASSUME IInv, NEW r \in Requests, GetAgent(r)
    PROVE  IInv'
<1>1. /\ UNCHANGED <<request, plan, chosen, responses, context, registry>>
      /\ pc[r] = "get_agent" /\ outcome[r] = "pending" /\ StageOK(r) /\ SubtasksOK(r)
      /\ pc \in [Requests -> PC] /\ outcome \in [Requests -> Outcome]
      /\ spawned \in [Requests -> 0..MaxSubtasks]
      /\ spawned[r] \in Nat /\ Len(plan[r]) \in Nat /\ MaxSubtasks \in Nat
      /\ Len(responses[r]) \in Nat /\ DOMAIN responses[r] = 1..Len(responses[r])
  <2>1. /\ plan[r] \in Seq(Capabilities) /\ spawned \in [Requests -> 0..MaxSubtasks]
        /\ responses[r] \in Seq([of: Subtasks, result: Responses])
    BY DEF IInv, TypeOK
  <2>2. /\ Len(plan[r]) \in Nat /\ Len(responses[r]) \in Nat
        /\ DOMAIN responses[r] = 1..Len(responses[r])
    BY <2>1, Elements
  <2>3. QED
    BY <2>1, <2>2, OrchestratorConfig DEF GetAgent, At, IInv, StageOK, TypeOK
<1>2. spawned[r] < Len(plan[r]) /\ Len(plan[r]) <= MaxSubtasks /\ Len(responses[r]) <= spawned[r]
  BY <1>1 DEF StageOK, SubtasksOK
<1>3. CASE registry[chosen[r]] = NoAgent
  <2>1. /\ UNCHANGED <<spawned, pool>>
        /\ pc' \in [Requests -> PC] /\ outcome' \in [Requests -> Outcome]
        /\ \A q \in Requests \ {r} : pc'[q] = pc[q] /\ outcome'[q] = outcome[q]
        /\ pc'[r] = "returned" /\ outcome'[r] = "error"
    BY <1>1, <1>3 DEF GetAgent, Return, PC, Outcome
  <2>2. TypeOK'
    BY <1>1, <2>1 DEF IInv, TypeOK, pool, Pool!PoolTypeOK
  <2>3. (HasAsked(r) /\ ~HasAnswered(r)) /\ (HasAsked(r) /\ ~HasAnswered(r))'
    BY <1>1, <2>1 DEF HasAsked, HasAnswered
  <2>4. StageOK(r)'
    BY <1>1, <2>1, <2>3 DEF StageOK
  <2>5. /\ ResultsOK'
        /\ \A q \in Requests : StageOK(q)' /\ SubtasksOK(q)'
        /\ \A q \in Requests \ {r} : /\ HasAsked(q)' <=> HasAsked(q)
                                     /\ HasAnswered(q)' <=> HasAnswered(q)
    BY <1>1, <2>1, <2>4, Moves
  <2>6. /\ context' \in [Sessions -> SessionOf(Message)]
        /\ \A s \in Sessions : SessionInv(s)'
    BY <1>1, <2>1, <2>3, <2>5, SessionsKept
  <2>7. QED
    BY <2>2, <2>5, <2>6 DEF IInv
<1>4. CASE registry[chosen[r]] # NoAgent
  <2>1. PICK t : t = <<r, spawned[r] + 1>>
    OBVIOUS
  <2>2. /\ spawned' = [spawned EXCEPT ![r] = spawned[r] + 1]
        /\ Pool!Submit(<<r, spawned'[r]>>) /\ Goto(r, "route")
    BY <1>4 DEF GetAgent
  <2>3. /\ pc' \in [Requests -> PC] /\ outcome' = outcome
        /\ spawned' \in [Requests -> 0..MaxSubtasks] /\ spawned'[r] = spawned[r] + 1
        /\ \A q \in Requests \ {r} : pc'[q] = pc[q] /\ spawned'[q] = spawned[q]
        /\ pc'[r] = "route"
    BY <1>1, <1>2, <2>2 DEF Goto, PC
  <2>4. t \in Subtasks /\ status[t] = "unspawned"
        /\ status' = [status EXCEPT ![t] = "waiting"] /\ result' = result
    <3>1. t = <<r, spawned'[r]>>
      BY <2>1, <2>3
    <3>2. spawned[r] + 1 \in 1..MaxSubtasks
      BY <1>1, <1>2
    <3>3. t \in Subtasks
      BY <2>1, <3>2 DEF Subtasks
    <3>4. Pool!Submit(t)
      BY <2>2, <3>1
    <3>5. QED
      BY <3>3, <3>4 DEF Pool!Submit
  <2>5. status \in [Subtasks -> Pool!Status] /\ result \in [Subtasks -> Responses \cup {NoResult}]
    BY DEF IInv, TypeOK, Pool!PoolTypeOK
  <2>6. status'[t] = "waiting" /\ \A u \in Subtasks : u # t => status'[u] = status[u]
    BY <2>4, <2>5
  <2>7. TypeOK'
    <3>1. Pool!PoolTypeOK'
      BY <2>4, <2>5 DEF Pool!PoolTypeOK, Pool!Status
    <3>2. QED
      BY <1>1, <2>3, <3>1 DEF IInv, TypeOK
  <2>8. ResultsOK'
    BY <2>4, <2>6 DEF IInv, ResultsOK
  <2>9. (HasAsked(r) /\ ~HasAnswered(r)) /\ (HasAsked(r) /\ ~HasAnswered(r))'
    BY <1>1, <2>3 DEF HasAsked, HasAnswered
  <2>10. StageOK(r)'
    BY <1>1, <2>3, <2>9 DEF StageOK
  <2>11. SubtasksOK(r)'
    <3>1. ASSUME NEW i \in 1..MaxSubtasks
          PROVE  status'[<<r, i>>] = "unspawned" <=> i > spawned'[r]
      <4>1. status[<<r, i>>] = "unspawned" <=> i > spawned[r]
        BY <1>1 DEF SubtasksOK
      <4>2. CASE i = spawned[r] + 1
        BY <1>1, <2>1, <2>3, <2>6, <4>2
      <4>3. CASE i # spawned[r] + 1
        <5>1. <<r, i>> \in Subtasks /\ <<r, i>> # t
          BY <2>1, <4>3 DEF Subtasks
        <5>2. status'[<<r, i>>] = status[<<r, i>>]
          BY <2>6, <5>1
        <5>3. i > spawned'[r] <=> i > spawned[r]
          BY <1>1, <2>3, <4>3
        <5>4. QED
          BY <4>1, <5>2, <5>3
      <4>4. QED
        BY <4>2, <4>3
    <3>2. ASSUME NEW k \in DOMAIN responses[r]
          PROVE  /\ status'[<<r, k>>] = "done"
                 /\ responses[r][k] = [of |-> <<r, k>>, result |-> result[<<r, k>>]]
      <4>1. k \in 1..MaxSubtasks /\ k # spawned[r] + 1
        BY <1>1, <1>2
      <4>2. <<r, k>> \in Subtasks /\ <<r, k>> # t
        BY <2>1, <4>1 DEF Subtasks
      <4>3. QED
        BY <1>1, <2>6, <4>2 DEF SubtasksOK
    <3>3. QED
      BY <1>1, <1>2, <2>3, <2>4, <3>1, <3>2 DEF SubtasksOK
  <2>12. ASSUME NEW q \in Requests \ {r}
         PROVE  /\ StageOK(q)' /\ SubtasksOK(q)'
                /\ HasAsked(q)' <=> HasAsked(q)
                /\ HasAnswered(q)' <=> HasAnswered(q)
    <3>1. ASSUME NEW i \in 1..MaxSubtasks PROVE PoolKept(<<q, i>>)
      <4>1. <<q, i>> \in Subtasks /\ <<q, i>> # t
        BY <2>1 DEF Subtasks
      <4>2. QED
        BY <2>4, <2>6, <4>1 DEF PoolKept
    <3>2. QED
      BY <1>1, <2>3, <3>1, RequestKept
  <2>13. /\ context' \in [Sessions -> SessionOf(Message)]
         /\ \A s \in Sessions : SessionInv(s)'
    BY <1>1, <2>3, <2>9, <2>12, SessionsKept
  <2>14. QED
    BY <2>7, <2>8, <2>10, <2>11, <2>12, <2>13 DEF IInv
<1>5. QED
  BY <1>3, <1>4

\* A handle is taken in its turn, and its subtask has ended.
LEMMA AwaitInv ==
    ASSUME IInv, NEW r \in Requests, Await(r)
    PROVE  IInv'
<1> DEFINE R == [of: Subtasks, result: Responses]
<1>1. /\ UNCHANGED <<request, plan, chosen, spawned, context, registry, pool>>
      /\ pc[r] = "await" /\ outcome[r] = "pending" /\ StageOK(r) /\ SubtasksOK(r)
      /\ pc \in [Requests -> PC] /\ outcome \in [Requests -> Outcome]
      /\ responses \in [Requests -> Seq(R)]
  BY DEF Await, At, IInv, StageOK, TypeOK
<1> HIDE DEF R
<1>2. /\ responses[r] \in Seq(R) /\ Len(responses[r]) \in Nat
      /\ DOMAIN responses[r] = 1..Len(responses[r])
      /\ spawned[r] \in Nat /\ Len(plan[r]) \in Nat /\ MaxSubtasks \in Nat
  <2>1. plan[r] \in Seq(Capabilities) /\ spawned[r] \in 0..MaxSubtasks
    BY DEF IInv, TypeOK
  <2>2. responses[r] \in Seq(R)
    BY <1>1
  <2>3. QED
    BY <2>1, <2>2, Elements, OrchestratorConfig
<1>3. /\ Len(responses[r]) <= spawned[r] /\ spawned[r] = Len(plan[r])
      /\ Len(plan[r]) <= MaxSubtasks
  BY <1>1 DEF StageOK, SubtasksOK
<1>4. status' = status /\ result' = result
  BY <1>1 DEF pool
<1>5. ResultsOK'
  BY <1>4 DEF IInv, ResultsOK
<1>6. \A q \in Requests : \A i \in 1..MaxSubtasks : PoolKept(<<q, i>>)
  BY <1>4 DEF PoolKept
<1>7. PICK n : n = Len(responses[r])
  OBVIOUS
<1>8. /\ pc' \in [Requests -> PC] /\ outcome' = outcome
      /\ responses' \in [Requests -> Seq(R)]
      /\ \A q \in Requests \ {r} : pc'[q] = pc[q] /\ responses'[q] = responses[q]
      /\ \/ n = Len(plan[r]) /\ pc'[r] = "add_assistant" /\ responses'[r] = responses[r]
         \/ /\ n # Len(plan[r]) /\ pc'[r] = "await" /\ status[<<r, n + 1>>] = "done"
            /\ responses'[r] = Append(responses[r], [of |-> <<r, n + 1>>,
                                                     result |-> result[<<r, n + 1>>]])
  <2>1. CASE n = Len(plan[r])
    <3>1. Goto(r, "add_assistant") /\ responses' = responses
      BY <1>7, <2>1 DEF Await
    <3>2. QED
      BY <1>1, <2>1, <3>1 DEF Goto, PC
  <2>2. CASE n # Len(plan[r])
    <3>1. PICK e : e = [of |-> <<r, n + 1>>, result |-> result[<<r, n + 1>>]]
      OBVIOUS
    <3>2. /\ status[<<r, n + 1>>] = "done"
          /\ responses' = [responses EXCEPT ![r] = Append(responses[r], e)]
          /\ UNCHANGED <<pc, outcome>>
      BY <1>7, <2>2, <3>1 DEF Await
    <3>3. <<r, n + 1>> \in Subtasks
      BY <1>2, <1>3, <1>7, <2>2 DEF Subtasks
    <3>4. e \in R
      BY <3>1, <3>2, <3>3 DEF R, IInv, ResultsOK
    <3>5. Append(responses[r], e) \in Seq(R)
      BY <1>2, <3>4
    <3>6. QED
      BY <1>1, <2>2, <3>1, <3>2, <3>5
  <2>3. QED
    BY <2>1, <2>2
<1>9. TypeOK'
  <2>1. responses' \in [Requests -> Seq([of: Subtasks, result: Responses])]
    BY <1>8 DEF R
  <2>2. QED
    BY <1>1, <1>8, <2>1 DEF IInv, TypeOK, pool, Pool!PoolTypeOK
<1>10. (HasAsked(r) /\ ~HasAnswered(r)) /\ (HasAsked(r) /\ ~HasAnswered(r))'
  BY <1>1, <1>8 DEF HasAsked, HasAnswered
<1>11. StageOK(r)'
  <2>1. pc'[r] = "add_assistant" => Len(responses'[r]) = Len(plan[r])
    BY <1>7, <1>8
  <2>2. QED
    BY <1>1, <1>3, <1>8, <1>10, <2>1 DEF StageOK
<1>12. SubtasksOK(r)'
  <2>1. CASE responses'[r] = responses[r]
    BY <1>1, <1>6, <2>1, SubtasksKept
  <2>2. CASE responses'[r] # responses[r]
    <3>1. PICK old, e : /\ old = responses[r] /\ responses'[r] = Append(old, e)
                        /\ e = [of |-> <<r, n + 1>>, result |-> result[<<r, n + 1>>]]
                        /\ status[<<r, n + 1>>] = "done" /\ n # Len(plan[r])
      BY <1>8, <2>2
    <3>2. old \in Seq(R) /\ n = Len(old) /\ n \in Nat
      BY <1>2, <1>7, <3>1
    <3>3. /\ Len(responses'[r]) = n + 1 /\ DOMAIN responses'[r] = 1..(n + 1)
          /\ responses'[r][n + 1] = e /\ \A k \in 1..n : responses'[r][k] = old[k]
      BY <3>1, <3>2
    <3>4. ASSUME NEW k \in DOMAIN responses'[r]
          PROVE  /\ status[<<r, k>>] = "done"
                 /\ responses'[r][k] = [of |-> <<r, k>>, result |-> result[<<r, k>>]]
      <4>1. CASE k = n + 1
        BY <3>1, <3>3, <4>1
      <4>2. CASE k # n + 1
        <5>1. k \in DOMAIN old /\ responses'[r][k] = old[k]
          BY <1>2, <3>1, <3>2, <3>3, <4>2
        <5>2. QED
          BY <1>1, <3>1, <5>1 DEF SubtasksOK
      <4>3. QED
        BY <4>1, <4>2
    <3>5. n + 1 <= spawned[r]
      BY <1>2, <1>3, <1>7, <3>1
    <3>6. QED
      BY <1>1, <1>4, <3>3, <3>4, <3>5 DEF SubtasksOK
  <2>3. QED
    BY <2>1, <2>2
<1>13. ASSUME NEW q \in Requests \ {r}
       PROVE  /\ StageOK(q)' /\ SubtasksOK(q)'
              /\ HasAsked(q)' <=> HasAsked(q)
              /\ HasAnswered(q)' <=> HasAnswered(q)
  BY <1>1, <1>6, <1>8, RequestKept
<1>14. /\ context' \in [Sessions -> SessionOf(Message)]
       /\ \A s \in Sessions : SessionInv(s)'
  BY <1>1, <1>8, <1>10, <1>13, SessionsKept
<1>15. QED
  BY <1>5, <1>9, <1>11, <1>12, <1>13, <1>14 DEF IInv

\* Facts about a step of process() that touches a session and goes on.
LEMMA ContextStep ==
    ASSUME IInv, NEW r \in Requests, NEW next \in PC, NEW what \in Outcome,
           UNCHANGED <<request, plan, chosen, spawned, responses, registry, pool>>,
           pc' = [pc EXCEPT ![r] = next], outcome' = [outcome EXCEPT ![r] = what],
           StageOK(r)',
           /\ context' \in [Sessions -> SessionOf(Message)]
           /\ \A s \in Sessions : SessionInv(s)'
    PROVE  IInv'
<1>1. pc \in [Requests -> PC] /\ outcome \in [Requests -> Outcome]
  BY DEF IInv, TypeOK
<1>2. /\ pc' \in [Requests -> PC] /\ outcome' \in [Requests -> Outcome]
      /\ \A q \in Requests \ {r} : pc'[q] = pc[q] /\ outcome'[q] = outcome[q]
  BY <1>1
<1>3. \A s \in Sessions : context'[s].messages \in Seq(Message)
  BY DEF SessionInv, SessionOK, SessionOf
<1>4. TypeOK'
  BY <1>2, <1>3 DEF IInv, TypeOK, pool, Pool!PoolTypeOK
<1>5. ResultsOK' /\ \A q \in Requests : StageOK(q)' /\ SubtasksOK(q)'
  BY <1>2, Moves
<1>6. QED
  BY <1>4, <1>5 DEF IInv

LEMMA AddQuestionInv ==
    ASSUME IInv, NEW r \in Requests, AddQuestion(r)
    PROVE  IInv'
<1>1. /\ UNCHANGED <<request, plan, chosen, spawned, responses, registry, pool>>
      /\ pc[r] = "add_user" /\ outcome[r] = "pending" /\ StageOK(r)
      /\ context' = [context EXCEPT ![Session(r)] = AfterAddMessage(context[Session(r)], Question(r))]
      /\ pc \in [Requests -> PC] /\ outcome \in [Requests -> Outcome]
      /\ pc' = [pc EXCEPT ![r] = "plan"] /\ outcome' = outcome
  BY DEF AddQuestion, At, Goto, IInv, StageOK, TypeOK
<1>2. /\ outcome' = [outcome EXCEPT ![r] = "pending"]
      /\ pc'[r] = "plan" /\ outcome'[r] = "pending"
      /\ \A q \in Requests \ {r} : pc'[q] = pc[q] /\ outcome'[q] = outcome[q]
  BY <1>1
<1>3. /\ ~HasAsked(r) /\ ~HasAnswered(r) /\ HasAsked(r)' /\ ~HasAnswered(r)'
      /\ \A q \in Requests \ {r} : /\ HasAsked(q)' <=> HasAsked(q)
                                   /\ HasAnswered(q)' <=> HasAnswered(q)
  BY <1>1, <1>2 DEF HasAsked, HasAnswered
<1>4. StageOK(r)'
  BY <1>1, <1>2, <1>3 DEF StageOK
<1>5. Question(r) \in Message
  BY QuestionAndAnswer DEF IInv
<1>6. /\ context' \in [Sessions -> SessionOf(Message)]
      /\ \A s \in Sessions : SessionInv(s)'
  BY <1>1, <1>2, <1>3, <1>5, MessageAdded
<1>7. "plan" \in PC /\ "pending" \in Outcome
  BY DEF PC, Outcome
<1>8. QED
  BY <1>1, <1>2, <1>4, <1>6, <1>7, ContextStep

LEMMA AddAnswerInv ==
    ASSUME IInv, NEW r \in Requests, AddAnswer(r)
    PROVE  IInv'
<1>1. /\ UNCHANGED <<request, plan, chosen, spawned, responses, registry, pool>>
      /\ pc[r] = "add_assistant" /\ outcome[r] = "pending" /\ StageOK(r)
      /\ context' = [context EXCEPT ![Session(r)] = AfterAddMessage(context[Session(r)], Answer(r))]
      /\ pc \in [Requests -> PC] /\ outcome \in [Requests -> Outcome]
      /\ pc' = [pc EXCEPT ![r] = "trim"] /\ outcome' = outcome
  BY DEF AddAnswer, At, Goto, IInv, StageOK, TypeOK
<1>2. /\ outcome' = [outcome EXCEPT ![r] = "pending"]
      /\ pc'[r] = "trim" /\ outcome'[r] = "pending"
      /\ \A q \in Requests \ {r} : pc'[q] = pc[q] /\ outcome'[q] = outcome[q]
  BY <1>1
<1>3. /\ ~HasAnswered(r) /\ HasAsked(r)' /\ HasAsked(r) /\ HasAnswered(r)'
      /\ \A q \in Requests \ {r} : /\ HasAsked(q)' <=> HasAsked(q)
                                   /\ HasAnswered(q)' <=> HasAnswered(q)
  BY <1>1, <1>2 DEF HasAsked, HasAnswered
<1>4. StageOK(r)'
  BY <1>1, <1>2, <1>3 DEF StageOK
<1>5. Answer(r) \in Message
  BY QuestionAndAnswer DEF IInv
<1>6. /\ context' \in [Sessions -> SessionOf(Message)]
      /\ \A s \in Sessions : SessionInv(s)'
  BY <1>1, <1>2, <1>3, <1>5, MessageAdded
<1>7. "trim" \in PC /\ "pending" \in Outcome
  BY DEF PC, Outcome
<1>8. QED
  BY <1>1, <1>2, <1>4, <1>6, <1>7, ContextStep

LEMMA TrimInv ==
    ASSUME IInv, NEW r \in Requests, Trim(r)
    PROVE  IInv'
<1>1. /\ UNCHANGED <<request, plan, chosen, spawned, responses, registry, pool>>
      /\ pc[r] = "trim" /\ outcome[r] = "pending" /\ StageOK(r)
      /\ context' = [context EXCEPT ![Session(r)] = AfterTrim(context[Session(r)])]
      /\ pc \in [Requests -> PC] /\ outcome \in [Requests -> Outcome]
      /\ pc' = [pc EXCEPT ![r] = "returned"] /\ outcome' = [outcome EXCEPT ![r] = "ok"]
  BY DEF Trim, At, Return, IInv, StageOK, TypeOK
<1>2. /\ pc'[r] = "returned" /\ outcome'[r] = "ok"
      /\ \A q \in Requests \ {r} : pc'[q] = pc[q] /\ outcome'[q] = outcome[q]
  BY <1>1
<1>3. /\ HasAnswered(r) /\ HasAsked(r)' /\ HasAsked(r) /\ HasAnswered(r)'
      /\ \A q \in Requests \ {r} : /\ HasAsked(q)' <=> HasAsked(q)
                                   /\ HasAnswered(q)' <=> HasAnswered(q)
  BY <1>1, <1>2 DEF HasAsked, HasAnswered
<1>4. StageOK(r)'
  BY <1>1, <1>2, <1>3 DEF StageOK
<1>5. /\ context' \in [Sessions -> SessionOf(Message)]
      /\ \A s \in Sessions : SessionInv(s)'
  BY <1>1, <1>2, <1>3, SessionTrimmed
<1>6. "returned" \in PC /\ "ok" \in Outcome
  BY DEF PC, Outcome
<1>7. QED
  BY <1>1, <1>2, <1>4, <1>5, <1>6, ContextStep

-----------------------------------------------------------------------------
(* The steps of the rest of the program. *)

LEMMA RequestsAndSessionsKept ==
    ASSUME IInv, UNCHANGED <<request, pc, plan, chosen, spawned, responses, outcome, context>>,
           \A t \in Subtasks : PoolKept(t)
    PROVE  /\ \A r \in Requests : StageOK(r)' /\ SubtasksOK(r)'
           /\ context' \in [Sessions -> SessionOf(Message)]
           /\ \A s \in Sessions : SessionInv(s)'
<1>1. ASSUME NEW q \in Requests
      PROVE  /\ StageOK(q)' /\ SubtasksOK(q)'
             /\ HasAsked(q)' <=> HasAsked(q)
             /\ HasAnswered(q)' <=> HasAnswered(q)
  <2>1. \A i \in 1..MaxSubtasks : PoolKept(<<q, i>>)
    BY DEF Subtasks
  <2>2. QED
    BY <2>1, RequestKept
<1>2. QED
  BY <1>1, SessionsKept

LEMMA RegistryInv ==
    ASSUME IInv, registry' \in RegistryType,
           UNCHANGED <<request, pc, plan, chosen, spawned, responses, outcome, context, pool>>
    PROVE  IInv'
<1>1. status' = status /\ result' = result
  BY DEF pool
<1>2. TypeOK' /\ ResultsOK'
  BY <1>1 DEF IInv, TypeOK, Pool!PoolTypeOK, ResultsOK
<1>3. \A t \in Subtasks : PoolKept(t)
  BY <1>1 DEF PoolKept
<1>4. QED
  BY <1>2, <1>3, RequestsAndSessionsKept DEF IInv

LEMMA RegisterInv ==
    ASSUME IInv, NEW a \in Agents, NEW info \in Infos, Register(a, info)
    PROVE  IInv'
<1>1. registry' \in RegistryType
  BY OrchestratorConfig DEF Register, IInv, TypeOK, RegistryType
<1>2. QED
  BY <1>1, RegistryInv DEF Register

LEMMA UnregisterInv ==
    ASSUME IInv, NEW a \in Agents, Unregister(a)
    PROVE  IInv'
<1>1. registry' \in RegistryType
  BY DEF Unregister, IInv, TypeOK, RegistryType
<1>2. QED
  BY <1>1, RegistryInv DEF Unregister

\* A subtask that was spawned has been, and what it finished with is final.
LEMMA PoolStep ==
    ASSUME IInv, NEW t \in Subtasks, RunSubtask(t)
    PROVE  /\ Pool!PoolTypeOK' /\ ResultsOK'
           /\ \A u \in Subtasks : PoolKept(u)
<1>1. /\ status \in [Subtasks -> Pool!Status]
      /\ result \in [Subtasks -> Responses \cup {NoResult}] /\ ResultsOK
  BY DEF IInv, TypeOK, Pool!PoolTypeOK
<1>2. CASE Pool!Start(t)
  <2>1. /\ status[t] = "waiting" /\ result' = result
        /\ status' = [status EXCEPT ![t] = "running"]
    BY <1>2 DEF Pool!Start
  <2>2. /\ status' \in [Subtasks -> Pool!Status] /\ status'[t] = "running"
        /\ \A u \in Subtasks : u # t => status'[u] = status[u]
    BY <1>1, <2>1 DEF Pool!Status
  <2>3. QED
    BY <1>1, <2>1, <2>2 DEF Pool!PoolTypeOK, ResultsOK, PoolKept
<1>3. ASSUME NEW x \in Responses, Pool!Finish(t, x)
      PROVE  /\ Pool!PoolTypeOK' /\ ResultsOK'
             /\ \A u \in Subtasks : PoolKept(u)
  <2>1. status[t] = "running" /\ result' = [result EXCEPT ![t] = x]
    BY <1>3 DEF Pool!Finish
  <2>2. /\ result' \in [Subtasks -> Responses \cup {NoResult}] /\ result'[t] = x
        /\ \A u \in Subtasks : u # t => result'[u] = result[u]
    BY <1>1, <2>1
  <2>3. CASE status' = [status EXCEPT ![t] = "done"]
    <3>1. /\ status' \in [Subtasks -> Pool!Status] /\ status'[t] = "done"
          /\ \A u \in Subtasks : u # t => status'[u] = status[u]
      BY <1>1, <2>3 DEF Pool!Status
    <3>2. QED
      BY <1>1, <2>1, <2>2, <3>1 DEF Pool!PoolTypeOK, ResultsOK, PoolKept
  <2>4. ASSUME NEW next \in Pool!In("waiting"),
               status' = [status EXCEPT ![t] = "done", ![next] = "running"]
        PROVE  /\ Pool!PoolTypeOK' /\ ResultsOK'
               /\ \A u \in Subtasks : PoolKept(u)
    <3>1. next \in Subtasks /\ status[next] = "waiting" /\ next # t
      BY <2>1 DEF Pool!In
    <3>2. /\ status' \in [Subtasks -> Pool!Status]
          /\ status'[t] = "done" /\ status'[next] = "running"
          /\ \A u \in Subtasks : u # t /\ u # next => status'[u] = status[u]
      BY <1>1, <2>4, <3>1 DEF Pool!Status
    <3>3. QED
      BY <1>1, <2>1, <2>2, <3>1, <3>2 DEF Pool!PoolTypeOK, ResultsOK, PoolKept
  <2>5. QED
    BY <1>3, <2>3, <2>4 DEF Pool!Finish
<1>4. QED
  BY <1>2, <1>3 DEF RunSubtask

LEMMA RunSubtaskInv ==
    ASSUME IInv, NEW t \in Subtasks, RunSubtask(t)
    PROVE  IInv'
<1>1. UNCHANGED <<request, pc, plan, chosen, spawned, responses, outcome, context, registry>>
  BY DEF RunSubtask
<1>2. Pool!PoolTypeOK' /\ ResultsOK' /\ \A u \in Subtasks : PoolKept(u)
  BY PoolStep
<1>3. TypeOK'
  BY <1>1, <1>2 DEF IInv, TypeOK
<1>4. QED
  BY <1>1, <1>2, <1>3, RequestsAndSessionsKept DEF IInv

LEMMA NextInv == ASSUME IInv, [Next]_vars PROVE IInv'
<1>1. ASSUME NEW r \in Requests, Process(r) PROVE IInv'
  BY <1>1, CheckPolicyInv, CheckBudgetInv, AddQuestionInv, MakePlanInv, RouteInv,
     GetAgentInv, AwaitInv, AddAnswerInv, TrimInv DEF Process
<1>2. CASE UNCHANGED vars
  <2>1. UNCHANGED <<request, pc, plan, chosen, spawned, responses, outcome, context, registry, pool>>
    BY <1>2 DEF vars, pool
  <2>2. registry' \in RegistryType
    BY <2>1 DEF IInv, TypeOK
  <2>3. QED
    BY <2>1, <2>2, RegistryInv
<1>3. QED
  BY <1>1, <1>2, RegisterInv, UnregisterInv, RunSubtaskInv DEF Next

THEOREM Invariance == Spec => []IInv
BY InitOK, NextInv, PTL DEF Spec

-----------------------------------------------------------------------------
(* Theorems *)

\* What process() keeps has its type for any requests, plans and agents: the
\* plan never has more subtasks than fit, and every response collected is what
\* a subtask may finish with.
THEOREM TypeCorrect == Spec => []TypeOK
<1>1. IInv => TypeOK
  BY DEF IInv
<1>2. QED
  BY <1>1, Invariance, PTL

\* process() answers Ok only once every subtask of the plan has ended, and with
\* the response of each, in the order of the plan, however they interleave.
THEOREM OkHasAllResponses == Spec => []OkIsComplete
<1>1. IInv => OkIsComplete
  <2> SUFFICES ASSUME IInv, NEW r \in Requests, outcome[r] = "ok"
               PROVE  /\ Len(responses[r]) = Len(plan[r])
                      /\ \A i \in DOMAIN plan[r] :
                            /\ status[<<r, i>>] = "done"
                            /\ responses[r][i] = [of |-> <<r, i>>, result |-> result[<<r, i>>]]
    BY DEF OkIsComplete
  <2>1. Len(responses[r]) = Len(plan[r]) /\ SubtasksOK(r)
    BY DEF IInv, StageOK, HasAnswered
  <2>2. DOMAIN plan[r] = 1..Len(plan[r]) /\ DOMAIN responses[r] = 1..Len(responses[r])
    <3>1. /\ plan[r] \in Seq(Capabilities)
          /\ responses[r] \in Seq([of: Subtasks, result: Responses])
      BY DEF IInv, TypeOK
    <3>2. QED
      BY <3>1, Elements
  <2>3. QED
    BY <2>1, <2>2 DEF SubtasksOK
<1>2. QED
  BY <1>1, Invariance, PTL

\* A request that the policy or the budget refuses has no message in any
\* session and no subtask, at any time and whatever else is in progress.
THEOREM RefusalsLeaveNothing == Spec => []RefusedLeavesNoTrace
<1>1. IInv => RefusedLeavesNoTrace
  <2> SUFFICES ASSUME IInv, NEW r \in Requests,
                      \/ CheckUserInput(request[r].message) # "pass"
                      \/ outcome[r] = "budget_exceeded"
               PROVE  /\ \A s \in Sessions : \A i \in DOMAIN context[s].messages :
                            context[s].messages[i].from # r
                      /\ \A i \in 1..MaxSubtasks : status[<<r, i>>] = "unspawned"
    BY DEF RefusedLeavesNoTrace
  <2>1. ~HasAsked(r) /\ ~HasAnswered(r)
    BY DEF IInv, StageOK, HasAsked, HasAnswered
  <2>2. ASSUME NEW s \in Sessions, NEW i \in DOMAIN context[s].messages
        PROVE  context[s].messages[i].from # r
    <3>1. PICK m : m = context[s].messages[i] /\ MessageOK(m, s)
      BY DEF IInv, SessionInv
    <3>2. m.role \in {"User", "Assistant"}
      <4>1. PICK ms : ms = context[s].messages /\ ms \in Seq(Message)
        BY DEF IInv, SessionInv, SessionOK, SessionOf
      <4>2. i \in 1..Len(ms) /\ m = ms[i]
        BY <3>1, <4>1, Elements
      <4>3. m \in Message
        BY <4>1, <4>2, Elements
      <4>4. QED
        BY <4>3 DEF Message
    <3>3. QED
      BY <2>1, <3>1, <3>2 DEF MessageOK
  <2>3. ASSUME NEW i \in 1..MaxSubtasks PROVE status[<<r, i>>] = "unspawned"
    <3>1. spawned[r] = 0 /\ SubtasksOK(r)
      BY <2>1 DEF IInv, StageOK
    <3>2. i > spawned[r]
      BY <3>1
    <3>3. QED
      BY <3>1, <3>2 DEF SubtasksOK
  <2>4. QED
    BY <2>2, <2>3
<1>2. QED
  BY <1>1, Invariance, PTL

\* A session holds the messages of its own requests, each question and answer
\* once and the question first, and loses the answer of a request only after
\* its question, however the requests of the session interleave.
THEOREM ConversationsAreOrdered == Spec => []ConversationsKeepOrder
<1>1. IInv => ConversationsKeepOrder
  <2> SUFFICES ASSUME IInv, NEW s \in Sessions, NEW ms, ms = context[s].messages
               PROVE  /\ \A i \in DOMAIN ms : Session(ms[i].from) = s
                      /\ \A i, j \in DOMAIN ms :
                            ms[i].from = ms[j].from /\ i < j =>
                               ms[i].role = "User" /\ ms[j].role = "Assistant"
                      /\ \A i \in DOMAIN ms :
                            LET r == ms[i].from
                            IN  ms[i].role = "User" /\ outcome[r] = "ok"
                                   => \E j \in DOMAIN ms : ms[j] = Answer(r)
    BY DEF ConversationsKeepOrder
  <2>1. OrderOK(ms) /\ \A i \in DOMAIN ms : MessageOK(ms[i], s)
    BY DEF IInv, SessionInv
  <2>2. QED
    BY <2>1 DEF OrderOK, MessageOK, HasAnswered
<1>2. QED
  BY <1>1, Invariance, PTL

\* When no request is working on a session, only questions of failed requests
\* take it over its limits: every answer was followed by a trim, and no failure
\* of one request keeps the trim of another from what it owes the session.
THEOREM AnswersFit == Spec => []OverflowIsUnanswered
<1>1. IInv => OverflowIsUnanswered
  <2> SUFFICES ASSUME IInv, NEW s \in Sessions, NEW ms, ms = context[s].messages,
                      \A r \in Requests : Session(r) = s => pc[r] \in {"policy", "returned"}
               PROVE  \E n \in 0..Len(ms) :
                         /\ Fits(SubSeq(ms, 1, n))
                         /\ \A i \in (n + 1)..Len(ms) :
                               ms[i].role = "User" /\ outcome[ms[i].from] = "error"
    BY DEF OverflowIsUnanswered
  <2>1. PICK n \in 0..Len(ms) :
              /\ Fits(SubSeq(ms, 1, n))
              /\ \A i \in (n + 1)..Len(ms) : ms[i].role = "User" /\ ~HasAnswered(ms[i].from)
    BY DEF IInv, SessionInv, LimitsOK
  <2>2. ms \in Seq(Message)
    BY DEF IInv, SessionInv, SessionOK, SessionOf
  <2>3. ASSUME NEW i \in (n + 1)..Len(ms) PROVE outcome[ms[i].from] = "error"
    <3>1. i \in DOMAIN ms /\ i \in 1..Len(ms)
      BY <2>2, Elements
    <3>2. ms[i] \in Message
      BY <2>2, <3>1, Elements
    <3>3. ms[i].from \in Requests
      BY <3>2 DEF Message
    <3>4. MessageOK(ms[i], s) /\ ms[i].role = "User" /\ ~HasAnswered(ms[i].from)
      BY <2>1, <3>1 DEF IInv, SessionInv
    <3>5. HasAsked(ms[i].from) /\ pc[ms[i].from] \in {"policy", "returned"}
      BY <3>3, <3>4 DEF MessageOK
    <3>6. QED
      BY <3>4, <3>5 DEF HasAsked, HasAnswered
  <2>4. QED
    BY <2>1, <2>3
<1>2. QED
  BY <1>1, Invariance, PTL

\* process() uses the pool of subtasks as TaskPool, which Dispatch implements,
\* lets it: it submits each subtask once, and nothing else touches the pool.
THEOREM PoolIsUsedAsSpecified == Spec => Pool!PoolSpec
<1>1. Init => Pool!PoolInit
  BY DEF Init
<1>2. IInv /\ [Next]_vars => [Pool!PoolNext]_<<status, result>>
  <2> SUFFICES ASSUME IInv, [Next]_vars
               PROVE  [Pool!PoolNext]_<<status, result>>
    OBVIOUS
  <2>1. ASSUME NEW r \in Requests, Process(r) PROVE [Pool!PoolNext]_<<status, result>>
    <3>1. CASE UNCHANGED pool
      BY <3>1 DEF pool
    <3>2. CASE ~UNCHANGED pool
      <4>1. GetAgent(r)
        BY <2>1, <3>2 DEF Process, CheckPolicy, CheckBudget, AddQuestion, MakePlan,
           Route, Await, AddAnswer, Trim
      <4>2. spawned' = [spawned EXCEPT ![r] = spawned[r] + 1] /\ Pool!Submit(<<r, spawned'[r]>>)
        BY <3>2, <4>1 DEF GetAgent
      <4>3. spawned'[r] \in 1..MaxSubtasks
        <5>1. /\ spawned \in [Requests -> 0..MaxSubtasks] /\ plan[r] \in Seq(Capabilities)
              /\ spawned[r] < Len(plan[r]) /\ Len(plan[r]) <= MaxSubtasks
          BY <4>1 DEF IInv, TypeOK, StageOK, SubtasksOK, GetAgent, At
        <5>2. QED
          BY <4>2, <5>1, OrchestratorConfig
      <4>4. <<r, spawned'[r]>> \in Subtasks
        BY <4>3 DEF Subtasks
      <4>5. QED
        BY <4>2, <4>4 DEF Pool!PoolNext
    <3>3. QED
      BY <3>1, <3>2
  <2>2. ASSUME NEW t \in Subtasks, RunSubtask(t) PROVE Pool!PoolNext
    BY <2>2 DEF RunSubtask, Pool!PoolNext
  <2>3. ASSUME NEW a \in Agents, NEW info \in Infos, Register(a, info)
        PROVE  UNCHANGED <<status, result>>
    BY <2>3 DEF Register, pool
  <2>4. ASSUME NEW a \in Agents, Unregister(a) PROVE UNCHANGED <<status, result>>
    BY <2>4 DEF Unregister, pool
  <2>5. CASE UNCHANGED vars
    BY <2>5 DEF vars, pool
  <2>6. QED
    BY <2>1, <2>2, <2>3, <2>4, <2>5 DEF Next
<1>3. QED
  BY <1>1, <1>2, Invariance, PTL DEF Spec, Pool!PoolSpec
=============================================================================
