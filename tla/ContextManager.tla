---------------------------- MODULE ContextManager ----------------------------
(***************************************************************************)
(* InMemoryContextManager (application/context_service/manager.rs): the    *)
(* map of sessions behind one lock.  A method that takes the lock once is  *)
(* one step; trim_context() is too, and is modelled iteration by iteration *)
(* so that its three loops can be compared with what they are to compute.  *)
(* build_agent_input() takes the lock three times, so that other methods   *)
(* may come in between.                                                    *)
(***************************************************************************)
EXTENDS Context

CONSTANTS Sessions,    \* session ids
          Messages,    \* messages that may be added
          NoSession,   \* a session that is not in the map
          NotTrimming, \* the lock is not held by trim_context()
          NotReading,  \* build_agent_input() is not under way
          NoMessage,   \* no message has the role asked for
          MaxHistory,  \* bound: messages of a session
          MaxLedger    \* bound: ledger entries of a session

VARIABLES sessions,   \* the map
          trim,       \* where trim_context() is, while it holds the lock
          reading     \* where build_agent_input() is, with its locals

vars == <<sessions, trim, reading>>

SessionContext ==
    [messages: Seq(Messages), ledger: Seq(LedgerEntryKind),
     total_tokens: Nat, total_bytes: Nat]

\* before: the session when the lock was taken (history).
TrimState == [sid: Sessions, loop: {"messages", "bytes", "tokens"}, before: SessionContext]

\* system and user: what build_system_prompt() and build_user_prompt() have
\* returned.  meanwhile: what was done to the session since the call began
\* (history).
SystemPrompt == [constraints: SUBSET Nat, decisions: SUBSET Nat]

Reading == [sid: Sessions, at: {"user", "context"}, system: SystemPrompt,
            user: Messages \cup {NoMessage},
            meanwhile: SUBSET {"message", "entry", "cleared"}]

ASSUME ManagerConfig ==
    /\ \A m \in Messages : m.tokens \in Nat /\ m.bytes \in Nat
    /\ NoSession \notin SessionContext
    /\ NotTrimming \notin TrimState /\ NotReading \notin Reading
    /\ MaxHistory \in Nat /\ MaxLedger \in Nat

TypeOK ==
    /\ sessions \in [Sessions -> SessionContext \cup {NoSession}]
    /\ trim \in TrimState \cup {NotTrimming}
    /\ trim # NotTrimming => sessions[trim.sid] # NoSession
    /\ reading \in Reading \cup {NotReading}

Init ==
    /\ sessions = [s \in Sessions |-> NoSession]
    /\ trim = NotTrimming
    /\ reading = NotReading

\* entry(sid).or_insert_with(SessionContext::new)
EntryOf(s) == IF sessions[s] = NoSession THEN NewSession ELSE sessions[s]

Unlocked == trim = NotTrimming

Noted(s, what) ==
    reading' = IF reading # NotReading /\ reading.sid = s
               THEN [reading EXCEPT !.meanwhile = @ \cup {what}] ELSE reading

AddMessage(s, m) ==
    /\ Unlocked
    /\ Len(EntryOf(s).messages) < MaxHistory
    /\ sessions' = [sessions EXCEPT ![s] = AfterAddMessage(EntryOf(s), m)]
    /\ Noted(s, "message")
    /\ UNCHANGED trim

AddLedgerEntry(s, kind) ==
    /\ Unlocked
    /\ Len(EntryOf(s).ledger) < MaxLedger
    /\ sessions' = [sessions EXCEPT ![s] = AfterAddLedgerEntry(EntryOf(s), kind)]
    /\ Noted(s, "entry")
    /\ UNCHANGED trim

ClearSession(s) ==
    /\ Unlocked
    /\ sessions[s] # NoSession
    /\ sessions' = [sessions EXCEPT ![s] = NoSession]
    /\ Noted(s, "cleared")
    /\ UNCHANGED trim

\* trim_context() takes the lock and finds the session.
TrimBegin(s) ==
    /\ Unlocked
    /\ sessions[s] # NoSession
    /\ trim' = [sid |-> s, loop |-> "messages", before |-> sessions[s]]
    /\ UNCHANGED <<sessions, reading>>

\* An iteration of the loop it is in, or the way to the next.
Drop == /\ sessions' = [sessions EXCEPT ![trim.sid] = AfterTrimFirst(@)]
        /\ UNCHANGED <<trim, reading>>

NextLoop(loop) == /\ trim' = [trim EXCEPT !.loop = loop]
                  /\ UNCHANGED <<sessions, reading>>

TrimMessages ==
    /\ ~Unlocked /\ trim.loop = "messages"
    /\ IF OverMessages(sessions[trim.sid]) THEN Drop ELSE NextLoop("bytes")

TrimBytes ==
    /\ ~Unlocked /\ trim.loop = "bytes"
    /\ IF OverBytes(sessions[trim.sid]) THEN Drop ELSE NextLoop("tokens")

\* Mutant of TrimTokens: one message is dropped, not as many as it takes.
TrimTokens_Once ==
    /\ ~Unlocked /\ trim.loop = "tokens"
    /\ trim' = NotTrimming
    /\ sessions' = IF OverTokens(sessions[trim.sid])
                   THEN [sessions EXCEPT ![trim.sid] = AfterTrimFirst(@)]
                   ELSE sessions
    /\ UNCHANGED reading

TrimTokens ==
    /\ ~Unlocked /\ trim.loop = "tokens"
    /\ IF OverTokens(sessions[trim.sid])
       THEN Drop
       ELSE trim' = NotTrimming /\ UNCHANGED <<sessions, reading>>

TrimStep == TrimMessages \/ TrimBytes \/ TrimTokens

-----------------------------------------------------------------------------
(* build_agent_input(), in its three reads. *)

\* build_system_prompt(), which is no error of an unknown session.
ReadSystemPrompt(s) ==
    /\ Unlocked /\ reading = NotReading
    /\ reading' = [sid |-> s, at |-> "user", system |-> SystemPromptOf(EntryOf(s)),
                   user |-> NoMessage, meanwhile |-> {}]
    /\ UNCHANGED <<sessions, trim>>

\* The last message of the user, if there is one.
LatestUser(messages) ==
    LET said == {i \in DOMAIN messages : messages[i].role = "User"}
    IN  IF said = {} THEN NoMessage ELSE messages[Max(said)]

\* build_user_prompt(): the error of an unknown session ends the call.
ReadUserPrompt ==
    /\ Unlocked /\ reading # NotReading /\ reading.at = "user"
    /\ reading' = IF sessions[reading.sid] = NoSession THEN NotReading
                  ELSE [reading EXCEPT !.at = "context",
                                       !.user = LatestUser(sessions[reading.sid].messages)]
    /\ UNCHANGED <<sessions, trim>>

\* The messages listed under [CONTEXT]: a session that was not trimmed yet may
\* have more.
Window(messages) ==
    SubSeq(messages, SaturatingSub(Len(messages), MaxMessages) + 1, Len(messages))

\* The input that build_agent_input() answers with.
AgentInput ==
    [system |-> reading.system, user |-> reading.user,
     context |-> Window(EntryOf(reading.sid).messages)]

AnswersInput == Unlocked /\ reading # NotReading /\ reading.at = "context"

\* The call ends with AgentInput; a session that is gone has no messages.
ReadContext ==
    /\ AnswersInput
    /\ reading' = NotReading
    /\ UNCHANGED <<sessions, trim>>

Next ==
    \/ \E s \in Sessions :
          \/ \E m \in Messages : AddMessage(s, m)
          \/ \E kind \in LedgerEntryKind : AddLedgerEntry(s, kind)
          \/ ClearSession(s)
          \/ TrimBegin(s)
          \/ ReadSystemPrompt(s)
    \/ TrimStep
    \/ ReadUserPrompt \/ ReadContext

Spec == Init /\ [][Next]_vars

\* The loops run on; nothing obliges anyone to call the manager.
FairSpec == Spec /\ WF_vars(TrimStep)

-----------------------------------------------------------------------------
(* Properties *)

\* The running totals of a session are the sums over its messages, also in the
\* middle of a trim, so the saturating subtractions never saturate and the
\* byte and token limits are tested on the truth.
TotalsMatchMessages ==
    \A s \in Sessions : sessions[s] # NoSession =>
        /\ sessions[s].total_tokens = TokensOf(sessions[s].messages)
        /\ sessions[s].total_bytes = BytesOf(sessions[s].messages)

\* What every method finds when it takes the lock, and leaves.
Consistent == TypeOK /\ TotalsMatchMessages

\* When trim_context() returns, the session holds its most recent messages
\* that fit the three limits together, and not one fewer, whichever limit bit
\* first; the ledger, and so every constraint and decision in the system
\* prompt, is what it was.  The trim in one step that Orchestrator uses is what
\* the three loops compute.
TrimKeepsRecent ==
    [][trim # NotTrimming /\ trim' = NotTrimming =>
          LET after == sessions[trim.sid]
          IN  /\ after.messages = LongestFittingSuffix(trim.before.messages)
              /\ SystemPromptOf(after) = SystemPromptOf(trim.before)
              /\ after = AfterTrim(trim.before)]_vars

\* The three reads of build_agent_input() make one conversation, whatever trims
\* come between them: unless the session is cleared meanwhile, no constraint or
\* decision of the [SYSTEM] part is one that the session no longer has, and all
\* of them are there unless one was added; and unless a message was added, the
\* message quoted as [USER] is the last of the user's under [CONTEXT], or they
\* have all left the window.
InputIsOneConversation ==
    AnswersInput /\ "cleared" \notin reading.meanwhile =>
        LET now == SystemPromptOf(EntryOf(reading.sid))
            input == AgentInput
        IN  /\ input.system.constraints \subseteq now.constraints
            /\ input.system.decisions \subseteq now.decisions
            /\ "entry" \notin reading.meanwhile => input.system = now
            /\ "message" \notin reading.meanwhile =>
                  LatestUser(input.context) \in {input.user, NoMessage}

\* trim_context() returns: each of its loops ends, even when a limit is 0 or a
\* single message is larger than a limit.
TrimEnds == trim # NotTrimming ~> trim = NotTrimming
=============================================================================
