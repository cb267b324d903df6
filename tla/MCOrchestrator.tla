---------------------------- MODULE MCOrchestrator ----------------------------
(* Orchestrator on small instances. *)
EXTENDS Orchestrator

CONSTANT code   \* a capability

\* A harmless text, one that is refused, one that is cut inside a character
\* when it is refused, and one that is too large.
Plain == [bytes |-> 4, suspicious |-> FALSE, cut_in_char |-> FALSE]
Suspicious == [bytes |-> 6, suspicious |-> TRUE, cut_in_char |-> FALSE]
Cut == [bytes |-> 6, suspicious |-> TRUE, cut_in_char |-> TRUE]
Large == [bytes |-> 9, suspicious |-> FALSE, cut_in_char |-> FALSE]

Asked(texts, budget) ==
    {[session |-> s, message |-> t, max_tokens |-> budget, preferred |-> NoPreference] :
        s \in Sessions, t \in texts}

\* Requests that the policy may refuse, and the budget once a session holds an
\* answer.
MCUserRequests == Asked({Plain, Suspicious, Cut, Large}, 1)

\* Harmless requests.
MCPlainRequests == Asked({Plain}, NoBudget)

MCSplitPlans == {<<code, code>>}

MCInfos == {[capabilities |-> {code}, enabled |-> TRUE, priority |-> 1]}

MCResponses == {[error |-> e, bytes |-> 4] : e \in BOOLEAN}

\* An answer of more than twice the size of an input.
MCLongResponses == {[error |-> FALSE, bytes |-> 20]}
=============================================================================
