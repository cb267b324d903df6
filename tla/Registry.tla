------------------------------- MODULE Registry -------------------------------
(***************************************************************************)
(* The agents a CapabilityRouter knows (application/router/mod.rs), and    *)
(* what it is asked for: the enabled agents that declare a capability, and *)
(* among them those of the highest priority.  Router compares its loops    *)
(* with these definitions and Orchestrator uses them.                      *)
(***************************************************************************)
EXTENDS Integers

CONSTANTS Agents,         \* agent ids
          Capabilities,   \* capability names
          Priorities,     \* AgentInfo::priority
          NoAgent         \* no agent has the id

AgentInfo == [capabilities: SUBSET Capabilities, enabled: BOOLEAN, priority: Priorities]

ASSUME RegistryConfig == /\ Priorities \subseteq Nat
                         /\ NoAgent \notin Agents /\ NoAgent \notin AgentInfo

RegistryType == [Agents -> AgentInfo \cup {NoAgent}]

Registered(registry) == {a \in Agents : registry[a] # NoAgent}

Capable(registry, cap) ==
    {a \in Registered(registry) : registry[a].enabled /\ cap \in registry[a].capabilities}

\* The agents that route() may choose: the map is iterated in no particular
\* order, so among equals any of them.
BestFor(registry, cap) ==
    {a \in Capable(registry, cap) :
        \A b \in Capable(registry, cap) : registry[b].priority <= registry[a].priority}
=============================================================================
