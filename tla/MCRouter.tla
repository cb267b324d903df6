------------------------------- MODULE MCRouter -------------------------------
(* Router on agents that differ in whatever it looks at. *)
EXTENDS Router

\* Agents of either priority that a request matches, one that it would match but
\* that is disabled, and one that lacks the capability.
MCInfos == [capabilities: {Capabilities}, enabled: {TRUE}, priority: Priorities]
           \cup [capabilities: {Capabilities}, enabled: {FALSE}, priority: {2}]
           \cup [capabilities: {{}}, enabled: {TRUE}, priority: {2}]
=============================================================================
