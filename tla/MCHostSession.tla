--------------------------- MODULE MCHostSession ---------------------------
(* Instances of HostSession for TLC: one host and up to two agents.        *)
EXTENDS HostSession

\* Every agent has one topic in its record.
MCTopicOf == [a \in Agents |-> {"news"}]

\* A welcome lists every agent, as the authority's records say.
MCPlacements == {Agents}
=============================================================================
