---------------------------- MODULE MCAgentPage ----------------------------
EXTENDS AgentPage
CONSTANTS a1, a2, a3, a4
MCAgents == {a1, a2, a3, a4}
MCInitially == {a1, a2}
=============================================================================
