----------------------------- MODULE MCAgentTurn -----------------------------
EXTENDS AgentTurn
=============================================================================
