------------------------------- MODULE MCPoke -------------------------------
EXTENDS Poke
CONSTANTS page, llm
=============================================================================
