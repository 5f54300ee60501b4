--------------------------- MODULE MCAgentSession ---------------------------
(* Constants for TLC.  Prompts are interchangeable in the safety runs.      *)
EXTENDS AgentSession, TLC

PromptSymmetry == Permutations(Requests)
=============================================================================
