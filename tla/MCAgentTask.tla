---------------------------- MODULE MCAgentTask ----------------------------
(***************************************************************************)
(* An instance of AgentTask for TLC: an agent that is run three times, by  *)
(* two calls of SendMessage that may overlap.                              *)
(***************************************************************************)
EXTENDS AgentTask

MCRuns == [a \in Agents |-> 3]
=============================================================================
