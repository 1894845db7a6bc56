---------------------------- MODULE MCAgentLoop -----------------------------
(***************************************************************************)
(* Instances of AgentLoop: answers with up to two tool calls, two rounds,  *)
(* two executions on one client.                                           *)
(***************************************************************************)
EXTENDS AgentLoop

MCCaller == {Loop}
MCToolCounts == 0..2
=============================================================================
