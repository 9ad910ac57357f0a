--------------------------- MODULE MCAgentSession ---------------------------
(* Instances of AgentSession: a tool that needs an approval, one that may run
   next to others, and answers of the model that ask for one or two of them.  *)
EXTENDS AgentSession

MCBatches == {<<>>, <<"ask_user">>, <<"gated", "safe", "safe">>}
PairBatches == {<<>>, <<"gated", "gated">>}
GatedBatches == {<<>>, <<"safe", "gated">>}
=============================================================================
