----------------------------- MODULE MCPipeline -----------------------------
(* Constant values for model checking the request pipeline. *)
EXTENDS RestExtension

\* Every request is made with client "a" and sent by plugin "p".
OneClient == [j \in Jobs |-> "a"]
OnePlugin == [j \in Jobs |-> "p"]
=============================================================================
