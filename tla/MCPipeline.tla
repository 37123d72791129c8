----------------------------- MODULE MCPipeline -----------------------------
(***************************************************************************)
(* Two callers with two calls each on a channel of two slots: the events   *)
(* of abandoned calls can fill it, so that a caller waits for a slot, and  *)
(* a caller can call again with its earlier event still in the channel.    *)
(* With max_children 0 line 1 makes the wildcard child (numeric token) and *)
(* line 2 takes it, so that the lines share a cluster and differ in its    *)
(* template; line 2 makes the engine panic if it comes first.              *)
(***************************************************************************)
EXTENDS PipelineProperties

MCLines == {1, 2}
MCTokens == {"7", "a", "b"}
MCTokensOf == << <<"7", "b">>, <<"a", "b">> >>
MCNumericTokens == {"7"}
=============================================================================
