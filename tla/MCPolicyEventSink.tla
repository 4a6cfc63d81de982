-------------------------- MODULE MCPolicyEventSink --------------------------
(* Two publishers, three transitions and a queue of one: it overflows.     *)
EXTENDS PolicyEventSink
=============================================================================
