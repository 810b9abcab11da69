----------------------------- MODULE MCPipeline -----------------------------
(* A step in which the tick and a request race is checked, and what follows is  *)
(* not explored: no property promises anything from there on.                   *)
EXTENDS Pipeline

NotRaced == "raced" \notin excuses

==============================================================================
