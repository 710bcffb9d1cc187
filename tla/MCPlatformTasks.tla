-------------------------- MODULE MCPlatformTasks --------------------------
(* Two isolates, one after the other at one address.                       *)
EXTENDS PlatformTasks
=============================================================================
