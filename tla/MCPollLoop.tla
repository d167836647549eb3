------------------------------ MODULE MCPollLoop ------------------------------
(* PollLoop with a few connections. *)
EXTENDS PollLoop
=============================================================================
