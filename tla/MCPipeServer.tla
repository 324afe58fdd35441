---------------------------- MODULE MCPipeServer ----------------------------
(***************************************************************************)
(* pipeserver.Server for TLC: two pipes for one slot, on one tunnel.       *)
(***************************************************************************)
EXTENDS PipeServer

CONSTANTS p1, p2, c1

MCPipes == {p1, p2}
MCConns == {c1}
=============================================================================
