----------------------------- MODULE MCTunnels -----------------------------
(***************************************************************************)
(* pipeserver.Tunnels for TLC: two holders, so one redials while the other *)
(* serves, and three connections, so one has a replaced tunnel still       *)
(* serving beside the new one.                                             *)
(***************************************************************************)
EXTENDS Tunnels

CONSTANTS h1, h2, c1, c2, c3

MCHolders == {h1, h2}
MCConns == {c1, c2, c3}
=============================================================================
