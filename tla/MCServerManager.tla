-------------------------- MODULE MCServerManager --------------------------
(***************************************************************************)
(* The server manager on a handful of concurrent operations.               *)
(***************************************************************************)
EXTENDS ServerManager
=============================================================================
