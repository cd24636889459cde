----------------------------- MODULE MCGateway -----------------------------
(***************************************************************************)
(* A write and a sequence, and the process around them in two lives.       *)
(***************************************************************************)
EXTENDS Gateway

(* A wallet that is there, one that is not configured, and every way in    *)
(* which the configuration is refused.                                     *)
MCEnvironments ==
  [token : {"secret"}, address : {TRUE}, walletd : {"set", "noKey"}]
  \cup [token : {"", "unset"}, address : {TRUE}, walletd : {"badEndpoint"}]
  \cup [token : {"secret"}, address : {FALSE}, walletd : {"set"}]
=============================================================================
