--------------------------- MODULE MCGatewayClient ---------------------------
(***************************************************************************)
(* GatewayClient on a few calls.                                           *)
(***************************************************************************)
EXTENDS GatewayClient
=============================================================================
