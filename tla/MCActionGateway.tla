-------------------------- MODULE MCActionGateway --------------------------
(* TLC instance of ActionGateway. *)
EXTENDS ActionGateway
CONSTANTS a1, a2
=============================================================================
