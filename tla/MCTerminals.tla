----------------------------- MODULE MCTerminals -----------------------------
(* TLC instance of Terminals: all constants are given in the configurations.    *)
EXTENDS Terminals
=============================================================================
