----------------------------- MODULE MCDaemonApi -----------------------------
(* TLC instance of DaemonApi: all constants are given in the configuration.     *)
EXTENDS DaemonApi
=============================================================================
