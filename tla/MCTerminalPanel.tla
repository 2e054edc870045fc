--------------------------- MODULE MCTerminalPanel ---------------------------
(* TLC instance of TerminalPanel: all constants are given in the configuration. *)
EXTENDS TerminalPanel
=============================================================================
