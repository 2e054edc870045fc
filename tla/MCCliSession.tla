---------------------------- MODULE MCCliSession ----------------------------
(* TLC instance of CliSession: an answer, an error at the end, an error before  *)
(* an answer, and a stream longer than the buffer.                              *)
EXTENDS CliSession

MCStreams == {<<>>, <<"session", "text", "result">>, <<"text", "error">>,
              <<"error", "noise", "text", "result">>, <<"session", "tool", "text", "error", "noise">>}
MCStderrs == {"nothing", "rate limit", "unauthorized", "permission denied"}
=============================================================================
