------------------------------ MODULE MCShell ------------------------------
(* A command that takes one number: with it, a backspace and CR LF; with   *)
(* the number past the end of the buffer, so that it is missing; with a    *)
(* word for the number.  A line of delimiters only, and one that comes to  *)
(* nothing.  A command buffer of three characters and a NUL, a receive     *)
(* ring that wraps within every behaviour, a queue of two messages that    *)
(* the radio thread can fill.                                              *)
EXTENDS Shell, TLC

MCLines == {<<"a", "SP", "b", "BS", "1", "CR", "LF">>, <<"a", "SP", "SP", "1", "CR">>,
            <<"a", "SP", "b", "CR">>, <<"SP", "CR">>, <<"b", "BS", "LF">>}
MCParams == <<"a">> :> 1
============================================================================
