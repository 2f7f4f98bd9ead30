------------------------- MODULE MC_TimeDelayHack -------------------------
(* Model-checking instance of TimeDelayHack: two well-formed contents, a  *)
(* negative one, one written by "echo" (with its trailing newline) and an *)
(* empty file; a little over two refresh periods of clock.                *)
EXTENDS TimeDelayHack

MCContents == {<<"1", "5", "0">>, <<"2", "0", "0">>, <<"-", "2", "0">>,
               <<"1", "5", "0", "\n">>, <<>>}
=============================================================================
