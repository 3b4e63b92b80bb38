----------------------------- MODULE MCShellLine ------------------------------
(* Instances of ShellLine for TLC: commands that share a beginning. *)
EXTENDS ShellLine

MCNames == {<<"a">>, <<"b", "a", "a">>, <<"b", "a", "b">>}
==============================================================================
