----------------------------- MODULE MCConsole -----------------------------
(***************************************************************************)
(* A screen of three rows of three cells, a prompt of one cell, lines of   *)
(* up to four characters (longer than a row), and a command table with a   *)
(* name that is the beginning of another, as uname and uname -a.           *)
(***************************************************************************)
EXTENDS Console

MCPrompt == <<">">>

MCCommands == <<<<"c">>, <<"u", " ", "u">>, <<"u">>>>
=============================================================================
