---------------------------- MODULE MCStringCalls ----------------------------
(* A small instance of StringCalls: the characters of templates are one    *)
(* for each kind of escape, among them a digit that no group of the bound  *)
(* has, and x, which escapes nothing.                                      *)
EXTENDS StringCalls

MCSymbols == {Backslash, "&", "`", "'", "+", "1", "7", "x"}
=============================================================================
