------------------------------ MODULE PcreExec ------------------------------
(***************************************************************************)
(* Regexp#match as the methods of String see it.  A pattern and a subject  *)
(* are abstracted to what pcre_exec finds at each position when it tries   *)
(* to match there: where the match ends, that there is none, or that       *)
(* match_limit_recursion (1000) is exceeded.  Everything a pattern can do  *)
(* in a subject except \K and \G is such a table.                          *)
(***************************************************************************)
EXTENDS Integers, FiniteSetsExt

Fail  == -1
Limit == -2

\* the tables of a subject of n characters
Tables(n, outcomes) ==
  {t \in [0 .. n -> outcomes \cup 0 .. n] : \A p \in 0 .. n : t[p] >= 0 => t[p] >= p}

NoMatch == [b |-> -1, e |-> -1]

\* The leftmost position that does not fail.  An offset outside the subject
\* is PCRE_ERROR_BADOFFSET; like a limit it makes the method return nil.
Exec(t, n, start) ==
  LET tried == {p \in start .. n : t[p] # Fail} IN
  IF start < 0 \/ tried = {} THEN NoMatch
  ELSE IF t[Min(tried)] = Limit THEN NoMatch
  ELSE [b |-> Min(tried), e |-> t[Min(tried)]]

IsEmpty(m) == m.b = m.e

\* The matches a search of the whole subject finds from position start: each
\* one begins where the one before it ended, or one further if that was empty.
AllMatches(t, n) ==
  LET from[start \in 0 .. n + 1] ==
        LET m == Exec(t, n, start) IN
        IF m = NoMatch THEN {}
        ELSE {m} \cup from[IF IsEmpty(m) THEN m.e + 1 ELSE m.e]
  IN from[0]
=============================================================================
