----------------------------- MODULE StringSlice -----------------------------
(***************************************************************************)
(* String#[] and String#[]= : what a selector reads, and what is left of   *)
(* the receiver before and behind the text assigned to it.                 *)
(***************************************************************************)
EXTENDS MatchDataIndex

Raised == [kind |-> "raised", before |-> Nil, behind |-> Nil]

\* String#splice; a Nil behind is nil.to_s
Splice(n, start, count) ==
  [kind |-> "ok", before |-> SubRange(n, 0, start, TRUE),
                  behind |-> SubRange(n, start + count, -1, FALSE)]

\* str[index] = val
AssignIndex(n, index) ==
  LET i == Absolute(index, n) IN
  IF i < 0 \/ i > n THEN Raised ELSE Splice(n, i, IF i = n THEN 0 ELSE 1)

\* str[index, count] = val
AssignCount(n, index, count) ==
  LET i == Absolute(index, n) IN
  IF i < 0 \/ i > n \/ count < 0 THEN Raised ELSE Splice(n, i, count)

\* str[first .. last] = val: where the range starts is not checked
AssignRange(n, first, last, excl) ==
  LET start == Absolute(first, n)
      stop  == Absolute(last, n) - IF excl THEN 1 ELSE 0
  IN Splice(n, start, IF stop < start THEN 0 ELSE stop + 1 - start)

\* str[regexp, count] = val for the match md: a group that took no part has
\* neither begin nor end, and nil - nil raises
AssignGroup(md, count) ==
  LET k == IF count < 0 /\ -count < md.len THEN count + md.len ELSE count IN
  IF k \notin 0 .. md.len - 1 \/ md.v[k] = Nil THEN Raised
  ELSE Splice(md.n, md.v[k].b, md.v[k].e - md.v[k].b)

\* mruby's str[index], which has no character at the end
ReadIndex(n, index) == IF Absolute(index, n) = n THEN Nil ELSE Sub(n, index, 1)

\* Mutant: group k is the k-th capture, from 0.
ReadGroupOffByOne(md, k) == IF k = 0 THEN At(md, 0) ELSE ArrayAt(Captures(md), k)

\* str[regexp, k] for the match md
ReadGroup(md, k) == IF k = 0 THEN At(md, 0) ELSE ArrayAt(Captures(md), k - 1)
=============================================================================
