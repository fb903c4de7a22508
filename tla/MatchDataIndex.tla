--------------------------- MODULE MatchDataIndex ---------------------------
(***************************************************************************)
(* The Ruby accessors of MatchData, over the offsets pcre_exec left.  A    *)
(* substring is the span of the subject it was cut from.                   *)
(***************************************************************************)
EXTENDS Integers, Sequences

Span(b, e) == [b |-> b, e |-> e]
Nil        == Span(-1, -1)  \* nil, and the offsets of a group that took no part
Spans(n)   == {s \in [b : 0 .. n, e : 0 .. n] : s.b <= s.e}

\* the matches a pattern can have in a subject of n characters: the match
\* itself is group 0, and len is the number of groups with it
Matches(n, len) ==
  [n : {n}, len : {len},
   v : {v \in [0 .. len - 1 -> Spans(n) \cup {Nil}] : v[0] # Nil}]
-----------------------------------------------------------------------------
(* String#[start, len], String#[first .. last] and Array#[] of mruby.      *)

Min2(a, b)     == IF a < b THEN a ELSE b
Max2(a, b)     == IF a < b THEN b ELSE a
Absolute(i, n) == IF i < 0 THEN i + n ELSE i

Sub(n, start, len) ==
  LET b == Absolute(start, n) IN
  IF len < 0 \/ b < 0 \/ b > n THEN Nil ELSE Span(b, Min2(b + len, n))

SubRange(n, first, last, excl) ==
  LET b == Absolute(first, n)
      e == Absolute(last, n) + IF excl THEN 0 ELSE 1
  IN IF b < 0 \/ b > n THEN Nil ELSE Span(b, Max2(b, Min2(e, n)))

ArrayAt(s, i) ==
  LET k == Absolute(i, Len(s)) IN IF k \in 0 .. Len(s) - 1 THEN s[k + 1] ELSE Nil
-----------------------------------------------------------------------------
\* Mutant: a negative index is taken from the end of the captures.
GroupIndexOfCaptures(md, k) == IF k < 0 THEN k + md.len - 1 ELSE k

GroupIndex(md, k) == Absolute(k, md.len)

\* MatchData#[]
At(md, k) ==
  LET i == GroupIndex(md, k) IN
  IF i < 0 \/ i >= md.len \/ md.v[i] = Nil THEN Nil
  ELSE Sub(md.n, md.v[i].b, md.v[i].e - md.v[i].b)

ToA(md)      == [k \in 1 .. md.len |-> At(md, k - 1)]
Captures(md) == SubSeq(ToA(md), 2, md.len)

\* values_at has no group 0 at the index -length, where [] has it
ValueAt(md, k) == IF k = -md.len THEN Nil ELSE At(md, k)

PreMatch(md)  == Sub(md.n, 0, md.v[0].b)
PostMatch(md) == Sub(md.n, md.v[0].e, md.n)

\* The accessors describe one match, for the indices in I: an index from the
\* end names the group that to_a and captures have there, values_at agrees
\* with [] but at -length, an index outside is nil, and pre_match, match and
\* post_match tile the subject.
AccessorsAgreeOn(md, I) ==
  /\ \A k \in 0 .. md.len - 1 :
       /\ At(md, k) = md.v[k] /\ At(md, k - md.len) = md.v[k]
       /\ ToA(md)[k + 1] = md.v[k]
       /\ k > 0 => Captures(md)[k] = md.v[k] /\ ValueAt(md, k - md.len) = md.v[k]
  /\ \A k \in I : k < -md.len \/ k >= md.len => At(md, k) = Nil
  /\ PreMatch(md) = Span(0, md.v[0].b) /\ PostMatch(md) = Span(md.v[0].e, md.n)
=============================================================================
