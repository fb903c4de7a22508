---------------------------- MODULE StringSplit ----------------------------
(***************************************************************************)
(* String#split with a Regexp.  A piece of the result is a span of the     *)
(* string or what a group captured, of which only matters whether it is    *)
(* nil or empty.                                                           *)
(***************************************************************************)
EXTENDS PcreExec, Sequences, SequencesExt

CONSTANTS
  MaxLen,       \* bound on the length of the string
  MaxLimit,     \* bound on the second argument of split
  MaxGroups     \* bound on the groups of the pattern

ASSUME SplitAssumption ==
  MaxLen \in Nat /\ MaxLimit \in Nat /\ MaxGroups \in Nat

VARIABLES
  str,      \* the string, what the pattern does in it, and is its source empty?
  groups,   \* the number of groups of the pattern
  limit,    \* the second argument of split, 0 if there is none
  start,    \* where the next search starts
  last,     \* the last match
  result,
  pc

vars == <<str, groups, limit, start, last, result, pc>>

Strings ==
  (UNION { [n : {n}, at : Tables(n, {Fail, Limit}), empty : {FALSE}] : n \in 0 .. MaxLen })
  \cup { [n |-> n, at |-> [p \in 0 .. n |-> p], empty |-> TRUE] : n \in 0 .. MaxLen }

Text(b, e)     == [kind |-> "text", b |-> b, e |-> e]
Capture(blank) == [kind |-> "capture", b |-> 0, e |-> IF blank THEN 0 ELSE 1]
Blank(x)       == x.b = x.e

Init ==
  /\ str \in Strings /\ groups \in 0 .. MaxGroups
  /\ limit \in -1 .. MaxLimit
  /\ start = 0 /\ last = NoMatch /\ result = <<>> /\ pc = "begin"

SplitEmpty ==
  /\ pc = "begin" /\ str.n = 0
  /\ pc' = "done"
  /\ UNCHANGED <<str, groups, limit, start, last, result>>

SplitWhole ==
  /\ pc = "begin" /\ str.n > 0 /\ limit = 1
  /\ result' = <<Text(0, str.n)>> /\ pc' = "done"
  /\ UNCHANGED <<str, groups, limit, start, last>>

Begin ==
  /\ pc = "begin" /\ str.n > 0 /\ limit # 1
  /\ pc' = IF str.empty THEN "chars" ELSE "match"
  /\ UNCHANGED <<str, groups, limit, start, last, result>>

\* Mutant: the limit counts the pieces but the rest.
FullTooLate == limit > 0 /\ limit - Len(result) <= 0

\* limited and limit - result.size <= 1
Full == limit > 0 /\ limit - Len(result) <= 1

Trimming == IF limit = 0 THEN "trim" ELSE "done"

\* the // case: one character at a time, then the rest
SplitChars ==
  /\ pc = "chars"
  /\ IF Full \/ start + 1 >= str.n
       THEN result' = Append(result, Text(start, str.n)) /\ pc' = Trimming /\ start' = start
       ELSE result' = Append(result, Text(start, start + 1)) /\ start' = start + 1 /\ pc' = pc
  /\ UNCHANGED <<str, groups, limit, last>>

Found == Exec(str.at, str.n, start)

\* Mutant: the next piece starts with the separator.
LastBegin == IF last = NoMatch THEN 0 ELSE last.b

LastEnd == IF last = NoMatch THEN 0 ELSE last.e

\* the piece before the match, unless it is an empty match where the last one
\* ended, and the captures
Pieces ==
  IF IsEmpty(Found) /\ Found.b = LastEnd THEN {<<>>}
  ELSE {<<Text(LastEnd, Found.b)>> \o [k \in 1 .. groups |-> Capture(c[k])] :
          c \in [1 .. groups -> BOOLEAN]}

\* Mutant: every match moves on by one character.
NextStartByOne == start + 1

\* Mutant: a character is skipped behind each separator.
NextStartSkips == IF IsEmpty(Found) THEN start + 1 ELSE Found.e + 1

\* Mutant: an empty match does not move on.
NextStartStays ==
  IF IsEmpty(Found) THEN start
  ELSE IF last # NoMatch /\ IsEmpty(last) THEN Found.e + 1
  ELSE Found.e

NextStart ==
  IF IsEmpty(Found) THEN start + 1
  ELSE IF last # NoMatch /\ IsEmpty(last) THEN Found.e + 1
  ELSE Found.e

SplitMatch ==
  /\ pc = "match" /\ Found # NoMatch /\ ~Full
  /\ \E pieces \in Pieces : result' = result \o pieces
  /\ start' = NextStart
  /\ last' = Found
  /\ pc' = IF str.n <= start' THEN "rest" ELSE "match"
  /\ UNCHANGED <<str, groups, limit>>

NoMoreMatches ==
  /\ pc = "match" /\ (Found = NoMatch \/ Full)
  /\ pc' = "rest"
  /\ UNCHANGED <<str, groups, limit, start, last, result>>

\* post_match of the last match, or the whole string
AppendRest ==
  /\ pc = "rest"
  /\ result' = Append(result, Text(LastEnd, str.n))
  /\ pc' = Trimming
  /\ UNCHANGED <<str, groups, limit, start, last>>

\* while result.last.nil? or result.last.empty?: an empty result has no last
\* element, so its last is nil and popping it changes nothing
Trim ==
  /\ pc = "trim"
  /\ IF result # <<>> /\ ~Blank(Last(result))
       THEN pc' = "done" /\ result' = result
       ELSE pc' = pc /\ result' = IF result = <<>> THEN <<>> ELSE Front(result)
  /\ UNCHANGED <<str, groups, limit, start, last>>

Next ==
  \/ SplitEmpty \/ SplitWhole \/ Begin \/ SplitChars
  \/ SplitMatch \/ NoMoreMatches \/ AppendRest \/ Trim

Spec == Init /\ [][Next]_vars /\ WF_vars(Next)
-----------------------------------------------------------------------------
\* Every variable has its type, and no piece is cut from a match that ends
\* after the next one begins (pre_match[last_match_end..-1] is never nil).
TypeOK ==
  /\ limit \in -1 .. MaxLimit
  /\ start \in 0 .. MaxLen + 1
  /\ last \in [b : -1 .. MaxLen, e : -1 .. MaxLen]
  /\ result \in Seq([kind : {"text", "capture"}, b : 0 .. MaxLen, e : 0 .. MaxLen])
  /\ \A k \in 1 .. Len(result) : result[k].b <= result[k].e
  /\ pc \in {"begin", "chars", "match", "rest", "trim", "done"}

Texts == {k \in 1 .. Len(result) : result[k].kind = "text"}

\* two pieces with nothing but captures between them
Neighbours(j, k) == j < k /\ \A x \in j + 1 .. k - 1 : x \notin Texts

\* the spans of the string between the pieces
Gap(j, k) == [b |-> result[j].e, e |-> result[k].b]
Gaps      == {Gap(jk[1], jk[2]) : jk \in {x \in Texts \X Texts : Neighbours(x[1], x[2])}}

\* The pieces cover the string in order, and what lies between two of them
\* is a match of the pattern: no character is lost unless it is in a match.
SplitTiles ==
  pc = "done" /\ str.n > 0 =>
    /\ 1 \in Texts /\ result[1].b = 0
    /\ limit # 0 => Len(result) \in Texts /\ Last(result).e = str.n
    /\ \A j, k \in Texts : Neighbours(j, k) => str.at[result[j].e] = result[k].b

\* What a limit leaves unsplit: the first limit - 1 matches separate.
FirstMatches(k) ==
  {x \in AllMatches(str.at, str.n) :
     k < 0 \/ Cardinality({y \in AllMatches(str.at, str.n) : y.b < x.b}) < k}

NeverEmpty == \A p \in 0 .. str.n : str.at[p] # p

\* split cuts at every match of a pattern that does not match the empty
\* string, and with a limit at the first limit - 1 of them, if the pattern
\* has no groups.
SplitComplete ==
  pc = "done" /\ limit # 0 /\ NeverEmpty /\ (limit < 0 \/ groups = 0) =>
    Gaps = FirstMatches(limit - 1)

\* With a limit, split returns at most that many pieces besides the captures.
SplitWithinLimit == limit > 0 => Cardinality(Texts) <= limit

\* The loop ends, and the trimming too once some piece or capture in the result
\* is neither nil nor empty.
SplitReturnsUnlessBlank ==
  /\ <>(pc \in {"trim", "done"})
  /\ (pc = "trim" /\ \E k \in 1 .. Len(result) : ~Blank(result[k])) ~> pc = "done"

\* split returns.
SplitTerminates == <>(pc = "done")
=============================================================================
