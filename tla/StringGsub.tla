----------------------------- MODULE StringGsub -----------------------------
(***************************************************************************)
(* String#gsub with a Regexp, and String#sub.  gsub matches the pattern    *)
(* against the rest of the string, self[i..-1], not against the string     *)
(* from i, so what is tried at a position may depend on i: a lookbehind,   *)
(* \b, ^ and \A see the rest only.  The block may replace the string.      *)
(***************************************************************************)
EXTENDS PcreExec, Sequences, SequencesExt

CONSTANTS
  Lengths,         \* the lengths of a string, when neither of the next two apply,
  ContextLengths,  \* when what is tried depends on where the rest starts,
  BlockLengths     \* when the block may replace the string

ASSUME GsubAssumption ==
  Lengths \subseteq Nat /\ ContextLengths \subseteq Nat /\ BlockLengths \subseteq Nat

VARIABLES
  mode,  \* which of the three cases this is
  str,   \* the string: its length, and what is tried where in each rest
  i,     \* where the rest starts
  r,     \* the result: text kept and matches replaced, in order
  pc

vars == <<mode, str, i, r, pc>>

\* positions count from the start of the string, in every rest of it
SameInEachRest(n) == {[k \in 0 .. n |-> t] : t \in Tables(n, {Fail, Limit})}
AnyInEachRest(n) ==
  {s \in [0 .. n -> Tables(n, {Fail, Limit})] :
     \A k \in 1 .. n, p \in 0 .. n : p < k => s[k][p] = Fail}

Strings ==
  CASE mode = "plain" -> UNION { [n : {n}, at : SameInEachRest(n)] : n \in Lengths }
    [] mode = "context" -> UNION { [n : {n}, at : AnyInEachRest(n)] : n \in ContextLengths }
    [] mode = "block" -> UNION { [n : {n}, at : SameInEachRest(n)] : n \in BlockLengths }

Text(b, e) == [kind |-> "text", b |-> b, e |-> e]
Repl(m)    == [kind |-> "repl", b |-> m.b, e |-> m.e]

Init ==
  /\ mode \in {"plain", "context", "block"}
  /\ str \in Strings
  /\ i = 0 /\ r = <<>> /\ pc = "loop"

MatchRest == Exec(str.at[i], str.n, i)

\* Mutant: the rest starts one character behind the match.
BehindSkips(found) == found.e + 1

\* Mutant: the rest starts one character further each time.
BehindByOne(found) == i + 1

\* where the rest starts behind a match that is not empty there
Behind(found) == found.e

\* Mutant: the loop ends with a match that ends at the end.
AtEndOfMatch(length) == MatchRest.e = length

\* if i == length
AtEnd(length) == i = length

\* pre_match and the replacement are appended before and after the block
\* runs; then the loop looks at the string again, which may have changed.
Replace ==
  /\ pc = "loop" /\ i <= str.n /\ MatchRest # NoMatch
  /\ r' = r \o <<Text(i, MatchRest.b), Repl(MatchRest)>>
  /\ \/ mode = "block" /\ str' \in Strings
     \/ str' = str
  /\ \/ AtEnd(str'.n) /\ pc' = "rest" /\ i' = i
     \/ ~AtEnd(str'.n) /\ MatchRest.e > i /\ i' = Behind(MatchRest) /\ pc' = "loop"
     \/ ~AtEnd(str'.n) /\ MatchRest.e = i /\ pc' = "skip" /\ i' = i
  /\ mode' = mode

\* Mutant: the character behind an empty match is not copied.
SkipDrops ==
  /\ pc = "skip"
  /\ IF i < str.n
       THEN r' = r /\ i' = i + 1 /\ pc' = "loop"
       ELSE pc' = "raised" /\ UNCHANGED <<r, i>>
  /\ UNCHANGED <<mode, str>>

\* an empty match here: one character is copied, or self[i] is nil
Skip ==
  /\ pc = "skip"
  /\ IF i < str.n
       THEN r' = Append(r, Text(i, i + 1)) /\ i' = i + 1 /\ pc' = "loop"
       ELSE pc' = "raised" /\ UNCHANGED <<r, i>>
  /\ UNCHANGED <<mode, str>>

\* Mutant: no match does not end the loop.
NoMoreMatchesGoesOn ==
  /\ pc = "loop" /\ (i > str.n \/ MatchRest = NoMatch)
  /\ pc' = IF i > str.n THEN "rest" ELSE pc
  /\ UNCHANGED <<mode, str, i, r>>

NoMoreMatches ==
  /\ pc = "loop" /\ (i > str.n \/ MatchRest = NoMatch)
  /\ pc' = "rest"
  /\ UNCHANGED <<mode, str, i, r>>

\* self[i..-1] is nil beyond the end, and String + nil raises TypeError
AppendRest ==
  /\ pc = "rest"
  /\ IF i <= str.n
       THEN r' = Append(r, Text(i, str.n)) /\ pc' = "done"
       ELSE pc' = "raised" /\ r' = r
  /\ UNCHANGED <<mode, str, i>>

\* String#sub replaces the first match of the whole string
Sub ==
  /\ pc = "loop" /\ i = 0 /\ r = <<>>
  /\ r' = IF MatchRest = NoMatch THEN <<Text(0, str.n)>>
          ELSE <<Text(0, MatchRest.b), Repl(MatchRest), Text(MatchRest.e, str.n)>>
  /\ pc' = "sub"
  /\ UNCHANGED <<mode, str, i>>

Next == Replace \/ Skip \/ NoMoreMatches \/ AppendRest \/ Sub

Spec == Init /\ [][Next]_vars /\ WF_vars(Next)
-----------------------------------------------------------------------------
\* Every variable has its type.  The rest starts in the string and nothing is
\* raised, as long as the block leaves the string alone.
TypeOK ==
  /\ str.n \in Nat /\ i \in Nat
  /\ mode # "block" => i \in 0 .. str.n /\ pc # "raised"
  /\ r \in Seq([kind : {"text", "repl"}, b : Nat, e : Nat])
  /\ pc \in {"loop", "skip", "rest", "done", "raised", "sub"}

Tiles(s, end) ==
  /\ s # <<>> => s[1].b = 0 /\ Last(s).e = end
  /\ \A k \in 1 .. Len(s) : s[k].b <= s[k].e
  /\ \A k \in 1 .. Len(s) - 1 : s[k].e = s[k + 1].b

\* No character of the string is lost or copied twice, when the block leaves
\* the string alone: the pieces of the result follow each other, up to i and
\* in the end over the whole string.
GsubTiles ==
  mode # "block" =>
    /\ pc \in {"loop", "skip"} => Tiles(r, i)
    /\ pc \in {"done", "sub"} => Tiles(r, str.n) /\ r # <<>>

Replaced == {[b |-> x.b, e |-> x.e] : x \in {y \in ToSet(r) : y.kind = "repl"}}

\* gsub replaces exactly the matches of the pattern in the string, when the
\* pattern ignores what precedes the place where it is tried.
GsubFindsAll ==
  mode = "plain" /\ pc = "done" => Replaced = AllMatches(str.at[0], str.n)

\* The same for every pattern.
GsubFindsAllInContext ==
  mode # "block" /\ pc = "done" => Replaced = AllMatches(str.at[0], str.n)

\* A match is replaced at most twice, and only an empty one twice.
GsubRepeatsOnlyEmpty ==
  \A j, k \in 1 .. Len(r) :
    j < k /\ r[j] = r[k] /\ r[j].kind = "repl" => k = j + 2 /\ r[j].b = r[j].e

\* The block makes the string longer.
Grows == str'.n > str.n

\* gsub returns or raises, whatever the pattern matches and the block does,
\* unless the block makes the string longer again and again: each round reads
\* the string and its length anew, so a block that always appends to it is
\* never done.
GsubTerminates == <>(pc \in {"done", "raised", "sub"}) \/ []<><<Grows>>_vars
=============================================================================
