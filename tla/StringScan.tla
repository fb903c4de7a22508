----------------------------- MODULE StringScan -----------------------------
(***************************************************************************)
(* String#scan with a Regexp.  The block, when there is one, runs between  *)
(* two searches and may replace the contents of the string.                *)
(***************************************************************************)
EXTENDS PcreExec, Sequences, SequencesExt

CONSTANTS
  Lengths,      \* the lengths of a string that stays as it is
  BlockLengths  \* the lengths of a string the block may replace, and of what
                \* it replaces it with

ASSUME ScanAssumption == Lengths \subseteq Nat /\ BlockLengths \subseteq Nat

VARIABLES
  fixed, \* does the block leave the string alone?
  str,   \* the string: its length and what the pattern does in it
  i,     \* where the next search starts
  m,     \* the last match found
  ret,   \* the matches returned, or passed to the block
  pc

vars == <<fixed, str, i, m, ret, pc>>

Strings(lengths) == UNION { [n : {n}, at : Tables(n, {Fail, Limit})] : n \in lengths }

Init ==
  /\ fixed \in BOOLEAN
  /\ str \in Strings(IF fixed THEN Lengths ELSE BlockLengths)
  /\ i = 0 /\ m = NoMatch /\ ret = <<>> /\ pc = "match"

\* Mutant: a character is skipped behind each match.
BehindSkips(found) == IF found.e > i THEN found.e + 1 ELSE i + 1

\* Mutant: an empty match moves on by two characters.
BehindByTwo(found) == IF found.e > i THEN found.e ELSE i + 2

\* Mutant: every match moves on by one character.
BehindByOne(found) == i + 1

\* Mutant: the search goes on from the match's second character.
BehindFirst(found) == found.b + 1

\* where the search goes on behind a match
Behind(found) == IF found.e > i THEN found.e ELSE i + 1

\* Mutant: no match does not end the loop.
SearchOn ==
  /\ pc = "match"
  /\ m' = Exec(str.at, str.n, i)
  /\ IF m' = NoMatch THEN pc' = pc /\ i' = i
     ELSE pc' = "yield" /\ i' = Behind(m')
  /\ UNCHANGED <<fixed, str, ret>>

Search ==
  /\ pc = "match"
  /\ m' = Exec(str.at, str.n, i)
  /\ IF m' = NoMatch THEN pc' = "done" /\ i' = i
     ELSE pc' = "yield" /\ i' = Behind(m')
  /\ UNCHANGED <<fixed, str, ret>>

Yield ==
  /\ pc = "yield"
  /\ ret' = Append(ret, m)
  /\ \/ ~fixed /\ str' \in Strings(BlockLengths)
     \/ str' = str
  /\ pc' = "match"
  /\ UNCHANGED <<fixed, i, m>>

Next == Search \/ Yield

Spec == Init /\ [][Next]_vars /\ WF_vars(Next)
-----------------------------------------------------------------------------
Matches == [b : Int, e : Int]

\* Every variable has its type.  The search position is in the string or just
\* behind it when a match is passed on; only a block that then makes the
\* string shorter leaves it farther out.
TypeOK ==
  /\ str.n \in Nat /\ i \in Nat
  /\ fixed \/ pc = "yield" => i \in 0 .. str.n + 1
  /\ m \in Matches /\ ret \in Seq(Matches)
  /\ pc \in {"match", "yield", "done"}

\* The matches come in order and do not overlap, even when the block
\* replaces the string between two of them.
ScanOrdered ==
  \A k \in 1 .. Len(ret) - 1 : ret[k].e <= ret[k + 1].b

\* scan finds every match of the string, and nothing else, when the block
\* leaves the string alone.
ScanFindsAll == fixed /\ pc = "done" => ToSet(ret) = AllMatches(str.at, str.n)

\* A match is reported once, when the block leaves the string alone.
ScanNoRepeat == fixed => \A j, k \in 1 .. Len(ret) : ret[j] = ret[k] => j = k

\* A match is reported at most twice, and only an empty one twice.
ScanRepeatsOnlyEmpty ==
  \A j, k \in 1 .. Len(ret) :
    j < k /\ ret[j] = ret[k] => k = j + 1 /\ IsEmpty(ret[j])

\* The block makes the string longer.
Grows == str'.n > str.n

\* scan returns, whatever the pattern matches and the block does, unless the
\* block makes the string longer again and again: each search reads the string
\* the block left, so a block that always appends to it is never done.
ScanTerminates == <>(pc = "done") \/ []<><<Grows>>_vars
=============================================================================
