----------------------------- MODULE PcreSearch -----------------------------
(***************************************************************************)
(* pcre_exec: the loop that tries to match at one position after another,  *)
(* with the shortcuts that skip positions or give up early, and the vector *)
(* it fills.  It is shown to find what Exec of PcreExec says.  match(),    *)
(* which tries one position, is the table t.                               *)
(***************************************************************************)
EXTENDS PcreExec

CONSTANTS
  MaxLen,      \* bound on the length of the subject
  MaxGroups,   \* bound on the groups of the pattern
  ReqByteMax   \* REQ_BYTE_MAX: how far a required character is looked for

ASSUME SearchAssumption == MaxLen \in Nat /\ MaxGroups \in Nat /\ ReqByteMax \in Nat

VARIABLES
  n, t,        \* length of the subject; what match() does at each position
  pat,         \* what pcre_compile recorded of the pattern
  marks,       \* where the first character stands, or a line starts
  reqs,        \* where the required character stands
  startOffset, startMatch,
  reqCharPtr,  \* where the required character was found
  result,
  written,     \* the slots of the offset vector that hold a value
  pc

input == <<n, t, pat, marks, reqs, startOffset>>
vars  == <<input, startMatch, reqCharPtr, result, written, pc>>

\* the first character of a match is known, or it starts a line if a match
\* one position before it is none, or it can only be at the offset, or none
Kinds == {"first", "startline", "anchored", "any"}

Patterns == [kind : Kinds, hasReq : BOOLEAN, optimize : BOOLEAN, groups : 0 .. MaxGroups]

\* behind a known first character, the required one is another
ReqFrom(p) == p + IF pat.kind = "first" THEN 1 ELSE 0

\* What pcre_compile guarantees.  A position where the first character does
\* not stand cannot match.  A pattern that begins with ^ or .* matches behind
\* the start of a line only if it also matches one character before.  Every
\* match has the required character at its start or behind it.
Recorded ==
  /\ pat.kind = "first" => \A p \in 0 .. n : t[p] # Fail => p \in marks
  /\ pat.kind \in {"startline", "anchored"} =>
       \A p \in (1 .. n) \ marks : t[p] # Fail => t[p - 1] # Fail
  /\ pat.hasReq => \A p \in 0 .. n : t[p] >= 0 =>
       \E q \in reqs : q >= ReqFrom(p)

Init ==
  /\ n \in 0 .. MaxLen /\ t \in Tables(n, {Fail, Limit})
  /\ pat \in Patterns
  /\ marks \in CASE pat.kind = "first" -> SUBSET (0 .. n - 1)
                [] pat.kind = "startline" -> SUBSET (1 .. n)
                [] OTHER -> {{}}
  /\ reqs \in IF pat.hasReq THEN SUBSET (0 .. n - 1) ELSE {{}}
  /\ Recorded
  /\ startOffset \in -1 .. n + 1
  /\ startMatch = startOffset /\ reqCharPtr = startOffset - 1
  /\ result = NoMatch /\ written = {} /\ pc = "enter"
-----------------------------------------------------------------------------
Stop == pc' = "done" /\ UNCHANGED <<startMatch, reqCharPtr, result, written>>

\* offset_vector[0] and [1] are cleared; the others the code clears here are
\* in the part of the vector that match() works in
FirstSlots == {0, 1}

\* PCRE_ERROR_BADOFFSET, or the vector is prepared
Enter ==
  /\ pc = "enter"
  /\ IF startOffset \notin 0 .. n THEN Stop
     ELSE /\ written' = FirstSlots /\ pc' = "skip"
          /\ UNCHANGED <<startMatch, reqCharPtr, result>>
  /\ UNCHANGED input

\* Mutant: the first position is skipped, too, when it starts no line.
CannotStartFirstLine(p) ==
  pat.optimize /\ p \notin marks /\ pat.kind \in {"first", "startline"}

\* positions a shortcut may skip; the start offset may be within a line
CannotStart(p) ==
  /\ pat.optimize /\ p \notin marks
  /\ pat.kind = "first" \/ (pat.kind = "startline" /\ startMatch > startOffset)

Skip ==
  /\ pc = "skip"
  /\ \E p \in startMatch .. n :
       /\ \A q \in startMatch .. p - 1 : CannotStart(q)
       /\ p = n \/ ~CannotStart(p)
       /\ startMatch' = p
  /\ pc' = "require"
  /\ UNCHANGED <<input, reqCharPtr, result, written>>

\* Mutant: the character found last time may be the first character itself.
NeedsReqAtStart ==
  /\ pat.optimize /\ pat.hasReq /\ n - startMatch < ReqByteMax
  /\ startMatch > reqCharPtr

\* not again before the place where it was found last time
NeedsReq ==
  /\ pat.optimize /\ pat.hasReq /\ n - startMatch < ReqByteMax
  /\ ReqFrom(startMatch) > reqCharPtr

\* the required character is looked for from here to the end
Require ==
  /\ pc = "require" /\ NeedsReq
  /\ \E p \in reqs :
       /\ p >= ReqFrom(startMatch)
       /\ \A q \in reqs : q >= ReqFrom(startMatch) => p <= q
       /\ reqCharPtr' = p
  /\ pc' = "try"
  /\ UNCHANGED <<input, startMatch, result, written>>

NoReq ==
  /\ pc = "require" /\ NeedsReq
  /\ \A q \in reqs : q < ReqFrom(startMatch)
  /\ Stop
  /\ UNCHANGED input

NoNeed ==
  /\ pc = "require" /\ ~NeedsReq
  /\ pc' = "try"
  /\ UNCHANGED <<input, startMatch, reqCharPtr, result, written>>

\* Mutant: the loop goes on at the end of the subject.
PastEndNever(p) == FALSE

\* the loop ends if no match can begin at p
PastEnd(p) == pat.kind = "anchored" \/ p > n

\* MATCH_NOMATCH: one position further
TryFails ==
  /\ pc = "try" /\ t[startMatch] = Fail
  /\ startMatch' = startMatch + 1
  /\ pc' = IF PastEnd(startMatch') THEN "done" ELSE "skip"
  /\ UNCHANGED <<input, reqCharPtr, result, written>>

\* match_limit_recursion
TryError ==
  /\ pc = "try" /\ t[startMatch] = Limit
  /\ Stop
  /\ UNCHANGED input

\* Mutant: group 0 is not counted.
ResetEndShort == 2 * pat.groups

ResetEnd == 2 + 2 * pat.groups

\* top is end_offset_top: match() has set the slots of groups 0 to top \div 2 - 1,
\* the slots behind are set to -1 here
TryMatches ==
  /\ pc = "try" /\ t[startMatch] >= 0
  /\ result' = [b |-> startMatch, e |-> t[startMatch]]
  /\ \E top \in {2 * k : k \in 1 .. pat.groups + 1} :
       written' = written \cup 0 .. top - 1
                    \cup IF top \div 2 <= pat.groups THEN top .. ResetEnd - 1 ELSE {}
  /\ pc' = "done"
  /\ UNCHANGED <<input, startMatch, reqCharPtr>>

Next == Enter \/ Skip \/ Require \/ NoReq \/ NoNeed \/ TryFails \/ TryError \/ TryMatches

Spec == Init /\ [][Next]_vars /\ WF_vars(Next)
-----------------------------------------------------------------------------
Outcomes == {Fail, Limit} \cup 0 .. n

\* Every variable has its type, and the loop never leaves the subject.
TypeOK ==
  /\ n \in Nat /\ t \in [0 .. n -> Outcomes] /\ pat \in [kind : Kinds, hasReq : BOOLEAN,
                                                         optimize : BOOLEAN, groups : Nat]
  /\ marks \subseteq 0 .. n /\ reqs \subseteq 0 .. n - 1
  /\ startOffset \in Int /\ startMatch \in Int /\ reqCharPtr \in Int
  /\ pc \in {"enter", "skip", "require", "try", "done"}
  /\ pc \in {"skip", "require", "try"} => startOffset \in 0 .. n /\ startMatch \in startOffset .. n
  /\ written \subseteq 0 .. 2 * pat.groups + 1

\* The shortcuts change nothing: pcre_exec returns the match at the first
\* position that matches, if none before it exceeds the recursion limit.
SearchFindsLeftmost == pc = "done" => result = Exec(t, n, startOffset)

\* When match() is called and a required character is known, one stands
\* ahead, though the search for it was skipped.
RequiredIsAhead ==
  pc = "try" /\ pat.optimize /\ pat.hasReq /\ n - startMatch < ReqByteMax =>
    \E q \in reqs : q >= ReqFrom(startMatch)

\* With a match, each slot that begin and end can read has been written: the
\* vector comes from malloc.
OffsetsWritten ==
  pc = "done" /\ result # NoMatch => \A g \in 0 .. pat.groups : {2 * g, 2 * g + 1} \subseteq written

\* pcre_exec returns.
SearchReturns == <>(pc = "done")
=============================================================================
