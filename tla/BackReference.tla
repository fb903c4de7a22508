---------------------------- MODULE BackReference ----------------------------
(***************************************************************************)
(* String#_replace_back_reference: the replacement of sub and gsub with    *)
(* its escapes expanded.  One action is one round of the outer loop.       *)
(***************************************************************************)
EXTENDS MatchDataIndex, FiniteSetsExt, SequencesExt

VARIABLES
  md,        \* the match
  template,  \* the receiver: its characters
  index,     \* where the loop is, from 1
  result,    \* literal characters and spans of the subject
  last,      \* which match $~ and Regexp.last_match name
  pc

Backslash == "\\"
Digits    == <<"0", "1", "2", "3", "4", "5", "6", "7", "8", "9">>
Digit     == [c \in Range(Digits) |-> CHOOSE d \in 0 .. 9 : Digits[d + 1] = c]

Lit(c) == [c |-> c, s |-> Nil]
Cut(s) == [c |-> "", s |-> s]

Text(first, behind) == [k \in 1 .. behind - first |-> Lit(template[first + k - 1])]

NextBackslash ==
  Min({k \in index .. Len(template) : template[k] = Backslash} \cup {Len(template) + 1})

\* captures.compact[-1]
LastCapture ==
  LET some == {k \in 1 .. Len(Captures(md)) : Captures(md)[k] # Nil} IN
  IF some = {} THEN Nil ELSE Captures(md)[Max(some)]

\* what an escaped character stands for; nil.to_s is empty
Escaped(cap) ==
  CASE cap = "&" -> <<Cut(At(md, 0))>>
    [] cap = "`" -> <<Cut(PreMatch(md))>>
    [] cap = "'" -> <<Cut(PostMatch(md))>>
    [] cap = "+" -> <<Cut(LastCapture)>>
    [] cap \in DOMAIN Digit -> <<Cut(At(md, Digit[cap]))>>
    [] cap = Backslash -> <<Lit(Backslash)>>
    [] OTHER -> <<Lit(Backslash), Lit(cap)>>

\* Mutant: a reference to a group that took no part is not tried on /[0-9]/.
LastAfterIfSet(cap) ==
  IF cap \in DOMAIN Digit /\ At(md, Digit[cap]) # Nil THEN "digit" ELSE last

\* when /[0-9]/ is Regexp#===, which matches an escaped digit
LastAfter(cap) == IF cap \in DOMAIN Digit THEN "digit" ELSE last

\* Mutant: the escaped character is read again.
BehindEscapeRereads == NextBackslash + 1

BehindEscape == NextBackslash + 2

\* Mutant: the loop does not end when no backslash is left.
ExpandTextOn ==
  /\ pc = "expand" /\ NextBackslash > Len(template)
  /\ result' = result \o Text(index, NextBackslash)
  /\ index' = NextBackslash
  /\ UNCHANGED <<md, template, last, pc>>

ExpandText ==
  /\ pc = "expand" /\ NextBackslash > Len(template)
  /\ result' = result \o Text(index, NextBackslash)
  /\ index' = NextBackslash
  /\ pc' = "expanded"
  /\ UNCHANGED <<md, template, last>>

\* a backslash at the end stands for itself
ExpandTrailing ==
  /\ pc = "expand" /\ NextBackslash = Len(template)
  /\ result' = result \o Text(index, NextBackslash) \o <<Lit(Backslash)>>
  /\ index' = NextBackslash + 1
  /\ pc' = "expanded"
  /\ UNCHANGED <<md, template, last>>

ExpandEscape ==
  /\ pc = "expand" /\ NextBackslash < Len(template)
  /\ LET cap == template[NextBackslash + 1] IN
       /\ result' = result \o Text(index, NextBackslash) \o Escaped(cap)
       /\ last' = LastAfter(cap)
  /\ index' = BehindEscape
  /\ UNCHANGED <<md, template, pc>>
-----------------------------------------------------------------------------
\* A backslash escapes the character behind it if an even number of
\* backslashes stands directly before it.
Escapes(k) ==
  /\ k \in 1 .. Len(template) - 1 /\ template[k] = Backslash
  /\ \E j \in 0 .. k - 1 :
       /\ (k - 1 - j) % 2 = 0
       /\ j > 0 => template[j] # Backslash
       /\ \A x \in j + 1 .. k - 1 : template[x] = Backslash

Meaning(k) ==
  IF Escapes(k) THEN Escaped(template[k + 1])
  ELSE IF Escapes(k - 1) THEN <<>>
  ELSE <<Lit(template[k])>>

\* The result is what the characters read so far mean, each escape read once.
ExpandsTemplate ==
  pc \in {"expand", "expanded"} =>
    result = FlattenSeq([k \in 1 .. index - 1 |-> Meaning(k)])
=============================================================================
