----------------------------- MODULE StringCalls -----------------------------
(***************************************************************************)
(* One call of a method that matches a Regexp once: what it returns, what  *)
(* it does to the receiver, and which match $~ and Regexp.last_match name  *)
(* afterwards.  md is what the pattern finds in the receiver from its      *)
(* start, with no groups at all if it finds nothing.                       *)
(***************************************************************************)
EXTENDS BackReference, StringSlice

CONSTANTS
  MaxLen, MaxGroups,   \* bounds on the receiver and on the groups of the pattern
  MaxArg,              \* bound on the integers passed as arguments
  MaxSubLen, MaxTemplate, Symbols,
                       \* for sub: bounds on the receiver and on the template,
                       \* and the characters of templates
  IntMax               \* the largest int of the C compiler

ASSUME CallsAssumption ==
  /\ MaxLen \in Nat /\ MaxGroups \in Nat /\ MaxArg \in Nat
  /\ MaxSubLen \in 0 .. MaxLen /\ MaxTemplate \in Nat /\ IntMax \in Nat

VARIABLES
  call,  \* the method and its arguments
  out    \* what it returned

vars == <<md, template, index, result, last, pc, call, out>>

\* flag is of use to some methods: the source does not compile ("=~", "match"),
\* the argument is nil ("Regexp#=~"), or neither a String nor a Symbol ("==="),
\* and the Range leaves out its end ("set range")
Call(op, a, b, flag) == [op |-> op, a |-> a, b |-> b, flag |-> flag]
Args == -MaxArg .. MaxArg

Calls(n) ==
  [op : {"=~", "match", "Regexp#=~", "==="}, a : {0}, b : {0}, flag : BOOLEAN]
  \cup [op : {"slice", "slice!", "set index", "set group"}, a : Args, b : {0}, flag : {FALSE}]
  \cup [op : {"index"}, a : -MaxArg .. 2 * (IntMax + 1) + MaxLen, b : {0}, flag : {FALSE}]
  \cup [op : {"set count"}, a : Args, b : Args, flag : {FALSE}]
  \cup [op : {"set range"}, a : Args, b : Args, flag : BOOLEAN]
  \cup {Call("set string", s.b, s.e, FALSE) : s \in Spans(n)}

NotFound(n) == [n |-> n, len |-> 0, v |-> <<>>]
Found       == md.len > 0

Receivers(max) ==
  UNION { {NotFound(n)} \cup (UNION {Matches(n, len) : len \in 1 .. MaxGroups + 1}) : n \in 0 .. max }

Init ==
  /\ \/ /\ md \in Receivers(MaxLen) /\ call \in Calls(md.n) /\ template = <<>>
     \/ /\ md \in Receivers(MaxSubLen) /\ call = Call("sub", 0, 0, FALSE)
        /\ template \in BoundedSeq(Symbols, MaxTemplate)
  /\ index = 1 /\ result = <<>> /\ last = "earlier"
  /\ pc = "call" /\ out = [kind |-> "running", at |-> Nil]

Return(kind, at) == pc' = "done" /\ out' = [kind |-> kind, at |-> at]

\* the match becomes $~; a call that finds none does not touch it
Publish == last' = IF Found THEN "this" ELSE last

\* what Regexp#match finds, as Regexp#=~ and === report it
RegexpMatch ==
  Publish /\ IF Found THEN Return("match", md.v[0]) ELSE Return("none", Nil)
-----------------------------------------------------------------------------
\* String#=~ turns every exception into false, as of a source that does not
\* compile
MatchOperator ==
  /\ pc = "call" /\ call.op = "=~"
  /\ IF call.flag THEN Return("none", Nil) /\ last' = last ELSE RegexpMatch
  /\ UNCHANGED <<md, template, index, result, call>>

\* return nil unless str
RegexpOperator ==
  /\ pc = "call" /\ call.op = "Regexp#=~"
  /\ IF call.flag THEN Return("none", Nil) /\ last' = last ELSE RegexpMatch
  /\ UNCHANGED <<md, template, index, result, call>>

\* Regexp#=== makes a Symbol a String, and is false for anything else
CaseEqual ==
  /\ pc = "call" /\ call.op = "==="
  /\ IF call.flag THEN Return("none", Nil) /\ last' = last ELSE RegexpMatch
  /\ UNCHANGED <<md, template, index, result, call>>

\* String#match makes a new Regexp of its argument
Match ==
  /\ pc = "call" /\ call.op = "match"
  /\ IF call.flag THEN Return("raised", Nil) /\ last' = last ELSE RegexpMatch
  /\ UNCHANGED <<md, template, index, result, call>>

\* What a search from start may find.  It tries the same at a position as the
\* search from 0, which may have given up before (Limit).
FoundFrom(start) ==
  IF start \notin 0 .. md.n THEN {Nil}
  ELSE IF Found /\ md.v[0].b >= start THEN {md.v[0]}
  ELSE {Nil} \cup {s \in Spans(md.n) : start > 0 /\ s.b >= start}

\* the conversion of an mrb_int to the int that pcre_exec takes
Narrow(x) == ((x + IntMax + 1) % (2 * (IntMax + 1))) - (IntMax + 1)

Index ==
  /\ pc = "call" /\ call.op = "index"
  /\ LET offs == Absolute(call.a, md.n) IN
     \E s \in IF offs < 0 THEN {Nil} ELSE FoundFrom(Narrow(offs)) :
       IF s = Nil THEN Return("none", Nil) /\ last' = last
       ELSE Return("match", s) /\ last' = "this"
  /\ UNCHANGED <<md, template, index, result, call>>

Slice ==
  /\ pc = "call" /\ call.op = "slice"
  /\ Publish
  /\ IF Found THEN Return("match", ReadGroup(md, call.a)) ELSE Return("none", Nil)
  /\ UNCHANGED <<md, template, index, result, call>>

Whole     == <<Cut(Span(0, md.n))>>
With(a, c) == IF a.kind = "ok" THEN <<Cut(a.before)>> \o c \o <<Cut(a.behind)>> ELSE Whole

\* slice! removes what it reads and then calls Regexp.last_match=, which no
\* file defines
SliceBang ==
  /\ pc = "call" /\ call.op = "slice!"
  /\ Publish
  /\ LET read == IF Found THEN ReadGroup(md, call.a) ELSE Nil IN
       /\ result' = IF read = Nil THEN Whole ELSE With(AssignGroup(md, call.a), <<>>)
       /\ Return("raised", read)
  /\ UNCHANGED <<md, template, index, call>>

Assigned ==
  CASE call.op = "set index" -> AssignIndex(md.n, call.a)
    [] call.op = "set count" -> AssignCount(md.n, call.a, call.b)
    [] call.op = "set range" -> AssignRange(md.n, call.a, call.b, call.flag)
    [] call.op = "set string" -> Splice(md.n, call.a, call.b - call.a)
    [] call.op = "set group" -> IF Found THEN AssignGroup(md, call.a) ELSE Raised

Assign ==
  /\ pc = "call"
  /\ call.op \in {"set index", "set count", "set range", "set string", "set group"}
  /\ last' = IF call.op = "set group" /\ Found THEN "this" ELSE last
  /\ result' = With(Assigned, <<Lit("val")>>)
  /\ Return(IF Assigned.kind = "ok" THEN "match" ELSE "raised", Nil)
  /\ UNCHANGED <<md, template, index, call>>

\* sub, up to the replacement and from there on
SubMatch ==
  /\ pc = "call" /\ call.op = "sub"
  /\ Publish
  /\ IF Found THEN pc' = "expand" /\ UNCHANGED <<result, out>>
     ELSE result' = Whole /\ Return("none", Nil)
  /\ UNCHANGED <<md, template, index, call>>

SubReturn ==
  /\ pc = "expanded"
  /\ result' = <<Cut(PreMatch(md))>> \o result \o <<Cut(PostMatch(md))>>
  /\ Return("match", md.v[0])
  /\ UNCHANGED <<md, template, index, last, call>>

Expand == (ExpandText \/ ExpandTrailing \/ ExpandEscape) /\ UNCHANGED <<call, out>>

Next ==
  \/ MatchOperator \/ RegexpOperator \/ CaseEqual \/ Match \/ Index
  \/ Slice \/ SliceBang \/ Assign
  \/ SubMatch \/ Expand \/ SubReturn

Spec == Init /\ [][Next]_vars /\ WF_vars(Next)
-----------------------------------------------------------------------------
Pieces == [c : {"", "val", Backslash} \cup Symbols, s : Spans(MaxLen) \cup {Nil}]

\* Every variable has its type.
TypeOK ==
  /\ md.n \in 0 .. MaxLen /\ md.len \in 0 .. MaxGroups + 1
  /\ md.v \in [0 .. md.len - 1 -> Spans(md.n) \cup {Nil}]
  /\ template \in Seq(Symbols) /\ index \in 1 .. Len(template) + 1
  /\ result \in Seq(Pieces)
  /\ last \in {"earlier", "this", "digit"}
  /\ pc \in {"call", "expand", "expanded", "done"}
  /\ out \in [kind : {"running", "match", "none", "raised"}, at : Spans(MaxLen) \cup {Nil}]

\* The accessors of the match agree with each other.
AccessorsAgree == Found => AccessorsAgreeOn(md, Args)

EscapesDigit ==
  \E k \in 1 .. Len(template) : Escapes(k) /\ template[k + 1] \in DOMAIN Digit

\* After a call that found a match, $~ is that match, also when the call
\* raises later; but after a sub whose replacement escapes a digit it is the
\* match of /[0-9]/ with the digit.  A call that finds none leaves $~ alone.
LastMatchAfterCall ==
  pc = "done" =>
    last = IF EscapesDigit /\ Found THEN "digit"
           ELSE IF \/ call.op = "index" /\ out.kind = "match"
                   \/ /\ call.op \in {"=~", "Regexp#=~", "===", "match",
                                      "slice", "slice!", "set group", "sub"}
                      /\ Found /\ ~call.flag
             THEN "this" ELSE "earlier"

\* What the group reads; a negative one that is assigned to counts from the
\* last, as in MatchData#[], where String#[] counts from the one before it.
ReadByGroup ==
  IF ~Found THEN Nil
  ELSE IF call.a >= 0 THEN ReadGroup(md, call.a)
  ELSE IF call.op = "set group" /\ call.a > -md.len THEN At(md, call.a) ELSE Nil

\* What the selector of the call reads.
Read ==
  CASE call.op = "set index" -> ReadIndex(md.n, call.a)
    [] call.op = "set count" -> Sub(md.n, call.a, call.b)
    [] call.op = "set range" -> SubRange(md.n, call.a, call.b, call.flag)
    [] call.op = "set string" -> Span(call.a, call.b)
    [] call.op = "set group" -> ReadByGroup
    [] call.op = "slice!" -> ReadByGroup
    [] OTHER -> Nil

\* []= replaces, and slice! removes before it raises, just the text the same
\* selector reads, if it reads any.
AssignReplacesWhatIsRead ==
  pc = "done" /\ Read # Nil =>
    /\ result # <<>> /\ Head(result) = Cut(Span(0, Read.b))
    /\ Last(result) \in {Cut(Span(Read.e, md.n))} \cup {Cut(Nil) : x \in {md.n} \cap {Read.e}}
    /\ Len(result) = IF call.op = "slice!" THEN 2 ELSE 3

\* Every call returns or raises.
CallsReturn == <>(pc = "done")
=============================================================================
