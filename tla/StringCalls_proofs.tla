------------------------- MODULE StringCalls_proofs -------------------------
(***************************************************************************)
(* Proofs about StringCalls, for receivers and templates of any length,    *)
(* any number of groups and any integer argument: the accessors of a match *)
(* agree, which match $~ names afterwards, and what a replacement template *)
(* expands to.                                                             *)
(***************************************************************************)
EXTENDS StringCalls, PcreExec_proofs, SequenceTheorems

Parts(n) == Spans(n) \cup {Nil}

\* What a match looks like; v and len are empty if there is none.
MatchOK(m) ==
  /\ m.n \in Nat /\ m.len \in Nat /\ m.v \in [0 .. m.len - 1 -> Parts(m.n)]
  /\ m.len > 0 => m.v[0] # Nil

CallOK ==
  /\ call.a \in Int /\ call.b \in Int /\ call.flag \in BOOLEAN
  /\ call.op = "set string" => Span(call.a, call.b) \in Spans(md.n)
  /\ call.op \in {"slice", "slice!", "set group", "sub"} => ~call.flag

\* The loop over the template stands behind a whole escape or a character
\* that is no backslash.
AtBoundary(i) == i = 1 \/ template[i - 1] # Backslash \/ Escapes(i - 2)

\* An escaped digit among the characters that were read.
DigitBefore(i) == \E k \in 1 .. i - 1 : Escapes(k) /\ template[k + 1] \in DOMAIN Digit

Expanding ==
  /\ pc = "call" => last = "earlier" /\ result = <<>> /\ index = 1
  /\ pc = "expand" => AtBoundary(index)
  /\ pc \in {"expand", "expanded"} =>
       /\ call.op = "sub" /\ Found
       /\ last = IF DigitBefore(index) THEN "digit" ELSE "this"
  /\ pc = "expanded" => index = Len(template) + 1
  /\ call.op # "sub" => template = <<>>

\* The inductive invariant.
IInv ==
  /\ TypeOK /\ MatchOK(md) /\ CallOK /\ Expanding
  /\ LastMatchAfterCall
-----------------------------------------------------------------------------
\* What the substring operators of mruby return.
LEMMA SubRangeType ==
  ASSUME NEW n \in Nat, NEW a \in Int, NEW c \in Int, NEW excl \in BOOLEAN
  PROVE  SubRange(n, a, c, excl) \in Parts(n)
BY DEF SubRange, Parts, Spans, Span, Nil, Absolute, Min2, Max2

\* A substring that lies in the receiver is the span asked for.
LEMMA SubSpan ==
  ASSUME NEW n \in Nat, NEW b \in 0 .. n, NEW e \in b .. n
  PROVE  Sub(n, b, e - b) = Span(b, e)
BY DEF Sub, Span, Absolute, Min2

\* [] with an index in or out of range.
LEMMA AtGroup ==
  ASSUME NEW m, MatchOK(m)
  PROVE  /\ \A k \in 0 .. m.len - 1 : At(m, k) = m.v[k] /\ At(m, k - m.len) = m.v[k]
         /\ \A k \in Int : k < -m.len \/ k >= m.len => At(m, k) = Nil
<1>1. /\ m.n \in Nat /\ m.len \in Nat
      /\ \A k \in 0 .. m.len - 1 : m.v[k] \in Spans(m.n) \/ m.v[k] = Nil
  BY DEF MatchOK, Parts
<1>2. ASSUME NEW k \in 0 .. m.len - 1
      PROVE  At(m, k) = m.v[k] /\ At(m, k - m.len) = m.v[k]
  <2>1. GroupIndex(m, k) = k /\ GroupIndex(m, k - m.len) = k
    BY <1>1 DEF GroupIndex, Absolute
  <2>2. CASE m.v[k] = Nil
    BY <2>1, <2>2 DEF At
  <2>3. CASE m.v[k] # Nil
    <3>1. /\ m.v[k].b \in 0 .. m.n /\ m.v[k].e \in m.v[k].b .. m.n
          /\ m.v[k] = Span(m.v[k].b, m.v[k].e)
      BY <1>1, <2>3 DEF Spans, Span
    <3>2. Sub(m.n, m.v[k].b, m.v[k].e - m.v[k].b) = m.v[k]
      BY <1>1, <3>1, SubSpan
    <3>. QED
      BY <1>1, <2>1, <2>3, <3>2 DEF At
  <2>. QED
    BY <2>2, <2>3
<1>3. ASSUME NEW k \in Int, k < -m.len \/ k >= m.len PROVE At(m, k) = Nil
  BY <1>1, <1>3 DEF At, GroupIndex, Absolute
<1>. QED
  BY <1>2, <1>3

\* to_a and captures are sequences of the groups.
LEMMA CapturesOf ==
  ASSUME NEW m, MatchOK(m), m.len > 0
  PROVE  /\ ToA(m) \in Seq(Parts(m.n)) /\ Len(ToA(m)) = m.len
         /\ \A k \in 0 .. m.len - 1 : ToA(m)[k + 1] = m.v[k]
         /\ Captures(m) \in Seq(Parts(m.n)) /\ Len(Captures(m)) = m.len - 1
         /\ \A k \in 1 .. m.len - 1 : Captures(m)[k] = m.v[k]
<1>1. m.len \in Nat /\ \A k \in 0 .. m.len - 1 : m.v[k] \in Parts(m.n)
  BY DEF MatchOK
<1>2. \A k \in 1 .. m.len : At(m, k - 1) = m.v[k - 1] /\ m.v[k - 1] \in Parts(m.n)
  BY <1>1, AtGroup
<1>3. ToA(m) = [k \in 1 .. m.len |-> m.v[k - 1]]
  BY <1>2 DEF ToA
<1>. DEFINE s == [k \in 1 .. m.len |-> m.v[k - 1]]
            n == m.len
<1>4. /\ s \in Seq(Parts(m.n)) /\ Len(s) = n /\ n \in Nat /\ n >= 1
      /\ \A k \in 1 .. n : s[k] = m.v[k - 1]
  BY <1>1, <1>2
<1>. HIDE DEF s, n
<1>5. /\ SubSeq(s, 2, n) \in Seq(Parts(m.n)) /\ Len(SubSeq(s, 2, n)) = n - 1
      /\ \A k \in 1 .. n - 1 : SubSeq(s, 2, n)[k] = s[k + 1]
  BY <1>4
<1>6. \A k \in 0 .. n - 1 : s[k + 1] = m.v[k]
  <2>. SUFFICES ASSUME NEW k \in 0 .. n - 1 PROVE s[k + 1] = m.v[k]
    OBVIOUS
  <2>1. k + 1 \in 1 .. n /\ k + 1 - 1 = k
    BY <1>4
  <2>. QED
    BY <1>4, <2>1
<1>7. \A k \in 1 .. n - 1 : SubSeq(s, 2, n)[k] = m.v[k]
  BY <1>4, <1>5, <1>6
<1>8. ToA(m) = s /\ Captures(m) = SubSeq(s, 2, n)
  BY <1>3 DEF Captures, s, n
<1>. QED
  BY <1>4, <1>5, <1>6, <1>7, <1>8 DEF n

\* The accessors agree, at every integer index.
LEMMA AccessorsAgreeAt ==
  ASSUME NEW m, MatchOK(m), m.len > 0
  PROVE  AccessorsAgreeOn(m, Int)
<1>1. /\ m.n \in Nat /\ m.len \in Nat /\ m.v[0] \in Spans(m.n)
  BY DEF MatchOK, Parts
<1>2. PreMatch(m) = Span(0, m.v[0].b)
  <2>1. m.v[0].b \in 0 .. m.n /\ m.v[0].b - 0 = m.v[0].b /\ 0 \in 0 .. m.n
    BY <1>1 DEF Spans
  <2>. QED
    BY <1>1, <2>1 DEF PreMatch, Sub, Absolute, Min2
<1>3. PostMatch(m) = Span(m.v[0].e, m.n)
  BY <1>1 DEF PostMatch, Sub, Absolute, Min2, Spans
<1>4. ASSUME NEW k \in 1 .. m.len - 1 PROVE ValueAt(m, k - m.len) = m.v[k]
  BY <1>1, <1>4, AtGroup DEF ValueAt
<1>. QED
  BY <1>1, <1>2, <1>3, <1>4, AtGroup, CapturesOf DEF AccessorsAgreeOn

-----------------------------------------------------------------------------
\* What follows an escaping backslash escapes nothing.
LEMMA EscapedEscapesNothing ==
  ASSUME NEW b \in Nat, Escapes(b)
  PROVE  ~Escapes(b + 1)
<1>. SUFFICES ASSUME Escapes(b + 1) PROVE FALSE
  OBVIOUS
<1>1. PICK j \in 0 .. b - 1 :
        /\ (b - 1 - j) % 2 = 0
        /\ j > 0 => template[j] # Backslash
        /\ \A x \in j + 1 .. b - 1 : template[x] = Backslash
  BY DEF Escapes
<1>2. PICK h \in 0 .. b :
        /\ (b - h) % 2 = 0
        /\ h > 0 => template[h] # Backslash
        /\ \A x \in h + 1 .. b : template[x] = Backslash
  <2>1. b + 1 - 1 = b
    OBVIOUS
  <2>2. \E h \in 0 .. b + 1 - 1 :
          /\ (b + 1 - 1 - h) % 2 = 0
          /\ h > 0 => template[h] # Backslash
          /\ \A x \in h + 1 .. b + 1 - 1 : template[x] = Backslash
    BY DEF Escapes
  <2>. QED
    BY <2>1, <2>2
<1>3. h # b
  BY <1>2 DEF Escapes
<1>4. ~(h < j)
  <2>1. SUFFICES ASSUME h < j PROVE FALSE
    OBVIOUS
  <2>2. j \in h + 1 .. b /\ j > 0
    BY <1>1, <1>2, <2>1
  <2>. QED
    BY <1>1, <1>2, <2>2
<1>5. ~(j < h)
  <2>1. SUFFICES ASSUME j < h PROVE FALSE
    OBVIOUS
  <2>2. h \in j + 1 .. b - 1 /\ h > 0
    BY <1>1, <1>2, <1>3, <2>1
  <2>. QED
    BY <1>1, <1>2, <2>2
<1>6. j = h
  BY <1>1, <1>2, <1>4, <1>5
<1>. QED
  BY <1>1, <1>2, <1>6

\* The first backslash behind a boundary escapes what follows it, and what
\* follows it escapes nothing.
LEMMA FirstEscapes ==
  ASSUME template \in Seq(Symbols), NEW i \in Nat \ {0}, AtBoundary(i),
         NEW b \in i .. Len(template) - 1, template[b] = Backslash,
         \A k \in i .. b - 1 : template[k] # Backslash
  PROVE  Escapes(b) /\ ~Escapes(b + 1)
<1>1. b \in Nat /\ b \in 1 .. Len(template) - 1 /\ Len(template) \in Nat
  OBVIOUS
<1>2. \E j \in 0 .. b - 1 :
        /\ (b - 1 - j) % 2 = 0
        /\ j > 0 => template[j] # Backslash
        /\ \A x \in j + 1 .. b - 1 : template[x] = Backslash
  <2>1. CASE b > i \/ i = 1 \/ template[i - 1] # Backslash
    <3>1. /\ b - 1 \in 0 .. b - 1 /\ (b - 1 - (b - 1)) % 2 = 0
          /\ b - 1 > 0 => template[b - 1] # Backslash
          /\ \A x \in b - 1 + 1 .. b - 1 : template[x] = Backslash
      BY <1>1, <2>1
    <3>. QED
      BY <3>1
  <2>2. CASE b = i /\ i # 1 /\ template[i - 1] = Backslash /\ Escapes(i - 2)
    <3>1. PICK j \in 0 .. i - 3 :
            /\ (i - 3 - j) % 2 = 0
            /\ j > 0 => template[j] # Backslash
            /\ \A x \in j + 1 .. i - 3 : template[x] = Backslash
      BY <2>2 DEF Escapes
    <3>2. template[i - 2] = Backslash /\ i - 2 >= 1
      BY <2>2 DEF Escapes
    <3>3. (b - 1 - j) % 2 = 0 /\ j \in 0 .. b - 1
      BY <2>2, <3>1
    <3>4. \A x \in j + 1 .. b - 1 : template[x] = Backslash
      <4>. SUFFICES ASSUME NEW x \in j + 1 .. b - 1 PROVE template[x] = Backslash
        OBVIOUS
      <4>1. x \in j + 1 .. i - 3 \/ x = i - 2 \/ x = i - 1
        BY <2>2, <3>1
      <4>. QED
        BY <2>2, <3>1, <3>2, <4>1
    <3>. QED
      BY <3>1, <3>3, <3>4
  <2>. QED
    BY <2>1, <2>2 DEF AtBoundary
<1>3. Escapes(b)
  BY <1>1, <1>2 DEF Escapes
<1>4. ~Escapes(b + 1)
  BY <1>1, <1>3, EscapedEscapesNothing
<1>. QED
  BY <1>3, <1>4

\* Where the next backslash is.
LEMMA NextBackslashIs ==
  ASSUME template \in Seq(Symbols), index \in 1 .. Len(template) + 1
  PROVE  /\ Len(template) \in Nat /\ NextBackslash \in index .. Len(template) + 1
         /\ NextBackslash <= Len(template) => template[NextBackslash] = Backslash
         /\ \A k \in index .. NextBackslash - 1 : template[k] # Backslash
<1>. DEFINE S == {k \in index .. Len(template) : template[k] = Backslash} \cup {Len(template) + 1}
<1>1. Len(template) \in Nat /\ S \subseteq Nat /\ S # {}
  OBVIOUS
<1>2. Min(S) \in S /\ \A q \in S : Min(S) =< q
  <2>. HIDE DEF S
  <2>. QED
    BY <1>1, MinOfNaturals
<1>3. NextBackslash = Min(S)
  BY DEF NextBackslash
<1>. DEFINE b == Min(S)
<1>4. b \in index .. Len(template) + 1 /\ (b <= Len(template) => template[b] = Backslash)
  BY <1>1, <1>2
<1>5. ASSUME NEW k \in index .. b - 1, template[k] = Backslash PROVE FALSE
  <2>1. k \in S
    BY <1>1, <1>4, <1>5
  <2>. HIDE DEF S
  <2>. QED
    BY <1>1, <1>2, <1>4, <1>5, <2>1
<1>. HIDE DEF b
<1>. QED
  BY <1>1, <1>3, <1>4, <1>5 DEF b

\* The characters of a text without backslashes escape nothing.
LEMMA NoEscapes ==
  ASSUME NEW i \in Nat, NEW b \in Nat, i <= b,
         \A k \in i .. b - 1 : template[k] # Backslash
  PROVE  DigitBefore(b) <=> DigitBefore(i)
<1>1. ASSUME NEW k \in 1 .. b - 1, Escapes(k) PROVE k \in 1 .. i - 1
  BY <1>1 DEF Escapes
<1>2. \A k \in 1 .. i - 1 : k \in 1 .. b - 1
  OBVIOUS
<1>. QED
  BY <1>1, <1>2, ZenonT(60) DEF DigitBefore
-----------------------------------------------------------------------------
OutType == [kind : {"running", "match", "none", "raised"}, at : Parts(MaxLen)]

\* What a step starts from.
LEMMA Facts ==
  ASSUME IInv
  PROVE  /\ MatchOK(md) /\ md.n \in Nat /\ md.n <= MaxLen /\ MaxLen \in Nat
         /\ Parts(md.n) \subseteq Parts(MaxLen) /\ Nil \in Parts(MaxLen)
         /\ md.len \in Nat
         /\ Found => md.v[0] \in Parts(MaxLen) /\ md.v[0] # Nil
         /\ call.a \in Int /\ call.b \in Int /\ call.flag \in BOOLEAN
         /\ call.op # "sub" => ~EscapesDigit
         /\ template \in Seq(Symbols) /\ Len(template) \in Nat
         /\ index \in 1 .. Len(template) + 1
<1>1. /\ MatchOK(md) /\ md.n \in Nat /\ md.n <= MaxLen /\ MaxLen \in Nat /\ md.len \in Nat
      /\ call.a \in Int /\ call.b \in Int /\ call.flag \in BOOLEAN
      /\ template \in Seq(Symbols) /\ Len(template) \in Nat /\ index \in 1 .. Len(template) + 1
  <2>1. MatchOK(md) /\ md.n \in Nat /\ md.len \in Nat
    BY DEF IInv, MatchOK
  <2>2. md.n <= MaxLen /\ MaxLen \in Nat
    BY CallsAssumption DEF IInv, TypeOK
  <2>3. call.a \in Int /\ call.b \in Int /\ call.flag \in BOOLEAN
    BY DEF IInv, CallOK
  <2>4. template \in Seq(Symbols) /\ Len(template) \in Nat /\ index \in 1 .. Len(template) + 1
    BY DEF IInv, TypeOK
  <2>. QED
    BY <2>1, <2>2, <2>3, <2>4
<1>2. Parts(md.n) \subseteq Parts(MaxLen) /\ Nil \in Parts(MaxLen)
  BY <1>1 DEF Parts, Spans
<1>3. Found => md.v[0] \in Parts(MaxLen) /\ md.v[0] # Nil
  BY <1>1, <1>2 DEF Found, MatchOK
<1>4. ASSUME call.op # "sub" PROVE ~EscapesDigit
  <2>1. template = <<>>
    BY <1>4 DEF IInv, Expanding
  <2>. QED
    BY <2>1 DEF EscapesDigit
<1>. QED
  BY <1>1, <1>2, <1>3, <1>4

\* A call that is done in one step.
LEMMA DoneIInv ==
  ASSUME IInv, pc' = "done", out' \in OutType, result' \in Seq(Pieces),
         UNCHANGED <<md, template, index, call>>,
         last' \in {"earlier", "this", "digit"},
         LastMatchAfterCall'
  PROVE  IInv'
<1>1. TypeOK'
  BY DEF IInv, TypeOK, OutType, Parts
<1>2. MatchOK(md)' /\ CallOK'
  BY DEF IInv, MatchOK, CallOK
<1>3. Expanding'
  BY DEF IInv, Expanding
<1>. QED
  BY <1>1, <1>2, <1>3 DEF IInv

\* The calls that find a match or not.
LEMMA RegexpMatchIInv ==
  IInv /\ (MatchOperator \/ RegexpOperator \/ CaseEqual \/ Match) => IInv'
<1>. SUFFICES ASSUME IInv, MatchOperator \/ RegexpOperator \/ CaseEqual \/ Match PROVE IInv'
  OBVIOUS
<1>1. /\ pc = "call" /\ call.op \in {"=~", "Regexp#=~", "===", "match"} /\ pc' = "done"
      /\ UNCHANGED <<md, template, index, result, call>>
      /\ \/ call.flag /\ last' = last
         \/ ~call.flag /\ last' = IF Found THEN "this" ELSE last
      /\ out' \in {[kind |-> "match", at |-> md.v[0]] : x \in {Found} \cap {TRUE}}
                   \cup {[kind |-> k, at |-> Nil] : k \in {"none", "raised"}}
  BY DEF MatchOperator, RegexpOperator, CaseEqual, Match, RegexpMatch, Publish, Return
<1>2. out' \in OutType
  BY <1>1, Facts DEF OutType
<1>3. last = "earlier" /\ ~EscapesDigit /\ call.flag \in BOOLEAN
  BY <1>1, Facts DEF IInv, Expanding, CallOK
<1>4. ~EscapesDigit'
  BY <1>1, <1>3, ZenonT(60) DEF EscapesDigit, Escapes
<1>5. Found' = Found
  BY <1>1 DEF Found
<1>6. LastMatchAfterCall'
  BY <1>1, <1>3, <1>4, <1>5 DEF LastMatchAfterCall
<1>. QED
  BY <1>1, <1>2, <1>3, <1>6, DoneIInv DEF IInv, TypeOK

\* index keeps the invariant.
LEMMA IndexIInv == IInv /\ Index => IInv'
<1>. SUFFICES ASSUME IInv, Index PROVE IInv'
  OBVIOUS
<1>. DEFINE offs == Absolute(call.a, md.n)
<1>1. /\ pc = "call" /\ call.op = "index" /\ pc' = "done"
      /\ UNCHANGED <<md, template, index, result, call>>
  BY DEF Index, Return
<1>2. PICK t \in (IF offs < 0 THEN {Nil} ELSE FoundFrom(Narrow(offs))) :
        IF t = Nil THEN Return("none", Nil) /\ last' = last
        ELSE Return("match", t) /\ last' = "this"
  BY DEF Index
<1>3. t \in Parts(MaxLen)
  <2>1. Spans(md.n) \subseteq Parts(MaxLen) /\ Nil \in Parts(MaxLen)
    BY Facts DEF Parts
  <2>2. Found => md.v[0] \in Parts(MaxLen)
    BY Facts
  <2>3. ASSUME NEW start, NEW x \in FoundFrom(start) PROVE x \in Parts(MaxLen)
    <3>1. x = Nil \/ (Found /\ x = md.v[0]) \/ x \in Spans(md.n)
      BY <2>3 DEF FoundFrom
    <3>. QED
      BY <2>1, <2>2, <3>1, ZenonT(60)
  <2>. QED
    BY <2>1, <2>3
<1>4. CASE t = Nil
  <2>1. out' = [kind |-> "none", at |-> Nil] /\ last' = last
    BY <1>2, <1>4 DEF Return
  <2>2. out' \in OutType /\ out'.kind = "none"
    BY <2>1, Facts DEF OutType
  <2>3. last = "earlier" /\ ~EscapesDigit'
    BY <1>1, Facts DEF IInv, Expanding, EscapesDigit, Escapes
  <2>4. LastMatchAfterCall'
    BY <1>1, <2>1, <2>2, <2>3 DEF LastMatchAfterCall
  <2>. QED
    BY <1>1, <2>1, <2>2, <2>4, DoneIInv DEF IInv, TypeOK
<1>5. CASE t # Nil
  <2>1. out' = [kind |-> "match", at |-> t] /\ last' = "this"
    BY <1>2, <1>5 DEF Return
  <2>2. out' \in OutType /\ out'.kind = "match" /\ out'.at = t
    BY <1>3, <2>1 DEF OutType
  <2>3. ~EscapesDigit'
    BY <1>1, Facts DEF EscapesDigit, Escapes
  <2>4. LastMatchAfterCall'
    BY <1>1, <2>1, <2>2, <2>3 DEF LastMatchAfterCall
  <2>. QED
    BY <1>1, <2>1, <2>2, <2>4, DoneIInv DEF IInv, TypeOK
<1>. QED
  BY <1>4, <1>5

\* What is cut is a piece.
LEMMA CutTypes ==
  /\ \A p \in Parts(MaxLen) : Cut(p) \in Pieces
  /\ Lit("val") \in Pieces /\ Lit(Backslash) \in Pieces
  /\ \A c \in Symbols : Lit(c) \in Pieces
BY DEF Pieces, Parts, Cut, Lit

\* What [] reads of a match.
LEMMA ReadGroupType ==
  ASSUME NEW m, MatchOK(m), m.len > 0, NEW k \in Int
  PROVE  ReadGroup(m, k) \in Parts(m.n)
<1>1. m.len \in Nat /\ m.n \in Nat /\ m.v[0] \in Parts(m.n) /\ Nil \in Parts(m.n)
  BY DEF MatchOK, Parts
<1>2. CASE k = 0
  BY <1>1, <1>2, AtGroup DEF ReadGroup
<1>3. CASE k # 0
  <2>. DEFINE s == Captures(m)
  <2>1. s \in Seq(Parts(m.n))
    BY CapturesOf
  <2>. HIDE DEF s
  <2>2. ArrayAt(s, k - 1) \in Parts(m.n)
    BY <1>1, <2>1 DEF ArrayAt, Absolute
  <2>. QED
    BY <1>3, <2>2 DEF ReadGroup, s
<1>. QED
  BY <1>2, <1>3

\* What []= leaves of a receiver.
Left(n, r) == r.before \in Parts(n) /\ r.behind \in Parts(n)

\* What a splice leaves are parts of the receiver.
LEMMA SpliceTypes ==
  ASSUME NEW n \in Nat, NEW a \in Int, NEW c \in Int
  PROVE  Left(n, Splice(n, a, c))
<1>1. 0 \in Int /\ -1 \in Int /\ a + c \in Int /\ TRUE \in BOOLEAN /\ FALSE \in BOOLEAN
  OBVIOUS
<1>2. SubRange(n, 0, a, TRUE) \in Parts(n) /\ SubRange(n, a + c, -1, FALSE) \in Parts(n)
  BY <1>1, SubRangeType, ZenonT(60)
<1>. QED
  BY <1>2 DEF Splice, Left

\* A call that raises leaves nothing.
LEMMA RaisedType == \A n : Left(n, Raised)
BY DEF Raised, Left, Parts

\* So it is with an index, a length and a Range.
LEMMA AssignTypes ==
  ASSUME NEW n \in Nat, NEW a \in Int, NEW c \in Int, NEW excl \in BOOLEAN
  PROVE  /\ Left(n, AssignIndex(n, a)) /\ Left(n, AssignCount(n, a, c))
         /\ Left(n, AssignRange(n, a, c, excl))
<1>1. Absolute(a, n) \in Int /\ Absolute(c, n) \in Int
  BY DEF Absolute
<1>2. Left(n, AssignIndex(n, a))
  <2>1. /\ Left(n, Splice(n, Absolute(a, n), 0)) /\ Left(n, Splice(n, Absolute(a, n), 1))
        /\ Left(n, Raised)
    <3>1. 0 \in Int /\ 1 \in Int
      OBVIOUS
    <3>. QED
      BY <1>1, <3>1, SpliceTypes, RaisedType, ZenonT(60)
  <2>. QED
    BY <2>1 DEF AssignIndex
<1>3. Left(n, AssignCount(n, a, c))
  <2>1. Left(n, Splice(n, Absolute(a, n), c)) /\ Left(n, Raised)
    BY <1>1, SpliceTypes, RaisedType
  <2>. QED
    BY <2>1 DEF AssignCount
<1>4. Left(n, AssignRange(n, a, c, excl))
  <2>. DEFINE stop == Absolute(c, n) - IF excl THEN 1 ELSE 0
              count == IF stop < Absolute(a, n) THEN 0 ELSE stop + 1 - Absolute(a, n)
  <2>1. count \in Int
    BY <1>1
  <2>2. AssignRange(n, a, c, excl) = Splice(n, Absolute(a, n), count)
    BY DEF AssignRange
  <2>. HIDE DEF count
  <2>. QED
    BY <1>1, <2>1, <2>2, SpliceTypes
<1>. QED
  BY <1>2, <1>3, <1>4

\* So it is with a group of a Regexp.
LEMMA AssignGroupTypes ==
  ASSUME NEW m, MatchOK(m), m.len > 0, NEW count \in Int
  PROVE  Left(m.n, AssignGroup(m, count))
<1>. DEFINE k == IF count < 0 /\ -count < m.len THEN count + m.len ELSE count
<1>1. m.n \in Nat /\ m.len \in Nat
  BY DEF MatchOK
<1>2. CASE k \notin 0 .. m.len - 1 \/ m.v[k] = Nil
  BY <1>2, RaisedType DEF AssignGroup
<1>3. CASE ~(k \notin 0 .. m.len - 1 \/ m.v[k] = Nil)
  <2>1. m.v[k] \in Spans(m.n)
    BY <1>3 DEF MatchOK, Parts
  <2>2. m.v[k].b \in Int /\ m.v[k].e - m.v[k].b \in Int
    BY <1>1, <2>1 DEF Spans
  <2>3. AssignGroup(m, count) = Splice(m.n, m.v[k].b, m.v[k].e - m.v[k].b)
    BY <1>3 DEF AssignGroup
  <2>. HIDE DEF k
  <2>. QED
    BY <1>1, <2>2, <2>3, SpliceTypes
<1>. QED
  BY <1>2, <1>3

\* The difference of two integers is one.
LEMMA Difference == \A x, y \in Int : y - x \in Int
OBVIOUS

\* So it is with what []= does in a state.
LEMMA AssignedTypes ==
  ASSUME IInv, call.op \in {"set index", "set count", "set range", "set string", "set group"}
  PROVE  Left(md.n, Assigned)
<1>1. /\ md.n \in Nat /\ call.a \in Int /\ call.b \in Int /\ call.b - call.a \in Int
      /\ call.flag \in BOOLEAN /\ MatchOK(md)
  <2>1. call.a \in Int /\ call.b \in Int
    BY Facts
  <2>. QED
    BY <2>1, Difference, Facts, ZenonT(60)
<1>2. CASE call.op = "set index"
  <2>1. Assigned = AssignIndex(md.n, call.a)
    BY <1>2 DEF Assigned
  <2>. QED
    BY <1>1, <2>1, AssignTypes, ZenonT(60)
<1>3. CASE call.op = "set count"
  <2>1. Assigned = AssignCount(md.n, call.a, call.b)
    BY <1>3 DEF Assigned
  <2>. QED
    BY <1>1, <2>1, AssignTypes, ZenonT(60)
<1>4. CASE call.op = "set range"
  <2>1. Assigned = AssignRange(md.n, call.a, call.b, call.flag)
    BY <1>4 DEF Assigned
  <2>. QED
    BY <1>1, <2>1, AssignTypes, ZenonT(60)
<1>5. CASE call.op = "set string"
  <2>1. Assigned = Splice(md.n, call.a, call.b - call.a)
    BY <1>5 DEF Assigned
  <2>. QED
    BY <1>1, <2>1, SpliceTypes
<1>6. CASE call.op = "set group"
  <2>1. Assigned = IF Found THEN AssignGroup(md, call.a) ELSE Raised
    BY <1>6 DEF Assigned
  <2>. QED
    BY <1>1, <2>1, AssignGroupTypes, RaisedType DEF Found
<1>. QED
  BY <1>2, <1>3, <1>4, <1>5, <1>6

\* The result of []= and slice!.
LEMMA WithType ==
  ASSUME IInv, NEW r, Left(md.n, r), NEW c \in Seq(Pieces)
  PROVE  With(r, c) \in Seq(Pieces)
<1>1. Cut(r.before) \in Pieces /\ Cut(r.behind) \in Pieces
  BY Facts, CutTypes DEF Left
<1>2. Span(0, md.n) \in Parts(MaxLen)
  BY Facts DEF Parts, Spans, Span
<1>3. Whole \in Seq(Pieces)
  BY <1>2, CutTypes DEF Whole
<1>4. <<Cut(r.before)>> \o c \o <<Cut(r.behind)>> \in Seq(Pieces)
  BY <1>1
<1>. QED
  BY <1>3, <1>4 DEF With

\* [] keeps the invariant.
LEMMA SliceIInv == IInv /\ Slice => IInv'
<1>. SUFFICES ASSUME IInv, Slice PROVE IInv'
  OBVIOUS
<1>1. /\ pc = "call" /\ call.op = "slice" /\ pc' = "done"
      /\ UNCHANGED <<md, template, index, result, call>>
      /\ last' = (IF Found THEN "this" ELSE last)
      /\ IF Found THEN out' = [kind |-> "match", at |-> ReadGroup(md, call.a)]
         ELSE out' = [kind |-> "none", at |-> Nil]
  BY DEF Slice, Return, Publish
<1>2. out' \in OutType
  <2>1. Found => ReadGroup(md, call.a) \in Parts(MaxLen)
    BY Facts, ReadGroupType DEF Found
  <2>. QED
    BY <1>1, <2>1, Facts DEF OutType
<1>3. LastMatchAfterCall'
  <2>1. last = "earlier" /\ ~call.flag /\ ~EscapesDigit
    BY <1>1, Facts DEF IInv, Expanding, CallOK
  <2>2. ~EscapesDigit' /\ Found' = Found
    BY <1>1, <2>1, ZenonT(60) DEF EscapesDigit, Escapes, Found
  <2>. QED
    BY <1>1, <2>1, <2>2 DEF LastMatchAfterCall
<1>. QED
  BY <1>1, <1>2, <1>3, DoneIInv DEF IInv, TypeOK

\* slice! keeps the invariant.
LEMMA SliceBangIInv == IInv /\ SliceBang => IInv'
<1>. SUFFICES ASSUME IInv, SliceBang PROVE IInv'
  OBVIOUS
<1>. DEFINE read == IF Found THEN ReadGroup(md, call.a) ELSE Nil
<1>1. /\ pc = "call" /\ call.op = "slice!" /\ pc' = "done"
      /\ UNCHANGED <<md, template, index, call>>
      /\ last' = (IF Found THEN "this" ELSE last)
      /\ out' = [kind |-> "raised", at |-> read]
      /\ result' = (IF read = Nil THEN Whole ELSE With(AssignGroup(md, call.a), <<>>))
  BY DEF SliceBang, Return, Publish
<1>2. read \in Parts(MaxLen) /\ (read # Nil => Found)
  BY Facts, ReadGroupType DEF Found
<1>3. out' \in OutType
  BY <1>1, <1>2 DEF OutType
<1>4. result' \in Seq(Pieces)
  <2>1. Span(0, md.n) \in Parts(MaxLen)
    BY Facts DEF Parts, Spans, Span
  <2>2. Whole \in Seq(Pieces)
    BY <2>1, CutTypes DEF Whole
  <2>3. Found => Left(md.n, AssignGroup(md, call.a))
    BY Facts, AssignGroupTypes DEF Found
  <2>4. Found => With(AssignGroup(md, call.a), <<>>) \in Seq(Pieces)
    <3>1. <<>> \in Seq(Pieces)
      OBVIOUS
    <3>. QED
      BY <2>3, <3>1, WithType, ZenonT(60)
  <2>. QED
    BY <1>1, <1>2, <2>2, <2>4
<1>5. LastMatchAfterCall'
  <2>1. last = "earlier" /\ ~call.flag /\ ~EscapesDigit
    BY <1>1, Facts DEF IInv, Expanding, CallOK
  <2>2. ~EscapesDigit' /\ Found' = Found
    BY <1>1, <2>1, ZenonT(60) DEF EscapesDigit, Escapes, Found
  <2>. QED
    BY <1>1, <2>1, <2>2 DEF LastMatchAfterCall
<1>. QED
  BY <1>1, <1>3, <1>4, <1>5, DoneIInv DEF IInv, TypeOK

\* []= keeps the invariant.
LEMMA AssignIInv == IInv /\ Assign => IInv'
<1>. SUFFICES ASSUME IInv, Assign PROVE IInv'
  OBVIOUS
<1>1. /\ pc = "call" /\ pc' = "done"
      /\ call.op \in {"set index", "set count", "set range", "set string", "set group"}
      /\ UNCHANGED <<md, template, index, call>>
      /\ last' = (IF call.op = "set group" /\ Found THEN "this" ELSE last)
      /\ out' = [kind |-> IF Assigned.kind = "ok" THEN "match" ELSE "raised", at |-> Nil]
      /\ result' = With(Assigned, <<Lit("val")>>)
  BY DEF Assign, Return
<1>2. out' \in OutType
  BY <1>1, Facts DEF OutType
<1>3. result' \in Seq(Pieces)
  <2>1. Left(md.n, Assigned)
    BY <1>1, AssignedTypes
  <2>2. <<Lit("val")>> \in Seq(Pieces)
    BY CutTypes
  <2>. QED
    BY <1>1, <2>1, <2>2, WithType, ZenonT(60)
<1>4. LastMatchAfterCall'
  <2>1. last = "earlier" /\ (call.op = "set group" => ~call.flag) /\ ~EscapesDigit
    BY <1>1, Facts DEF IInv, Expanding, CallOK
  <2>2. ~EscapesDigit' /\ Found' = Found
    BY <1>1, <2>1, ZenonT(60) DEF EscapesDigit, Escapes, Found
  <2>. QED
    BY <1>1, <2>1, <2>2 DEF LastMatchAfterCall
<1>. QED
  BY <1>1, <1>2, <1>3, <1>4, DoneIInv DEF IInv, TypeOK

\* A digit names the group with its number.
LEMMA DigitValues ==
  /\ DOMAIN Digit = Range(Digits)
  /\ \A c \in DOMAIN Digit : Digit[c] \in 0 .. 9 /\ Digits[Digit[c] + 1] = c
<1>1. DOMAIN Digit = Range(Digits)
  BY DEF Digit
<1>2. ASSUME NEW c \in Range(Digits)
      PROVE  Digit[c] \in 0 .. 9 /\ Digits[Digit[c] + 1] = c
  <2>1. PICK x \in 1 .. 10 : Digits[x] = c
    <3>1. DOMAIN Digits = 1 .. 10
      BY DEF Digits
    <3>. QED
      BY <1>2, <3>1, ZenonT(60) DEF Range
  <2>2. x - 1 \in 0 .. 9 /\ x - 1 + 1 = x
    OBVIOUS
  <2>3. \E d \in 0 .. 9 : Digits[d + 1] = c
    BY <2>1, <2>2
  <2>4. Digit[c] = CHOOSE d \in 0 .. 9 : Digits[d + 1] = c
    BY DEF Digit
  <2>. QED
    BY <2>3, <2>4, ZenonT(60)
<1>. QED
  BY <1>1, <1>2

-----------------------------------------------------------------------------
\* What an escape stands for is made of pieces.
LEMMA EscapedType ==
  ASSUME IInv, Found, NEW cap \in Symbols
  PROVE  Escaped(cap) \in Seq(Pieces)
<1>1. MatchOK(md) /\ md.len > 0 /\ md.len \in Nat /\ Parts(md.n) \subseteq Parts(MaxLen)
      /\ Nil \in Parts(MaxLen) /\ md.n \in Nat
  BY Facts DEF Found
<1>2. \A k \in Nat : At(md, k) \in Parts(MaxLen)
  <2>. SUFFICES ASSUME NEW k \in Nat PROVE At(md, k) \in Parts(MaxLen)
    OBVIOUS
  <2>1. CASE k < md.len
    <3>1. k \in 0 .. md.len - 1
      BY <1>1, <2>1
    <3>2. At(md, k) = md.v[k] /\ md.v[k] \in Parts(md.n)
      BY <1>1, <3>1, AtGroup DEF MatchOK
    <3>. QED
      BY <1>1, <3>2
  <2>2. CASE ~(k < md.len)
    <3>1. k \in Int /\ k >= md.len
      BY <1>1, <2>2
    <3>2. At(md, k) = Nil
      BY <1>1, <3>1, AtGroup
    <3>. QED
      BY <1>1, <3>2
  <2>. QED
    BY <2>1, <2>2
<1>3. LastCapture \in Parts(MaxLen)
  <2>. DEFINE s == Captures(md)
              some == {k \in 1 .. Len(s) : s[k] # Nil}
              N == Len(s)
              back == {N - k : k \in some}
  <2>1. s \in Seq(Parts(md.n)) /\ N \in Nat
    BY <1>1, CapturesOf
  <2>2. LastCapture = IF some = {} THEN Nil ELSE s[Max(some)]
    BY DEF LastCapture
  <2>3. CASE some # {}
    <3>1. back \subseteq Nat /\ back # {}
      BY <2>1, <2>3
    <3>2. Min(back) \in back /\ \A q \in back : Min(back) =< q
      <4>. HIDE DEF back
      <4>. QED
        BY <3>1, MinOfNaturals
    <3>3. PICK k \in some : Min(back) = N - k
      BY <3>2
    <3>4. \A x \in some : k >= x
      <4>. SUFFICES ASSUME NEW x \in some PROVE k >= x
        OBVIOUS
      <4>1. N - x \in back
        OBVIOUS
      <4>2. N - k =< N - x
        BY <3>2, <3>3, <4>1
      <4>3. k \in Int /\ x \in Int
        BY <2>1
      <4>. QED
        BY <2>1, <4>2, <4>3
    <3>5. Max(some) \in some
      <4>. HIDE DEF some
      <4>. QED
        BY <3>4 DEF Max
    <3>6. Max(some) \in 1 .. N
      BY <3>5
    <3>. HIDE DEF s, N
    <3>7. s[Max(some)] \in Parts(md.n)
      BY <2>1, <3>6 DEF N
    <3>. QED
      BY <1>1, <2>2, <2>3, <3>7
  <2>. HIDE DEF s, some
  <2>. QED
    BY <1>1, <2>2, <2>3
<1>4. PreMatch(md) \in Parts(MaxLen) /\ PostMatch(md) \in Parts(MaxLen)
  <2>1. PreMatch(md) = Span(0, md.v[0].b) /\ PostMatch(md) = Span(md.v[0].e, md.n)
    BY <1>1, AccessorsAgreeAt DEF AccessorsAgreeOn
  <2>2. md.v[0] \in Spans(md.n)
    BY <1>1 DEF MatchOK, Parts
  <2>3. Span(0, md.v[0].b) \in Spans(md.n) /\ Span(md.v[0].e, md.n) \in Spans(md.n)
    BY <1>1, <2>2 DEF Spans, Span
  <2>4. Spans(md.n) \subseteq Parts(MaxLen)
    BY <1>1 DEF Parts
  <2>. QED
    BY <2>1, <2>3, <2>4
<1>5. /\ \A p \in Parts(MaxLen) : <<Cut(p)>> \in Seq(Pieces)
      /\ <<Lit(Backslash)>> \in Seq(Pieces) /\ <<Lit(Backslash), Lit(cap)>> \in Seq(Pieces)
  BY CutTypes
<1>6. \A c \in DOMAIN Digit : Digit[c] \in Nat
  <2>1. 0 .. 9 \subseteq Nat
    OBVIOUS
  <2>. QED
    BY <2>1, DigitValues
<1>7. /\ <<Cut(At(md, 0))>> \in Seq(Pieces) /\ <<Cut(PreMatch(md))>> \in Seq(Pieces)
      /\ <<Cut(PostMatch(md))>> \in Seq(Pieces) /\ <<Cut(LastCapture)>> \in Seq(Pieces)
      /\ cap \in DOMAIN Digit => <<Cut(At(md, Digit[cap]))>> \in Seq(Pieces)
  BY <1>2, <1>3, <1>4, <1>5, <1>6
<1>. QED
  BY <1>5, <1>7 DEF Escaped

\* The characters between two positions are pieces.
LEMMA TextType ==
  ASSUME template \in Seq(Symbols), NEW first \in 1 .. Len(template) + 1,
         NEW behind \in first .. Len(template) + 1
  PROVE  Text(first, behind) \in Seq(Pieces)
<1>1. /\ Len(template) \in Nat /\ behind - first \in Nat
      /\ \A k \in 1 .. behind - first : first + k - 1 \in 1 .. Len(template)
  OBVIOUS
<1>2. \A k \in 1 .. behind - first : Lit(template[first + k - 1]) \in Pieces
  <2>. SUFFICES ASSUME NEW k \in 1 .. behind - first
                PROVE  Lit(template[first + k - 1]) \in Pieces
    OBVIOUS
  <2>1. template[first + k - 1] \in Symbols
    BY <1>1
  <2>. QED
    BY <2>1, CutTypes
<1>. QED
  BY <1>1, <1>2 DEF Text

\* A round of the loop over the template, which moves to position j.
LEMMA RoundIInv ==
  ASSUME IInv, pc = "expand", pc' \in {"expand", "expanded"},
         UNCHANGED <<md, template, call, out>>, result' \in Seq(Pieces),
         NEW j \in 1 .. Len(template) + 1, index' = j,
         pc' = "expand" => AtBoundary(j),
         pc' = "expanded" => j = Len(template) + 1,
         last' = IF DigitBefore(j) THEN "digit" ELSE "this"
  PROVE  IInv'
<1>1. TypeOK'
  BY DEF IInv, TypeOK
<1>2. MatchOK(md)' /\ CallOK'
  BY DEF IInv, MatchOK, CallOK
<1>3. DigitBefore(index)' <=> DigitBefore(j)
  BY ZenonT(60) DEF DigitBefore, Escapes
<1>4. AtBoundary(index)' <=> AtBoundary(j)
  BY ZenonT(60) DEF AtBoundary, Escapes
<1>5. Expanding'
  BY <1>3, <1>4 DEF IInv, Expanding, Found
<1>6. LastMatchAfterCall'
  BY DEF IInv, LastMatchAfterCall, Expanding
<1>. QED
  BY <1>1, <1>2, <1>5, <1>6 DEF IInv

\* What a round starts from.
LEMMA RoundFacts ==
  ASSUME IInv, pc = "expand"
  PROVE  /\ template \in Seq(Symbols) /\ Len(template) \in Nat
         /\ index \in 1 .. Len(template) + 1 /\ index \in Nat \ {0} /\ index \in Nat
         /\ NextBackslash \in index .. Len(template) + 1 /\ NextBackslash \in Nat
         /\ NextBackslash <= Len(template) => template[NextBackslash] = Backslash
         /\ \A k \in index .. NextBackslash - 1 : template[k] # Backslash
         /\ DigitBefore(NextBackslash) <=> DigitBefore(index)
         /\ AtBoundary(index)
         /\ last = IF DigitBefore(index) THEN "digit" ELSE "this"
         /\ result \o Text(index, NextBackslash) \in Seq(Pieces)
<1>1. /\ template \in Seq(Symbols) /\ Len(template) \in Nat
      /\ index \in 1 .. Len(template) + 1 /\ index \in Nat \ {0} /\ index \in Nat
  BY DEF IInv, TypeOK
<1>2. /\ NextBackslash \in index .. Len(template) + 1
      /\ NextBackslash <= Len(template) => template[NextBackslash] = Backslash
      /\ \A k \in index .. NextBackslash - 1 : template[k] # Backslash
  BY <1>1, NextBackslashIs
<1>3. NextBackslash \in Nat /\ index <= NextBackslash
  BY <1>1, <1>2
<1>4. DigitBefore(NextBackslash) <=> DigitBefore(index)
  BY <1>1, <1>2, <1>3, NoEscapes
<1>5. AtBoundary(index) /\ last = IF DigitBefore(index) THEN "digit" ELSE "this"
  BY DEF IInv, Expanding
<1>6. result \o Text(index, NextBackslash) \in Seq(Pieces)
  <2>1. Text(index, NextBackslash) \in Seq(Pieces)
    BY <1>1, <1>2, TextType
  <2>2. result \in Seq(Pieces)
    BY DEF IInv, TypeOK
  <2>. QED
    BY <2>1, <2>2
<1>. QED
  BY <1>1, <1>2, <1>3, <1>4, <1>5, <1>6

\* Expanding the template keeps the invariant.
LEMMA ExpandIInv == IInv /\ Expand => IInv'
<1>. SUFFICES ASSUME IInv, Expand PROVE IInv'
  OBVIOUS
<1>. DEFINE b == NextBackslash
            len == Len(template)
<1>1. pc = "expand" /\ UNCHANGED <<md, template, call, out>>
  BY DEF Expand, ExpandText, ExpandTrailing, ExpandEscape
<1>2. /\ len \in Nat /\ b \in Nat /\ b \in 1 .. len + 1
      /\ (DigitBefore(b) <=> DigitBefore(index))
      /\ last = IF DigitBefore(index) THEN "digit" ELSE "this"
  <2>1. b \in 1 .. len + 1
    BY <1>1, RoundFacts
  <2>. QED
    BY <1>1, <2>1, RoundFacts
<1>3. CASE ExpandText
  <2>1. b = len + 1 /\ pc' = "expanded" /\ index' = b /\ last' = last
    BY <1>2, <1>3 DEF ExpandText
  <2>2. result' \in Seq(Pieces)
    BY <1>1, <1>3, RoundFacts DEF ExpandText
  <2>. HIDE DEF b, len
  <2>. QED
    BY <1>1, <1>2, <2>1, <2>2, RoundIInv DEF len
<1>4. CASE ExpandTrailing
  <2>. DEFINE j == b + 1
  <2>1. b = len /\ pc' = "expanded" /\ index' = j /\ last' = last
        /\ result' = result \o Text(index, b) \o <<Lit(Backslash)>>
    BY <1>4 DEF ExpandTrailing
  <2>2. result' \in Seq(Pieces)
    <3>1. result \o Text(index, b) \in Seq(Pieces) /\ <<Lit(Backslash)>> \in Seq(Pieces)
      BY <1>1, RoundFacts, CutTypes
    <3>. QED
      BY <2>1, <3>1
  <2>3. DigitBefore(j) <=> DigitBefore(b)
    <3>1. ~Escapes(b)
      BY <1>2, <2>1 DEF Escapes
    <3>2. \A k \in 1 .. j - 1 : k \in 1 .. b - 1 \/ k = b
      BY <1>2
    <3>3. \A k \in 1 .. b - 1 : k \in 1 .. j - 1
      BY <1>2
    <3>. HIDE DEF b, j
    <3>. QED
      BY <3>1, <3>2, <3>3, ZenonT(60) DEF DigitBefore
  <2>4. j \in 1 .. len + 1 /\ j = len + 1
    BY <1>2, <2>1
  <2>. HIDE DEF b, len, j
  <2>. QED
    BY <1>1, <1>2, <2>1, <2>2, <2>3, <2>4, RoundIInv DEF len
<1>5. CASE ExpandEscape
  <2>. DEFINE cap == template[b + 1]
              j == b + 2
  <2>1. /\ b < len /\ pc' = "expand" /\ index' = j /\ last' = LastAfter(cap)
        /\ result' = result \o Text(index, b) \o Escaped(cap)
    BY <1>1, <1>5 DEF ExpandEscape, BehindEscape
  <2>2. cap \in Symbols /\ Found /\ j \in 1 .. len + 1
    BY <1>1, <1>2, <2>1, RoundFacts DEF IInv, Expanding
  <2>3. result' \in Seq(Pieces)
    <3>1. result \o Text(index, b) \in Seq(Pieces) /\ Escaped(cap) \in Seq(Pieces)
      BY <1>1, <2>2, RoundFacts, EscapedType
    <3>. QED
      BY <2>1, <3>1
  <2>4. Escapes(b) /\ ~Escapes(b + 1)
    <3>1. b \in index .. len - 1 /\ template[b] = Backslash
      BY <1>1, <2>1, RoundFacts
    <3>. QED
      BY <1>1, <3>1, RoundFacts, FirstEscapes
  <2>5. AtBoundary(j)
    <3>1. j - 2 = b
      BY <1>2
    <3>. QED
      BY <2>4, <3>1 DEF AtBoundary
  <2>6. DigitBefore(j) <=> DigitBefore(b) \/ cap \in DOMAIN Digit
    <3>1. \A k \in 1 .. j - 1 : k \in 1 .. b - 1 \/ k = b \/ k = b + 1
      BY <1>2
    <3>2. b \in 1 .. j - 1 /\ \A k \in 1 .. b - 1 : k \in 1 .. j - 1
      BY <1>2
    <3>. HIDE DEF b, j
    <3>. QED
      BY <2>4, <3>1, <3>2, ZenonT(60) DEF DigitBefore
  <2>7. last' = IF DigitBefore(j) THEN "digit" ELSE "this"
    <3>. HIDE DEF b, j, cap
    <3>. QED
      BY <1>2, <2>1, <2>6 DEF LastAfter
  <2>. HIDE DEF b, len, j, cap
  <2>. QED
    BY <1>1, <2>1, <2>2, <2>3, <2>5, <2>7, RoundIInv DEF len
<1>. QED
  BY <1>3, <1>4, <1>5 DEF Expand

\* sub, up to the replacement.
LEMMA SubMatchIInv == IInv /\ SubMatch => IInv'
<1>. SUFFICES ASSUME IInv, SubMatch PROVE IInv'
  OBVIOUS
<1>1. /\ pc = "call" /\ call.op = "sub" /\ UNCHANGED <<md, template, index, call>>
      /\ last' = (IF Found THEN "this" ELSE last) /\ last = "earlier" /\ index = 1
  BY DEF SubMatch, Publish, IInv, Expanding
<1>2. CASE Found
  <2>1. pc' = "expand" /\ UNCHANGED <<result, out>> /\ last' = "this"
    BY <1>1, <1>2 DEF SubMatch
  <2>2. TypeOK' /\ MatchOK(md)' /\ CallOK' /\ LastMatchAfterCall'
    BY <1>1, <2>1
    DEF IInv, TypeOK, MatchOK, CallOK, LastMatchAfterCall
  <2>3. AtBoundary(index)' /\ ~DigitBefore(index)'
    BY <1>1 DEF AtBoundary, DigitBefore
  <2>4. Expanding'
    BY <1>1, <1>2, <2>1, <2>3 DEF Expanding, Found
  <2>. QED
    BY <2>2, <2>4 DEF IInv
<1>3. CASE ~Found
  <2>1. pc' = "done" /\ out' = [kind |-> "none", at |-> Nil] /\ result' = Whole /\ last' = "earlier"
    BY <1>1, <1>3 DEF SubMatch, Return
  <2>2. out' \in OutType
    BY <2>1, Facts DEF OutType
  <2>3. result' \in Seq(Pieces)
    <3>1. Span(0, md.n) \in Parts(MaxLen)
      BY Facts DEF Parts, Spans, Span
    <3>. QED
      BY <2>1, <3>1, CutTypes DEF Whole
  <2>4. LastMatchAfterCall'
    <3>1. ~Found'
      BY <1>1, <1>3 DEF Found
    <3>. QED
      BY <1>1, <2>1, <3>1 DEF LastMatchAfterCall
  <2>. QED
    BY <1>1, <2>1, <2>2, <2>3, <2>4, DoneIInv
<1>. QED
  BY <1>2, <1>3

\* sub, from the replacement on.
LEMMA SubReturnIInv == IInv /\ SubReturn => IInv'
<1>. SUFFICES ASSUME IInv, SubReturn PROVE IInv'
  OBVIOUS
<1>1. /\ pc = "expanded" /\ pc' = "done" /\ out' = [kind |-> "match", at |-> md.v[0]]
      /\ result' = <<Cut(PreMatch(md))>> \o result \o <<Cut(PostMatch(md))>>
      /\ UNCHANGED <<md, template, index, last, call>>
  BY DEF SubReturn, Return
<1>2. /\ call.op = "sub" /\ Found /\ ~call.flag /\ index = Len(template) + 1
      /\ last = IF DigitBefore(index) THEN "digit" ELSE "this"
  BY <1>1 DEF IInv, Expanding, CallOK
<1>3. out' \in OutType
  BY <1>1, <1>2, Facts DEF OutType
<1>4. result' \in Seq(Pieces)
  <2>1. md.v[0] \in Spans(md.n) /\ md.n \in Nat /\ Spans(md.n) \subseteq Parts(MaxLen)
    BY <1>2, Facts DEF MatchOK, Parts, Found
  <2>2. PreMatch(md) = Span(0, md.v[0].b) /\ PostMatch(md) = Span(md.v[0].e, md.n)
    BY <1>2, Facts, AccessorsAgreeAt DEF AccessorsAgreeOn, Found
  <2>3. Span(0, md.v[0].b) \in Spans(md.n) /\ Span(md.v[0].e, md.n) \in Spans(md.n)
    BY <2>1 DEF Spans, Span
  <2>4. Cut(PreMatch(md)) \in Pieces /\ Cut(PostMatch(md)) \in Pieces
    BY <2>1, <2>2, <2>3, CutTypes
  <2>5. result \in Seq(Pieces)
    BY DEF IInv, TypeOK
  <2>. QED
    BY <1>1, <2>4, <2>5
<1>5. LastMatchAfterCall'
  <2>1. EscapesDigit <=> DigitBefore(index)
    <3>. DEFINE i == index - 1
    <3>1. Len(template) = i
      BY <1>2, Facts
    <3>. HIDE DEF i
    <3>2. EscapesDigit <=> \E k \in 1 .. i : Escapes(k) /\ template[k + 1] \in DOMAIN Digit
      BY <3>1, ZenonT(60) DEF EscapesDigit
    <3>. QED
      BY <3>2, ZenonT(60) DEF DigitBefore, i
  <2>2. EscapesDigit' <=> EscapesDigit
    BY <1>1, ZenonT(60) DEF EscapesDigit, Escapes
  <2>3. Found'
    BY <1>1, <1>2 DEF Found
  <2>. QED
    BY <1>1, <1>2, <2>1, <2>2, <2>3 DEF LastMatchAfterCall
<1>. QED
  BY <1>1, <1>2, <1>3, <1>4, <1>5, DoneIInv DEF IInv, TypeOK

\* The receivers the runs start from.
LEMMA ReceiverOK ==
  ASSUME NEW max \in Nat, max <= MaxLen, NEW m \in Receivers(max)
  PROVE  /\ MatchOK(m) /\ m.n \in 0 .. MaxLen /\ m.len \in 0 .. MaxGroups + 1
         /\ m.v \in [0 .. m.len - 1 -> Spans(m.n) \cup {Nil}]
<1>1. PICK n \in 0 .. max :
        m \in {NotFound(n)} \cup (UNION {Matches(n, len) : len \in 1 .. MaxGroups + 1})
  BY DEF Receivers
<1>2. n \in Nat /\ n \in 0 .. MaxLen /\ MaxGroups \in Nat
  BY CallsAssumption
<1>3. CASE m = NotFound(n)
  <2>1. m.n = n /\ m.len = 0 /\ m.v = <<>>
    BY <1>3 DEF NotFound
  <2>2. <<>> \in [0 .. 0 - 1 -> Spans(n) \cup {Nil}] /\ <<>> \in [0 .. 0 - 1 -> Parts(n)]
    BY DEF Parts
  <2>. QED
    BY <1>2, <2>1, <2>2 DEF MatchOK
<1>4. CASE m # NotFound(n)
  <2>1. PICK len \in 1 .. MaxGroups + 1 : m \in Matches(n, len)
    BY <1>1, <1>4
  <2>2. /\ m.n = n /\ m.len = len /\ m.v \in [0 .. len - 1 -> Spans(n) \cup {Nil}]
        /\ m.v[0] # Nil
    BY <2>1 DEF Matches
  <2>. QED
    BY <1>2, <2>2 DEF MatchOK, Parts
<1>. QED
  BY <1>3, <1>4

\* The calls the runs make.
Legal(c, n) ==
  /\ c.a \in Int /\ c.b \in Int /\ c.flag \in BOOLEAN /\ c.op # "sub"
  /\ c.op = "set string" => Span(c.a, c.b) \in Spans(n)
  /\ c.op \in {"slice", "slice!", "set group", "sub"} => ~c.flag

\* Every call that Init may choose has legal arguments.
LEMMA CallsOK ==
  ASSUME NEW n \in Nat, NEW c \in Calls(n)
  PROVE  Legal(c, n)
<1>1. Args \subseteq Int /\ -MaxArg .. 2 * (IntMax + 1) + MaxLen \subseteq Int /\ 0 \in Int
  BY CallsAssumption DEF Args
<1>2. CASE c \in {Call("set string", s.b, s.e, FALSE) : s \in Spans(n)}
  <2>1. PICK s \in Spans(n) : c = Call("set string", s.b, s.e, FALSE)
    BY <1>2
  <2>2. s.b \in Int /\ s.e \in Int /\ Span(s.b, s.e) = s
    BY DEF Spans, Span
  <2>3. c.op = "set string" /\ c.a = s.b /\ c.b = s.e /\ c.flag = FALSE
    BY <2>1 DEF Call
  <2>. QED
    BY <2>2, <2>3 DEF Legal
<1>3. CASE c \notin {Call("set string", s.b, s.e, FALSE) : s \in Spans(n)}
  <2>1. c.a \in Int /\ c.b \in Int
    <3>1. c.a \in {0} \cup Args \cup (-MaxArg .. 2 * (IntMax + 1) + MaxLen) /\ c.b \in {0} \cup Args
      BY <1>3 DEF Calls
    <3>. QED
      BY <1>1, <3>1, ZenonT(60)
  <2>2. c.flag \in BOOLEAN
    BY <1>3 DEF Calls
  <2>3. c.op \in {"slice", "slice!", "set group"} => c.flag = FALSE
    BY <1>3 DEF Calls
  <2>4. c.op # "sub" /\ c.op # "set string"
    BY <1>3 DEF Calls
  <2>5. c.op \in {"slice", "slice!", "set group", "sub"} => ~c.flag
    BY <2>3, <2>4
  <2>. QED
    BY <2>1, <2>2, <2>4, <2>5, ZenonT(60) DEF Legal
<1>. QED
  BY <1>2, <1>3

\* A call starts in the invariant.
LEMMA InitIInv == Init => IInv
<1>. SUFFICES ASSUME Init PROVE IInv
  OBVIOUS
<1>1. /\ index = 1 /\ result = <<>> /\ last = "earlier" /\ pc = "call"
      /\ out = [kind |-> "running", at |-> Nil]
  BY DEF Init
<1>2. /\ MatchOK(md) /\ md.n \in 0 .. MaxLen /\ md.len \in 0 .. MaxGroups + 1
      /\ md.v \in [0 .. md.len - 1 -> Spans(md.n) \cup {Nil}]
  <2>1. md \in Receivers(MaxLen) \/ md \in Receivers(MaxSubLen)
    BY DEF Init
  <2>2. MaxLen \in Nat /\ MaxSubLen \in Nat /\ MaxSubLen <= MaxLen /\ MaxLen <= MaxLen
    BY CallsAssumption
  <2>. QED
    BY <2>1, <2>2, ReceiverOK
<1>3. CASE call \in Calls(md.n) /\ template = <<>>
  <2>1. CallOK /\ call.op # "sub"
    <3>1. Legal(call, md.n)
      BY <1>2, <1>3, CallsOK DEF MatchOK
    <3>. QED
      BY <3>1, ZenonT(60) DEF CallOK, Legal
  <2>2. template \in Seq(Symbols) /\ index \in 1 .. Len(template) + 1
    BY <1>1, <1>3
  <2>3. TypeOK
    BY <1>1, <1>2, <2>2 DEF TypeOK
  <2>4. Expanding
    BY <1>1, <1>3, <2>1 DEF Expanding
  <2>. QED
    BY <1>1, <1>2, <2>1, <2>3, <2>4 DEF IInv, LastMatchAfterCall
<1>4. CASE call = Call("sub", 0, 0, FALSE) /\ template \in BoundedSeq(Symbols, MaxTemplate)
  <2>1. /\ call.op = "sub" /\ call.a = 0 /\ call.b = 0 /\ call.flag = FALSE
    BY <1>4 DEF Call
  <2>2. CallOK
    <3>1. call.a \in Int /\ call.b \in Int /\ call.op # "set string"
      BY <2>1
    <3>2. call.flag \in BOOLEAN /\ ~call.flag
      BY <2>1, ZenonT(60)
    <3>. QED
      BY <3>1, <3>2, ZenonT(60) DEF CallOK
  <2>3. template \in Seq(Symbols)
    BY <1>4, CallsAssumption DEF BoundedSeq, SeqOf
  <2>4. TypeOK
    BY <1>1, <1>2, <2>3 DEF TypeOK
  <2>5. Expanding
    BY <1>1, <2>1 DEF Expanding
  <2>. QED
    BY <1>1, <1>2, <2>1, <2>2, <2>4, <2>5 DEF IInv, LastMatchAfterCall
<1>. QED
  BY <1>3, <1>4 DEF Init

\* The invariant holds in every state.
THEOREM Invariance == Spec => []IInv
<1>1. IInv /\ [Next]_vars => IInv'
  <2>. SUFFICES ASSUME IInv, [Next]_vars PROVE IInv'
    OBVIOUS
  <2>1. CASE UNCHANGED vars
    <3>1. UNCHANGED <<md, template, index, result, last, pc, call, out>>
      BY <2>1 DEF vars
    <3>2. TypeOK' /\ MatchOK(md)' /\ CallOK'
      BY <3>1 DEF IInv, TypeOK, MatchOK, CallOK
    <3>3. /\ DigitBefore(index)' <=> DigitBefore(index)
          /\ AtBoundary(index)' <=> AtBoundary(index)
          /\ EscapesDigit' <=> EscapesDigit
      BY <3>1, ZenonT(60) DEF DigitBefore, AtBoundary, EscapesDigit, Escapes
    <3>4. Expanding' /\ LastMatchAfterCall'
      BY <3>1, <3>3 DEF IInv, Expanding, LastMatchAfterCall, Found
    <3>. QED
      BY <3>2, <3>4 DEF IInv
  <2>. QED
    BY <2>1, RegexpMatchIInv, IndexIInv, SliceIInv, SliceBangIInv, AssignIInv,
       SubMatchIInv, ExpandIInv, SubReturnIInv DEF Next
<1>. QED
  BY <1>1, InitIInv, PTL DEF Spec

\* A call keeps the types of its variables.
THEOREM TypeCorrect == Spec => []TypeOK
<1>1. IInv => TypeOK
  BY DEF IInv
<1>. QED
  BY <1>1, Invariance, PTL

\* The accessors of a match agree at all the integer arguments.
THEOREM Accessors == Spec => []AccessorsAgree
<1>1. IInv => AccessorsAgree
  <2>. SUFFICES ASSUME IInv, Found PROVE AccessorsAgreeOn(md, Args)
    BY DEF AccessorsAgree
  <2>1. AccessorsAgreeOn(md, Int)
    BY AccessorsAgreeAt DEF IInv, Found
  <2>2. Args \subseteq Int
    BY CallsAssumption DEF Args
  <2>. QED
    BY <2>1, <2>2 DEF AccessorsAgreeOn
<1>. QED
  BY <1>1, Invariance, PTL

\* $~ after a call.
THEOREM LastMatch == Spec => []LastMatchAfterCall
<1>1. IInv => LastMatchAfterCall
  BY DEF IInv
<1>. QED
  BY <1>1, Invariance, PTL
-----------------------------------------------------------------------------
\* What is left of n characters when the span r was replaced.
Around(n, a, r) ==
  /\ a.kind = "ok" /\ a.before = Span(0, r.b)
  /\ a.behind = Span(r.e, n) \/ (a.behind = Nil /\ r.e = n)

\* Splicing at a span, or from its begin to behind the end.
LEMMA SpliceAround ==
  ASSUME NEW n \in Nat, NEW b \in 0 .. n, NEW e \in b .. n, NEW c \in Nat,
         b + c = e \/ (e = n /\ b + c >= n)
  PROVE  Around(n, Splice(n, b, c), Span(b, e))
<1>1. SubRange(n, 0, b, TRUE) = Span(0, b)
  BY DEF SubRange, Absolute, Min2, Max2
<1>2. \/ SubRange(n, b + c, -1, FALSE) = Span(e, n)
      \/ SubRange(n, b + c, -1, FALSE) = Nil /\ e = n
  BY DEF SubRange, Absolute, Min2, Max2
<1>. QED
  BY <1>1, <1>2 DEF Around, Splice, Span

\* With an index, the parts left are those around the character read.
LEMMA IndexAround ==
  ASSUME NEW n \in Nat, NEW a \in Int, ReadIndex(n, a) # Nil
  PROVE  Around(n, AssignIndex(n, a), ReadIndex(n, a))
<1>. DEFINE b == Absolute(a, n)
<1>1. b \in 0 .. n /\ b # n /\ b + 1 \in b .. n /\ ReadIndex(n, a) = Span(b, b + 1)
  BY DEF ReadIndex, Sub, Absolute, Min2
<1>2. AssignIndex(n, a) = Splice(n, b, 1)
  BY <1>1 DEF AssignIndex
<1>. HIDE DEF b
<1>. QED
  BY <1>1, <1>2, SpliceAround

\* The same with an index and a length.
LEMMA CountAround ==
  ASSUME NEW n \in Nat, NEW a \in Int, NEW c \in Int, Sub(n, a, c) # Nil
  PROVE  Around(n, AssignCount(n, a, c), Sub(n, a, c))
<1>. DEFINE b == Absolute(a, n)
            e == Min2(b + c, n)
<1>1. b \in 0 .. n /\ c \in Nat /\ Sub(n, a, c) = Span(b, e)
  BY DEF Sub, Absolute
<1>2. AssignCount(n, a, c) = Splice(n, b, c)
  BY <1>1 DEF AssignCount
<1>. HIDE DEF b
<1>3. e \in b .. n /\ (b + c = e \/ (e = n /\ b + c >= n))
  BY <1>1 DEF Min2
<1>. HIDE DEF e
<1>. QED
  BY <1>1, <1>2, <1>3, SpliceAround

\* The same with a Range.
LEMMA RangeAround ==
  ASSUME NEW n \in Nat, NEW a \in Int, NEW c \in Int, NEW excl \in BOOLEAN,
         SubRange(n, a, c, excl) # Nil
  PROVE  Around(n, AssignRange(n, a, c, excl), SubRange(n, a, c, excl))
<1>. DEFINE b == Absolute(a, n)
            one == IF excl THEN 1 ELSE 0
            zero == IF excl THEN 0 ELSE 1
            d == Absolute(c, n)
            e == Max2(b, Min2(d + zero, n))
            k == IF d - one < b THEN 0 ELSE d - one + 1 - b
<1>1. d \in Int /\ b \in Int /\ one \in 0 .. 1 /\ zero = 1 - one
  BY DEF Absolute
<1>2. b \in 0 .. n /\ SubRange(n, a, c, excl) = Span(b, e)
  BY <1>1 DEF SubRange
<1>3. AssignRange(n, a, c, excl) = Splice(n, b, k)
  BY DEF AssignRange
<1>. HIDE DEF b, d, one, zero
<1>4. e \in b .. n /\ k \in Nat /\ (b + k = e \/ (e = n /\ b + k >= n))
  BY <1>1, <1>2 DEF Min2, Max2
<1>. HIDE DEF e, k
<1>. QED
  BY <1>2, <1>3, <1>4, SpliceAround

\* The same with the place of a string.
LEMMA StringAround ==
  ASSUME NEW n \in Nat, NEW a \in Int, NEW b \in Int, Span(a, b) \in Spans(n)
  PROVE  Around(n, Splice(n, a, b - a), Span(a, b))
<1>1. a \in 0 .. n /\ b \in a .. n /\ b - a \in Nat /\ a + (b - a) = b
  BY DEF Spans, Span
<1>. QED
  BY <1>1, SpliceAround

\* The same with a group, which counts from the end when negative.
LEMMA GroupAround ==
  ASSUME NEW m, MatchOK(m), m.len > 0, NEW a \in Int, NEW r, r # Nil,
         \/ a >= 0 /\ r = ReadGroup(m, a)
         \/ a \in 1 - m.len .. -1 /\ r = At(m, a)
  PROVE  Around(m.n, AssignGroup(m, a), r)
<1>1. m.n \in Nat /\ m.len \in Nat
  BY DEF MatchOK
<1>2. PICK k \in 0 .. m.len - 1 : r = m.v[k] /\ k = IF a < 0 THEN a + m.len ELSE a
  <2>1. CASE a >= 0 /\ r = ReadGroup(m, a)
    <3>1. CASE a = 0
      BY <1>1, <2>1, <3>1, AtGroup DEF ReadGroup
    <3>2. CASE a # 0
      <4>. DEFINE s == Captures(m)
      <4>1. Len(s) = m.len - 1 /\ \A k \in 1 .. m.len - 1 : s[k] = m.v[k]
        BY CapturesOf
      <4>2. r = ArrayAt(s, a - 1)
        BY <2>1, <3>2 DEF ReadGroup
      <4>. HIDE DEF s
      <4>3. a \in 1 .. m.len - 1 /\ r = s[a]
        BY <1>1, <2>1, <3>2, <4>1, <4>2 DEF ArrayAt, Absolute
      <4>. QED
        BY <1>1, <4>1, <4>3
    <3>. QED
      BY <3>1, <3>2
  <2>2. CASE a \in 1 - m.len .. -1 /\ r = At(m, a)
    <3>. DEFINE k == a + m.len
    <3>1. k \in 0 .. m.len - 1 /\ k - m.len = a /\ a < 0
      BY <1>1, <2>2
    <3>. HIDE DEF k
    <3>2. At(m, k - m.len) = m.v[k]
      BY <3>1, AtGroup
    <3>. QED
      BY <2>2, <3>1, <3>2 DEF k
  <2>. QED
    BY <2>1, <2>2
<1>3. /\ r.b \in 0 .. m.n /\ r.e \in r.b .. m.n /\ r = Span(r.b, r.e)
      /\ r.e - r.b \in Nat /\ r.b + (r.e - r.b) = r.e
  <2>1. r \in Spans(m.n)
    BY <1>2 DEF MatchOK, Parts
  <2>. QED
    BY <1>1, <2>1 DEF Spans, Span
<1>4. AssignGroup(m, a) = Splice(m.n, r.b, r.e - r.b)
  BY <1>1, <1>2 DEF AssignGroup
<1>5. Around(m.n, Splice(m.n, r.b, r.e - r.b), Span(r.b, r.e))
  BY <1>1, <1>3, SpliceAround
<1>. QED
  BY <1>3, <1>4, <1>5

\* The groups there are, from either end.
LEMMA GroupSign ==
  ASSUME NEW a \in Int, NEW n \in Nat
  PROVE  a >= 0 \/ a \in 1 - n .. -1 \/ ~(a >= 0 \/ a > -n)
OBVIOUS

\* What the group assigned to reads.
LEMMA ReadOfGroup ==
  ASSUME IInv, Read # Nil, call.op = "set group"
  PROVE  \/ Found /\ call.a >= 0 /\ Read = ReadGroup(md, call.a)
         \/ Found /\ call.a \in 1 - md.len .. -1 /\ Read = At(md, call.a)
<1>1. Read = ReadByGroup
  BY DEF Read
<1>2. ReadByGroup = IF ~Found THEN Nil
                    ELSE IF call.a >= 0 THEN ReadGroup(md, call.a)
                    ELSE IF call.a > -md.len THEN At(md, call.a) ELSE Nil
  BY DEF ReadByGroup
<1>3. MatchOK(md) /\ call.a \in Int
  BY Facts
<1>4. md.len \in Nat
  BY <1>3 DEF MatchOK
<1>5. call.a >= 0 \/ call.a \in 1 - md.len .. -1 \/ ~(call.a >= 0 \/ call.a > -md.len)
  BY <1>3, <1>4, GroupSign
<1>. QED
  BY <1>1, <1>2, <1>5, ZenonT(60)

\* What []= reads and replaces.
LEMMA AssignedAround ==
  ASSUME IInv, Read # Nil,
         call.op \in {"set index", "set count", "set range", "set string", "set group"}
  PROVE  Around(md.n, Assigned, Read)
<1>1. md.n \in Nat /\ call.a \in Int /\ call.b \in Int /\ call.flag \in BOOLEAN /\ MatchOK(md)
  BY Facts
<1>2. CASE call.op = "set index"
  <2>1. Assigned = AssignIndex(md.n, call.a) /\ Read = ReadIndex(md.n, call.a)
    BY <1>2 DEF Assigned, Read
  <2>. QED
    BY <1>1, <2>1, IndexAround, ZenonT(60)
<1>3. CASE call.op = "set count"
  <2>1. Assigned = AssignCount(md.n, call.a, call.b) /\ Read = Sub(md.n, call.a, call.b)
    BY <1>3 DEF Assigned, Read
  <2>. QED
    BY <1>1, <2>1, CountAround, ZenonT(60)
<1>4. CASE call.op = "set range"
  <2>1. /\ Assigned = AssignRange(md.n, call.a, call.b, call.flag)
        /\ Read = SubRange(md.n, call.a, call.b, call.flag)
    BY <1>4 DEF Assigned, Read
  <2>. QED
    BY <1>1, <2>1, RangeAround, ZenonT(60)
<1>5. CASE call.op = "set string"
  <2>1. Assigned = Splice(md.n, call.a, call.b - call.a) /\ Read = Span(call.a, call.b)
    BY <1>5 DEF Assigned, Read
  <2>2. Span(call.a, call.b) \in Spans(md.n)
    BY <1>5 DEF IInv, CallOK
  <2>. QED
    BY <1>1, <2>1, <2>2, StringAround, ZenonT(60)
<1>6. CASE call.op = "set group"
  <2>1. /\ Found /\ Assigned = AssignGroup(md, call.a)
        /\ \/ call.a >= 0 /\ Read = ReadGroup(md, call.a)
           \/ call.a \in 1 - md.len .. -1 /\ Read = At(md, call.a)
    <3>1. Assigned = IF Found THEN AssignGroup(md, call.a) ELSE Raised
      BY <1>6 DEF Assigned
    <3>2. \/ Found /\ call.a >= 0 /\ Read = ReadGroup(md, call.a)
          \/ Found /\ call.a \in 1 - md.len .. -1 /\ Read = At(md, call.a)
      BY <1>6, ReadOfGroup
    <3>. QED
      BY <3>1, <3>2, ZenonT(60)
  <2>. DEFINE r == Read
  <2>. HIDE DEF r
  <2>2. /\ md.len > 0 /\ r # Nil
        /\ \/ call.a >= 0 /\ r = ReadGroup(md, call.a)
           \/ call.a \in 1 - md.len .. -1 /\ r = At(md, call.a)
    BY <2>1 DEF Found, r
  <2>3. Around(md.n, AssignGroup(md, call.a), r)
    BY <1>1, <2>2, GroupAround
  <2>. QED
    BY <2>1, <2>3 DEF r
<1>. QED
  BY <1>2, <1>3, <1>4, <1>5, <1>6

\* The first and the last piece of a result with the replaced text cut out.
LEMMA WithAround ==
  ASSUME NEW n, NEW r, NEW a, Around(n, a, r), NEW c \in Seq(Pieces)
  PROVE  LET z == With(a, c) IN
         /\ z # <<>> /\ Head(z) = Cut(Span(0, r.b)) /\ Len(z) = Len(c) + 2
         /\ Last(z) = Cut(Span(r.e, n)) \/ (Last(z) = Cut(Nil) /\ r.e = n)
<1>. DEFINE x == Cut(a.before)
            y == Cut(a.behind)
            z == <<x>> \o c \o <<y>>
<1>1. With(a, c) = z
  BY DEF With, Around
<1>2. x = Cut(Span(0, r.b)) /\ (y = Cut(Span(r.e, n)) \/ (y = Cut(Nil) /\ r.e = n))
  BY DEF Around
<1>. HIDE DEF x, y
<1>3. z # <<>> /\ Head(z) = x /\ Len(z) = Len(c) + 2 /\ z[Len(z)] = y
  OBVIOUS
<1>. HIDE DEF z
<1>. QED
  BY <1>1, <1>2, <1>3 DEF Last

\* Nothing else reads or replaces.
LEMMA ReadsNothing ==
  ASSUME call.op \notin {"set index", "set count", "set range", "set string", "set group", "slice!"}
  PROVE  Read = Nil
BY DEF Read

\* A step keeps what was replaced what is read.
LEMMA ReplacesStep ==
  ASSUME IInv, AssignReplacesWhatIsRead, [Next]_vars
  PROVE  AssignReplacesWhatIsRead'
<1>1. UNCHANGED <<md, call>>
  BY DEF vars, Next, MatchOperator, RegexpOperator, CaseEqual, Match, Index, Slice, SliceBang, Assign,
     SubMatch, Expand, ExpandText, ExpandTrailing, ExpandEscape, SubReturn
<1>2. Read' = Read
  BY <1>1 DEF Read, ReadByGroup, Found
<1>. DEFINE r == Read
            n == md.n
            len == IF call.op = "slice!" THEN 2 ELSE 3
<1>3. ASSUME NEW z, result' = z, r # Nil,
             z # <<>>, Head(z) = Cut(Span(0, r.b)), Len(z) = len,
             Last(z) = Cut(Span(r.e, n)) \/ (Last(z) = Cut(Nil) /\ r.e = n)
      PROVE  AssignReplacesWhatIsRead'
  <2>1. {Cut(Nil) : x \in {n} \cap {r.e}} = IF r.e = n THEN {Cut(Nil)} ELSE {}
    OBVIOUS
  <2>2. UNCHANGED r /\ UNCHANGED n /\ UNCHANGED len
    BY <1>1, <1>2
  <2>. HIDE DEF r, n, len
  <2>3. Last(z) \in {Cut(Span(r.e, n))} \cup {Cut(Nil) : x \in {n} \cap {r.e}}
    BY <1>3, <2>1
  <2>. QED
    BY <1>1, <1>2, <1>3, <2>3 DEF AssignReplacesWhatIsRead, r, n, len
<1>4. CASE Read = Nil
  BY <1>2, <1>4 DEF AssignReplacesWhatIsRead
<1>5. CASE Read # Nil /\ Assign
  <2>1. /\ call.op \in {"set index", "set count", "set range", "set string", "set group"}
        /\ result' = With(Assigned, <<Lit("val")>>)
    BY <1>5 DEF Assign
  <2>2. <<Lit("val")>> \in Seq(Pieces) /\ Len(<<Lit("val")>>) = 1
    BY CutTypes
  <2>3. Around(n, Assigned, r)
    BY <1>5, <2>1, AssignedAround
  <2>4. len = 3 /\ r # Nil
    <3>1. call.op # "slice!"
      BY <2>1
    <3>. QED
      BY <1>5, <3>1
  <2>. DEFINE c == <<Lit("val")>>
              y == Assigned
              z == With(y, c)
  <2>d. c \in Seq(Pieces)
    BY <2>2
  <2>c. Len(c) = 1
    BY <2>2
  <2>a. Around(n, y, r)
    BY <2>3
  <2>b. result' = With(y, c)
    BY <2>1
  <2>. HIDE DEF r, n, len, c, y
  <2>5. /\ z # <<>> /\ Head(z) = Cut(Span(0, r.b)) /\ Len(z) = Len(c) + 2
        /\ Last(z) = Cut(Span(r.e, n)) \/ (Last(z) = Cut(Nil) /\ r.e = n)
    BY <2>a, <2>d, WithAround, ZenonT(60)
  <2>6. result' = z
    BY <2>b
  <2>. HIDE DEF z
  <2>7. Len(z) = len
    BY <2>c, <2>4, <2>5
  <2>. QED
    BY <1>3, <2>4, <2>5, <2>6, <2>7
<1>6. CASE Read # Nil /\ SliceBang
  <2>1. /\ call.op = "slice!" /\ Found /\ call.a >= 0 /\ Read = ReadGroup(md, call.a)
        /\ result' = With(AssignGroup(md, call.a), <<>>)
    <3>1. call.op = "slice!" /\ result' = IF (IF Found THEN ReadGroup(md, call.a) ELSE Nil) = Nil
                                           THEN Whole ELSE With(AssignGroup(md, call.a), <<>>)
      BY <1>6 DEF SliceBang
    <3>2. Read = ReadByGroup
      BY <3>1 DEF Read
    <3>3. Found /\ call.a >= 0 /\ Read = ReadGroup(md, call.a)
      BY <1>6, <3>1, <3>2 DEF ReadByGroup
    <3>. QED
      BY <1>6, <3>1, <3>3
  <2>2. <<>> \in Seq(Pieces) /\ Len(<<>>) = 0
    OBVIOUS
  <2>3. len = 0 + 2 /\ r # Nil
    BY <1>6, <2>1
  <2>4. MatchOK(md) /\ md.len > 0 /\ call.a \in Int
    BY <2>1, Facts DEF Found
  <2>5. r = ReadGroup(md, call.a)
    BY <2>1
  <2>. DEFINE z == With(AssignGroup(md, call.a), <<>>)
  <2>. HIDE DEF r, len
  <2>6. Around(n, AssignGroup(md, call.a), r)
    BY <2>1, <2>3, <2>4, <2>5, GroupAround
  <2>. HIDE DEF n
  <2>7. /\ z # <<>> /\ Head(z) = Cut(Span(0, r.b)) /\ Len(z) = Len(<<>>) + 2
        /\ Last(z) = Cut(Span(r.e, n)) \/ (Last(z) = Cut(Nil) /\ r.e = n)
    BY <2>2, <2>6, WithAround
  <2>. HIDE DEF z
  <2>8. result' = z /\ Len(z) = len
    BY <2>1, <2>2, <2>3, <2>7 DEF z
  <2>. QED
    BY <1>3, <2>3, <2>7, <2>8
<1>7. CASE Read # Nil /\ ~Assign /\ ~SliceBang
  <2>1. call.op \in {"set index", "set count", "set range", "set string", "set group", "slice!"}
    BY <1>7, ReadsNothing
  <2>2. Expand \/ UNCHANGED vars
    BY <1>7, <2>1 DEF Next, MatchOperator, RegexpOperator, CaseEqual, Match, Index, Slice, SubMatch, SubReturn,
       IInv, Expanding
  <2>3. CASE UNCHANGED vars
    BY <1>1, <1>2, <2>3 DEF vars, AssignReplacesWhatIsRead
  <2>4. CASE Expand
    <3>1. pc' # "done"
      BY <2>4 DEF Expand, ExpandText, ExpandTrailing, ExpandEscape
    <3>. QED
      BY <3>1 DEF AssignReplacesWhatIsRead
  <2>. QED
    BY <2>2, <2>3, <2>4
<1>. QED
  BY <1>4, <1>5, <1>6, <1>7

\* []= replaces, and slice! removes, what the same selector reads.
THEOREM Replaces == Spec => []AssignReplacesWhatIsRead
<1>1. Init => AssignReplacesWhatIsRead
  BY DEF Init, AssignReplacesWhatIsRead
<1>2. IInv /\ AssignReplacesWhatIsRead /\ [Next]_vars => AssignReplacesWhatIsRead'
  BY ReplacesStep
<1>. QED
  BY <1>1, <1>2, Invariance, PTL DEF Spec
-----------------------------------------------------------------------------
\* What holds of 0 and, with every number below n, of the next, holds up to n.
LEMMA UpwardInduction ==
  ASSUME NEW n \in Nat, NEW G, 0 \in G, \A k \in 0 .. n - 1 : k \in G => k + 1 \in G
  PROVE  \A k \in 0 .. n : k \in G
<1>. DEFINE bad == {k \in Nat : k <= n /\ k \notin G}
            k   == Min(bad)
<1>1. SUFFICES ASSUME bad # {} PROVE FALSE
  <2>. SUFFICES ASSUME NEW x \in 0 .. n, x \notin G PROVE bad # {}
    OBVIOUS
  <2>1. x \in bad
    OBVIOUS
  <2>. QED
    BY <2>1
<1>2. k \in bad /\ \A q \in bad : k <= q
  <2>1. bad \subseteq Nat
    OBVIOUS
  <2>. HIDE DEF bad
  <2>. QED
    BY <1>1, <2>1, MinOfNaturals
<1>. HIDE DEF k
<1>3. k \in Nat /\ k <= n /\ k \notin G
  BY <1>2
<1>4. k - 1 \in 0 .. n - 1 /\ k - 1 + 1 = k
  BY <1>3
<1>5. k - 1 \in G
  <2>. SUFFICES ASSUME k - 1 \notin G PROVE FALSE
    OBVIOUS
  <2>1. k - 1 \in bad /\ ~(k <= k - 1)
    BY <1>4
  <2>. QED
    BY <1>2, <2>1
<1>. QED
  BY <1>3, <1>4, <1>5

\* The function that FlattenSeq chooses: the first elements of z, joined.
Joined(f, z, i) == IF i = 1 THEN z[i] ELSE f[i - 1] \o z[i]
Flat(z)         == CHOOSE f : f = [i \in 1 .. Len(z) |-> Joined(f, z, i)]

\* Past its first place, Joined appends to what the place before holds.
LEMMA JoinedNext ==
  ASSUME NEW f, NEW z, NEW i, i # 1
  PROVE  Joined(f, z, i) = f[i - 1] \o z[i]
BY ZenonT(60) DEF Joined

\* FlattenSeq reads the last place of that function.
LEMMA FlattenSeqIs ==
  ASSUME NEW z
  PROVE  FlattenSeq(z) = IF Len(z) = 0 THEN z ELSE Flat(z)[Len(z)]
BY DEF FlattenSeq, Flat, Joined

\* There is such a function.
LEMMA FlatExists ==
  ASSUME NEW z, Len(z) \in Nat
  PROVE  \E f : f = [i \in 1 .. Len(z) |-> Joined(f, z, i)]
<1>. DEFINE Upto(f, k) == f = [i \in 1 .. k |-> Joined(f, z, i)]
            n == Len(z)
            G == {k \in Nat : \E f : Upto(f, k)}
<1>1. 0 \in G
  <2>1. Upto([i \in 1 .. 0 |-> 0], 0)
    OBVIOUS
  <2>. HIDE DEF Upto
  <2>. QED
    BY <2>1
<1>2. ASSUME NEW k \in 0 .. n - 1, k \in G PROVE k + 1 \in G
  <2>1. PICK f : Upto(f, k)
    BY <1>2
  <2>. DEFINE g == [i \in 1 .. k + 1 |-> IF i <= k THEN f[i] ELSE Joined(f, z, i)]
  <2>2. \A i \in 1 .. k : g[i] = f[i] /\ f[i] = Joined(f, z, i)
    <3>1. \A i \in 1 .. k : i \in 1 .. k + 1 /\ i <= k
      BY <1>2
    <3>. QED
      BY <2>1, <3>1
  <2>3. ASSUME NEW i \in 1 .. k + 1 PROVE g[i] = Joined(g, z, i)
    <3>1. Joined(g, z, i) = Joined(f, z, i)
      <4>1. i = 1 \/ i - 1 \in 1 .. k
        BY <1>2
      <4>. HIDE DEF g
      <4>. QED
        BY <2>2, <4>1 DEF Joined
    <3>2. i \in 1 .. k \/ ~(i <= k)
      BY <1>2
    <3>3. g[i] = Joined(f, z, i)
      BY <2>2, <3>2
    <3>. QED
      BY <3>1, <3>3
  <2>4. Upto(g, k + 1)
    <3>1. g = [i \in 1 .. k + 1 |-> g[i]]
      OBVIOUS
    <3>. HIDE DEF g
    <3>. QED
      BY <2>3, <3>1
  <2>. HIDE DEF g, Upto
  <2>. QED
    BY <1>2, <2>4
<1>. HIDE DEF G
<1>3. \A k \in 0 .. n : k \in G
  BY <1>1, <1>2, UpwardInduction
<1>4. n \in G
  BY <1>3
<1>. QED
  BY <1>4 DEF G

\* Its equation.
LEMMA FlatEquation ==
  ASSUME NEW z, Len(z) \in Nat
  PROVE  \A i \in 1 .. Len(z) : Flat(z)[i] = Joined(Flat(z), z, i)
<1>1. Flat(z) = [i \in 1 .. Len(z) |-> Joined(Flat(z), z, i)]
  BY FlatExists DEF Flat
<1>. QED
  BY <1>1

\* FlattenSeq of no sequences, and of one more.
LEMMA FlattenNone == FlattenSeq(<<>>) = <<>>
BY FlattenSeqIs

\* One more sequence is appended to what the others give.
LEMMA FlattenOneMore ==
  ASSUME NEW s, NEW z, Len(s) \in Nat, Len(z) = Len(s) + 1,
         \A k \in 1 .. Len(s) : z[k] = s[k],
         Len(s) = 0 => s = <<>>, NEW T, z[Len(z)] \in Seq(T)
  PROVE  FlattenSeq(z) = FlattenSeq(s) \o z[Len(z)]
<1>. DEFINE n == Len(s)
            f == Flat(s)
            g == Flat(z)
            G == {k \in Nat : k \in 1 .. n => g[k] = f[k]}
<1>1. /\ \A i \in 1 .. n : f[i] = Joined(f, s, i)
      /\ \A i \in 1 .. n + 1 : g[i] = Joined(g, z, i)
  BY FlatEquation
<1>. HIDE DEF f, g, n
<1>2. \A k \in 0 .. n : k \in G
  <2>1. 0 \in G /\ n \in Nat
    BY DEF n
  <2>2. ASSUME NEW k \in 0 .. n - 1, k \in G PROVE k + 1 \in G
    <3>1. k + 1 \in 1 .. n /\ k + 1 \in 1 .. n + 1 /\ k + 1 - 1 = k /\ z[k + 1] = s[k + 1]
      BY <2>1 DEF n
    <3>2. k + 1 = 1 \/ g[k] = f[k]
      BY <2>1, <2>2
    <3>3. Joined(g, z, k + 1) = Joined(f, s, k + 1)
      BY <3>1, <3>2 DEF Joined
    <3>4. g[k + 1] = f[k + 1]
      BY <1>1, <3>1, <3>3
    <3>. QED
      BY <2>1, <3>4
  <2>. HIDE DEF G
  <2>. QED
    BY <2>1, <2>2, UpwardInduction
<1>3. n \in Nat /\ Len(z) = n + 1 /\ Len(z) # 0
  BY DEF n
<1>4. FlattenSeq(z) = g[n + 1] /\ g[n + 1] = Joined(g, z, n + 1)
  BY <1>1, <1>3, FlattenSeqIs DEF g
<1>5. CASE n = 0
  <2>1. FlattenSeq(s) = <<>>
    BY <1>5, FlattenSeqIs DEF n
  <2>2. n + 1 = 1
    BY <1>5
  <2>3. Joined(g, z, 1) = z[1]
    BY DEF Joined
  <2>4. FlattenSeq(z) = z[Len(z)]
    BY <1>3, <1>4, <2>2, <2>3
  <2>. QED
    BY <2>1, <2>4
<1>6. CASE n # 0
  <2>1. g[n] = f[n]
    BY <1>2, <1>3, <1>6
  <2>2. FlattenSeq(s) = f[n]
    BY <1>6, FlattenSeqIs DEF f, n
  <2>. DEFINE m == n + 1
  <2>3. m # 1 /\ m - 1 = n
    BY <1>3, <1>6
  <2>. HIDE DEF m
  <2>4. Joined(g, z, m) = g[n] \o z[m]
    <3>1. Joined(g, z, m) = g[m - 1] \o z[m]
      BY <2>3, JoinedNext
    <3>. QED
      BY <2>3, <3>1
  <2>. QED
    BY <1>3, <1>4, <2>1, <2>2, <2>4 DEF m
<1>. QED
  BY <1>5, <1>6
-----------------------------------------------------------------------------
\* What the characters before position i mean.
Meanings(i) == [k \in 1 .. i - 1 |-> Meaning(k)]
Said(i)     == FlattenSeq(Meanings(i))

\* Appending texts is associative.
LEMMA PiecesAssociative ==
  ASSUME NEW x \in Seq(Pieces), NEW y \in Seq(Pieces), NEW z \in Seq(Pieces)
  PROVE  (x \o y) \o z = x \o (y \o z)
BY ConcatAssociative

\* Before the first character, nothing is said.
LEMMA SaidNothing == Said(1) = <<>>
<1>1. Meanings(1) = <<>>
  BY DEF Meanings
<1>. QED
  BY <1>1, FlattenNone DEF Said

\* One more character.
LEMMA SaidNext ==
  ASSUME NEW i \in Nat \ {0}, NEW T, Meaning(i) \in Seq(T)
  PROVE  Said(i + 1) = Said(i) \o Meaning(i)
<1>. DEFINE s == Meanings(i)
            z == Meanings(i + 1)
<1>1. /\ Len(s) = i - 1 /\ Len(z) = i /\ Len(s) \in Nat
      /\ Len(s) = 0 => s = <<>>
  BY DEF Meanings
<1>2. \A k \in 1 .. Len(s) : z[k] = s[k]
  <2>. SUFFICES ASSUME NEW k \in 1 .. Len(s) PROVE z[k] = s[k]
    OBVIOUS
  <2>1. k \in 1 .. i - 1 /\ k \in 1 .. i + 1 - 1
    BY <1>1
  <2>. QED
    BY <2>1 DEF Meanings
<1>3. z[Len(z)] = Meaning(i)
  <2>1. i \in 1 .. i + 1 - 1
    OBVIOUS
  <2>. QED
    BY <1>1, <2>1 DEF Meanings
<1>. HIDE DEF s, z
<1>4. Len(z) = Len(s) + 1 /\ z[Len(z)] \in Seq(T)
  BY <1>1, <1>3
<1>5. FlattenSeq(z) = FlattenSeq(s) \o z[Len(z)]
  BY <1>1, <1>2, <1>4, FlattenOneMore
<1>. QED
  BY <1>3, <1>5 DEF Said, s, z

\* Behind a boundary, a character that no other backslash precedes is not
\* escaped.
LEMMA NotEscapedBehind ==
  ASSUME template \in Seq(Symbols), NEW i \in Nat \ {0}, AtBoundary(i), NEW b \in Nat, i <= b,
         \A k \in i .. b - 1 : template[k] # Backslash
  PROVE  ~Escapes(b - 1)
<1>1. CASE b = i
  <2>1. CASE i = 1 \/ template[i - 1] # Backslash
    BY <1>1, <2>1 DEF Escapes
  <2>2. CASE Escapes(i - 2)
    <3>. DEFINE j == i - 2
    <3>1. j \in Nat /\ j + 1 = i - 1
      BY <2>2 DEF Escapes
    <3>. HIDE DEF j
    <3>2. ~Escapes(j + 1)
      BY <2>2, <3>1, EscapedEscapesNothing DEF j
    <3>. QED
      BY <1>1, <3>1, <3>2
  <2>. QED
    BY <2>1, <2>2 DEF AtBoundary
<1>2. CASE b # i
  <2>1. b - 1 \in i .. b - 1
    BY <1>2
  <2>. QED
    BY <2>1 DEF Escapes
<1>. QED
  BY <1>1, <1>2

\* The characters up to the next backslash mean themselves.
LEMMA SaidText ==
  ASSUME template \in Seq(Symbols), NEW i \in Nat \ {0}, AtBoundary(i),
         NEW b \in i .. Len(template) + 1,
         \A k \in i .. b - 1 : template[k] # Backslash,
         Said(i) \in Seq(Pieces)
  PROVE  Said(b) = Said(i) \o Text(i, b)
<1>. DEFINE n == b - i
            G == {k \in Nat : k <= n => Said(i + k) = Said(i) \o Text(i, i + k)}
<1>1. n \in Nat /\ i + n = b /\ i \in Nat
  OBVIOUS
<1>2. Text(i, i) = <<>>
  BY DEF Text
<1>3. 0 \in G
  <2>1. i + 0 = i
    BY <1>1
  <2>2. Said(i) \o <<>> = Said(i)
    OBVIOUS
  <2>. QED
    BY <1>2, <2>1, <2>2
<1>4. ASSUME NEW k \in 0 .. n - 1, k \in G PROVE k + 1 \in G
  <2>. DEFINE p == i + k
  <2>1. /\ p \in i .. b - 1 /\ p \in Nat \ {0} /\ i + (k + 1) = p + 1 /\ p \in 1 .. Len(template)
        /\ p - i = k /\ p + 1 - i = k + 1 /\ k \in Nat /\ k <= n
    BY <1>1, <1>4
  <2>2. Said(p) = Said(i) \o Text(i, p)
    BY <1>4, <2>1
  <2>. HIDE DEF p, n
  <2>3. template[p] # Backslash /\ ~Escapes(p)
    BY <2>1 DEF Escapes
  <2>4. ~Escapes(p - 1)
    <3>1. i <= p /\ p \in Nat /\ \A x \in i .. p - 1 : template[x] # Backslash
      BY <2>1
    <3>. QED
      BY <3>1, NotEscapedBehind
  <2>5. Meaning(p) = <<Lit(template[p])>>
    BY <2>3, <2>4 DEF Meaning
  <2>6. template[p] \in Symbols
    BY <2>1
  <2>7. Lit(template[p]) \in Pieces /\ <<Lit(template[p])>> \in Seq(Pieces)
    BY <2>6, CutTypes
  <2>8. Said(p + 1) = Said(p) \o <<Lit(template[p])>>
    BY <2>1, <2>5, <2>7, SaidNext
  <2>9. Text(i, p) \in Seq(Pieces) /\ Text(i, p + 1) = Text(i, p) \o <<Lit(template[p])>>
    <3>. DEFINE s == Text(i, p)
                z == Text(i, p + 1)
                c == Lit(template[p])
    <3>1. /\ s = [x \in 1 .. k |-> Lit(template[i + x - 1])]
          /\ z = [x \in 1 .. k + 1 |-> Lit(template[i + x - 1])]
      BY <2>1 DEF Text
    <3>2. i + (k + 1) - 1 = p
      BY <1>1, <2>1
    <3>3. s \in Seq(Pieces)
      <4>1. i \in 1 .. Len(template) + 1 /\ p \in i .. Len(template) + 1
        BY <2>1
      <4>. QED
        BY <4>1, TextType
    <3>4. Len(s) = k /\ Len(z) = k + 1 /\ z[k + 1] = c /\ \A x \in 1 .. k : z[x] = s[x]
      BY <2>1, <3>1, <3>2
    <3>5. z = [x \in 1 .. k + 1 |-> z[x]]
      BY <3>1
    <3>. HIDE DEF s, z, c
    <3>6. s \o <<c>> = [x \in 1 .. k + 1 |-> IF x <= k THEN s[x] ELSE c]
      BY <2>1, <3>3, <3>4
    <3>7. \A x \in 1 .. k + 1 : z[x] = IF x <= k THEN s[x] ELSE c
      BY <2>1, <3>4
    <3>8. z = s \o <<c>>
      BY <3>5, <3>6, <3>7
    <3>. QED
      BY <3>3, <3>8 DEF s, z, c
  <2>10. Said(p + 1) = Said(i) \o Text(i, p + 1)
    <3>. DEFINE A == Said(i)
                B == Text(i, p)
                C == <<Lit(template[p])>>
    <3>1. A \in Seq(Pieces) /\ B \in Seq(Pieces) /\ C \in Seq(Pieces)
      BY <2>7, <2>9
    <3>2. Said(p + 1) = (A \o B) \o C /\ Text(i, p + 1) = B \o C
      BY <2>2, <2>8, <2>9
    <3>. HIDE DEF A, B, C
    <3>3. (A \o B) \o C = A \o (B \o C)
      BY <3>1, PiecesAssociative
    <3>. QED
      BY <3>2, <3>3 DEF A
  <2>. QED
    BY <2>1, <2>10
<1>5. n \in G
  <2>. HIDE DEF G, n
  <2>1. \A k \in 0 .. n : k \in G
    BY <1>1, <1>3, <1>4, UpwardInduction
  <2>. QED
    BY <1>1, <2>1
<1>6. n <= n
  BY <1>1
<1>. HIDE DEF n
<1>. QED
  BY <1>1, <1>5, <1>6
-----------------------------------------------------------------------------
\* What a character means depends on the match and on the template alone.
LEMMA MeaningSame ==
  ASSUME UNCHANGED <<md, template>>
  PROVE  \A k : Meaning(k)' = Meaning(k)
<1>1. \A k : Escapes(k)' <=> Escapes(k)
  BY ZenonT(60) DEF Escapes
<1>2. \A c : Escaped(c)' = Escaped(c)
  <2>1. LastCapture' = LastCapture
    BY ZenonT(60) DEF LastCapture
  <2>. QED
    BY <2>1, ZenonT(60) DEF Escaped
<1>. QED
  BY <1>1, <1>2, ZenonT(60) DEF Meaning

\* What a step has to show that moves to position j.
LEMMA SaysNext ==
  ASSUME UNCHANGED <<md, template>>, NEW j, index' = j, result' = Said(j)
  PROVE  ExpandsTemplate'
<1>1. \A k : Meaning(k)' = Meaning(k)
  BY MeaningSame
<1>2. [k \in 1 .. index' - 1 |-> Meaning(k)'] = Meanings(j)
  BY <1>1 DEF Meanings
<1>3. result' = FlattenSeq([k \in 1 .. index' - 1 |-> Meaning(k)'])
  BY <1>2 DEF Said
<1>. QED
  BY <1>3 DEF ExpandsTemplate

\* A round keeps the result what the characters read so far mean.
LEMMA ExpandSays == IInv /\ ExpandsTemplate /\ Expand => ExpandsTemplate'
<1>. SUFFICES ASSUME IInv, ExpandsTemplate, Expand PROVE ExpandsTemplate'
  OBVIOUS
<1>. DEFINE b     == NextBackslash
            len   == Len(template)
            text  == Text(index, b)
            slash == <<Lit(Backslash)>>
<1>1. pc = "expand" /\ UNCHANGED <<md, template>>
  BY DEF Expand, ExpandText, ExpandTrailing, ExpandEscape
<1>2. /\ template \in Seq(Symbols) /\ len \in Nat /\ index \in Nat \ {0} /\ AtBoundary(index)
      /\ b \in index .. len + 1 /\ b \in Nat /\ b \in Nat \ {0} /\ index <= b
      /\ b <= len => template[b] = Backslash
      /\ \A k \in index .. b - 1 : template[k] # Backslash
      /\ result = Said(index) /\ result \in Seq(Pieces)
  <2>1. /\ template \in Seq(Symbols) /\ len \in Nat /\ index \in Nat \ {0} /\ AtBoundary(index)
        /\ b \in index .. len + 1 /\ b \in Nat
        /\ b <= len => template[b] = Backslash
        /\ \A k \in index .. b - 1 : template[k] # Backslash
    BY <1>1, RoundFacts
  <2>2. result = Said(index)
    BY <1>1 DEF ExpandsTemplate, Said, Meanings
  <2>3. result \in Seq(Pieces)
    BY DEF IInv, TypeOK
  <2>. HIDE DEF b, len
  <2>4. b \in Nat \ {0} /\ index <= b
    BY <2>1
  <2>. QED
    BY <2>1, <2>2, <2>3, <2>4
<1>3. Said(b) = result \o text /\ result \o text \in Seq(Pieces)
  <2>1. Said(b) = Said(index) \o Text(index, b)
    BY <1>2, SaidText
  <2>2. result \o text \in Seq(Pieces)
    BY <1>1, RoundFacts
  <2>. QED
    BY <1>2, <2>1, <2>2
<1>4. /\ slash \in Seq(Pieces)
      /\ \A c \in Symbols : Escaped(c) \in Seq(Pieces)
  <2>1. Found
    BY <1>1 DEF IInv, Expanding
  <2>. QED
    BY <2>1, EscapedType, CutTypes
<1>5. CASE ExpandText
  BY <1>1, <1>3, <1>5, SaysNext DEF ExpandText
<1>6. CASE ExpandTrailing
  <2>1. b = len /\ index' = b + 1 /\ result' = (result \o text) \o slash
    BY <1>6 DEF ExpandTrailing
  <2>2. ~Escapes(b)
    BY <2>1 DEF Escapes
  <2>3. ~Escapes(b - 1)
    BY <1>2, NotEscapedBehind
  <2>4. Meaning(b) = slash
    BY <1>2, <2>1, <2>2, <2>3 DEF Meaning
  <2>5. Said(b + 1) = Said(b) \o Meaning(b)
    BY <1>2, <1>4, <2>4, SaidNext
  <2>. HIDE DEF b, text, slash
  <2>6. result' = Said(b + 1)
    BY <1>3, <2>1, <2>4, <2>5
  <2>. QED
    BY <1>1, <2>1, <2>6, SaysNext
<1>7. CASE ExpandEscape
  <2>. DEFINE cap == template[b + 1]
              a   == b + 1
  <2>1. b < len /\ index' = b + 2 /\ result' = (result \o text) \o Escaped(cap)
    BY <1>7 DEF ExpandEscape, BehindEscape
  <2>2. b \in index .. len - 1 /\ template[b] = Backslash /\ cap \in Symbols
    BY <1>2, <2>1
  <2>3. Escapes(b) /\ ~Escapes(a)
    BY <1>2, <2>2, FirstEscapes
  <2>4. a \in Nat \ {0} /\ a - 1 = b /\ a + 1 = b + 2 /\ a = b + 1
    BY <1>2
  <2>. HIDE DEF a
  <2>5. Meaning(b) = Escaped(cap) /\ Meaning(a) = <<>>
    BY <2>3, <2>4 DEF Meaning
  <2>6. Said(b + 1) = Said(b) \o Escaped(cap)
    BY <1>2, <1>4, <2>2, <2>5, SaidNext
  <2>7. Said(a + 1) = Said(a) \o <<>>
    <3>1. Meaning(a) \in Seq(Pieces)
      BY <2>5
    <3>. QED
      BY <2>4, <2>5, <3>1, SaidNext
  <2>8. Said(a) \in Seq(Pieces)
    <3>1. Said(b) \in Seq(Pieces) /\ Escaped(cap) \in Seq(Pieces)
      BY <1>3, <1>4, <2>2
    <3>2. Said(a) = Said(b) \o Escaped(cap)
      BY <2>4, <2>6
    <3>. HIDE DEF cap, b
    <3>. QED
      BY <3>1, <3>2
  <2>9. Said(a + 1) = Said(a)
    BY <2>7, <2>8
  <2>. HIDE DEF b, text, cap
  <2>10. result' = Said(b + 2)
    BY <1>3, <2>1, <2>4, <2>6, <2>9
  <2>. QED
    BY <1>1, <2>1, <2>10, SaysNext
<1>. QED
  BY <1>5, <1>6, <1>7 DEF Expand

\* The result of sub is what the template means, each escape read once.
THEOREM ExpandsEscapesOnce == Spec => []ExpandsTemplate
<1>1. Init => ExpandsTemplate
  BY DEF Init, ExpandsTemplate
<1>2. IInv /\ ExpandsTemplate /\ [Next]_vars => ExpandsTemplate'
  <2>. SUFFICES ASSUME IInv, ExpandsTemplate, [Next]_vars PROVE ExpandsTemplate'
    OBVIOUS
  <2>1. CASE Expand
    BY <2>1, ExpandSays
  <2>2. CASE SubMatch /\ Found
    <3>1. UNCHANGED <<md, template>> /\ index' = 1 /\ result' = <<>>
      BY <2>2 DEF SubMatch, IInv, Expanding
    <3>. QED
      BY <3>1, SaidNothing, SaysNext
  <2>3. CASE UNCHANGED vars
    <3>1. UNCHANGED <<md, template>> /\ UNCHANGED <<index, result, pc>>
      BY <2>3 DEF vars
    <3>2. ASSUME pc \in {"expand", "expanded"} PROVE ExpandsTemplate'
      <4>1. result = Said(index)
        BY <3>2 DEF ExpandsTemplate, Said, Meanings
      <4>. QED
        BY <3>1, <4>1, SaysNext
    <3>. QED
      BY <3>1, <3>2 DEF ExpandsTemplate
  <2>4. CASE pc' = "done"
    BY <2>4 DEF ExpandsTemplate
  <2>5. Expand \/ (SubMatch /\ Found) \/ UNCHANGED vars \/ pc' = "done"
    BY DEF Next, MatchOperator, RegexpOperator, CaseEqual, Match, Index, Slice, SliceBang, Assign,
       SubMatch, SubReturn, RegexpMatch, Return
  <2>. QED
    BY <2>1, <2>2, <2>3, <2>4, <2>5
<1>. QED
  BY <1>1, <1>2, Invariance, PTL DEF Spec
-----------------------------------------------------------------------------
\* What is left to do: 3 for each character of the template that was not read,
\* and the steps up to the next round.
Rank    == [call |-> 3, expand |-> 2, expanded |-> 1, done |-> 0]
Variant == 3 * (Len(template) + 1 - index) + Rank[pc]
Falls   == Variant' < Variant

\* The variant is a natural number.
LEMMA VariantType ==
  IInv => /\ Len(template) \in Int /\ index \in Int
          /\ Rank[pc] \in Int /\ Variant \in Nat
          /\ Variant = 3 * (Len(template) + 1 - index) + Rank[pc]
<1>. SUFFICES ASSUME IInv
              PROVE  /\ Len(template) \in Int /\ index \in Int
                     /\ Rank[pc] \in Int /\ Variant \in Nat
                     /\ Variant = 3 * (Len(template) + 1 - index) + Rank[pc]
  OBVIOUS
<1>1. Len(template) \in Nat /\ index \in 1 .. Len(template) + 1
  BY Facts
<1>2. pc \in {"call", "expand", "expanded", "done"}
  BY DEF IInv, TypeOK
<1>3. Rank[pc] \in 0 .. 3
  BY <1>2 DEF Rank
<1>4. Len(template) + 1 - index \in Nat
  BY <1>1
<1>. QED
  BY <1>1, <1>3, <1>4 DEF Variant

\* Each step of a call leaves less to do: the loop over a template reads at
\* least two characters each time that it goes on.
THEOREM Progress == Spec => [](Variant \in Nat) /\ [][Falls]_vars
<1>1. IInv => Variant \in Nat
  BY VariantType
<1>2. IInv /\ IInv' /\ [Next]_vars => [Falls]_vars
  <2>. SUFFICES ASSUME IInv, IInv', Next PROVE Falls
    OBVIOUS
  <2>1. Len(template)' = Len(template)
    BY DEF Next, MatchOperator, RegexpOperator, CaseEqual, Match, Index, Slice, SliceBang, Assign,
       SubMatch, Expand, ExpandText, ExpandTrailing, ExpandEscape, SubReturn
  <2>2. /\ Len(template) \in Int /\ index \in Int
        /\ Rank[pc] \in Int /\ Variant \in Int
        /\ Variant = 3 * (Len(template) + 1 - index) + Rank[pc]
    BY VariantType
  <2>3. /\ index' \in Int /\ Rank[pc'] \in Int /\ Variant' \in Int
        /\ Variant' = 3 * (Len(template) + 1 - index') + Rank[pc']
    <3>1. (/\ Len(template) \in Int /\ index \in Int
           /\ Rank[pc] \in Int /\ Variant \in Nat
           /\ Variant = 3 * (Len(template) + 1 - index) + Rank[pc])'
      BY VariantType, PTL
    <3>. QED
      BY <2>1, <3>1 DEF Rank
  <2>4. (index' = index /\ Rank[pc'] < Rank[pc]) \/ (index' >= index + 1 /\ Rank[pc'] < Rank[pc] + 3)
    <3>1. CASE Expand
      <4>1. pc = "expand" /\ NextBackslash \in Int /\ NextBackslash >= index
        <5>1. pc = "expand"
          BY <3>1 DEF Expand, ExpandText, ExpandTrailing, ExpandEscape
        <5>. QED
          BY <2>2, <5>1, RoundFacts
      <4>2. \/ pc' = "expanded" /\ index' = NextBackslash
            \/ pc' = "expanded" /\ index' = NextBackslash + 1
            \/ pc' = "expand" /\ index' = NextBackslash + 2
        BY <3>1, <4>1 DEF Expand, ExpandText, ExpandTrailing, ExpandEscape, BehindEscape
      <4>3. index' >= index /\ (pc' = "expand" => index' >= index + 1)
        BY <2>2, <4>1, <4>2
      <4>4. Rank[pc] = 2 /\ Rank[pc'] \in 1 .. 2 /\ (pc' = "expanded" => Rank[pc'] = 1)
        BY <4>1, <4>2 DEF Rank
      <4>5. CASE index' = index
        BY <2>2, <4>2, <4>3, <4>4, <4>5
      <4>6. CASE index' # index
        <5>1. index' >= index + 1
          BY <2>2, <2>3, <4>3, <4>6
        <5>. QED
          BY <4>4, <5>1
      <4>. QED
        BY <4>5, <4>6
    <3>2. CASE ~Expand
      <4>1. /\ index' = index
            /\ (pc = "call" /\ pc' \in {"done", "expand"}) \/ (pc = "expanded" /\ pc' = "done")
        BY <3>2 DEF Next, MatchOperator, RegexpOperator, CaseEqual, Match, Index, Slice, SliceBang, Assign,
           SubMatch, SubReturn, RegexpMatch, Return
      <4>. QED
        BY <4>1 DEF Rank
    <3>. QED
      BY <3>1, <3>2
  <2>. DEFINE k == Len(template)
              a == index
              b == index'
              v == Variant
              w == Variant'
              x == Rank[pc]
              y == Rank[pc']
  <2>5. /\ k \in Int /\ a \in Int /\ b \in Int /\ v \in Int /\ w \in Int
        /\ x \in Int /\ y \in Int
        /\ v = 3 * (k + 1 - a) + x /\ w = 3 * (k + 1 - b) + y
    BY <2>2, <2>3
  <2>6. (b = a /\ y < x) \/ (b >= a + 1 /\ y < x + 3)
    BY <2>4
  <2>. HIDE DEF k, a, b, v, w, x, y
  <2>7. w < v
    BY <2>5, <2>6
  <2>. QED
    BY <2>7 DEF v, w, Falls
<1>. QED
  BY <1>1, <1>2, Invariance, PTL DEF Spec
=============================================================================
