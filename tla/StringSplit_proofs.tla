------------------------ MODULE StringSplit_proofs ------------------------
(***************************************************************************)
(* Proofs about StringSplit, for strings of any length, any limit and any  *)
(* number of groups: the pieces and the matches between them cover the     *)
(* string, there are not more of them than the limit says, no piece is cut *)
(* backwards, split cuts at just the matches that it should, and each step *)
(* leaves less to do, without dropping a piece that has text.              *)
(***************************************************************************)
EXTENDS StringSplit, PcreExec_proofs, FiniteSetTheorems, SequenceTheorems

Kinds    == {"text", "capture"}
AllPieces == [kind : Kinds, b : 0 .. MaxLen, e : 0 .. MaxLen]

TextsIn(s) == {k \in 1 .. Len(s) : s[k].kind = "text"}

\* The pieces of s start at 0, and there is a match between two neighbours.
Tiled(s) ==
  /\ s # <<>> => 1 \in TextsIn(s) /\ s[1].b = 0
  /\ \A j, k \in TextsIn(s) :
       j < k /\ (\A x \in j + 1 .. k - 1 : x \notin TextsIn(s)) => str.at[s[j].e] = s[k].b

\* Between the last piece of s and the position end is a match.
Open(s, end) ==
  /\ s = <<>> => end = 0
  /\ \A j \in TextsIn(s) :
       (\A x \in j + 1 .. Len(s) : x \notin TextsIn(s)) => str.at[s[j].e] = end

Begun ==
  /\ pc = "begin" => result = <<>> /\ start = 0 /\ last = NoMatch
  /\ pc # "begin" => str.n > 0 \/ (pc = "done" /\ result = <<>>)
  /\ pc \in {"match", "chars", "rest"} => limit # 1
  /\ pc \in {"match", "chars"} => start \in 0 .. str.n - 1
  /\ pc = "trim" => limit = 0

\* The last match is one, and the search position is behind it, unless it
\* is an empty one that the next search finds again.
LastIsMatch ==
  last # NoMatch => /\ last.b \in 0 .. str.n /\ last.e \in last.b .. str.n
                    /\ str.at[last.b] = last.e

LastIsBehind ==
  pc = "match" /\ last # NoMatch =>
    last.e <= start \/ (IsEmpty(last) /\ Found = last)

Pending ==
  /\ pc \in {"match", "rest"} => Open(result, IF last = NoMatch THEN 0 ELSE last.e)
  /\ pc = "chars" => str.empty /\ Open(result, start)

Whole ==
  pc = "done" /\ str.n > 0 =>
    /\ result # <<>>
    /\ limit # 0 => Len(result) \in TextsIn(result) /\ result[Len(result)].e = str.n

Counted ==
  limit > 0 => Cardinality(Texts) <= IF pc \in {"match", "chars", "rest"} THEN limit - 1 ELSE limit

\* The inductive invariant.
IInv ==
  /\ TypeOK /\ str \in Strings /\ groups \in Nat
  /\ Begun /\ LastIsMatch /\ LastIsBehind /\ Pending
  /\ Tiled(result) /\ Whole /\ Counted

\* A string is a length and a table; with an empty source the pattern
\* matches the empty string everywhere.
LEMMA StringParts ==
  ASSUME NEW s \in Strings
  PROVE  /\ s.n \in 0 .. MaxLen /\ s.n \in Nat /\ s.at \in Tables(s.n, {Fail, Limit})
         /\ s.empty => \A p \in 0 .. s.n : s.at[p] = p
<1>. DEFINE table(n) == [n : {n}, at : Tables(n, {Fail, Limit}), empty : {FALSE}]
            chars(n) == [n |-> n, at |-> [p \in 0 .. n |-> p], empty |-> TRUE]
<1>1. s \in UNION {table(n) : n \in 0 .. MaxLen} \/ s \in {chars(n) : n \in 0 .. MaxLen}
  BY ZenonT(60) DEF Strings
<1>2. CASE s \in UNION {table(n) : n \in 0 .. MaxLen}
  <2>1. PICK n \in 0 .. MaxLen : s \in table(n)
    BY <1>2, ZenonT(60)
  <2>2. s.n = n /\ s.at \in Tables(n, {Fail, Limit}) /\ s.empty = FALSE
    BY <2>1
  <2>. QED
    BY <2>2, SplitAssumption
<1>3. CASE s \in {chars(n) : n \in 0 .. MaxLen}
  <2>1. PICK n \in 0 .. MaxLen : s = chars(n)
    BY <1>3, ZenonT(60)
  <2>2. [p \in 0 .. n |-> p] \in Tables(n, {Fail, Limit})
    BY SplitAssumption DEF Tables, Fail, Limit
  <2>. QED
    BY <2>1, <2>2, SplitAssumption
<1>. QED
  BY <1>1, <1>2, <1>3

\* A piece that begins at the open end, and captures behind it, keep the
\* string tiled.
LEMMA Extended ==
  ASSUME NEW s, NEW z, Len(s) \in Nat, Len(z) \in Nat, Len(z) >= Len(s) + 1,
         s = <<>> <=> Len(s) = 0, z # <<>>,
         \A k \in 1 .. Len(s) : z[k] = s[k],
         z[Len(s) + 1].kind = "text",
         \A k \in Len(s) + 2 .. Len(z) : z[k].kind # "text",
         Tiled(s), Open(s, z[Len(s) + 1].b)
  PROVE  /\ TextsIn(z) = TextsIn(s) \cup {Len(s) + 1}
         /\ Tiled(z) /\ Open(z, str.at[z[Len(s) + 1].e])
<1>. DEFINE L == Len(s)
            T == TextsIn(s)
<1>1. TextsIn(z) = T \cup {L + 1} /\ T \subseteq 1 .. L
  BY DEF TextsIn
<1>2. 1 \in TextsIn(z) /\ z[1].b = 0
  <2>1. CASE L = 0
    BY <1>1, <2>1 DEF Open
  <2>2. CASE L # 0
    BY <1>1, <2>2 DEF Tiled
  <2>. QED
    BY <2>1, <2>2
<1>3. ASSUME NEW j \in TextsIn(z), NEW k \in TextsIn(z), j < k,
             \A x \in j + 1 .. k - 1 : x \notin TextsIn(z)
      PROVE  str.at[z[j].e] = z[k].b
  <2>1. j \in T /\ j \in 1 .. L /\ z[j] = s[j]
    BY <1>1, <1>3
  <2>2. CASE k = L + 1
    <3>1. \A x \in j + 1 .. L : x \notin T
      BY <1>1, <1>3, <2>1, <2>2
    <3>. QED
      BY <2>1, <2>2, <3>1 DEF Open
  <2>3. CASE k \in T
    <3>1. \A x \in j + 1 .. k - 1 : x \notin T
      BY <1>1, <1>3
    <3>. QED
      BY <1>1, <1>3, <2>1, <2>3, <3>1 DEF Tiled
  <2>. QED
    BY <1>1, <2>2, <2>3
<1>4. ASSUME NEW j \in TextsIn(z), \A x \in j + 1 .. Len(z) : x \notin TextsIn(z)
      PROVE  j = L + 1
  BY <1>1, <1>4
<1>. HIDE DEF L, T
<1>5. Tiled(z)
  BY <1>2, <1>3 DEF Tiled
<1>6. Open(z, str.at[z[L + 1].e])
  BY <1>4 DEF Open
<1>. QED
  BY <1>1, <1>5, <1>6 DEF L, T

\* The number of pieces.
LEMMA CountTexts ==
  ASSUME NEW s, Len(s) \in Nat
  PROVE  /\ IsFiniteSet(TextsIn(s)) /\ Cardinality(TextsIn(s)) \in Nat
         /\ Cardinality(TextsIn(s)) <= Len(s)
         /\ Cardinality(TextsIn(s) \cup {Len(s) + 1}) = Cardinality(TextsIn(s)) + 1
<1>1. IsFiniteSet(1 .. Len(s)) /\ Cardinality(1 .. Len(s)) = Len(s)
  <2>. DEFINE L == Len(s)
  <2>1. L \in Int /\ 1 \in Int /\ (1 > L => L = 0)
    OBVIOUS
  <2>. HIDE DEF L
  <2>2. IsFiniteSet(1 .. L) /\ Cardinality(1 .. L) = L
    BY <2>1, FS_Interval
  <2>. QED
    BY <2>2 DEF L
<1>2. TextsIn(s) \in SUBSET (1 .. Len(s)) /\ Len(s) + 1 \notin TextsIn(s)
  BY DEF TextsIn
<1>3. IsFiniteSet(TextsIn(s)) /\ Cardinality(TextsIn(s)) <= Len(s)
  BY <1>1, <1>2, FS_Subset
<1>. QED
  BY <1>2, <1>3, FS_CardinalityType, FS_AddElement

\* split starts in the invariant.
LEMMA InitIInv == Init => IInv
<1>. SUFFICES ASSUME Init PROVE IInv
  OBVIOUS
<1>1. Texts = {} /\ TextsIn(result) = {} /\ Cardinality({}) = 0
  BY FS_EmptySet DEF Init, Texts, TextsIn
<1>2. str.n \in 0 .. MaxLen /\ result = <<>> /\ limit \in -1 .. MaxLimit
  BY StringParts DEF Init
<1>3. TypeOK
  BY <1>2, SplitAssumption DEF Init, TypeOK, NoMatch
<1>4. Begun /\ LastIsMatch /\ LastIsBehind /\ Pending /\ Whole
  BY DEF Init, Begun, LastIsMatch, LastIsBehind, Pending, Whole
<1>5. Tiled(result)
  BY <1>1, <1>2 DEF Tiled
<1>6. Counted
  BY <1>1, <1>2, SplitAssumption DEF Init, Counted
<1>. QED
  BY <1>3, <1>4, <1>5, <1>6, SplitAssumption DEF Init, IInv

\* What a step starts from.
LEMMA Facts ==
  ASSUME IInv
  PROVE  /\ str.n \in 0 .. MaxLen /\ str.n \in Nat /\ MaxLen \in Nat
         /\ str.at \in Tables(str.n, {Fail, Limit})
         /\ str.empty => \A p \in 0 .. str.n : str.at[p] = p
         /\ limit \in Int /\ start \in Nat /\ groups \in Nat
         /\ result \in Seq(AllPieces) /\ Len(result) \in Nat
         /\ result = <<>> <=> Len(result) = 0
         /\ \A k \in 1 .. Len(result) : result[k].b <= result[k].e
         /\ Texts = TextsIn(result)
<1>1. result \in Seq(AllPieces) /\ limit \in Int
  BY SplitAssumption DEF IInv, TypeOK, AllPieces, Kinds
<1>2. Len(result) \in Nat /\ (result = <<>> <=> Len(result) = 0)
  BY <1>1
<1>3. start \in Nat /\ groups \in Nat /\ \A k \in 1 .. Len(result) : result[k].b <= result[k].e
  BY SplitAssumption DEF IInv, TypeOK
<1>4. /\ str.n \in 0 .. MaxLen /\ str.n \in Nat /\ str.at \in Tables(str.n, {Fail, Limit})
      /\ str.empty => \A p \in 0 .. str.n : str.at[p] = p
  BY StringParts DEF IInv
<1>. QED
  BY <1>1, <1>2, <1>3, <1>4, SplitAssumption DEF Texts, TextsIn

\* The position where the last match ended.
LEMMA LastEndType ==
  ASSUME IInv
  PROVE  LastEnd \in 0 .. str.n /\ LastEnd \in 0 .. MaxLen /\ LastEnd \in Nat
BY Facts DEF IInv, LastIsMatch, LastEnd

\* An empty string gives no pieces.
LEMMA SplitEmptyIInv == IInv /\ SplitEmpty => IInv'
<1>. SUFFICES ASSUME IInv, SplitEmpty PROVE IInv'
  OBVIOUS
<1>1. /\ pc = "begin" /\ pc' = "done" /\ str.n = 0 /\ result = <<>> /\ last = NoMatch
      /\ UNCHANGED <<str, groups, limit, start, last, result>>
  BY DEF SplitEmpty, IInv, Begun
<1>2. Tiled(result)'
  BY <1>1 DEF IInv, Tiled, TextsIn
<1>3. Counted'
  BY <1>1 DEF IInv, Counted, Texts
<1>4. TypeOK' /\ (str \in Strings)' /\ (groups \in Nat)'
  BY <1>1 DEF IInv, TypeOK, Strings
<1>5. Begun' /\ LastIsMatch' /\ LastIsBehind' /\ Pending' /\ Whole'
  BY <1>1 DEF Begun, LastIsMatch, LastIsBehind, Pending, Whole
<1>. QED
  BY <1>2, <1>3, <1>4, <1>5 DEF IInv

\* What is said of the pieces is said of them in the next state.
LEMMA NextPieces ==
  ASSUME NEW z, NEW end, result' = z, UNCHANGED str
  PROVE  /\ Tiled(result)' <=> Tiled(z)
         /\ Open(result, end)' <=> Open(z, end)
         /\ Texts' = TextsIn(z)
<1>1. Tiled(result)' <=> Tiled(z)
  BY ZenonT(60) DEF Tiled, TextsIn
<1>2. Open(result, end)' <=> Open(z, end)
  BY ZenonT(60) DEF Open, TextsIn
<1>. QED
  BY <1>1, <1>2 DEF Texts, TextsIn

\* One piece appended to the open end, with the captures that follow it.
LEMMA AppendPiece ==
  ASSUME IInv, NEW x \in AllPieces, NEW z \in Seq(AllPieces),
         Open(result, x.b), result' = z, UNCHANGED str,
         Len(z) >= Len(result) + 1,
         \A k \in 1 .. Len(result) : z[k] = result[k],
         z[Len(result) + 1] = x, x.kind = "text",
         \A k \in Len(result) + 2 .. Len(z) : z[k].kind # "text"
  PROVE  /\ Tiled(result)' /\ z # <<>>
         /\ Open(z, str.at[x.e])
         /\ Texts' = Texts \cup {Len(result) + 1}
         /\ Cardinality(Texts') = Cardinality(Texts) + 1
         /\ Cardinality(Texts) \in Nat /\ Cardinality(Texts) <= Len(result)
<1>. DEFINE end == str.at[x.e]
<1>1. Len(z) \in Nat /\ z # <<>>
  BY Facts
<1>2. Tiled(result) /\ Len(result) \in Nat /\ (result = <<>> <=> Len(result) = 0)
  BY Facts DEF IInv
<1>3. /\ TextsIn(z) = TextsIn(result) \cup {Len(result) + 1}
      /\ Tiled(z) /\ Open(z, end)
  BY <1>1, <1>2, Extended
<1>4. Texts' = TextsIn(z) /\ Texts = TextsIn(result)
  BY DEF Texts, TextsIn
<1>5. Tiled(result)'
  BY <1>3, NextPieces
<1>. QED
  BY <1>1, <1>2, <1>3, <1>4, <1>5, CountTexts

\* The pieces of the code are pieces.
LEMMA PieceTypes ==
  /\ \A b, e \in 0 .. MaxLen : Text(b, e) \in AllPieces
  /\ \A b, e : Text(b, e).kind = "text" /\ Text(b, e).b = b /\ Text(b, e).e = e
  /\ \A blank \in BOOLEAN : MaxLen >= 1 => Capture(blank) \in AllPieces
  /\ \A blank \in BOOLEAN : Capture(blank).kind = "capture" /\ Capture(blank).b <= Capture(blank).e
BY SplitAssumption DEF AllPieces, Kinds, Text, Capture

\* A limit of one gives the whole string.
LEMMA SplitWholeIInv == IInv /\ SplitWhole => IInv'
<1>. SUFFICES ASSUME IInv, SplitWhole PROVE IInv'
  OBVIOUS
<1>. DEFINE x == Text(0, str.n)
<1>1. /\ pc = "begin" /\ pc' = "done" /\ str.n > 0 /\ result = <<>> /\ limit = 1 /\ result' = <<x>>
      /\ UNCHANGED <<str, groups, limit, start, last>>
  BY DEF SplitWhole, IInv, Begun
<1>2. x \in AllPieces /\ x.kind = "text" /\ x.b = 0 /\ x.e = str.n
  BY Facts, PieceTypes
<1>. HIDE DEF x
<1>3. <<x>> \in Seq(AllPieces) /\ Len(<<x>>) = 1 /\ <<x>>[1] = x /\ Len(result) = 0
  BY <1>1, <1>2
<1>4. Open(result, x.b)
  BY <1>1, <1>2, Facts DEF Open, TextsIn
<1>. DEFINE z == <<x>>
<1>5. /\ z \in Seq(AllPieces) /\ Len(z) >= Len(result) + 1 /\ z[Len(result) + 1] = x
      /\ \A k \in 1 .. Len(result) : z[k] = result[k]
      /\ \A k \in Len(result) + 2 .. Len(z) : z[k].kind # "text"
      /\ result' = z
  BY <1>1, <1>3
<1>. HIDE DEF z
<1>6. /\ Tiled(result)' /\ Cardinality(Texts') = Cardinality(Texts) + 1
      /\ Cardinality(Texts) \in Nat /\ Cardinality(Texts) <= Len(result)
  BY <1>1, <1>2, <1>4, <1>5, AppendPiece
<1>7. TypeOK'
  BY <1>1, <1>2, <1>3, Facts DEF IInv, TypeOK, AllPieces, Kinds
<1>8. Whole'
  BY <1>1, <1>2, <1>3, <1>6 DEF Whole, TextsIn
<1>9. Counted'
  BY <1>1, <1>3, <1>6 DEF Counted
<1>. QED
  BY <1>1, <1>6, <1>7, <1>8, <1>9
  DEF IInv, Strings, Begun, LastIsMatch, LastIsBehind, Pending

\* The loop begins with no pieces.
LEMMA BeginIInv == IInv /\ Begin => IInv'
<1>. SUFFICES ASSUME IInv, Begin PROVE IInv'
  OBVIOUS
<1>1. /\ pc = "begin" /\ str.n > 0 /\ limit # 1 /\ result = <<>> /\ start = 0 /\ last = NoMatch
      /\ pc' = (IF str.empty THEN "chars" ELSE "match")
      /\ UNCHANGED <<str, groups, limit, start, last, result>>
  BY DEF Begin, IInv, Begun
<1>2. Open(result, 0)
  BY <1>1, Facts DEF Open, TextsIn
<1>3. Pending'
  BY <1>1, <1>2 DEF Pending, Open, TextsIn
<1>4. Texts = {} /\ Texts' = {} /\ Cardinality({}) = 0
  BY <1>1, Facts, FS_EmptySet DEF Texts
<1>5. Counted'
  BY <1>1, <1>4, Facts DEF Counted
<1>6. Begun' /\ LastIsBehind' /\ LastIsMatch' /\ Whole'
  BY <1>1, Facts DEF Begun, LastIsBehind, LastIsMatch, Whole
<1>7. Tiled(result)'
  BY <1>1 DEF IInv, Tiled, TextsIn
<1>. QED
  BY <1>1, <1>3, <1>5, <1>6, <1>7 DEF IInv, TypeOK, Strings

\* One text appended.
LEMMA AppendOne ==
  ASSUME NEW s \in Seq(AllPieces), NEW x \in AllPieces
  PROVE  LET z == Append(s, x) IN
         /\ z \in Seq(AllPieces) /\ z # <<>> /\ Len(s) \in Nat /\ Len(z) = Len(s) + 1
         /\ z[Len(s) + 1] = x /\ \A k \in 1 .. Len(s) : z[k] = s[k]
         /\ \A k \in Len(s) + 2 .. Len(z) : z[k].kind # "text"
OBVIOUS

\* The last piece, up to the end of the string.
LEMMA AppendLast ==
  ASSUME IInv, pc \in {"chars", "rest"}, NEW x \in AllPieces, x.kind = "text",
         Open(result, x.b), x.b <= x.e, x.e = str.n,
         result' = Append(result, x), pc' = Trimming,
         UNCHANGED <<str, groups, limit, start, last>>
  PROVE  IInv'
<1>. DEFINE z == Append(result, x)
            L == Len(result)
<1>1. /\ z \in Seq(AllPieces) /\ z # <<>> /\ L \in Nat /\ Len(z) = L + 1
      /\ z[L + 1] = x /\ \A k \in 1 .. L : z[k] = result[k]
      /\ \A k \in L + 2 .. Len(z) : z[k].kind # "text"
  BY Facts, AppendOne
<1>2. result' = z /\ UNCHANGED str
  OBVIOUS
<1>. HIDE DEF z
<1>3. /\ Tiled(result)' /\ Texts' = Texts \cup {L + 1}
      /\ Cardinality(Texts') = Cardinality(Texts) + 1
      /\ Cardinality(Texts) \in Nat
  BY <1>1, <1>2, AppendPiece
<1>4. /\ \A k \in 1 .. L : result[k].b <= result[k].e
      /\ pc' \in {"trim", "done"} /\ (pc' = "trim" => limit = 0)
  BY Facts DEF Trimming
<1>5. TypeOK'
  <2>1. \A k \in 1 .. Len(z) : z[k].b <= z[k].e
    BY <1>1, <1>4
  <2>. QED
    BY <1>1, <1>2, <1>4, <2>1 DEF IInv, TypeOK, AllPieces, Kinds
<1>6. Whole'
  <2>1. L + 1 \in TextsIn(z)
    BY <1>1 DEF TextsIn
  <2>2. (TextsIn(result))' = TextsIn(z)
    BY <1>2, ZenonT(60) DEF TextsIn
  <2>. QED
    BY <1>1, <1>2, <2>1, <2>2 DEF Whole
<1>7. Counted'
  BY <1>3, <1>4, Facts DEF IInv, Counted
<1>8. Begun' /\ LastIsMatch' /\ LastIsBehind' /\ Pending'
  BY <1>4 DEF IInv, Begun, LastIsMatch, LastIsBehind, Pending
<1>. QED
  BY <1>3, <1>5, <1>6, <1>7, <1>8 DEF IInv, Strings

\* One character at a time keeps the invariant.
LEMMA SplitCharsIInv == IInv /\ SplitChars => IInv'
<1>. SUFFICES ASSUME IInv, SplitChars PROVE IInv'
  OBVIOUS
<1>1. /\ pc = "chars" /\ UNCHANGED <<str, groups, limit, last>>
      /\ start \in 0 .. str.n - 1 /\ str.n > 0 /\ Open(result, start)
      /\ \A p \in 0 .. str.n : str.at[p] = p
  BY Facts DEF SplitChars, IInv, Begun, Pending
<1>2. CASE Full \/ start + 1 >= str.n
  <2>. DEFINE x == Text(start, str.n)
  <2>1. result' = Append(result, x) /\ pc' = Trimming /\ start' = start
    BY <1>2 DEF SplitChars
  <2>2. x \in AllPieces /\ x.kind = "text" /\ x.b = start /\ x.e = str.n /\ x.b <= x.e
    BY <1>1, Facts, PieceTypes
  <2>. HIDE DEF x
  <2>. QED
    BY <1>1, <2>1, <2>2, AppendLast
<1>3. CASE ~(Full \/ start + 1 >= str.n)
  <2>. DEFINE x == Text(start, start + 1)
              z == Append(result, x)
              L == Len(result)
  <2>1. result' = z /\ start' = start + 1 /\ pc' = "chars" /\ start + 1 \in 0 .. str.n - 1
    BY <1>1, <1>3, Facts DEF SplitChars
  <2>2. /\ x \in AllPieces /\ x.kind = "text" /\ x.b = start /\ x.e = start + 1
        /\ x.b <= x.e /\ str.at[x.e] = start + 1
    BY <1>1, <2>1, Facts, PieceTypes
  <2>. HIDE DEF x
  <2>3. /\ z \in Seq(AllPieces) /\ z # <<>> /\ L \in Nat /\ Len(z) = L + 1
        /\ z[L + 1] = x /\ \A k \in 1 .. L : z[k] = result[k]
        /\ \A k \in L + 2 .. Len(z) : z[k].kind # "text"
    BY <2>2, Facts, AppendOne
  <2>. HIDE DEF z
  <2>4. Open(result, x.b) /\ result' = z /\ UNCHANGED str
    BY <1>1, <2>1, <2>2
  <2>5. /\ Tiled(result)' /\ Open(z, str.at[x.e])
        /\ Cardinality(Texts') = Cardinality(Texts) + 1
        /\ Cardinality(Texts) \in Nat /\ Cardinality(Texts) <= L
    BY <2>2, <2>3, <2>4, AppendPiece
  <2>6. TypeOK'
    <3>1. \A k \in 1 .. Len(z) : z[k].b <= z[k].e
      BY <2>2, <2>3, Facts
    <3>2. start' \in 0 .. MaxLen + 1
      BY <2>1, Facts
    <3>. QED
      BY <1>1, <2>1, <2>3, <3>1, <3>2 DEF IInv, TypeOK, AllPieces, Kinds
  <2>7. Pending'
    <3>1. Open(z, start')
      BY <2>1, <2>2, <2>5
    <3>2. Open(result, start)'
      BY <2>4, <3>1, ZenonT(60) DEF Open, TextsIn
    <3>. QED
      BY <1>1, <2>1, <3>2 DEF IInv, Pending
  <2>8. Counted'
    BY <1>1, <1>3, <2>1, <2>5, Facts DEF Counted, Full
  <2>9. Begun' /\ LastIsMatch' /\ LastIsBehind' /\ Whole'
    BY <1>1, <2>1 DEF IInv, Begun, LastIsMatch, LastIsBehind, Whole
  <2>. QED
    BY <1>1, <2>5, <2>6, <2>7, <2>8, <2>9 DEF IInv, Strings
<1>. QED
  BY <1>2, <1>3

\* The rest of the string keeps the invariant.
LEMMA AppendRestIInv == IInv /\ AppendRest => IInv'
<1>. SUFFICES ASSUME IInv, AppendRest PROVE IInv'
  OBVIOUS
<1>. DEFINE x == Text(LastEnd, str.n)
<1>1. /\ pc = "rest" /\ result' = Append(result, x) /\ pc' = Trimming
      /\ UNCHANGED <<str, groups, limit, start, last>>
  BY DEF AppendRest
<1>2. Open(result, LastEnd)
  BY <1>1 DEF IInv, Pending, LastEnd
<1>3. x \in AllPieces /\ x.kind = "text" /\ x.b = LastEnd /\ x.e = str.n /\ x.b <= x.e
  BY LastEndType, Facts, PieceTypes
<1>. HIDE DEF x
<1>. QED
  BY <1>1, <1>2, <1>3, AppendLast

\* Leaving the loop keeps the invariant.
LEMMA NoMoreMatchesIInv == IInv /\ NoMoreMatches => IInv'
<1>. SUFFICES ASSUME IInv, NoMoreMatches PROVE IInv'
  OBVIOUS
<1>1. pc = "match" /\ pc' = "rest" /\ UNCHANGED <<str, groups, limit, start, last, result>>
  BY DEF NoMoreMatches
<1>2. Tiled(result)'
  BY <1>1, ZenonT(60) DEF IInv, Tiled, TextsIn
<1>3. Open(result, IF last = NoMatch THEN 0 ELSE last.e)'
  BY <1>1, ZenonT(60) DEF IInv, Pending, Open, TextsIn
<1>4. Pending'
  BY <1>1, <1>3 DEF Pending
<1>5. Counted'
  BY <1>1 DEF IInv, Counted, Texts
<1>. QED
  BY <1>1, <1>2, <1>5, <1>4
  DEF IInv, TypeOK, Strings, Begun, LastIsMatch, LastIsBehind, Whole

\* Dropping the last piece.
LEMMA FrontPieces ==
  ASSUME NEW s \in Seq(AllPieces), s # <<>>
  PROVE  LET z == Front(s) IN
         /\ z \in Seq(AllPieces) /\ Len(z) = Len(s) - 1 /\ Len(s) \in Nat /\ Len(s) >= 1
         /\ \A k \in 1 .. Len(s) - 1 : z[k] = s[k]
         /\ z = <<>> <=> Len(s) = 1
<1>. DEFINE n == Len(s) - 1
            z == SubSeq(s, 1, n)
<1>1. Len(s) \in Nat /\ Len(s) >= 1 /\ n \in Int /\ \A k \in 1 .. n : s[k] \in AllPieces
  OBVIOUS
<1>. HIDE DEF n
<1>2. /\ z \in Seq(AllPieces) /\ Len(z) = (IF 1 <= n THEN n - 1 + 1 ELSE 0)
      /\ \A k \in 1 .. n - 1 + 1 : z[k] = s[1 + k - 1]
  BY <1>1, SubSeqProperties
<1>. HIDE DEF z
<1>3. z = <<>> <=> Len(z) = 0
  BY <1>2
<1>4. n - 1 + 1 = n /\ n >= 0
  BY <1>1 DEF n
<1>5. Len(z) = n
  BY <1>1, <1>2, <1>4
<1>6. ASSUME NEW k \in 1 .. n PROVE z[k] = s[k]
  <2>1. 1 + k - 1 = k /\ k \in 1 .. n - 1 + 1
    BY <1>1, <1>4
  <2>. QED
    BY <1>2, <2>1
<1>. QED
  BY <1>1, <1>2, <1>3, <1>5, <1>6 DEF Front, z, n

\* Trimming keeps the invariant.
LEMMA TrimIInv == IInv /\ Trim => IInv'
<1>. SUFFICES ASSUME IInv, Trim PROVE IInv'
  OBVIOUS
<1>1. /\ pc = "trim" /\ limit = 0 /\ UNCHANGED <<str, groups, limit, start, last>>
  BY DEF Trim, IInv, Begun
<1>2. /\ Begun' /\ LastIsMatch' /\ LastIsBehind' /\ Pending' /\ Counted'
      /\ pc' \in {"trim", "done"} /\ (pc' = "done" => result # <<>> /\ result' = result)
  BY <1>1 DEF Trim, IInv, Begun, LastIsMatch, LastIsBehind, Pending, Counted
<1>3. Whole'
  BY <1>1, <1>2 DEF Whole
<1>4. CASE result' = result
  <2>1. Tiled(result)'
    BY <1>1, <1>4, ZenonT(60) DEF IInv, Tiled, TextsIn
  <2>. QED
    BY <1>1, <1>2, <1>3, <1>4, <2>1 DEF IInv, TypeOK, Strings
<1>5. CASE result' # result
  <2>. DEFINE z == Front(result)
  <2>1. result # <<>> /\ result' = z
    BY <1>5 DEF Trim
  <2>2. /\ z \in Seq(AllPieces) /\ Len(z) = Len(result) - 1 /\ Len(result) \in Nat
        /\ Len(result) >= 1 /\ \A k \in 1 .. Len(result) - 1 : z[k] = result[k]
        /\ z = <<>> <=> Len(result) = 1
    BY <2>1, Facts, FrontPieces
  <2>. HIDE DEF z
  <2>3. \A k \in 1 .. Len(z) : k \in TextsIn(z) <=> k \in TextsIn(result)
    BY <2>2 DEF TextsIn
  <2>4. TextsIn(z) \subseteq 1 .. Len(z) /\ TextsIn(z) \subseteq TextsIn(result)
    BY <2>3 DEF TextsIn
  <2>5. Tiled(z)
    <3>1. z # <<>> => 1 \in TextsIn(z) /\ z[1].b = 0
      BY <2>1, <2>2, <2>3 DEF IInv, Tiled
    <3>2. ASSUME NEW j \in TextsIn(z), NEW k \in TextsIn(z), j < k,
                 \A x \in j + 1 .. k - 1 : x \notin TextsIn(z)
          PROVE  str.at[z[j].e] = z[k].b
      <4>1. j \in 1 .. Len(z) /\ k \in 1 .. Len(z) /\ j \in TextsIn(result) /\ k \in TextsIn(result)
        BY <2>4
      <4>2. \A x \in j + 1 .. k - 1 : x \notin TextsIn(result)
        BY <2>2, <2>3, <3>2, <4>1
      <4>. QED
        BY <2>2, <3>2, <4>1, <4>2 DEF IInv, Tiled
    <3>. QED
      BY <3>1, <3>2 DEF Tiled
  <2>6. Tiled(result)'
    BY <1>1, <2>1, <2>5, NextPieces
  <2>7. \A k \in 1 .. Len(z) : z[k].b <= z[k].e
    BY <2>2, Facts
  <2>8. TypeOK'
    BY <1>1, <1>2, <2>1, <2>2, <2>7 DEF IInv, TypeOK, AllPieces, Kinds
  <2>. QED
    BY <1>1, <1>2, <1>3, <2>6, <2>8 DEF IInv, Strings
<1>. QED
  BY <1>4, <1>5

\* What a search finds, and where the next one starts.
LEMMA FoundFacts ==
  ASSUME IInv, pc = "match", Found # NoMatch
  PROVE  /\ start \in 0 .. str.n - 1
         /\ Found.b \in start .. str.n /\ Found.e \in Found.b .. str.n
         /\ str.at[Found.b] = Found.e /\ Found = [b |-> Found.b, e |-> Found.e]
         /\ str.at[Found.b] # Fail /\ str.at[Found.b] # Limit
         /\ \A q \in start .. Found.b - 1 : str.at[q] = Fail
         /\ LastEnd <= Found.b
<1>1. start \in 0 .. str.n - 1 /\ start \in Int
  BY DEF IInv, Begun
<1>2. /\ Found.b \in start .. str.n /\ Found.e \in Found.b .. str.n /\ Found.e = str.at[Found.b]
      /\ Found = [b |-> Found.b, e |-> Found.e]
      /\ str.at[Found.b] # Fail /\ str.at[Found.b] # Limit
      /\ \A q \in start .. Found.b - 1 : str.at[q] = Fail
  <2>1. str.n \in Nat /\ str.at \in Tables(str.n, {Fail, Limit})
    BY Facts
  <2>2. start \in Int /\ Exec(str.at, str.n, start) # NoMatch
    BY <1>1 DEF Found
  <2>. QED
    BY <2>1, <2>2, ExecBounds DEF Found
<1>3. LastEnd <= Found.b
  BY <1>1, <1>2, LastEndType DEF IInv, LastIsBehind, LastEnd, IsEmpty
<1>. QED
  BY <1>1, <1>2, <1>3

\* The next search starts behind the match, or finds the same empty match.
LEMMA NextStartIsBehind ==
  ASSUME IInv, pc = "match", Found # NoMatch,
         start' = NextStart, last' = Found, UNCHANGED str
  PROVE  /\ start' \in 0 .. str.n + 1
         /\ start' < str.n => last'.e <= start' \/ (IsEmpty(last') /\ Found' = last')
<1>1. CASE ~IsEmpty(Found)
  BY <1>1, FoundFacts, Facts DEF NextStart
<1>2. CASE IsEmpty(Found)
  <2>1. start' = start + 1 /\ start + 1 \in 0 .. str.n /\ Found.e = Found.b
    BY <1>2, FoundFacts, Facts DEF NextStart, IsEmpty
  <2>2. CASE Found.b = start
    BY <2>1, <2>2, FoundFacts, Facts
  <2>3. CASE Found.b # start
    <3>. DEFINE t == str.at
                n == str.n
                p == Found.b
                s == start + 1
    <3>1. /\ n \in Nat /\ t \in [0 .. n -> Ends(n)] /\ s \in 0 .. n /\ p \in s .. n
          /\ t[p] # Fail /\ t[p] # Limit /\ \A q \in s .. p - 1 : t[q] = Fail
      BY <2>1, <2>3, FoundFacts, Facts DEF Tables, Ends
    <3>. HIDE DEF t, n, p, s
    <3>2. Exec(t, n, s) = [b |-> p, e |-> t[p]]
      BY <3>1, ExecAt
    <3>3. Found' = Exec(t, n, s)
      BY <2>1 DEF Found, t, n, s
    <3>4. Found' = Found
      BY <3>2, <3>3, FoundFacts DEF t, p
    <3>. QED
      BY <1>2, <2>1, <3>4, Facts
  <2>. QED
    BY <2>2, <2>3
<1>. QED
  BY <1>1, <1>2

\* A piece with the captures of its separator behind it.
LEMMA PieceAndCaptures ==
  ASSUME NEW s \in Seq(AllPieces), NEW x \in AllPieces, NEW cs \in Seq(AllPieces),
         \A k \in 1 .. Len(cs) : cs[k].kind = "capture" /\ cs[k].b <= cs[k].e
  PROVE  LET z == s \o (<<x>> \o cs) IN
         /\ z \in Seq(AllPieces) /\ Len(z) >= Len(s) + 1 /\ Len(s) \in Nat
         /\ Len(z) = Len(s) + 1 + Len(cs)
         /\ z[Len(s) + 1] = x /\ \A k \in 1 .. Len(s) : z[k] = s[k]
         /\ \A k \in Len(s) + 2 .. Len(z) :
              z[k].kind = "capture" /\ z[k].b <= z[k].e
<1>. DEFINE g == Len(cs)
            y == <<x>> \o cs
            z == s \o y
<1>1. g \in Nat
  OBVIOUS
<1>2. /\ y \in Seq(AllPieces) /\ Len(y) = g + 1 /\ y[1] = x
      /\ \A k \in 2 .. g + 1 : y[k] = cs[k - 1]
  OBVIOUS
<1>. HIDE DEF y, g
<1>3. /\ z \in Seq(AllPieces) /\ Len(s) \in Nat /\ Len(z) = Len(s) + g + 1
      /\ \A k \in 1 .. Len(s) : z[k] = s[k]
      /\ \A k \in Len(s) + 1 .. Len(s) + g + 1 : z[k] = y[k - Len(s)]
  BY <1>1, <1>2
<1>. HIDE DEF z
<1>4. ASSUME NEW k \in Len(s) + 2 .. Len(z)
      PROVE  z[k] = cs[k - Len(s) - 1] /\ k - Len(s) - 1 \in 1 .. g
  <2>1. k \in Len(s) + 1 .. Len(s) + g + 1 /\ k - Len(s) \in 2 .. g + 1
    BY <1>1, <1>3
  <2>2. z[k] = y[k - Len(s)] /\ y[k - Len(s)] = cs[k - Len(s) - 1]
    BY <1>2, <1>3, <2>1
  <2>. QED
    BY <1>1, <1>3, <2>1, <2>2
<1>. QED
  BY <1>1, <1>2, <1>3, <1>4 DEF z, y, g

\* What a match appends: nothing, or a piece and the captures.
LEMMA MatchPieces ==
  ASSUME IInv, pc = "match", Found # NoMatch, NEW pieces \in Pieces
  PROVE  LET z == result \o pieces IN
         /\ z \in Seq(AllPieces) /\ \A k \in 1 .. Len(z) : z[k].b <= z[k].e
         /\ Tiled(z) /\ Open(z, Found.e)
         /\ Cardinality(TextsIn(z)) \in Nat /\ Cardinality(TextsIn(result)) \in Nat
         /\ Cardinality(TextsIn(z)) <= Cardinality(TextsIn(result)) + 1
<1>. DEFINE z == result \o pieces
<1>1. /\ Found.b \in 0 .. str.n /\ Found.e \in Found.b .. str.n /\ LastEnd <= Found.b
      /\ str.at[Found.b] = Found.e /\ MaxLen >= 1 /\ str.n <= MaxLen /\ MaxLen \in Nat
      /\ str.n \in Nat
  BY FoundFacts, Facts
<1>2. Open(result, LastEnd) /\ Tiled(result)
  BY DEF IInv, Pending, LastEnd
<1>3. Cardinality(TextsIn(result)) \in Nat
  BY Facts, CountTexts
<1>4. CASE IsEmpty(Found) /\ Found.b = LastEnd
  <2>1. pieces = <<>>
    BY <1>4 DEF Pieces
  <2>2. z = result
    BY <2>1, Facts
  <2>3. Found.e = LastEnd
    BY <1>4 DEF IsEmpty
  <2>. HIDE DEF z
  <2>. QED
    BY <1>2, <1>3, <2>2, <2>3, Facts DEF z
<1>5. CASE ~(IsEmpty(Found) /\ Found.b = LastEnd)
  <2>. DEFINE x == Text(LastEnd, Found.b)
              L == Len(result)
              cs(c) == [k \in 1 .. groups |-> Capture(c[k])]
  <2>1. PICK c \in [1 .. groups -> BOOLEAN] :
          pieces = <<x>> \o cs(c)
    BY <1>5 DEF Pieces
  <2>2. x \in AllPieces /\ x.kind = "text" /\ x.b = LastEnd /\ x.e = Found.b /\ x.b <= x.e
    <3>1. LastEnd \in 0 .. MaxLen /\ Found.b \in 0 .. MaxLen
      BY <1>1, LastEndType
    <3>. QED
      BY <1>1, <3>1, PieceTypes
  <2>. HIDE DEF x
  <2>3. /\ z \in Seq(AllPieces) /\ Len(z) >= L + 1 /\ L \in Nat
        /\ z[L + 1] = x /\ \A k \in 1 .. L : z[k] = result[k]
        /\ \A k \in L + 2 .. Len(z) : z[k].kind = "capture" /\ z[k].b <= z[k].e
    <3>. DEFINE y == cs(c)
    <3>1. \A k \in 1 .. groups : /\ y[k] \in AllPieces /\ y[k].kind = "capture"
                                   /\ y[k].b <= y[k].e
      BY <1>1, PieceTypes
    <3>2. groups \in Nat /\ result \in Seq(AllPieces)
      BY Facts
    <3>3. y \in Seq(AllPieces) /\ Len(y) = groups
      BY <3>1, <3>2
    <3>4. z = result \o (<<x>> \o y)
      BY <2>1
    <3>. HIDE DEF y
    <3>. QED
      BY <2>2, <3>1, <3>2, <3>3, <3>4, PieceAndCaptures
  <2>. HIDE DEF z
  <2>4. Len(z) \in Nat /\ z # <<>> /\ (result = <<>> <=> L = 0)
    BY <2>3, Facts
  <2>5. \A k \in L + 2 .. Len(z) : z[k].kind # "text"
    BY <2>3
  <2>6. /\ TextsIn(z) = TextsIn(result) \cup {L + 1}
        /\ Tiled(z) /\ Open(z, str.at[x.e])
    BY <1>2, <2>2, <2>3, <2>4, <2>5, Extended
  <2>7. \A k \in 1 .. Len(z) : z[k].b <= z[k].e
    <3>. SUFFICES ASSUME NEW k \in 1 .. Len(z) PROVE z[k].b <= z[k].e
      OBVIOUS
    <3>1. k \in 1 .. L \/ k = L + 1 \/ k \in L + 2 .. Len(z)
      BY <2>3, <2>4
    <3>. QED
      BY <2>2, <2>3, <3>1, Facts
  <2>8. Cardinality(TextsIn(z)) = Cardinality(TextsIn(result)) + 1
    BY <2>3, <2>6, CountTexts
  <2>. QED
    BY <1>1, <1>3, <2>2, <2>3, <2>6, <2>7, <2>8 DEF z
<1>. QED
  BY <1>4, <1>5

\* A match keeps the invariant.
LEMMA SplitMatchIInv == IInv /\ SplitMatch => IInv'
<1>. SUFFICES ASSUME IInv, SplitMatch PROVE IInv'
  OBVIOUS
<1>1. /\ pc = "match" /\ Found # NoMatch /\ ~Full /\ start' = NextStart /\ last' = Found
      /\ pc' = (IF str.n <= start' THEN "rest" ELSE "match")
      /\ UNCHANGED <<str, groups, limit>>
  BY DEF SplitMatch
<1>2. /\ Found.b \in 0 .. str.n /\ Found.e \in Found.b .. str.n
      /\ str.at[Found.b] = Found.e /\ Found = [b |-> Found.b, e |-> Found.e]
      /\ str.n > 0 /\ str.n \in 0 .. MaxLen /\ MaxLen \in Nat
      /\ limit # 1 /\ limit \in Int
  BY <1>1, FoundFacts, Facts DEF IInv, Begun
<1>3. /\ start' \in 0 .. str.n + 1 /\ last' # NoMatch
      /\ start' < str.n => last'.e <= start' \/ (IsEmpty(last') /\ Found' = last')
  BY <1>1, NextStartIsBehind
<1>4. pc' \in {"match", "rest"} /\ (pc' = "match" => start' \in 0 .. str.n - 1)
  BY <1>1, <1>2, <1>3
<1>5. LastIsMatch' /\ LastIsBehind'
  BY <1>1, <1>2, <1>3, <1>4 DEF LastIsMatch, LastIsBehind
<1>6. Begun' /\ Whole'
  BY <1>1, <1>2, <1>4 DEF Begun, Whole
<1>7. last' \in [b : -1 .. MaxLen, e : -1 .. MaxLen]
  <2>1. Found.b \in -1 .. MaxLen /\ Found.e \in -1 .. MaxLen
    BY <1>2
  <2>. QED
    BY <1>1, <1>2, <2>1
<1>8. PICK pieces \in Pieces : result' = result \o pieces
  BY DEF SplitMatch
<1>. DEFINE z == result \o pieces
            end == Found.e
<1>9. /\ z \in Seq(AllPieces) /\ \A k \in 1 .. Len(z) : z[k].b <= z[k].e
      /\ Tiled(z) /\ Open(z, end)
      /\ Cardinality(TextsIn(z)) \in Nat /\ Cardinality(TextsIn(result)) \in Nat
      /\ Cardinality(TextsIn(z)) <= Cardinality(TextsIn(result)) + 1
  BY <1>1, MatchPieces
<1>10. result' = z /\ last'.e = end /\ UNCHANGED str
  BY <1>1, <1>8
<1>. HIDE DEF z, end
<1>11. TypeOK'
  <2>1. start' \in 0 .. MaxLen + 1
    BY <1>2, <1>3
  <2>. QED
    BY <1>1, <1>4, <1>7, <1>9, <1>10, <2>1 DEF IInv, TypeOK, AllPieces, Kinds
<1>12. Tiled(result)' /\ Texts' = TextsIn(z)
  BY <1>9, <1>10, NextPieces
<1>13. Pending'
  <2>1. Open(result, last.e)'
    BY <1>9, <1>10, ZenonT(60) DEF Open, TextsIn
  <2>. QED
    BY <1>3, <1>4, <2>1 DEF Pending
<1>14. Counted'
  <2>. DEFINE old == Cardinality(TextsIn(result))
              new == Cardinality(TextsIn(z))
  <2>1. Texts = TextsIn(result) /\ old <= Len(result) /\ Len(result) \in Nat
    BY Facts, CountTexts
  <2>2. Cardinality(Texts') = new /\ new <= old + 1 /\ new \in Nat /\ old \in Nat
    BY <1>9, <1>12
  <2>. HIDE DEF old, new
  <2>3. limit > 0 => limit - Len(result) > 1
    BY <1>1, <1>2, <2>1 DEF Full
  <2>. QED
    BY <1>1, <1>2, <2>1, <2>2, <2>3 DEF Counted
<1>. QED
  BY <1>1, <1>5, <1>6, <1>11, <1>12, <1>13, <1>14 DEF IInv, Strings

\* The invariant holds in every state.
THEOREM Invariance == Spec => []IInv
<1>1. IInv /\ [Next]_vars => IInv'
  <2>. SUFFICES ASSUME IInv, [Next]_vars PROVE IInv'
    OBVIOUS
  <2>1. CASE UNCHANGED vars
    <3>1. /\ UNCHANGED <<str, groups, limit, start, last, result, pc>> /\ UNCHANGED Found
          /\ UNCHANGED Texts
      BY <2>1 DEF vars, Found, Texts
    <3>2. Tiled(result)'
      BY <3>1, ZenonT(60) DEF IInv, Tiled, TextsIn
    <3>3. Pending'
      <4>1. Open(result, IF last = NoMatch THEN 0 ELSE last.e)' <=> Open(result, IF last = NoMatch THEN 0 ELSE last.e)
        BY <3>1, ZenonT(60) DEF Open, TextsIn
      <4>2. Open(result, start)' <=> Open(result, start)
        BY <3>1, ZenonT(60) DEF Open, TextsIn
      <4>. QED
        BY <3>1, <4>1, <4>2 DEF IInv, Pending
    <3>4. Whole'
      BY <3>1 DEF IInv, Whole, TextsIn
    <3>. QED
      BY <3>1, <3>2, <3>3, <3>4
      DEF IInv, TypeOK, Strings, Begun, LastIsMatch, LastIsBehind, Counted
  <2>. QED
    BY <2>1, SplitEmptyIInv, SplitWholeIInv, BeginIInv, SplitCharsIInv, SplitMatchIInv,
       NoMoreMatchesIInv, AppendRestIInv, TrimIInv DEF Next
<1>. QED
  BY <1>1, InitIInv, PTL DEF Spec

\* split keeps the types of its variables, and cuts no piece backwards.
THEOREM TypeCorrect == Spec => []TypeOK
<1>1. IInv => TypeOK
  BY DEF IInv
<1>. QED
  BY <1>1, Invariance, PTL

\* The pieces cover the string: between two of them is a match.
THEOREM TilesTheString == Spec => []SplitTiles
<1>1. IInv => SplitTiles
  <2>. SUFFICES ASSUME IInv, pc = "done", str.n > 0
                PROVE  /\ 1 \in Texts /\ result[1].b = 0
                       /\ limit # 0 => Len(result) \in Texts /\ Last(result).e = str.n
                       /\ \A j, k \in Texts :
                            Neighbours(j, k) => str.at[result[j].e] = result[k].b
    BY DEF SplitTiles
  <2>1. Texts = TextsIn(result) /\ Tiled(result) /\ Whole
    BY Facts DEF IInv
  <2>. QED
    BY <2>1 DEF Tiled, Whole, Neighbours, Last
<1>. QED
  BY <1>1, Invariance, PTL

\* split does not return more pieces than the limit.
THEOREM WithinLimit == Spec => []SplitWithinLimit
<1>1. IInv => SplitWithinLimit
  <2>1. ASSUME IInv PROVE Cardinality(Texts) \in Nat /\ limit \in Int
    BY <2>1, Facts, CountTexts
  <2>. QED
    BY <2>1 DEF IInv, Counted, SplitWithinLimit
<1>. QED
  BY <1>1, Invariance, PTL
-----------------------------------------------------------------------------
NeighboursIn(s, j, k) == j < k /\ \A x \in j + 1 .. k - 1 : x \notin TextsIn(s)

\* the spans between the pieces of s, and its last piece
GapsIn(s) ==
  {[b |-> s[jk[1]].e, e |-> s[jk[2]].b] :
     jk \in {x \in TextsIn(s) \X TextsIn(s) : NeighboursIn(s, x[1], x[2])}}
LastText(s) == {j \in TextsIn(s) : \A x \in j + 1 .. Len(s) : x \notin TextsIn(s)}

\* The matches that separate pieces: those between two, and the last one.
Separators == GapsIn(result) \cup IF last = NoMatch THEN {} ELSE {last}

\* All matches, and those from a position on.
Every       == AllMatches(str.at, str.n)
FromHere(p) == From(str.at, str.n)[p]

\* Where SplitComplete says something.
Applies == limit # 0 /\ NeverEmpty /\ (limit < 0 \/ groups = 0)

\* The last match begins where the last piece ends.
LastPiece ==
  /\ last = NoMatch => result = <<>>
  /\ last # NoMatch => /\ LastText(result) # {}
                       /\ \A j \in LastText(result) : result[j].e = last.b

\* The separators are the matches that begin before the last one ended, and
\* with a limit there is one for each piece.
Separated ==
  /\ Separators \cup FromHere(LastEnd) = Every
  /\ \A x \in Separators : x.b < LastEnd
  /\ limit > 0 => Cardinality(Separators) = Len(result) /\ Len(result) <= limit - 1

\* The inductive invariant.
Cutting ==
  Applies =>
    /\ pc # "chars"
    /\ pc \in {"match", "rest"} => LastPiece /\ Separated
    /\ pc = "match" => start = LastEnd
    /\ pc = "rest" => Separators = FirstMatches(limit - 1)
    /\ pc = "done" => GapsIn(result) = FirstMatches(limit - 1)

\* The spans between the pieces.
LEMMA GapsAreIn == Gaps = GapsIn(result)
<1>1. Texts = TextsIn(result)
  BY DEF Texts, TextsIn
<1>2. \A j, k : Neighbours(j, k) <=> NeighboursIn(result, j, k)
  BY <1>1, ZenonT(60) DEF Neighbours, NeighboursIn
<1>. DEFINE P == {x \in Texts \X Texts : Neighbours(x[1], x[2])}
            Q == {x \in TextsIn(result) \X TextsIn(result) : NeighboursIn(result, x[1], x[2])}
<1>3. P = Q
  BY <1>1, <1>2
<1>4. Gaps = {Gap(jk[1], jk[2]) : jk \in P} /\ GapsIn(result) = {Gap(jk[1], jk[2]) : jk \in Q}
  BY DEF Gaps, Gap, GapsIn
<1>. HIDE DEF P, Q
<1>. QED
  BY <1>3, <1>4

\* What is a span between pieces.
LEMMA GapsInMember ==
  ASSUME NEW s
  PROVE  \A g : g \in GapsIn(s) <=>
           \E j, k \in TextsIn(s) : NeighboursIn(s, j, k) /\ g = [b |-> s[j].e, e |-> s[k].b]
<1>. DEFINE T     == TextsIn(s)
            P     == {x \in T \X T : NeighboursIn(s, x[1], x[2])}
            span(j, k) == [b |-> s[j].e, e |-> s[k].b]
<1>1. GapsIn(s) = {span(jk[1], jk[2]) : jk \in P}
  BY DEF GapsIn
<1>2. \A jk : jk \in P => jk[1] \in T /\ jk[2] \in T /\ NeighboursIn(s, jk[1], jk[2])
  OBVIOUS
<1>3. \A j, k \in T : NeighboursIn(s, j, k) =>
        <<j, k>> \in P /\ <<j, k>>[1] = j /\ <<j, k>>[2] = k
  OBVIOUS
<1>. HIDE DEF P, T, span
<1>4. \A g : g \in GapsIn(s) <=> \E j, k \in T : NeighboursIn(s, j, k) /\ g = span(j, k)
  <2>. SUFFICES ASSUME NEW g
                PROVE  g \in GapsIn(s) <=> \E j, k \in T : NeighboursIn(s, j, k) /\ g = span(j, k)
    OBVIOUS
  <2>1. ASSUME g \in GapsIn(s)
        PROVE  \E j, k \in T : NeighboursIn(s, j, k) /\ g = span(j, k)
    <3>1. PICK jk \in P : g = span(jk[1], jk[2])
      BY <1>1, <2>1
    <3>. QED
      BY <1>2, <3>1
  <2>2. ASSUME NEW j \in T, NEW k \in T, NeighboursIn(s, j, k), g = span(j, k)
        PROVE  g \in GapsIn(s)
    <3>1. <<j, k>> \in P /\ g = span(<<j, k>>[1], <<j, k>>[2])
      BY <1>3, <2>2
    <3>. QED
      BY <1>1, <3>1
  <2>. QED
    BY <2>1, <2>2
<1>. QED
  BY <1>4 DEF span, T

\* A piece appended, with the captures behind it, adds the span between it
\* and the last piece.
LEMMA GapsExtended ==
  ASSUME NEW s, NEW z, Len(s) \in Nat, Len(z) \in Nat, Len(z) >= Len(s) + 1,
         \A k \in 1 .. Len(s) : z[k] = s[k],
         z[Len(s) + 1].kind = "text",
         \A k \in Len(s) + 2 .. Len(z) : z[k].kind # "text"
  PROVE  /\ GapsIn(z) = GapsIn(s) \cup {[b |-> s[j].e, e |-> z[Len(s) + 1].b] : j \in LastText(s)}
         /\ LastText(z) = {Len(s) + 1}
<1>. DEFINE L == Len(s)
            T == TextsIn(s)
            last_(j) == [b |-> s[j].e, e |-> z[L + 1].b]
<1>1. TextsIn(z) = T \cup {L + 1} /\ T \subseteq 1 .. L
  BY DEF TextsIn
<1>2. \A j \in T : j \in 1 .. L /\ z[j] = s[j]
  BY <1>1
<1>. HIDE DEF L, T
<1>3. L \in Nat
  BY DEF L
<1>4. \A j, k \in T : NeighboursIn(z, j, k) <=> NeighboursIn(s, j, k)
  <2>. SUFFICES ASSUME NEW j \in T, NEW k \in T
                PROVE  \A x \in j + 1 .. k - 1 : x \in TextsIn(z) <=> x \in TextsIn(s)
    BY DEF NeighboursIn
  <2>. SUFFICES ASSUME NEW x \in j + 1 .. k - 1 PROVE x # L + 1
    BY <1>1 DEF T
  <2>. QED
    BY <1>2, <1>3
<1>5. \A j \in T : NeighboursIn(z, j, L + 1) <=> j \in LastText(s)
  <2>. SUFFICES ASSUME NEW j \in T PROVE NeighboursIn(z, j, L + 1) <=> j \in LastText(s)
    OBVIOUS
  <2>1. j < L + 1 /\ L + 1 - 1 = L /\ j \in Int
    BY <1>2, <1>3
  <2>2. \A x \in j + 1 .. L : x # L + 1
    BY <1>3
  <2>3. NeighboursIn(z, j, L + 1) <=> \A x \in j + 1 .. L : x \notin TextsIn(z)
    BY <1>3, <2>1 DEF NeighboursIn
  <2>4. j \in LastText(s) <=> \A x \in j + 1 .. L : x \notin T
    BY ZenonT(60) DEF LastText, T, L
  <2>. QED
    BY <1>1, <2>2, <2>3, <2>4
<1>6. \A k \in TextsIn(z) : ~ NeighboursIn(z, L + 1, k)
  <2>. SUFFICES ASSUME NEW k \in TextsIn(z) PROVE ~(L + 1 < k)
    BY ZenonT(60) DEF NeighboursIn
  <2>1. k \in 1 .. L \/ k = L + 1
    BY <1>1, <1>2
  <2>. QED
    BY <1>3, <2>1
<1>7. LastText(s) \subseteq T
  BY DEF LastText, T
<1>8. ASSUME NEW g \in GapsIn(z)
      PROVE  g \in GapsIn(s) \cup {last_(j) : j \in LastText(s)}
  <2>1. PICK j \in TextsIn(z), k \in TextsIn(z) :
          NeighboursIn(z, j, k) /\ g = [b |-> z[j].e, e |-> z[k].b]
    BY <1>8, GapsInMember
  <2>2. j \in T
    BY <1>1, <1>6, <2>1
  <2>3. CASE k \in T
    <3>1. NeighboursIn(s, j, k) /\ g = [b |-> s[j].e, e |-> s[k].b]
      BY <1>2, <1>4, <2>1, <2>2, <2>3
    <3>. QED
      BY <2>2, <2>3, <3>1, GapsInMember DEF T
  <2>4. CASE k = L + 1
    <3>1. j \in LastText(s) /\ g = last_(j)
      BY <1>2, <1>5, <2>1, <2>2, <2>4
    <3>. QED
      BY <3>1
  <2>. QED
    BY <1>1, <2>3, <2>4
<1>9. ASSUME NEW g \in GapsIn(s)
      PROVE  g \in GapsIn(z)
  <2>1. PICK j \in TextsIn(s), k \in TextsIn(s) :
          NeighboursIn(s, j, k) /\ g = [b |-> s[j].e, e |-> s[k].b]
    BY <1>9, GapsInMember
  <2>2. j \in T /\ k \in T
    BY <2>1 DEF T
  <2>3. /\ j \in TextsIn(z) /\ k \in TextsIn(z) /\ NeighboursIn(z, j, k)
        /\ g = [b |-> z[j].e, e |-> z[k].b]
    BY <1>1, <1>2, <1>4, <2>1, <2>2
  <2>. QED
    BY <2>3, GapsInMember
<1>10. ASSUME NEW j \in LastText(s)
       PROVE  last_(j) \in GapsIn(z)
  <2>1. j \in T
    BY <1>7
  <2>2. /\ j \in TextsIn(z) /\ L + 1 \in TextsIn(z) /\ NeighboursIn(z, j, L + 1)
        /\ last_(j) = [b |-> z[j].e, e |-> z[L + 1].b]
    BY <1>1, <1>2, <1>5, <2>1
  <2>. QED
    BY <2>2, GapsInMember
<1>11. GapsIn(z) = GapsIn(s) \cup {last_(j) : j \in LastText(s)}
  <2>. HIDE DEF last_
  <2>. QED
    BY <1>8, <1>9, <1>10
<1>12. LastText(z) = {L + 1}
  <2>1. \A x \in L + 1 + 1 .. Len(z) : x \notin TextsIn(z)
    BY <1>1, <1>2, <1>3
  <2>2. \A j \in T : L + 1 \in j + 1 .. Len(z)
    BY <1>2, <1>3 DEF L
  <2>. QED
    BY <1>1, <2>1, <2>2 DEF LastText
<1>. QED
  BY <1>11, <1>12 DEF L
-----------------------------------------------------------------------------
\* What a step starts from, where SplitComplete says something.
LEMMA CutFacts ==
  ASSUME IInv, Applies
  PROVE  /\ str.n \in Nat /\ str.at \in AnyTable(str.n) /\ ~str.empty
         /\ limit \in Int /\ groups \in Nat /\ LastEnd \in 0 .. str.n
         /\ last = [b |-> last.b, e |-> last.e]
         /\ limit > 0 => groups = 0
<1>1. /\ str.n \in Nat /\ str.at \in AnyTable(str.n) /\ limit \in Int /\ groups \in Nat
      /\ LastEnd \in 0 .. str.n
  BY Facts, LastEndType DEF AnyTable
<1>2. ~str.empty
  BY <1>1, Facts DEF Applies, NeverEmpty
<1>3. last = [b |-> last.b, e |-> last.e]
  BY DEF IInv, TypeOK
<1>. QED
  BY <1>1, <1>2, <1>3 DEF Applies

\* All matches are finitely many, and those from a position on begin there
\* or behind.
LEMMA EveryFacts ==
  ASSUME IInv
  PROVE  /\ IsFiniteSet(Every) /\ Every = FromHere(0) /\ \A x \in Every : x.b \in Int
         /\ \A p \in 0 .. str.n : \A x \in FromHere(p) : x.b \in Int /\ x.b >= p
<1>. DEFINE n == str.n
            t == str.at
<1>1. n \in Nat /\ t \in AnyTable(n)
  BY Facts DEF AnyTable
<1>. HIDE DEF n, t
<1>2. AllMatches(t, n) = From(t, n)[0]
  BY AllMatchesIsFrom
<1>3. 0 \in 0 .. n + 1 /\ \A p \in 0 .. n : p \in 0 .. n + 1 /\ p \in Int
  BY <1>1
<1>4. IsFiniteSet(From(t, n)[0])
  BY <1>1, <1>3, FromFinite
<1>5. \A p \in 0 .. n + 1 : \A x \in From(t, n)[p] : x.b \in p .. n
  BY <1>1, FromBounds
<1>6. \A p \in 0 .. n + 1 : \A x \in From(t, n)[p] : x.b \in Int /\ x.b >= p
  BY <1>1, <1>5
<1>. QED
  BY <1>2, <1>3, <1>4, <1>6 DEF Every, FromHere, n, t

\* At the end of the string, a pattern that does not match the empty string
\* finds nothing.
LEMMA NothingAtEnd ==
  ASSUME IInv, Applies
  PROVE  FromHere(str.n) = {}
<1>. DEFINE n == str.n
            t == str.at
<1>1. n \in Nat /\ t \in AnyTable(n) /\ t[n] # n
  BY CutFacts DEF Applies, NeverEmpty
<1>. HIDE DEF n, t
<1>2. Exec(t, n, n) = NoMatch
  <2>. SUFFICES ASSUME Exec(t, n, n) # NoMatch PROVE FALSE
    OBVIOUS
  <2>. DEFINE x == Exec(t, n, n)
  <2>1. x.b \in n .. n /\ x.e \in x.b .. n /\ x.e = t[x.b]
    BY <1>1, ExecBounds DEF AnyTable
  <2>. HIDE DEF x
  <2>2. x.b = n /\ x.e = n
    BY <1>1, <2>1
  <2>. QED
    BY <1>1, <2>1, <2>2
<1>3. n \in 0 .. n + 1
  BY <1>1
<1>4. From(t, n)[n] = {}
  BY <1>1, <1>2, <1>3, FromNone
<1>. QED
  BY <1>4 DEF FromHere, n, t

\* When nothing remains to be found, or the limit is reached, the separators
\* are the first matches.
LEMMA SeparatorsAreFirst ==
  IInv /\ Applies /\ Separated
  /\ (FromHere(LastEnd) = {} \/ (limit > 0 /\ Len(result) = limit - 1)) =>
    Separators = FirstMatches(limit - 1)
<1>. SUFFICES ASSUME IInv, Applies, Separated,
                     FromHere(LastEnd) = {} \/ (limit > 0 /\ Len(result) = limit - 1)
              PROVE  Separators = FirstMatches(limit - 1)
  OBVIOUS
<1>1. limit \in Int /\ limit # 0 /\ LastEnd \in 0 .. str.n /\ LastEnd \in Int
  BY CutFacts DEF Applies
<1>2. CASE limit < 0
  <2>1. limit - 1 < 0 /\ ~(limit > 0)
    BY <1>1, <1>2
  <2>2. Separators = Every
    BY <2>1 DEF Separated
  <2>3. FirstMatches(limit - 1) = Every
    BY <2>1 DEF FirstMatches, Every
  <2>. QED
    BY <2>2, <2>3
<1>3. CASE limit > 0
  <2>. DEFINE k == limit - 1
              A == Every
              E == LastEnd
              S == Separators
  <2>1. k \in Nat
    BY <1>1, <1>3
  <2>2. IsFiniteSet(A) /\ (\A x \in A : x.b \in Int) /\ E \in Int
    BY <1>1, EveryFacts
  <2>3. S \subseteq A /\ \A x \in A : x \in S <=> x.b < E
    <3>1. S \cup FromHere(E) = A /\ \A x \in S : x.b < E
      BY DEF Separated
    <3>2. \A x \in FromHere(E) : x.b \in Int /\ x.b >= E
      BY <1>1, EveryFacts
    <3>. HIDE DEF A, E, S
    <3>3. \A x \in FromHere(E) : ~ (x.b < E)
      BY <2>2, <3>2
    <3>. QED
      BY <3>1, <3>3
  <2>4. Cardinality(S) <= k /\ (S = A \/ Cardinality(S) = k)
    BY <1>3 DEF Separated
  <2>5. FirstMatches(k) = {x \in A : k < 0 \/ Cardinality({y \in A : y.b < x.b}) < k}
    BY DEF FirstMatches, Every
  <2>. HIDE DEF k, A, E, S
  <2>6. FirstOf(A, k) = S
    BY <2>1, <2>2, <2>3, <2>4, FirstOnes
  <2>7. ~(k < 0)
    BY <2>1
  <2>8. FirstMatches(k) = S
    BY <2>5, <2>6, <2>7 DEF FirstOf
  <2>. QED
    BY <2>8 DEF S, k
<1>. QED
  BY <1>1, <1>2, <1>3

\* A piece appended where the last match ended turns the separators into
\* spans between pieces.
LEMMA GapsAreSeparators ==
  ASSUME IInv, Applies, LastPiece, NEW z, Len(z) \in Nat, Len(z) >= Len(result) + 1,
         \A k \in 1 .. Len(result) : z[k] = result[k],
         z[Len(result) + 1].kind = "text", z[Len(result) + 1].b = LastEnd,
         \A k \in Len(result) + 2 .. Len(z) : z[k].kind # "text"
  PROVE  GapsIn(z) = Separators /\ LastText(z) = {Len(result) + 1}
<1>. DEFINE L == Len(result)
            spans == {[b |-> result[j].e, e |-> z[L + 1].b] : j \in LastText(result)}
<1>1. L \in Nat
  BY Facts
<1>2. GapsIn(z) = GapsIn(result) \cup spans /\ LastText(z) = {L + 1}
  BY <1>1, GapsExtended
<1>3. CASE last = NoMatch
  <2>1. L = 0
    BY <1>3, Facts DEF LastPiece
  <2>2. LastText(result) = {}
    BY <2>1 DEF LastText, TextsIn
  <2>. QED
    BY <1>2, <1>3, <2>2 DEF Separators
<1>4. CASE last # NoMatch
  <2>1. \A j \in LastText(result) : [b |-> result[j].e, e |-> z[L + 1].b] = last
    <3>1. z[L + 1].b = last.e /\ last = [b |-> last.b, e |-> last.e]
      BY <1>4, CutFacts DEF LastEnd
    <3>2. \A j \in LastText(result) : result[j].e = last.b
      BY <1>4 DEF LastPiece
    <3>. HIDE DEF L
    <3>. QED
      BY <3>1, <3>2
  <2>2. LastText(result) # {}
    BY <1>4 DEF LastPiece
  <2>3. spans = {last}
    <3>. HIDE DEF L
    <3>. QED
      BY <2>1, <2>2
  <2>. QED
    BY <1>2, <1>4, <2>3 DEF Separators
<1>. QED
  BY <1>3, <1>4
-----------------------------------------------------------------------------
\* What is said of the separators is about these variables.
LEMMA Unchanged ==
  UNCHANGED <<str, groups, limit, last, result>> =>
    /\ Separators' = Separators /\ FirstMatches(limit - 1)' = FirstMatches(limit - 1)
    /\ LastEnd' = LastEnd /\ Every' = Every /\ GapsIn(result)' = GapsIn(result)
    /\ Applies' <=> Applies
    /\ LastPiece' <=> LastPiece
    /\ Separated' <=> Separated
<1>. SUFFICES ASSUME UNCHANGED <<str, groups, limit, last, result>>
              PROVE  /\ Separators' = Separators
                     /\ FirstMatches(limit - 1)' = FirstMatches(limit - 1)
                     /\ LastEnd' = LastEnd /\ Every' = Every
                     /\ GapsIn(result)' = GapsIn(result)
                                      /\ Applies' <=> Applies
                     /\ LastPiece' <=> LastPiece
                     /\ Separated' <=> Separated
  OBVIOUS
<1>1. GapsIn(result)' = GapsIn(result)
  BY DEF GapsIn, TextsIn, NeighboursIn
<1>2. Separators' = Separators /\ LastEnd' = LastEnd
  BY <1>1 DEF Separators, LastEnd
<1>3. /\ FirstMatches(limit - 1)' = FirstMatches(limit - 1) /\ Every' = Every
    BY DEF FirstMatches, Every
<1>4. Applies' <=> Applies
  BY DEF Applies, NeverEmpty
<1>5. LastPiece' <=> LastPiece
  <2>1. LastText(result)' = LastText(result)
    BY DEF LastText, TextsIn
  <2>. QED
    BY <2>1 DEF LastPiece
<1>6. FromHere(LastEnd)' = FromHere(LastEnd)
  BY <1>2 DEF FromHere
<1>7. Separated' <=> Separated
  BY <1>2, <1>3, <1>6 DEF Separated
<1>. QED
  BY <1>1, <1>2, <1>3, <1>4, <1>5, <1>7

\* No pieces, no spans.
LEMMA NoGaps ==
  ASSUME NEW s, Len(s) \in {0, 1}
  PROVE  GapsIn(s) = {}
<1>1. \A j, k \in TextsIn(s) : ~ NeighboursIn(s, j, k)
  BY DEF TextsIn, NeighboursIn
<1>. QED
  BY <1>1, GapsInMember

\* The beginning has no pieces.
LEMMA InitCutting == Init => Cutting
BY DEF Init, Cutting

\* An empty string has no matches.
LEMMA SplitEmptyCutting == IInv /\ Cutting /\ SplitEmpty => Cutting'
<1>. SUFFICES ASSUME IInv, Cutting, SplitEmpty, Applies' PROVE Cutting'
  BY DEF Cutting
<1>1. /\ pc' = "done" /\ str.n = 0 /\ result = <<>>
      /\ UNCHANGED <<str, groups, limit, start, last, result>>
  BY DEF SplitEmpty, IInv, Begun
<1>2. Applies
  BY <1>1 DEF Applies, NeverEmpty
<1>3. GapsIn(<<>>) = {}
  <2>1. Len(<<>>) \in {0, 1}
    OBVIOUS
  <2>. QED
    BY <2>1, NoGaps
<1>4. Every = {}
  BY <1>1, <1>2, EveryFacts, NothingAtEnd
<1>5. GapsIn(result)' = {}
  BY <1>1, <1>3 DEF GapsIn, TextsIn, NeighboursIn
<1>6. FirstMatches(limit - 1)' = {}
  BY <1>1, <1>4 DEF FirstMatches, Every
<1>. QED
  BY <1>1, <1>5, <1>6 DEF Cutting

\* With a limit of one nothing is separated.
LEMMA SplitWholeCutting == IInv /\ Cutting /\ SplitWhole => Cutting'
<1>. SUFFICES ASSUME IInv, Cutting, SplitWhole, Applies' PROVE Cutting'
  BY DEF Cutting
<1>. DEFINE z == <<Text(0, str.n)>>
<1>1. /\ pc' = "done" /\ limit = 1 /\ result' = z
      /\ UNCHANGED <<str, groups, limit, start, last>>
  BY DEF SplitWhole
<1>2. Len(z) \in {0, 1}
  OBVIOUS
<1>. HIDE DEF z
<1>3. GapsIn(z) = {}
  BY <1>2, NoGaps
<1>4. FirstMatches(limit - 1) = {}
  <2>. SUFFICES ASSUME NEW x \in Every PROVE ~ (0 < 0 \/ Cardinality({y \in Every : y.b < x.b}) < 0)
    BY <1>1 DEF FirstMatches, Every
  <2>1. IsFiniteSet({y \in Every : y.b < x.b})
    BY EveryFacts, FS_Subset
  <2>2. Cardinality({y \in Every : y.b < x.b}) \in Nat
    BY <2>1, FS_CardinalityType
  <2>. QED
    BY <2>2
<1>5. GapsIn(result)' = {}
  BY <1>1, <1>3 DEF GapsIn, TextsIn, NeighboursIn
<1>6. FirstMatches(limit - 1)' = {}
  BY <1>1, <1>4 DEF FirstMatches
<1>. QED
  BY <1>1, <1>5, <1>6 DEF Cutting

\* The loop begins with all matches to be found.
LEMMA BeginCutting == IInv /\ Cutting /\ Begin => Cutting'
<1>. SUFFICES ASSUME IInv, Cutting, Begin, Applies' PROVE Cutting'
  BY DEF Cutting
<1>1. /\ str.n > 0 /\ limit # 1 /\ result = <<>> /\ start = 0 /\ last = NoMatch
      /\ pc' = (IF str.empty THEN "chars" ELSE "match")
      /\ UNCHANGED <<str, groups, limit, start, last, result>>
  BY DEF Begin, IInv, Begun
<1>2. Applies
  BY <1>1 DEF Applies, NeverEmpty
<1>3. pc' = "match" /\ limit \in Int /\ Every = FromHere(0)
  BY <1>1, <1>2, CutFacts, EveryFacts
<1>4. Len(result) = 0 /\ Len(result) \in {0, 1} /\ LastEnd = 0
  BY <1>1 DEF LastEnd
<1>5. Separators = {} /\ Cardinality(Separators) = 0
  <2>1. GapsIn(result) = {}
    BY <1>4, NoGaps
  <2>. QED
    BY <1>1, <2>1, FS_EmptySet DEF Separators
<1>6. Separated
  BY <1>1, <1>3, <1>4, <1>5 DEF Separated
<1>7. LastPiece
  BY <1>1 DEF LastPiece
<1>8. Separated' /\ LastPiece' /\ LastEnd' = LastEnd
  BY <1>1, <1>6, <1>7, Unchanged
<1>. QED
  BY <1>1, <1>3, <1>4, <1>8 DEF Cutting

\* The rest of the string is the last piece.
LEMMA AppendRestCutting == IInv /\ Cutting /\ AppendRest => Cutting'
<1>. SUFFICES ASSUME IInv, Cutting, AppendRest, Applies' PROVE Cutting'
  BY DEF Cutting
<1>. DEFINE x == Text(LastEnd, str.n)
            z == Append(result, x)
<1>1. /\ pc = "rest" /\ result' = z /\ pc' = Trimming
      /\ UNCHANGED <<str, groups, limit, start, last>>
  BY DEF AppendRest
<1>2. Applies /\ pc' = "done"
  BY <1>1 DEF Applies, NeverEmpty, Trimming
<1>3. LastPiece /\ Separators = FirstMatches(limit - 1)
  BY <1>1, <1>2 DEF Cutting
<1>4. x \in AllPieces /\ x.kind = "text" /\ x.b = LastEnd
  BY LastEndType, Facts, PieceTypes
<1>. HIDE DEF x
<1>5. /\ Len(z) = Len(result) + 1 /\ Len(result) \in Nat /\ z[Len(result) + 1] = x
      /\ \A k \in 1 .. Len(result) : z[k] = result[k]
  BY <1>4, Facts
<1>. HIDE DEF z
<1>6. Len(z) \in Nat /\ Len(z) >= Len(result) + 1
      /\ \A k \in Len(result) + 2 .. Len(z) : z[k].kind # "text"
  BY <1>5
<1>7. GapsIn(z) = Separators
  BY <1>2, <1>3, <1>4, <1>5, <1>6, GapsAreSeparators
<1>8. GapsIn(result)' = GapsIn(z) /\ FirstMatches(limit - 1)' = FirstMatches(limit - 1)
  BY <1>1 DEF GapsIn, TextsIn, NeighboursIn, FirstMatches
<1>. QED
  BY <1>2, <1>3, <1>7, <1>8 DEF Cutting

\* The loop ends when nothing remains, or at the limit.
LEMMA NoMoreMatchesCutting == IInv /\ Cutting /\ NoMoreMatches => Cutting'
<1>. SUFFICES ASSUME IInv, Cutting, NoMoreMatches, Applies' PROVE Cutting'
  BY DEF Cutting
<1>1. /\ pc = "match" /\ pc' = "rest" /\ (Found = NoMatch \/ Full)
      /\ UNCHANGED <<str, groups, limit, start, last, result>>
  BY DEF NoMoreMatches
<1>2. Applies
  BY <1>1 DEF Applies, NeverEmpty
<1>3. LastPiece /\ Separated /\ start = LastEnd
  BY <1>1, <1>2 DEF Cutting
<1>4. ASSUME Found = NoMatch PROVE Separators = FirstMatches(limit - 1)
  <2>. DEFINE n == str.n
              t == str.at
  <2>1. n \in Nat /\ t \in AnyTable(n) /\ start \in 0 .. n
    BY <1>2, <1>3, CutFacts
  <2>2. Exec(t, n, start) = NoMatch
    BY <1>4 DEF Found
  <2>. HIDE DEF n, t
  <2>3. From(t, n)[start] = {}
    <3>1. start \in 0 .. n + 1
      BY <2>1
    <3>. QED
      BY <2>1, <2>2, <3>1, FromNone
  <2>4. FromHere(LastEnd) = {}
    BY <1>3, <2>3 DEF FromHere, n, t
  <2>. QED
    BY <1>2, <1>3, <2>4, SeparatorsAreFirst
<1>5. ASSUME Full PROVE Separators = FirstMatches(limit - 1)
  <2>1. limit > 0 /\ limit - Len(result) <= 1 /\ limit \in Int /\ Len(result) \in Nat
    BY <1>2, <1>5, CutFacts, Facts DEF Full
  <2>2. Len(result) = limit - 1
    BY <1>3, <2>1 DEF Separated
  <2>. QED
    BY <1>2, <1>3, <2>1, <2>2, SeparatorsAreFirst
<1>6. Separators = FirstMatches(limit - 1)
  BY <1>1, <1>4, <1>5
<1>7. /\ Separators' = Separators /\ FirstMatches(limit - 1)' = FirstMatches(limit - 1)
      /\ LastPiece' /\ Separated'
  BY <1>1, <1>3, Unchanged
<1>. QED
  BY <1>1, <1>6, <1>7 DEF Cutting
-----------------------------------------------------------------------------
\* What a match that is not empty appends.
LEMMA CutPieces ==
  ASSUME IInv, pc = "match", Found # NoMatch, ~IsEmpty(Found), NEW pieces \in Pieces
  PROVE  LET z == result \o pieces
             L == Len(result) IN
         /\ Len(z) \in Nat /\ Len(z) >= L + 1 /\ L \in Nat /\ Len(z) = L + 1 + groups
         /\ \A k \in 1 .. L : z[k] = result[k]
         /\ z[L + 1].kind = "text" /\ z[L + 1].b = LastEnd /\ z[L + 1].e = Found.b
         /\ \A k \in L + 2 .. Len(z) : z[k].kind # "text"
<1>. DEFINE x == Text(LastEnd, Found.b)
            L == Len(result)
            cs(c) == [k \in 1 .. groups |-> Capture(c[k])]
            z == result \o pieces
<1>1. PICK c \in [1 .. groups -> BOOLEAN] : pieces = <<x>> \o cs(c)
  BY DEF Pieces
<1>2. /\ LastEnd \in 0 .. MaxLen /\ Found.b \in 0 .. MaxLen /\ MaxLen >= 1
      /\ groups \in Nat /\ result \in Seq(AllPieces)
  BY FoundFacts, Facts, LastEndType
<1>3. x \in AllPieces /\ x.kind = "text" /\ x.b = LastEnd /\ x.e = Found.b
  BY <1>2, PieceTypes
<1>. DEFINE y == cs(c)
<1>4. \A k \in 1 .. groups : y[k] \in AllPieces /\ y[k].kind = "capture" /\ y[k].b <= y[k].e
  BY <1>2, PieceTypes
<1>5. y \in Seq(AllPieces) /\ Len(y) = groups
  BY <1>2, <1>4
<1>6. z = result \o (<<x>> \o y)
  BY <1>1
<1>. HIDE DEF x, y
<1>7. /\ Len(z) >= L + 1 /\ L \in Nat /\ Len(z) = L + 1 + groups
      /\ z[L + 1] = x /\ \A k \in 1 .. L : z[k] = result[k]
      /\ \A k \in L + 2 .. Len(z) : z[k].kind = "capture"
  <2>. HIDE DEF z
  <2>. QED
    BY <1>2, <1>3, <1>4, <1>5, <1>6, PieceAndCaptures
<1>. HIDE DEF z, L
<1>8. Len(z) \in Nat
  BY <1>2, <1>7
<1>. QED
  BY <1>3, <1>7, <1>8 DEF z, L

\* A match cuts the string where the last one ended.
LEMMA SplitMatchCutting == IInv /\ Cutting /\ SplitMatch => Cutting'
<1>. SUFFICES ASSUME IInv, Cutting, SplitMatch, Applies' PROVE Cutting'
  BY DEF Cutting
<1>. DEFINE L == Len(result)
            x == Found
<1>1. /\ pc = "match" /\ x # NoMatch /\ ~Full /\ start' = NextStart /\ last' = x
      /\ pc' = (IF str.n <= start' THEN "rest" ELSE "match")
      /\ UNCHANGED <<str, groups, limit>>
  BY DEF SplitMatch
<1>2. PICK pieces \in Pieces : result' = result \o pieces
  BY DEF SplitMatch
<1>3. Applies /\ NeverEmpty
  BY <1>1 DEF Applies, NeverEmpty
<1>4. LastPiece /\ Separated /\ start = LastEnd
  BY <1>1, <1>3 DEF Cutting
<1>5. /\ str.n \in Nat /\ str.at \in AnyTable(str.n) /\ LastEnd \in 0 .. str.n
      /\ limit \in Int /\ L \in Nat
      /\ x = [b |-> x.b, e |-> x.e] /\ x.b \in LastEnd .. str.n /\ x.e \in x.b .. str.n
      /\ str.at[x.b] = x.e
  BY <1>1, <1>3, <1>4, CutFacts, FoundFacts, Facts
<1>6. x.b < x.e
  <2>1. str.at[x.b] # x.b
    BY <1>3, <1>5 DEF NeverEmpty
  <2>. QED
    BY <1>5, <2>1
<1>7. start' = x.e
  <2>1. ~IsEmpty(x)
    BY <1>5, <1>6 DEF IsEmpty
  <2>2. last # NoMatch => ~IsEmpty(last)
    BY <1>3, <1>5 DEF IInv, LastIsMatch, NeverEmpty, IsEmpty
  <2>. QED
    BY <1>1, <2>1, <2>2 DEF NextStart
<1>8. LastEnd' = x.e
  BY <1>1 DEF LastEnd
<1>. DEFINE z == result \o pieces
<1>9. /\ Len(z) \in Nat /\ Len(z) >= L + 1 /\ Len(z) = L + 1 + groups
      /\ \A k \in 1 .. L : z[k] = result[k]
      /\ z[L + 1].kind = "text" /\ z[L + 1].b = LastEnd /\ z[L + 1].e = x.b
      /\ \A k \in L + 2 .. Len(z) : z[k].kind # "text"
  <2>1. ~IsEmpty(Found)
    BY <1>5, <1>6 DEF IsEmpty
  <2>. QED
    BY <1>1, <2>1, CutPieces
<1>10. result' = z
  BY <1>2
<1>. HIDE DEF z
<1>11. GapsIn(z) = Separators /\ LastText(z) = {L + 1}
  BY <1>3, <1>4, <1>9, GapsAreSeparators
<1>12. Separators' = Separators \cup {x}
  <2>1. GapsIn(result)' = GapsIn(z)
    BY <1>10 DEF GapsIn, TextsIn, NeighboursIn
  <2>. HIDE DEF x
  <2>. QED
    BY <1>1, <1>11, <2>1 DEF Separators
<1>13. LastPiece'
  <2>1. LastText(result)' = {L + 1}
    BY <1>10, <1>11 DEF LastText, TextsIn
  <2>. HIDE DEF x
  <2>. QED
    BY <1>1, <1>9, <1>10, <2>1 DEF LastPiece
<1>14. FromHere(LastEnd) = {x} \cup FromHere(x.e)
  <2>. DEFINE n == str.n
              t == str.at
  <2>1. x = Exec(t, n, start) /\ n \in Nat /\ t \in AnyTable(n) /\ start \in Int
    BY <1>4, <1>5 DEF Found
  <2>. HIDE DEF n, t, x
  <2>2. From(t, n)[start] = {x} \cup From(t, n)[StartBehind(x)]
    <3>1. Exec(t, n, start) # NoMatch
      BY <1>1, <2>1
    <3>2. From(t, n)[start] =
            {Exec(t, n, start)} \cup From(t, n)[StartBehind(Exec(t, n, start))]
      BY <2>1, <3>1, FromMatch
    <3>. QED
      BY <2>1, <3>2
  <2>3. StartBehind(x) = x.e
    BY <1>5, <1>6 DEF StartBehind, IsEmpty
  <2>. QED
    BY <1>4, <2>2, <2>3 DEF FromHere, n, t
<1>15. Separators' \cup FromHere(x.e) = Every
  BY <1>4, <1>12, <1>14 DEF Separated
<1>16. /\ \A y \in Separators : y.b \in Int /\ y.b < LastEnd
       /\ IsFiniteSet(Separators) /\ x \notin Separators
  <2>. HIDE DEF x
  <2>1. Separators \in SUBSET Every /\ \A y \in Separators : y.b < LastEnd
    BY <1>4 DEF Separated
  <2>2. IsFiniteSet(Separators) /\ \A y \in Separators : y.b \in Int
    BY <2>1, EveryFacts, FS_Subset
  <2>3. ~ (x.b < LastEnd)
    BY <1>5
  <2>. QED
    BY <2>1, <2>2, <2>3
<1>. HIDE DEF x
<1>17. \A y \in Separators' : y.b < x.e
  <2>1. \A y \in Separators : y.b < x.e
    BY <1>5, <1>16
  <2>. QED
    BY <1>6, <1>12, <2>1
<1>18. limit > 0 => Cardinality(Separators') = Len(result)' /\ Len(result)' <= limit - 1
  <2>. SUFFICES ASSUME limit > 0
                PROVE  Cardinality(Separators') = Len(z) /\ Len(z) <= limit - 1
    BY <1>10
  <2>1. Len(z) = L + 1
    BY <1>3, <1>5, <1>9, CutFacts
  <2>2. Cardinality(Separators) = L /\ L <= limit - 1
    BY <1>4 DEF Separated
  <2>3. Cardinality(Separators \cup {x}) = L + 1
    BY <1>16, <2>2, FS_AddElement
  <2>4. limit - L > 1
    BY <1>1, <1>5 DEF Full
  <2>. HIDE DEF L
  <2>. QED
    BY <1>5, <1>12, <2>1, <2>3, <2>4
<1>19. Every' = Every /\ (FromHere(LastEnd))' = FromHere(x.e)
  BY <1>1, <1>8 DEF Every, FromHere
<1>20. Separated'
  BY <1>1, <1>8, <1>15, <1>17, <1>18, <1>19 DEF Separated
<1>21. CASE pc' = "match"
  BY <1>7, <1>8, <1>13, <1>20, <1>21 DEF Cutting
<1>22. CASE pc' = "rest"
  <2>1. x.e = str.n
    BY <1>1, <1>5, <1>7, <1>22
  <2>2. (FromHere(LastEnd))' = {}
    BY <1>3, <1>19, <2>1, NothingAtEnd
  <2>3. IInv'
    BY SplitMatchIInv
  <2>4. Applies'
    OBVIOUS
  <2>5. (FromHere(LastEnd) = {} \/ (limit > 0 /\ Len(result) = limit - 1))'
    BY <2>2
  <2>6. (Separators = FirstMatches(limit - 1))'
    BY <1>20, <2>3, <2>4, <2>5, SeparatorsAreFirst, PTL
  <2>. QED
    BY <1>13, <1>20, <1>22, <2>6 DEF Cutting
<1>. QED
  BY <1>1, <1>21, <1>22

\* The separators are the first matches in every state that is past them.
LEMMA CuttingInvariance == Spec => []Cutting
<1>1. IInv /\ Cutting /\ [Next]_vars => Cutting'
  <2>. SUFFICES ASSUME IInv, Cutting, [Next]_vars PROVE Cutting'
    OBVIOUS
  <2>1. CASE UNCHANGED vars
    <3>1. UNCHANGED <<str, groups, limit, last, result>> /\ UNCHANGED <<pc, start>>
      BY <2>1 DEF vars
    <3>. QED
      BY <3>1, Unchanged DEF Cutting
  <2>2. CASE SplitChars
    BY <2>2 DEF SplitChars, Cutting, Applies, NeverEmpty
  <2>3. CASE Trim
    BY <2>3 DEF Trim, IInv, Begun, Cutting, Applies
  <2>. QED
    BY <2>1, <2>2, <2>3, SplitEmptyCutting, SplitWholeCutting, BeginCutting,
       SplitMatchCutting, NoMoreMatchesCutting, AppendRestCutting DEF Next
<1>. QED
  BY <1>1, InitCutting, Invariance, PTL DEF Spec

\* split cuts at every match, and with a limit at the first limit - 1.
THEOREM Complete == Spec => []SplitComplete
<1>1. Cutting => SplitComplete
  BY GapsAreIn DEF Cutting, SplitComplete, Applies
<1>. QED
  BY <1>1, CuttingInvariance, PTL
-----------------------------------------------------------------------------
\* What is left to do: 5 for each position ahead of the search, and the steps
\* up to the next search.  Where trailing pieces are dropped, it is what is
\* left of the result.
Rank    == [begin |-> 4, chars |-> 3, match |-> 3, rest |-> 2, trim |-> 1, done |-> 0]
Variant == 5 * (MaxLen + 1 - start) + Rank[pc]
Falls   ==
  \/ Variant' < Variant
  \/ Variant' = Variant /\ pc = "trim" /\ Len(result') < Len(result)

\* The variant is a natural number.
LEMMA VariantType ==
  IInv => /\ start \in Int /\ Rank[pc] \in Int /\ Variant \in Nat
          /\ Variant = 5 * (MaxLen + 1 - start) + Rank[pc]
<1>. SUFFICES ASSUME IInv
              PROVE  /\ start \in Int /\ Rank[pc] \in Int /\ Variant \in Nat
                     /\ Variant = 5 * (MaxLen + 1 - start) + Rank[pc]
  OBVIOUS
<1>1. start \in 0 .. MaxLen + 1 /\ pc \in {"begin", "chars", "match", "rest", "trim", "done"}
  BY DEF IInv, TypeOK
<1>2. Rank[pc] \in 0 .. 4
  BY <1>1 DEF Rank
<1>. QED
  BY <1>1, <1>2, SplitAssumption DEF Variant

\* Moving on outweighs the steps up to the next search.
LEMMA Less ==
  \A a, b, v, w, x, y \in Int :
    v = 5 * (MaxLen + 1 - a) + x /\ w = 5 * (MaxLen + 1 - b) + y
      => ((b = a /\ y < x) \/ (b >= a + 1 /\ y < x + 5) => w < v)
BY SplitAssumption

\* Each step of split leaves less to do.  So split stops; but in the loop that
\* drops trailing pieces it may stop without returning, at an empty result.
THEOREM Progress == Spec => [](Variant \in Nat) /\ [][Falls]_vars
<1>1. IInv => Variant \in Nat
  BY VariantType
<1>2. IInv /\ IInv' /\ [Next]_vars => [Falls]_vars
  <2>. SUFFICES ASSUME IInv, IInv', Next, ~UNCHANGED vars PROVE Falls
    OBVIOUS
  <2>1. /\ start \in Int /\ Rank[pc] \in Int /\ Variant \in Int
        /\ Variant = 5 * (MaxLen + 1 - start) + Rank[pc]
    BY VariantType
  <2>2. /\ start' \in Int /\ Rank[pc'] \in Int /\ Variant' \in Int
        /\ Variant' = 5 * (MaxLen + 1 - start') + Rank[pc']
    <3>1. (/\ start \in Int /\ Rank[pc] \in Int /\ Variant \in Nat
           /\ Variant = 5 * (MaxLen + 1 - start) + Rank[pc])'
      BY VariantType, PTL
    <3>. QED
      BY <3>1 DEF Rank
  <2>3. CASE Trim /\ pc' = "trim"
    <3>1. /\ pc = "trim" /\ start' = start
          /\ result' = IF result = <<>> THEN <<>> ELSE Front(result)
      BY <2>3 DEF Trim
    <3>2. result # <<>>
      BY <2>3, <3>1 DEF Trim, vars
    <3>3. Len(result') < Len(result)
      <4>1. result \in Seq(AllPieces)
        BY Facts
      <4>2. Len(Front(result)) = Len(result) - 1 /\ Len(result) \in Nat
        BY <3>2, <4>1, FrontPieces
      <4>. QED
        BY <3>1, <3>2, <4>2
    <3>. QED
      BY <2>1, <2>2, <2>3, <3>1, <3>3 DEF Falls
  <2>4. CASE ~(Trim /\ pc' = "trim")
    <3>1. (start' = start /\ Rank[pc'] < Rank[pc]) \/ (start' >= start + 1 /\ Rank[pc'] < Rank[pc] + 5)
      <4>1. CASE SplitMatch
        <5>1. pc = "match" /\ pc' \in {"rest", "match"} /\ Found # NoMatch /\ start' = NextStart
          BY <4>1 DEF SplitMatch
        <5>2. NextStart >= start + 1
          <6>1. Found.b \in Int /\ Found.e \in Int /\ Found.b >= start /\ Found.e >= Found.b
            BY <2>1, <5>1, FoundFacts, Facts
          <6>. QED
            BY <2>1, <6>1 DEF NextStart, IsEmpty
        <5>. QED
          BY <5>1, <5>2 DEF Rank
      <4>2. CASE SplitChars
        <5>1. /\ pc = "chars"
              /\ \/ start' = start /\ pc' \in {"trim", "done"}
                 \/ start' = start + 1 /\ pc' = "chars"
          BY <4>2 DEF SplitChars, Trimming
        <5>. QED
          BY <2>1, <5>1 DEF Rank
      <4>3. CASE SplitEmpty \/ SplitWhole \/ Begin
        <5>1. start' = start /\ pc = "begin" /\ pc' \in {"done", "chars", "match"}
          BY <4>3 DEF SplitEmpty, SplitWhole, Begin
        <5>. QED
          BY <5>1 DEF Rank
      <4>4. CASE NoMoreMatches \/ AppendRest \/ Trim
        <5>1. /\ start' = start
              /\ \/ pc = "match" /\ pc' = "rest"
                 \/ pc = "rest" /\ pc' \in {"trim", "done"}
                 \/ pc = "trim" /\ pc' = "done"
          BY <2>4, <4>4 DEF NoMoreMatches, AppendRest, Trim, Trimming
        <5>. QED
          BY <5>1 DEF Rank
      <4>. QED
        BY <4>1, <4>2, <4>3, <4>4 DEF Next
    <3>. QED
      BY <2>1, <2>2, <3>1, Less DEF Falls
  <2>. QED
    BY <2>3, <2>4
<1>. QED
  BY <1>1, <1>2, Invariance, PTL DEF Spec

\* Some piece or capture is neither nil nor empty.
SomeText == \E k \in 1 .. Len(result) : ~Blank(result[k])
KeepsText == pc = "trim" /\ SomeText => pc' = "done" \/ SomeText'

\* Dropping trailing pieces never drops the last one that has text: together
\* with Progress, the loop ends there and cannot reach an empty result.
THEOREM TrimKeepsText == Spec => [][KeepsText]_vars
<1>1. IInv /\ [Next]_vars => [KeepsText]_vars
  <2>. SUFFICES ASSUME IInv, Next, pc = "trim", SomeText, pc' # "done" PROVE SomeText'
    BY DEF KeepsText
  <2>1. Trim /\ result' = (IF result = <<>> THEN <<>> ELSE Front(result))
        /\ (result = <<>> \/ Blank(Last(result)))
    BY DEF Next, SplitEmpty, SplitWhole, Begin, SplitChars, SplitMatch, NoMoreMatches,
           AppendRest, Trim
  <2>2. PICK k \in 1 .. Len(result) : ~Blank(result[k])
    BY DEF SomeText
  <2>3. result \in Seq(AllPieces) /\ Len(result) \in Nat
    BY Facts
  <2>4. result # <<>>
    BY <2>2, <2>3
  <2>5. k # Len(result)
    BY <2>1, <2>2, <2>4 DEF Last
  <2>6. /\ Len(result') = Len(result) - 1
        /\ \A j \in 1 .. Len(result) - 1 : result'[j] = result[j]
    BY <2>1, <2>3, <2>4, FrontPieces
  <2>7. k \in 1 .. Len(result') /\ result'[k] = result[k]
    BY <2>2, <2>3, <2>5, <2>6
  <2>. QED
    BY <2>2, <2>7 DEF SomeText, Blank
<1>. QED
  BY <1>1, Invariance, PTL DEF Spec
=============================================================================
