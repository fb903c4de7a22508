------------------------- MODULE StringGsub_proofs -------------------------
(***************************************************************************)
(* Proofs about StringGsub, for strings of any length, patterns that match *)
(* differently in each rest of the string, and a block that replaces the   *)
(* string: no text is lost or doubled and no match is missed while the     *)
(* string stays, only an empty match is replaced twice, and each step      *)
(* that does not make the string longer leaves less to do.                 *)
(***************************************************************************)
EXTENDS StringGsub, PcreExec_proofs

Pieces == [kind : {"text", "repl"}, b : Nat, e : Nat]

\* While the string stays, the result covers what is before the rest, and an
\* empty match that is skipped has a character behind it.
Covered ==
  /\ r = <<>> => i = 0
  /\ mode # "block" /\ pc = "skip" => i < str.n
  /\ mode # "block" /\ pc \in {"loop", "skip", "rest"} => Tiles(r, i)

\* No replaced match ends behind the search position, and of those that end
\* there only the last piece can be found again.
Behindhand ==
  /\ pc \in {"loop", "skip"} =>
       \A k \in 1 .. Len(r) : r[k].kind = "repl" => r[k].e <= i
  /\ pc = "loop" =>
       \A k \in 1 .. Len(r) - 1 : r[k].kind = "repl" => r[k].e < i

\* The inductive invariant.
IInv ==
  /\ TypeOK /\ mode \in {"plain", "context", "block"} /\ str \in Strings
  /\ Covered /\ Behindhand /\ GsubTiles /\ GsubRepeatsOnlyEmpty

\* There is a table for each rest.
LEMMA RestTables ==
  ASSUME NEW n \in Nat, NEW at \in SameInEachRest(n) \cup AnyInEachRest(n)
  PROVE  \A k \in 0 .. n : at[k] \in Tables(n, {Fail, Limit})
<1>1. CASE at \in SameInEachRest(n)
  BY <1>1 DEF SameInEachRest
<1>2. CASE at \in AnyInEachRest(n)
  <2>1. at \in [0 .. n -> Tables(n, {Fail, Limit})]
    BY <1>2, ZenonT(60) DEF AnyInEachRest
  <2>. QED
    BY <2>1
<1>. QED
  BY <1>1, <1>2

\* A string is a length, and a table for each rest.
LEMMA StringParts ==
  ASSUME mode \in {"plain", "context", "block"}, NEW s \in Strings
  PROVE  /\ s.n \in Nat
         /\ \A k \in 0 .. s.n : s.at[k] \in Tables(s.n, {Fail, Limit})
<1>1. CASE mode = "plain"
  <2>1. PICK n \in Lengths : s \in [n : {n}, at : SameInEachRest(n)]
    BY <1>1, ZenonT(60) DEF Strings
  <2>2. s.n = n /\ s.at \in SameInEachRest(n) /\ n \in Nat
    BY <2>1, GsubAssumption
  <2>3. s.n \in Nat /\ s.at \in SameInEachRest(s.n) \cup AnyInEachRest(s.n)
    BY <2>2, GsubAssumption
  <2>4. \A k \in 0 .. s.n : s.at[k] \in Tables(s.n, {Fail, Limit})
    BY <2>3, RestTables, ZenonT(60)
  <2>. QED
    BY <2>2, <2>3, <2>4
<1>2. CASE mode = "context"
  <2>1. PICK n \in ContextLengths : s \in [n : {n}, at : AnyInEachRest(n)]
    BY <1>2, ZenonT(60) DEF Strings
  <2>2. s.n = n /\ s.at \in AnyInEachRest(n) /\ n \in Nat
    BY <2>1, GsubAssumption
  <2>3. s.n \in Nat /\ s.at \in SameInEachRest(s.n) \cup AnyInEachRest(s.n)
    BY <2>2, GsubAssumption
  <2>4. \A k \in 0 .. s.n : s.at[k] \in Tables(s.n, {Fail, Limit})
    BY <2>3, RestTables, ZenonT(60)
  <2>. QED
    BY <2>2, <2>3, <2>4
<1>3. CASE mode = "block"
  <2>1. PICK n \in BlockLengths : s \in [n : {n}, at : SameInEachRest(n)]
    BY <1>3, ZenonT(60) DEF Strings
  <2>2. s.n = n /\ s.at \in SameInEachRest(n) /\ n \in Nat
    BY <2>1, GsubAssumption
  <2>3. s.n \in Nat /\ s.at \in SameInEachRest(s.n) \cup AnyInEachRest(s.n)
    BY <2>2, GsubAssumption
  <2>4. \A k \in 0 .. s.n : s.at[k] \in Tables(s.n, {Fail, Limit})
    BY <2>3, RestTables, ZenonT(60)
  <2>. QED
    BY <2>2, <2>3, <2>4
<1>. QED
  BY <1>1, <1>2, <1>3

\* What the search in the rest finds.
LEMMA MatchRestBounds ==
  ASSUME mode \in {"plain", "context", "block"}, str \in Strings, i \in 0 .. str.n,
         MatchRest # NoMatch
  PROVE  /\ MatchRest.b \in i .. str.n /\ MatchRest.e \in MatchRest.b .. str.n
         /\ MatchRest.b \in Nat /\ MatchRest.e \in Nat
<1>1. str.n \in Nat /\ str.at[i] \in Tables(str.n, {Fail, Limit})
  BY StringParts
<1>2. i \in Int /\ Exec(str.at[i], str.n, i) # NoMatch
  BY <1>1 DEF MatchRest
<1>. QED
  BY <1>1, <1>2, ExecBounds DEF MatchRest

\* A piece that begins where the others end covers the string with them.
LEMMA TilesAppend ==
  ASSUME NEW s \in Seq(Pieces), NEW end \in Nat, Tiles(s, end), s = <<>> => end = 0,
         NEW p \in Pieces, p.b = end, p.b <= p.e
  PROVE  Append(s, p) \in Seq(Pieces) /\ Append(s, p) # <<>> /\ Tiles(Append(s, p), p.e)
<1>. DEFINE a == Append(s, p)
            L == Len(s)
<1>1. /\ a \in Seq(Pieces) /\ L \in Nat /\ Len(a) = L + 1 /\ a[L + 1] = p
      /\ \A k \in 1 .. L : a[k] = s[k]
      /\ s = <<>> <=> L = 0
  OBVIOUS
<1>2. a # <<>> /\ Last(a) = p /\ (L # 0 => Last(s) = s[L])
  BY <1>1 DEF Last
<1>3. L # 0 => s[1].b = 0 /\ s[L].e = end
  BY <1>1, <1>2 DEF Tiles
<1>4. /\ \A k \in 1 .. L : s[k].b <= s[k].e
      /\ \A k \in 1 .. L - 1 : s[k].e = s[k + 1].b
  BY DEF Tiles
<1>. HIDE DEF a, L
<1>5. a[1].b = 0
  BY <1>1, <1>3
<1>6. \A k \in 1 .. L + 1 : a[k].b <= a[k].e
  BY <1>1, <1>4
<1>7. \A k \in 1 .. L : a[k].e = a[k + 1].b
  <2>. SUFFICES ASSUME NEW k \in 1 .. L PROVE a[k].e = a[k + 1].b
    OBVIOUS
  <2>1. CASE k = L
    BY <1>1, <1>3, <2>1
  <2>2. CASE k # L
    <3>1. k \in 1 .. L - 1 /\ k + 1 \in 1 .. L
      BY <1>1, <2>2
    <3>. QED
      BY <1>1, <1>4, <3>1
  <2>. QED
    BY <2>1, <2>2
<1>8. Len(a) = L + 1 /\ Len(a) - 1 = L
  BY <1>1
<1>9. Tiles(a, p.e)
  BY <1>2, <1>5, <1>6, <1>7, <1>8 DEF Tiles
<1>. QED
  BY <1>1, <1>2, <1>9 DEF a

\* The loop starts in the invariant.
LEMMA InitIInv == Init => IInv
<1>. SUFFICES ASSUME Init PROVE IInv
  OBVIOUS
<1>1. str.n \in Nat
  BY StringParts DEF Init
<1>. QED
  BY <1>1, GsubAssumption
  DEF Init, IInv, TypeOK, Covered, Behindhand, GsubTiles, GsubRepeatsOnlyEmpty, Tiles

\* What a step of the loop starts from.
LEMMA LoopFacts ==
  ASSUME IInv
  PROVE  /\ str.n \in Nat /\ i \in Nat
         /\ mode # "block" => i \in 0 .. str.n
         /\ r \in Seq(Pieces) /\ Len(r) \in Nat
         /\ \A k \in 1 .. Len(r) : r[k] \in Pieces
<1>1. r \in Seq(Pieces)
  BY DEF IInv, TypeOK, Pieces
<1>2. str.n \in Nat
  BY StringParts DEF IInv
<1>3. \A k \in 1 .. Len(r) : r[k] \in Pieces
  BY <1>1
<1>. QED
  BY <1>1, <1>2, <1>3, GsubAssumption DEF IInv, TypeOK

\* The pieces of the code are pieces.
LEMMA PieceTypes ==
  /\ \A b, e \in Nat : Text(b, e) \in Pieces
  /\ \A x : x.b \in Nat /\ x.e \in Nat => Repl(x) \in Pieces
  /\ \A b, e : Text(b, e).kind = "text" /\ Text(b, e).b = b /\ Text(b, e).e = e
  /\ \A x : Repl(x).kind = "repl" /\ Repl(x).b = x.b /\ Repl(x).e = x.e
  /\ \A p \in Pieces : p.b \in Int /\ p.e \in Int
BY DEF Pieces, Text, Repl

\* Appending a text keeps what is said of the replaced matches.
LEMMA TextRepeats ==
  ASSUME IInv, NEW p \in Pieces, p.kind = "text", r' = Append(r, p)
  PROVE  GsubRepeatsOnlyEmpty'
<1>. DEFINE L == Len(r)
<1>1. /\ L \in Nat /\ Len(r') = L + 1 /\ r'[L + 1] = p
      /\ \A k \in 1 .. L : r'[k] = r[k]
  BY LoopFacts
<1>2. \A j, k \in 1 .. L :
        j < k /\ r[j] = r[k] /\ r[j].kind = "repl" => k = j + 2 /\ r[j].b = r[j].e
  BY DEF IInv, GsubRepeatsOnlyEmpty
<1>. HIDE DEF L
<1>3. ASSUME NEW j \in 1 .. L + 1, NEW k \in 1 .. L + 1,
             j < k, r'[j] = r'[k], r'[j].kind = "repl"
      PROVE  k = j + 2 /\ r'[j].b = r'[j].e
  <2>1. j # L + 1 /\ k # L + 1
    BY <1>1, <1>3
  <2>. QED
    BY <1>1, <1>2, <1>3, <2>1
<1>. QED
  BY <1>1, <1>3 DEF GsubRepeatsOnlyEmpty

\* Copying a character behind an empty match keeps the invariant.
LEMMA SkipIInv == IInv /\ Skip => IInv'
<1>. SUFFICES ASSUME IInv, Skip PROVE IInv'
  OBVIOUS
<1>1. pc = "skip" /\ UNCHANGED <<mode, str>>
  BY DEF Skip
<1>2. (mode' \in {"plain", "context", "block"} /\ str' \in Strings')
  BY <1>1 DEF IInv, Strings
<1>3. CASE i >= str.n
  <2>1. pc' = "raised" /\ UNCHANGED <<r, i>>
    BY <1>3, LoopFacts DEF Skip
  <2>2. mode = "block"
    BY <1>1, <1>3, LoopFacts DEF IInv, Covered
  <2>. QED
    BY <1>1, <1>2, <2>1, <2>2
    DEF IInv, TypeOK, Covered, Behindhand, GsubTiles, GsubRepeatsOnlyEmpty
<1>4. CASE i < str.n
  <2>. DEFINE p == Text(i, i + 1)
  <2>1. r' = Append(r, p) /\ i' = i + 1 /\ pc' = "loop"
    BY <1>4 DEF Skip
  <2>2. /\ p \in Pieces /\ p.kind = "text" /\ p.b = i /\ p.e = i + 1
        /\ i + 1 \in Nat
    BY <1>4, LoopFacts, PieceTypes
  <2>. HIDE DEF p
  <2>3. r' \in Seq(Pieces) /\ r' # <<>>
    BY <2>1, <2>2, LoopFacts
  <2>4. TypeOK'
    <3>1. str'.n \in Nat /\ i' \in 0 .. str'.n /\ i' \in Nat
      BY <1>1, <1>4, <2>1, LoopFacts
    <3>. QED
      BY <2>1, <2>3, <3>1 DEF TypeOK, Pieces
  <2>5. mode # "block" => Tiles(r', i + 1)
    BY <1>1, <2>1, <2>2, LoopFacts, TilesAppend DEF IInv, Covered
  <2>a. mode # "block" => Tiles(r', i')
    BY <2>1, <2>5
  <2>b. i' <= str'.n
    BY <1>1, <1>4, <2>1, LoopFacts
  <2>6. Covered' /\ GsubTiles'
    BY <1>1, <2>1, <2>3, <2>a, <2>b DEF Covered, GsubTiles
  <2>7. Behindhand'
    <3>1. /\ \A k \in 1 .. Len(r) : r[k].kind = "repl" => r[k].e < i + 1
          /\ \A k \in 1 .. Len(r) : r[k].e \in Int
      BY <1>1, LoopFacts, PieceTypes DEF IInv, Behindhand
    <3>2. /\ Len(r') = Len(r) + 1 /\ r'[Len(r) + 1] = p
          /\ \A k \in 1 .. Len(r) : r'[k] = r[k]
      BY <2>1, LoopFacts
    <3>3. \A k \in 1 .. Len(r') : r'[k].kind = "repl" => k \in 1 .. Len(r) /\ r'[k].e < i + 1
      BY <2>2, <3>1, <3>2, LoopFacts
    <3>4. \A k \in 1 .. Len(r') : r'[k].kind = "repl" => r'[k].e <= i + 1
      <4>1. \A k \in 1 .. Len(r) : r'[k].e \in Int
        BY <3>1, <3>2
      <4>2. i \in Int
        BY LoopFacts
      <4>. QED
        BY <3>3, <4>1, <4>2
    <3>. QED
      BY <2>1, <3>2, <3>3, <3>4, LoopFacts DEF Behindhand
  <2>. QED
    BY <1>2, <2>1, <2>2, <2>4, <2>6, <2>7, TextRepeats DEF IInv
<1>. QED
  BY <1>3, <1>4, LoopFacts

\* Ending the loop keeps the invariant.
LEMMA NoMoreMatchesIInv == IInv /\ NoMoreMatches => IInv'
BY DEF NoMoreMatches, IInv, TypeOK, Strings, Covered, Behindhand, GsubTiles, Tiles,
       GsubRepeatsOnlyEmpty

\* Appending the rest of the string keeps the invariant.
LEMMA AppendRestIInv == IInv /\ AppendRest => IInv'
<1>. SUFFICES ASSUME IInv, AppendRest PROVE IInv'
  OBVIOUS
<1>1. pc = "rest" /\ UNCHANGED <<mode, str, i>>
  BY DEF AppendRest
<1>2. (mode' \in {"plain", "context", "block"} /\ str' \in Strings')
  BY <1>1 DEF IInv, Strings
<1>3. CASE i > str.n
  <2>1. pc' = "raised" /\ r' = r
    BY <1>3, LoopFacts DEF AppendRest
  <2>2. mode = "block"
    BY <1>3, LoopFacts
  <2>. QED
    BY <1>1, <1>2, <2>1, <2>2
    DEF IInv, TypeOK, Covered, Behindhand, GsubTiles, GsubRepeatsOnlyEmpty
<1>4. CASE i <= str.n
  <2>. DEFINE p == Text(i, str.n)
  <2>1. r' = Append(r, p) /\ pc' = "done"
    BY <1>4 DEF AppendRest
  <2>2. p \in Pieces /\ p.kind = "text" /\ p.b = i /\ p.e = str.n
    BY LoopFacts, PieceTypes
  <2>. HIDE DEF p
  <2>3. r' \in Seq(Pieces) /\ r' # <<>>
    BY <2>1, <2>2, LoopFacts
  <2>4. mode # "block" => Tiles(r', str.n)
    BY <1>1, <1>4, <2>1, <2>2, LoopFacts, TilesAppend DEF IInv, Covered
  <2>5. Covered' /\ GsubTiles'
    BY <1>1, <1>4, <2>1, <2>3, <2>4, LoopFacts DEF Covered, GsubTiles, Tiles
  <2>6. TypeOK' /\ Behindhand'
    BY <1>1, <2>1, <2>3 DEF IInv, TypeOK, Pieces, Behindhand
  <2>. QED
    BY <1>2, <2>1, <2>2, <2>5, <2>6, TextRepeats DEF IInv
<1>. QED
  BY <1>3, <1>4, LoopFacts

\* Two pieces more.
LEMMA AppendTwo ==
  ASSUME NEW s \in Seq(Pieces), NEW x \in Pieces, NEW y \in Pieces
  PROVE  /\ s \o <<x, y>> = Append(Append(s, x), y)
         /\ s \o <<x, y>> \in Seq(Pieces) /\ s \o <<x, y>> # <<>>
         /\ Len(s \o <<x, y>>) = Len(s) + 2
         /\ (s \o <<x, y>>)[Len(s) + 1] = x /\ (s \o <<x, y>>)[Len(s) + 2] = y
         /\ \A k \in 1 .. Len(s) : (s \o <<x, y>>)[k] = s[k]
OBVIOUS

\* Replacing a match keeps the invariant, whatever the block does.
LEMMA ReplaceIInv == IInv /\ Replace => IInv'
<1>. SUFFICES ASSUME IInv, Replace PROVE IInv'
  OBVIOUS
<1>. DEFINE b == MatchRest.b
            e == MatchRest.e
            x == Text(i, b)
            y == Repl(MatchRest)
            L == Len(r)
<1>1. /\ pc = "loop" /\ mode' = mode /\ r' = r \o <<x, y>>
      /\ i \in 0 .. str.n /\ MatchRest # NoMatch
      /\ mode \in {"plain", "context", "block"} /\ str \in Strings
  BY LoopFacts DEF Replace, IInv
<1>2. /\ b \in i .. str.n /\ e \in b .. str.n /\ b \in Nat /\ e \in Nat
  BY <1>1, MatchRestBounds, LoopFacts
<1>3. /\ x \in Pieces /\ x.kind = "text" /\ x.b = i /\ x.e = b
      /\ y \in Pieces /\ y.kind = "repl" /\ y.b = b /\ y.e = e
  BY <1>2, LoopFacts, PieceTypes
<1>4. /\ str' \in Strings /\ (mode # "block" => str' = str)
      /\ mode' \in {"plain", "context", "block"} /\ str' \in Strings'
  BY <1>1 DEF Replace, Strings
<1>5. str'.n \in Nat
  BY <1>1, <1>4, StringParts
<1>6. \/ AtEnd(str'.n) /\ pc' = "rest" /\ i' = i
      \/ ~AtEnd(str'.n) /\ e > i /\ i' = e /\ pc' = "loop"
      \/ ~AtEnd(str'.n) /\ e = i /\ pc' = "skip" /\ i' = i
  BY DEF Replace, Behind
<1>. HIDE DEF b, e, x, y, L
<1>7. /\ L \in Nat /\ r' = Append(Append(r, x), y) /\ r' \in Seq(Pieces) /\ r' # <<>>
      /\ Len(r') = L + 2 /\ r'[L + 1] = x /\ r'[L + 2] = y
      /\ \A k \in 1 .. L : r'[k] = r[k] /\ r[k] \in Pieces
  BY <1>1, <1>3, LoopFacts, AppendTwo DEF L
<1>8. TypeOK'
  <2>1. i \in Nat /\ str.n \in Nat /\ i' \in Nat
    BY <1>2, <1>6, LoopFacts
  <2>2. mode # "block" => i' \in 0 .. str'.n
    BY <1>2, <1>4, <1>6, <2>1
  <2>3. pc' \in {"loop", "skip", "rest"}
    BY <1>6
  <2>. QED
    BY <1>1, <1>5, <1>7, <2>1, <2>2, <2>3 DEF TypeOK, Pieces
<1>9. mode # "block" => Tiles(r', e)
  <2>. SUFFICES ASSUME mode # "block" PROVE Tiles(r', e)
    OBVIOUS
  <2>1. Tiles(r, i) /\ (r = <<>> => i = 0)
    BY <1>1 DEF IInv, Covered
  <2>. DEFINE s == Append(r, x)
  <2>2. s \in Seq(Pieces) /\ s # <<>> /\ Tiles(s, b)
    <3>1. /\ r \in Seq(Pieces) /\ i \in Nat /\ x \in Pieces
          /\ x.b = i /\ x.e = b /\ x.b <= x.e
      BY <1>2, <1>3, LoopFacts
    <3>2. Append(r, x) \in Seq(Pieces) /\ Append(r, x) # <<>> /\ Tiles(Append(r, x), x.e)
      BY <2>1, <3>1, TilesAppend
    <3>. QED
      BY <3>1, <3>2
  <2>3. r' = Append(s, y) /\ y.b <= y.e
    BY <1>2, <1>3, <1>7
  <2>. HIDE DEF s
  <2>4. Tiles(Append(s, y), y.e)
    BY <1>2, <1>3, <2>2, <2>3, TilesAppend
  <2>. QED
    BY <1>3, <2>3, <2>4
<1>10. Covered' /\ GsubTiles'
  <2>1. mode # "block" => Tiles(r', i')
    BY <1>1, <1>2, <1>4, <1>6, <1>9, LoopFacts DEF AtEnd
  <2>2. mode # "block" /\ pc' = "skip" => i' < str'.n
    BY <1>1, <1>4, <1>6, LoopFacts DEF AtEnd
  <2>3. r' # <<>> /\ mode' = mode
    BY <1>1, <1>7
  <2>. QED
    BY <1>6, <2>1, <2>2, <2>3 DEF Covered, GsubTiles
<1>11. /\ \A k \in 1 .. L : r[k].kind = "repl" => r[k].e <= i
       /\ \A k \in 1 .. L - 1 : r[k].kind = "repl" => r[k].e < i
       /\ \A k \in 1 .. L : r[k].e \in Int
  BY <1>1, <1>7, PieceTypes DEF IInv, Behindhand, L
<1>12. Behindhand'
  <2>. SUFFICES ASSUME NEW k \in 1 .. L + 2, r'[k].kind = "repl", pc' \in {"loop", "skip"}
                PROVE  /\ r'[k].e <= i'
                       /\ k # L + 2 /\ pc' = "loop" => r'[k].e < i'
    BY <1>7 DEF Behindhand
  <2>1. CASE k = L + 2
    BY <1>2, <1>3, <1>6, <1>7, <2>1
  <2>2. CASE k = L + 1
    BY <1>3, <1>7, <2>2
  <2>3. CASE k \in 1 .. L
    BY <1>2, <1>6, <1>7, <1>11, <2>3, LoopFacts
  <2>. QED
    BY <1>7, <2>1, <2>2, <2>3
<1>13. GsubRepeatsOnlyEmpty'
  <2>. SUFFICES ASSUME NEW j \in 1 .. L + 2, NEW k \in 1 .. L + 2,
                       j < k, r'[j] = r'[k], r'[j].kind = "repl"
                PROVE  k = j + 2 /\ r'[j].b = r'[j].e
    BY <1>7 DEF GsubRepeatsOnlyEmpty
  <2>1. j # L + 1 /\ k # L + 1 /\ j \in 1 .. L
    BY <1>3, <1>7
  <2>2. CASE k = L + 2
    <3>1. r[j] = y /\ r[j].e = e /\ r[j].kind = "repl"
      BY <1>3, <1>7, <2>1, <2>2
    <3>2. j = L
      BY <1>2, <1>7, <1>11, <2>1, <3>1, LoopFacts
    <3>3. b = e
      BY <1>2, <1>11, <2>1, <3>1, LoopFacts
    <3>. QED
      BY <1>3, <1>7, <2>1, <2>2, <3>1, <3>2, <3>3
  <2>3. CASE k \in 1 .. L
    BY <1>7, <2>1, <2>3 DEF IInv, GsubRepeatsOnlyEmpty, L
  <2>. QED
    BY <1>7, <2>1, <2>2, <2>3
<1>. QED
  BY <1>4, <1>8, <1>10, <1>12, <1>13 DEF IInv

\* String#sub keeps the invariant.
LEMMA SubIInv == IInv /\ Sub => IInv'
<1>. SUFFICES ASSUME IInv, Sub PROVE IInv'
  OBVIOUS
<1>1. /\ i = 0 /\ r = <<>> /\ pc' = "sub" /\ UNCHANGED <<mode, str, i>>
      /\ mode \in {"plain", "context", "block"} /\ str \in Strings /\ i \in 0 .. str.n
  BY LoopFacts DEF Sub, IInv
<1>2. mode' \in {"plain", "context", "block"} /\ str' \in Strings'
  BY <1>1 DEF Strings
<1>3. <<>> \in Seq(Pieces) /\ Tiles(<<>>, 0)
  BY DEF Tiles
<1>4. CASE MatchRest = NoMatch
  <2>. DEFINE x == Text(0, str.n)
  <2>1. r' = <<x>> /\ <<x>> = Append(<<>>, x)
    BY <1>4 DEF Sub
  <2>2. x \in Pieces /\ x.kind = "text" /\ x.b = 0 /\ x.e = str.n
    BY LoopFacts, PieceTypes
  <2>. HIDE DEF x
  <2>3. r' \in Seq(Pieces) /\ r' # <<>> /\ Tiles(r', str.n)
    <3>1. x.b <= x.e /\ 0 \in Nat
      BY <2>2, LoopFacts
    <3>2. LET s == Append(<<>>, x) IN s \in Seq(Pieces) /\ s # <<>> /\ Tiles(s, x.e)
      BY <1>3, <2>2, <3>1, TilesAppend, ZenonT(60)
    <3>. QED
      BY <2>1, <2>2, <3>2
  <2>4. GsubRepeatsOnlyEmpty'
    BY <2>1, <2>2 DEF GsubRepeatsOnlyEmpty
  <2>. QED
    BY <1>1, <1>2, <2>3, <2>4 DEF IInv, TypeOK, Pieces, Covered, Behindhand, GsubTiles
<1>5. CASE MatchRest # NoMatch
  <2>. DEFINE b == MatchRest.b
              e == MatchRest.e
              x == Text(0, b)
              y == Repl(MatchRest)
              z == Text(e, str.n)
  <2>1. r' = <<x, y, z>> /\ <<x, y, z>> = Append(Append(Append(<<>>, x), y), z)
    BY <1>5 DEF Sub
  <2>2. /\ b \in 0 .. str.n /\ e \in b .. str.n /\ b \in Nat /\ e \in Nat
    BY <1>1, <1>5, MatchRestBounds, LoopFacts
  <2>3. /\ x \in Pieces /\ x.kind = "text" /\ x.b = 0 /\ x.e = b
        /\ y \in Pieces /\ y.kind = "repl" /\ y.b = b /\ y.e = e
        /\ z \in Pieces /\ z.kind = "text" /\ z.b = e /\ z.e = str.n
    BY <2>2, LoopFacts, PieceTypes
  <2>. HIDE DEF b, e, x, y, z
  <2>. DEFINE s1 == Append(<<>>, x)
              s2 == Append(s1, y)
  <2>4. x.b <= x.e /\ y.b <= y.e /\ z.b <= z.e /\ 0 \in Nat
    BY <2>2, <2>3
  <2>5. s1 \in Seq(Pieces) /\ s1 # <<>> /\ Tiles(s1, x.e)
    BY <1>3, <2>3, <2>4, TilesAppend, ZenonT(60)
  <2>. HIDE DEF s1
  <2>6. s2 \in Seq(Pieces) /\ s2 # <<>> /\ Tiles(s2, y.e)
    BY <2>2, <2>3, <2>4, <2>5, TilesAppend, ZenonT(60)
  <2>. HIDE DEF s2
  <2>7. Append(s2, z) \in Seq(Pieces) /\ Append(s2, z) # <<>> /\ Tiles(Append(s2, z), z.e)
    BY <2>2, <2>3, <2>4, <2>6, TilesAppend, ZenonT(60)
  <2>8. r' \in Seq(Pieces) /\ r' # <<>> /\ Tiles(r', str.n)
    BY <2>1, <2>3, <2>7 DEF s1, s2
  <2>9. GsubRepeatsOnlyEmpty'
    BY <2>1, <2>3 DEF GsubRepeatsOnlyEmpty
  <2>. QED
    BY <1>1, <1>2, <2>8, <2>9 DEF IInv, TypeOK, Pieces, Covered, Behindhand, GsubTiles
<1>. QED
  BY <1>4, <1>5

\* The inductive invariant holds in every state.
THEOREM Invariance == Spec => []IInv
<1>1. IInv /\ UNCHANGED vars => IInv'
  BY DEF vars, IInv, TypeOK, Strings, Covered, Behindhand, GsubTiles, Tiles,
         GsubRepeatsOnlyEmpty
<1>2. IInv /\ [Next]_vars => IInv'
  BY ReplaceIInv, SkipIInv, NoMoreMatchesIInv, AppendRestIInv, SubIInv, <1>1 DEF Next
<1>. QED
  BY InitIInv, <1>2, PTL DEF Spec

\* gsub and sub lose no text of the string and double none.
THEOREM TilesTheString == Spec => []GsubTiles
<1>1. IInv => GsubTiles
  BY DEF IInv
<1>. QED
  BY Invariance, <1>1, PTL

\* Only an empty match is replaced twice, and then twice in a row.
THEOREM RepeatsOnlyEmpty == Spec => []GsubRepeatsOnlyEmpty
<1>1. IInv => GsubRepeatsOnlyEmpty
  BY DEF IInv
<1>. QED
  BY Invariance, <1>1, PTL

\* Every variable keeps its type; the rest starts in the string and nothing is
\* raised, as long as the block leaves the string alone.
THEOREM TypeCorrect == Spec => []TypeOK
<1>1. IInv => TypeOK
  BY DEF IInv
<1>. QED
  BY Invariance, <1>1, PTL
-----------------------------------------------------------------------------
\* The matches of the pattern in the string from a position on, when what is
\* tried does not depend on where the rest starts.
FromHere(p) == From(str.at[0], str.n)[p]

\* What was replaced, and what remains to be found, are all matches, when the
\* pattern ignores what precedes the place where it is tried.
Remaining ==
  mode = "plain" =>
    LET all == AllMatches(str.at[0], str.n) IN
    /\ pc = "loop" => Replaced \cup FromHere(i) = all
    /\ pc = "skip" => Replaced \cup FromHere(i + 1) = all
    /\ pc \in {"rest", "done"} => Replaced = all

ReplacedIn(s) == {[b |-> x.b, e |-> x.e] : x \in {y \in ToSet(s) : y.kind = "repl"}}

\* A text appended to the result is no match replaced, a replacement is one.
LEMMA ReplacedAppend ==
  ASSUME NEW s \in Seq(Pieces), NEW p \in Pieces
  PROVE  ReplacedIn(Append(s, p)) =
           ReplacedIn(s) \cup IF p.kind = "repl" THEN {[b |-> p.b, e |-> p.e]} ELSE {}
<1>. DEFINE a == Append(s, p)
            L == Len(s)
<1>1. /\ L \in Nat /\ DOMAIN s = 1 .. L /\ DOMAIN a = 1 .. L + 1
      /\ a[L + 1] = p /\ \A k \in 1 .. L : a[k] = s[k]
  OBVIOUS
<1>2. ToSet(a) = ToSet(s) \cup {p}
  <2>. HIDE DEF a, L
  <2>1. \A k \in 1 .. L + 1 : k \in 1 .. L \/ k = L + 1
    BY <1>1
  <2>. QED
    BY <1>1, <2>1 DEF ToSet
<1>. QED
  BY <1>2 DEF ReplacedIn

\* Then the same table is tried in each rest.
LEMMA PlainTable ==
  ASSUME mode = "plain", str \in Strings
  PROVE  /\ str.n \in Nat /\ str.at[0] \in AnyTable(str.n)
         /\ \A k \in 0 .. str.n : str.at[k] = str.at[0]
<1>1. PICK n \in Lengths : str \in [n : {n}, at : SameInEachRest(n)]
  BY ZenonT(60) DEF Strings
<1>2. str.n = n /\ str.at \in SameInEachRest(n) /\ n \in Nat
  BY <1>1, GsubAssumption
<1>3. PICK t \in Tables(n, {Fail, Limit}) : str.at = [k \in 0 .. n |-> t]
  BY <1>2 DEF SameInEachRest
<1>. QED
  BY <1>2, <1>3 DEF AnyTable

\* What a step starts from, when the table is the same in each rest.
LEMMA PlainFacts ==
  ASSUME IInv, mode = "plain", pc # "sub"
  PROVE  /\ str.n \in Nat /\ str.at[0] \in AnyTable(str.n)
         /\ i \in 0 .. str.n /\ i \in Int
         /\ MatchRest = Exec(str.at[0], str.n, i)
<1>1. str \in Strings /\ i \in Nat /\ i <= str.n
  BY LoopFacts DEF IInv, Covered
<1>2. str.n \in Nat /\ i \in 0 .. str.n
  BY <1>1, PlainTable
<1>. QED
  BY <1>1, <1>2, PlainTable DEF MatchRest

\* At the start all matches remain to be found.
LEMMA InitRemaining == Init => Remaining
<1>. SUFFICES ASSUME Init PROVE Remaining
  OBVIOUS
<1>1. Replaced = {} /\ i = 0 /\ pc = "loop"
  BY DEF Init, Replaced, ToSet
<1>. QED
  BY <1>1, AllMatchesIsFrom DEF Remaining, FromHere

\* Replacing a match takes it from what remains.
LEMMA ReplaceRemaining == IInv /\ Remaining /\ Replace => Remaining'
<1>. SUFFICES ASSUME IInv, Remaining, Replace, mode = "plain" PROVE Remaining'
  BY DEF Remaining, Replace
<1>. DEFINE n == str.n
            t == str.at[0]
            x == MatchRest
            p == Text(i, x.b)
            q == Repl(x)
<1>1. /\ pc = "loop" /\ mode' = mode /\ str' = str /\ r' = r \o <<p, q>>
      /\ i \in 0 .. str.n /\ MatchRest # NoMatch
      /\ mode \in {"plain", "context", "block"} /\ str \in Strings
  BY LoopFacts DEF Replace, IInv
<1>2. /\ n \in Nat /\ t \in AnyTable(n) /\ i \in 0 .. n /\ i \in Int
      /\ x = Exec(t, n, i)
  BY <1>1, PlainFacts
<1>3. /\ x.b \in i .. n /\ x.e \in x.b .. n /\ x.b \in Nat /\ x.e \in Nat
      /\ x = [b |-> x.b, e |-> x.e]
  <2>1. /\ x.b \in i .. n /\ x.e \in x.b .. n
    BY <1>1, MatchRestBounds
  <2>2. x = [b |-> x.b, e |-> x.e]
    BY DEF MatchRest, Exec, NoMatch
  <2>. HIDE DEF x
  <2>. QED
    BY <1>2, <2>1, <2>2, LoopFacts
<1>4. Replaced' = Replaced \cup {x}
  <2>1. p \in Pieces /\ p.kind = "text" /\ q \in Pieces /\ q.kind = "repl" /\ q.b = x.b /\ q.e = x.e
    BY <1>3, LoopFacts, PieceTypes
  <2>. HIDE DEF p, q, x
  <2>2. r \in Seq(Pieces) /\ Append(r, p) \in Seq(Pieces) /\ r' = Append(Append(r, p), q)
    BY <1>1, <2>1, LoopFacts, AppendTwo
  <2>3. ReplacedIn(Append(r, p)) = ReplacedIn(r)
    BY <2>1, <2>2, ReplacedAppend
  <2>4. ReplacedIn(Append(Append(r, p), q)) = ReplacedIn(Append(r, p)) \cup {x}
    BY <1>3, <2>1, <2>2, ReplacedAppend
  <2>5. Replaced = ReplacedIn(r) /\ Replaced' = ReplacedIn(r')
    BY DEF Replaced, ReplacedIn
  <2>. QED
    BY <2>2, <2>3, <2>4, <2>5
<1>5. FromHere(i) = {x} \cup FromHere(GoesOn(x, i))
  <2>1. Exec(t, n, i) # NoMatch
    BY <1>1, <1>2
  <2>. HIDE DEF t, n, x
  <2>2. From(t, n)[i] = {Exec(t, n, i)} \cup From(t, n)[GoesOn(Exec(t, n, i), i)]
    BY <1>2, <2>1, FromLoop
  <2>. QED
    BY <1>2, <2>2 DEF FromHere, t, n
<1>6. Replaced \cup FromHere(i) = AllMatches(t, n)
  BY <1>1 DEF Remaining
<1>7. Replaced' \cup FromHere(GoesOn(x, i)) = AllMatches(t, n)
  BY <1>4, <1>5, <1>6
<1>8. \/ i = n /\ pc' = "rest" /\ i' = i
      \/ x.e > i /\ i' = x.e /\ pc' = "loop"
      \/ x.e = i /\ pc' = "skip" /\ i' = i
  BY <1>1 DEF Replace, Behind, AtEnd
<1>9. \A z : FromHere(z)' = FromHere(z)
  BY <1>1 DEF FromHere
<1>. HIDE DEF x
<1>10. CASE i = n /\ pc' = "rest" /\ i' = i
  <2>1. GoesOn(x, i) = n + 1
    BY <1>2, <1>3, <1>10 DEF GoesOn
  <2>2. FromHere(n + 1) = {}
    <3>. HIDE DEF n, t
    <3>1. n + 1 \in 0 .. n + 1
      BY <1>2
    <3>2. From(t, n)[n + 1] = {}
      BY <1>2, <3>1, FromNone
    <3>. QED
      BY <3>2 DEF FromHere, n, t
  <2>. QED
    BY <1>1, <1>7, <1>10, <2>1, <2>2 DEF Remaining
<1>11. CASE x.e > i /\ i' = x.e /\ pc' = "loop"
  <2>1. GoesOn(x, i) = x.e
    BY <1>11 DEF GoesOn
  <2>2. FromHere(i)' = FromHere(GoesOn(x, i))
    BY <1>1, <1>11, <2>1 DEF FromHere
  <2>. QED
    BY <1>1, <1>7, <1>11, <2>2 DEF Remaining
<1>12. CASE x.e = i /\ pc' = "skip" /\ i' = i
  <2>1. GoesOn(x, i) = i + 1
    BY <1>2, <1>12 DEF GoesOn
  <2>2. FromHere(i + 1)' = FromHere(GoesOn(x, i))
    BY <1>1, <1>12, <2>1 DEF FromHere
  <2>. QED
    BY <1>1, <1>7, <1>12, <2>2 DEF Remaining
<1>. QED
  BY <1>8, <1>10, <1>11, <1>12

\* Copying the character behind an empty match replaces nothing.
LEMMA SkipRemaining == IInv /\ Remaining /\ Skip => Remaining'
<1>. SUFFICES ASSUME IInv, Remaining, Skip, mode = "plain" PROVE Remaining'
  BY DEF Remaining, Skip
<1>1. pc = "skip" /\ UNCHANGED <<mode, str>> /\ r \in Seq(Pieces) /\ i \in 0 .. str.n
  BY PlainFacts, LoopFacts DEF Skip
<1>2. CASE i < str.n
  <2>1. r' = Append(r, Text(i, i + 1)) /\ i' = i + 1 /\ pc' = "loop"
    BY <1>2 DEF Skip
  <2>2. Text(i, i + 1) \in Pieces /\ Text(i, i + 1).kind = "text"
    BY <1>2, LoopFacts, PieceTypes
  <2>3. Replaced' = Replaced
    BY <1>1, <2>1, <2>2, ReplacedAppend DEF Replaced, ReplacedIn
  <2>4. FromHere(i)' = FromHere(i + 1)
    BY <1>1, <2>1 DEF FromHere
  <2>. QED
    BY <1>1, <2>1, <2>3, <2>4 DEF Remaining
<1>3. CASE ~(i < str.n)
  BY <1>3 DEF Skip, Remaining
<1>. QED
  BY <1>2, <1>3

\* Without another match nothing remains.
LEMMA NoMoreMatchesRemaining == IInv /\ Remaining /\ NoMoreMatches => Remaining'
<1>. SUFFICES ASSUME IInv, Remaining, NoMoreMatches, mode = "plain" PROVE Remaining'
  BY DEF Remaining, NoMoreMatches
<1>. DEFINE n == str.n
            t == str.at[0]
<1>1. pc = "loop" /\ pc' = "rest" /\ UNCHANGED <<mode, str, i, r>>
  BY DEF NoMoreMatches
<1>2. /\ n \in Nat /\ t \in AnyTable(n) /\ i \in 0 .. n
      /\ MatchRest = Exec(t, n, i)
  BY <1>1, PlainFacts
<1>3. Exec(t, n, i) = NoMatch
  BY <1>2 DEF NoMoreMatches
<1>4. FromHere(i) = {}
  <2>. HIDE DEF n, t
  <2>1. i \in 0 .. n + 1
    BY <1>2
  <2>2. From(t, n)[i] = {}
    BY <1>2, <1>3, <2>1, FromNone
  <2>. QED
    BY <2>2 DEF FromHere, n, t
<1>. QED
  BY <1>1, <1>4 DEF Remaining, Replaced

\* Appending the rest of the string replaces nothing.
LEMMA AppendRestRemaining == IInv /\ Remaining /\ AppendRest => Remaining'
<1>. SUFFICES ASSUME IInv, Remaining, AppendRest, mode = "plain" PROVE Remaining'
  BY DEF Remaining, AppendRest
<1>1. pc = "rest" /\ UNCHANGED <<mode, str, i>> /\ r \in Seq(Pieces) /\ i \in 0 .. str.n
  BY PlainFacts, LoopFacts DEF AppendRest
<1>2. r' = Append(r, Text(i, str.n)) /\ pc' = "done"
  BY <1>1 DEF AppendRest
<1>3. Text(i, str.n) \in Pieces /\ Text(i, str.n).kind = "text"
  BY LoopFacts, PieceTypes
<1>4. Replaced' = Replaced
  BY <1>1, <1>2, <1>3, ReplacedAppend DEF Replaced, ReplacedIn
<1>. QED
  BY <1>1, <1>2, <1>4 DEF Remaining

\* What was replaced and what remains are all matches, in every state.
LEMMA RemainingInvariance == Spec => []Remaining
<1>1. IInv /\ Remaining /\ [Next]_vars => Remaining'
  <2>1. Remaining /\ UNCHANGED vars => Remaining'
    BY DEF vars, Remaining, Replaced, FromHere
  <2>2. Remaining /\ Sub => Remaining'
    BY DEF Sub, Remaining
  <2>. QED
    BY ReplaceRemaining, SkipRemaining, NoMoreMatchesRemaining, AppendRestRemaining,
       <2>1, <2>2 DEF Next
<1>. QED
  BY InitRemaining, Invariance, <1>1, PTL DEF Spec

\* gsub replaces the matches of the pattern, each of them and nothing else,
\* when the pattern ignores what precedes the place where it is tried.
THEOREM FindsAll == Spec => []GsubFindsAll
<1>1. Remaining => GsubFindsAll
  BY DEF Remaining, GsubFindsAll
<1>. QED
  BY RemainingInvariance, <1>1, PTL
-----------------------------------------------------------------------------
\* What is left to do: 4 for each character of the rest, and the steps up to
\* the next one.
Rank    == [loop |-> 3, skip |-> 2, rest |-> 1, done |-> 0, raised |-> 0, sub |-> 0]
Left    == IF i <= str.n THEN str.n - i ELSE 0
Variant == 4 * Left + Rank[pc]

\* A step leaves less to do, unless the block makes the string longer.
Falls == ~Grows => Variant' < Variant

\* The variant is a natural number.
LEMMA RankType ==
  IInv => /\ str.n \in Nat /\ i \in Nat /\ Left \in Nat
          /\ Rank[pc] \in 0 .. 3 /\ Variant \in Nat
<1>. SUFFICES ASSUME IInv
              PROVE  /\ str.n \in Nat /\ i \in Nat /\ Left \in Nat
                     /\ Rank[pc] \in 0 .. 3 /\ Variant \in Nat
  OBVIOUS
<1>1. pc \in {"loop", "skip", "rest", "done", "raised", "sub"} /\ i \in Nat /\ str.n \in Nat
  BY DEF IInv, TypeOK
<1>2. Rank[pc] \in 0 .. 3
  BY <1>1 DEF Rank
<1>3. Left \in Nat
  BY <1>1 DEF Left
<1>. QED
  BY <1>1, <1>2, <1>3 DEF Variant

\* Moving on in the string outweighs the steps up to the next round.
LEMMA Less ==
  \A a, b, x, y \in Int :
    (b <= a /\ y < x) \/ (b + 1 <= a /\ y < x + 4) => 4 * b + y < 4 * a + x
OBVIOUS

\* Each step of gsub and sub leaves less to do, unless the block makes the
\* string longer: a step that does not move on in the string goes to a later
\* part of the loop.
THEOREM Progress == Spec => [](Variant \in Nat) /\ [][Falls]_vars
<1>1. IInv => Variant \in Nat
  BY RankType
<1>2. IInv /\ IInv' /\ [Next]_vars => [Falls]_vars
  <2>. SUFFICES ASSUME IInv, IInv', Next, ~Grows PROVE Variant' < Variant
    BY DEF Falls
  <2>1. /\ i \in Nat /\ i' \in Nat /\ str.n \in Nat /\ str'.n \in Nat
        /\ Left \in Int /\ Left' \in Int
        /\ Rank[pc] \in Int /\ Rank[pc'] \in Int
        /\ str'.n <= str.n
    <3>1. (Rank[pc] \in 0 .. 3)' /\ (str.n \in Nat)' /\ (i \in Nat)' /\ (Left \in Nat)'
      BY RankType, PTL
    <3>. QED
      BY <3>1, RankType DEF Grows
  <2>2. i' = i => Left' <= Left
    BY <2>1 DEF Left
  <2>3. i < str.n /\ i' >= i + 1 => Left' + 1 <= Left
    BY <2>1 DEF Left
  <2>4. \/ Left' <= Left /\ Rank[pc'] < Rank[pc]
        \/ Left' + 1 <= Left /\ Rank[pc'] < Rank[pc] + 4
    <3>1. CASE Replace
      <4>1. /\ pc = "loop"
            /\ \/ pc' = "rest" /\ i' = i
               \/ MatchRest.e > i /\ i' = MatchRest.e /\ pc' = "loop"
               \/ pc' = "skip" /\ i' = i
        BY <3>1 DEF Replace, Behind
      <4>2. MatchRest.e > i /\ i' = MatchRest.e => i < str.n /\ i' >= i + 1
        <5>1. /\ i \in 0 .. str.n /\ MatchRest # NoMatch
              /\ mode \in {"plain", "context", "block"} /\ str \in Strings
          BY <2>1, <3>1 DEF Replace, IInv
        <5>2. MatchRest.e \in MatchRest.b .. str.n /\ MatchRest.b \in Nat
          BY <5>1, MatchRestBounds
        <5>. QED
          BY <2>1, <5>2
      <4>. QED
        BY <2>2, <2>3, <4>1, <4>2 DEF Rank
    <3>2. CASE Skip
      <4>1. /\ pc = "skip"
            /\ \/ pc' = "loop" /\ i' = i + 1 /\ i < str.n
               \/ pc' = "raised" /\ i' = i
        BY <3>2 DEF Skip
      <4>2. pc' = "loop" => i' >= i + 1 /\ i < str.n
        BY <2>1, <4>1
      <4>3. CASE pc' = "loop"
        BY <2>3, <4>1, <4>2, <4>3 DEF Rank
      <4>4. CASE pc' = "raised"
        BY <2>2, <4>1, <4>4 DEF Rank
      <4>. QED
        BY <4>1, <4>3, <4>4
    <3>3. CASE NoMoreMatches
      BY <2>2, <3>3 DEF NoMoreMatches, Rank
    <3>4. CASE AppendRest
      BY <2>2, <3>4 DEF AppendRest, Rank
    <3>5. CASE Sub
      BY <2>2, <3>5 DEF Sub, Rank
    <3>. QED
      BY <3>1, <3>2, <3>3, <3>4, <3>5 DEF Next
  <2>5. 4 * Left' + Rank[pc'] < 4 * Left + Rank[pc]
    <3>. HIDE DEF Left, Rank
    <3>. QED
      BY <2>1, <2>4, Less
  <2>. QED
    BY <2>5 DEF Variant
<1>. QED
  BY <1>1, <1>2, Invariance, PTL DEF Spec
=============================================================================
