------------------------- MODULE StringScan_proofs -------------------------
(***************************************************************************)
(* Proofs about StringScan, for strings of any length and a block that     *)
(* replaces the string with any other: the matches come in order, only an  *)
(* empty one may come twice, every match is found as long as the string    *)
(* stays, and each step that does not make the string longer leaves less   *)
(* to do.                                                                  *)
(***************************************************************************)
EXTENDS StringScan, PcreExec_proofs

\* The matches returned end at the search position or before it, all but the
\* last strictly before it.  The match to be passed to the block is behind
\* them.
Behindhand ==
  /\ str \in Strings(Nat)
  /\ \A k \in 1 .. Len(ret) : ret[k].b <= ret[k].e
  /\ pc = "match" => /\ \A k \in 1 .. Len(ret) : ret[k].e <= i
                     /\ \A k \in 1 .. Len(ret) - 1 : ret[k].e < i
  /\ pc = "yield" => /\ m.b <= m.e /\ m.e <= i
                     /\ \A k \in 1 .. Len(ret) : ret[k].e <= m.b /\ ret[k].e < i
                     /\ \A k \in 1 .. Len(ret) - 1 : ret[k].e < m.b

\* The inductive invariant.
IInv == TypeOK /\ Behindhand /\ ScanOrdered /\ ScanRepeatsOnlyEmpty

\* The strings of the model are strings of some length.
LEMMA SomeLength ==
  Strings(Lengths) \subseteq Strings(Nat) /\ Strings(BlockLengths) \subseteq Strings(Nat)
BY ScanAssumption DEF Strings

\* A string is a length and a table.
LEMMA StringParts ==
  ASSUME NEW s \in Strings(Nat)
  PROVE  s.n \in Nat /\ s.at \in Tables(s.n, {Fail, Limit})
BY DEF Strings

\* The bounds of matches are integers.
LEMMA MatchTypes ==
  /\ \A x \in Matches : x.b \in Int /\ x.e \in Int
  /\ \A s \in Seq(Matches) : \A k \in 1 .. Len(s) : s[k] \in Matches
<1>1. \A x \in Matches : x.b \in Int /\ x.e \in Int
  BY DEF Matches
<1>. HIDE DEF Matches
<1>. QED
  BY <1>1

\* The loop starts in the invariant.
LEMMA InitIInv == Init => IInv
<1>. SUFFICES ASSUME Init PROVE IInv
  OBVIOUS
<1>1. str \in Strings(Nat)
  BY SomeLength DEF Init
<1>2. str.n \in Nat
  BY <1>1, StringParts
<1>. QED
  BY <1>1, <1>2
  DEF Init, IInv, TypeOK, Matches, NoMatch, Behindhand, ScanOrdered, ScanRepeatsOnlyEmpty

\* A search keeps the invariant.
LEMMA SearchIInv == IInv /\ Search => IInv'
<1>. SUFFICES ASSUME IInv, Search PROVE IInv'
  OBVIOUS
<1>1. /\ pc = "match" /\ m' = Exec(str.at, str.n, i)
      /\ UNCHANGED <<fixed, str, ret>>
      /\ i \in Nat /\ ret \in Seq(Matches) /\ str \in Strings(Nat)
  BY DEF Search, IInv, TypeOK, Behindhand
<1>2. /\ str.n \in Nat /\ str.at \in Tables(str.n, {Fail, Limit})
  BY <1>1, StringParts
<1>3. CASE m' = NoMatch
  <2>1. pc' = "done" /\ i' = i
    BY <1>3 DEF Search
  <2>. QED
    BY <1>1, <1>2, <1>3, <2>1
    DEF IInv, TypeOK, Matches, NoMatch, Behindhand, ScanOrdered, ScanRepeatsOnlyEmpty
<1>4. CASE m' # NoMatch
  <2>1. /\ i \in 0 .. str.n /\ m'.b \in i .. str.n /\ m'.e \in m'.b .. str.n
        /\ m' = [b |-> m'.b, e |-> m'.e]
    <3>. DEFINE n == str.n
                t == str.at
                x == Exec(t, n, i)
    <3>1. n \in Nat /\ t \in Tables(n, {Fail, Limit}) /\ i \in Int /\ x # NoMatch /\ m' = x
      BY <1>1, <1>2, <1>4
    <3>. HIDE DEF n, t
    <3>2. /\ i \in 0 .. n /\ x.b \in i .. n /\ x.e \in x.b .. n
          /\ x = [b |-> x.b, e |-> x.e]
      BY <3>1, ExecBounds, ZenonT(60)
    <3>. QED
      BY <3>1, <3>2 DEF n
  <2>2. pc' = "yield" /\ i' = IF m'.e > i THEN m'.e ELSE i + 1
    BY <1>4 DEF Search, Behind
  <2>3. TypeOK'
    <3>1. m' \in Matches
      BY <1>2, <2>1 DEF Matches
    <3>2. i' \in 0 .. str.n + 1
      BY <1>2, <2>1, <2>2
    <3>. QED
      BY <1>1, <1>2, <2>2, <3>1, <3>2 DEF TypeOK
  <2>4. Behindhand'
    <3>1. \A k \in 1 .. Len(ret) : ret[k].b \in Int /\ ret[k].e \in Int
      BY <1>1, MatchTypes
    <3>2. /\ \A k \in 1 .. Len(ret) : ret[k].b <= ret[k].e /\ ret[k].e <= i
          /\ \A k \in 1 .. Len(ret) - 1 : ret[k].e < i
      BY <1>1 DEF IInv, Behindhand
    <3>3. i \in Nat /\ i' \in Nat /\ i < i' /\ i <= m'.b /\ m'.b <= m'.e /\ m'.e <= i'
      BY <1>2, <2>1, <2>2
    <3>4. m'.b \in Nat /\ m'.e \in Nat /\ Len(ret) \in Nat
      BY <1>1, <1>2, <2>1
    <3>5. /\ \A k \in 1 .. Len(ret) : ret[k].e <= m'.b /\ ret[k].e < i'
          /\ \A k \in 1 .. Len(ret) - 1 : ret[k].e < m'.b
      <4>. DEFINE b == m'.b
      <4>1. \A k \in 1 .. Len(ret) - 1 : k \in 1 .. Len(ret)
        BY <3>4
      <4>2. i <= b /\ b \in Int /\ i \in Int /\ i' \in Int /\ i < i'
        BY <3>3, <3>4
      <4>. HIDE DEF b
      <4>3. \A k \in 1 .. Len(ret) : ret[k].e <= b /\ ret[k].e < i'
        BY <3>1, <3>2, <4>2
      <4>4. \A k \in 1 .. Len(ret) - 1 : ret[k].e < b
        BY <3>1, <3>2, <4>1, <4>2
      <4>. QED
        BY <4>3, <4>4 DEF b
    <3>6. pc' = "yield" /\ pc' # "match" /\ ret' = ret /\ str' \in Strings(Nat)
      BY <1>1, <2>2
    <3>7. QED
      <4>1. (\A k \in 1 .. Len(ret) : ret[k].b <= ret[k].e)'
        BY <3>2, <3>6
      <4>2. m'.b <= m'.e /\ m'.e <= i'
        BY <3>3
      <4>3. (\A k \in 1 .. Len(ret) : ret[k].e <= m.b /\ ret[k].e < i)'
        BY <3>5, <3>6
      <4>4. (\A k \in 1 .. Len(ret) - 1 : ret[k].e < m.b)'
        BY <3>5, <3>6
      <4>. QED
        BY <3>6, <4>1, <4>2, <4>3, <4>4 DEF Behindhand
  <2>. QED
    BY <1>1, <1>2, <2>2, <2>3, <2>4 DEF IInv, ScanOrdered, ScanRepeatsOnlyEmpty
<1>. QED
  BY <1>3, <1>4

\* Appending the match keeps the invariant, whatever the block does.
LEMMA YieldIInv == IInv /\ Yield => IInv'
<1>. SUFFICES ASSUME IInv, Yield PROVE IInv'
  OBVIOUS
<1>. DEFINE L == Len(ret)
<1>1. /\ pc = "yield" /\ pc' = "match" /\ ret' = Append(ret, m)
      /\ UNCHANGED <<fixed, i, m>>
      /\ i \in Nat /\ ret \in Seq(Matches) /\ m \in Matches
  BY DEF Yield, IInv, TypeOK
<1>2. str' \in Strings(Nat) /\ (fixed => str' = str)
  BY SomeLength DEF Yield, IInv, Behindhand
<1>3. str'.n \in Nat
  BY <1>2, StringParts
<1>4. /\ L \in Nat /\ Len(ret') = L + 1 /\ ret'[L + 1] = m
      /\ \A k \in 1 .. L : ret'[k] = ret[k]
  BY <1>1
<1>5. \A x \in Matches : x.b \in Int /\ x.e \in Int
  BY DEF Matches
<1>6. \A k \in 1 .. L : ret[k] \in Matches
  BY <1>1
<1>7. ret' \in Seq(Matches)
  BY <1>1
<1>. HIDE DEF L
<1>8. TypeOK'
  BY <1>1, <1>2, <1>3, <1>7 DEF IInv, TypeOK
<1>9. /\ m.b <= m.e /\ m.e <= i
      /\ \A k \in 1 .. L : ret[k].e <= m.b /\ ret[k].e < i /\ ret[k].b <= ret[k].e
      /\ \A k \in 1 .. L - 1 : ret[k].e < m.b
  BY <1>1 DEF IInv, Behindhand, L
<1>10. Behindhand'
  <2>1. \A k \in 1 .. L + 1 : ret'[k].b <= ret'[k].e /\ ret'[k].e <= i
    <3>1. \A k \in 1 .. L + 1 : k \in 1 .. L \/ k = L + 1
      BY <1>4
    <3>2. \A k \in 1 .. L : ret[k].e \in Int
      BY <1>5, <1>6
    <3>. QED
      BY <1>1, <1>4, <1>9, <3>1, <3>2
  <2>2. \A k \in 1 .. L : ret'[k].e < i
    BY <1>4, <1>9
  <2>. QED
    BY <1>1, <1>2, <1>4, <2>1, <2>2 DEF Behindhand
<1>11. ScanOrdered'
  BY <1>4, <1>9 DEF IInv, ScanOrdered, L
<1>12. ScanRepeatsOnlyEmpty'
  <2>. SUFFICES ASSUME NEW j \in 1 .. L + 1, NEW k \in 1 .. L + 1, j < k, ret'[j] = ret'[k]
                PROVE  k = j + 1 /\ IsEmpty(ret'[j])
    BY <1>4 DEF ScanRepeatsOnlyEmpty
  <2>1. CASE k # L + 1
    BY <1>4, <2>1 DEF IInv, ScanRepeatsOnlyEmpty, L
  <2>2. CASE k = L + 1
    <3>1. j \in 1 .. L /\ ret[j] = m
      BY <1>4, <2>2
    <3>2. m.b \in Int /\ m.e \in Int
      BY <1>1, <1>5
    <3>3. j = L
      BY <1>4, <1>9, <3>1, <3>2
    <3>. QED
      BY <1>4, <1>9, <2>2, <3>1, <3>2, <3>3 DEF IsEmpty
  <2>. QED
    BY <2>1, <2>2
<1>. QED
  BY <1>8, <1>10, <1>11, <1>12 DEF IInv

\* The inductive invariant holds in every state.
THEOREM Invariance == Spec => []IInv
<1>1. IInv /\ UNCHANGED vars => IInv'
  BY DEF vars, IInv, TypeOK, Behindhand, ScanOrdered, ScanRepeatsOnlyEmpty
<1>2. IInv /\ [Next]_vars => IInv'
  BY SearchIInv, YieldIInv, <1>1 DEF Next
<1>. QED
  BY InitIInv, <1>2, PTL DEF Spec

\* The matches come in order and do not overlap.
THEOREM Ordered == Spec => []ScanOrdered
<1>1. IInv => ScanOrdered
  BY DEF IInv
<1>. QED
  BY Invariance, <1>1, PTL

\* Only an empty match comes twice, and then twice in a row.
THEOREM RepeatsOnlyEmpty == Spec => []ScanRepeatsOnlyEmpty
<1>1. IInv => ScanRepeatsOnlyEmpty
  BY DEF IInv
<1>. QED
  BY Invariance, <1>1, PTL

\* Every variable keeps its type.  The search position is in the string or just
\* behind it when a match is passed on, and always when the block leaves the
\* string alone.
THEOREM TypeCorrect == Spec => []TypeOK
<1>1. IInv => TypeOK
  BY DEF IInv
<1>. QED
  BY Invariance, <1>1, PTL
-----------------------------------------------------------------------------
\* What was found, and what a search finds from the search position on, are
\* all matches, when the block leaves the string alone.
Found == ToSet(ret) \cup IF pc = "yield" THEN {m} ELSE {}

Remaining ==
  fixed => /\ i \in 0 .. str.n + 1
           /\ pc \in {"match", "yield"} =>
                Found \cup From(str.at, str.n)[i] = AllMatches(str.at, str.n)
           /\ pc = "done" => ToSet(ret) = AllMatches(str.at, str.n)

\* At the start all matches remain to be found.
LEMMA InitRemaining == Init => Remaining
<1>. SUFFICES ASSUME Init PROVE Remaining
  OBVIOUS
<1>1. str.n \in Nat
  BY InitIInv, StringParts DEF IInv, Behindhand
<1>2. Found = {}
  BY DEF Init, Found, ToSet
<1>3. i = 0 /\ pc = "match"
  BY DEF Init
<1>. QED
  BY <1>1, <1>2, <1>3, AllMatchesIsFrom DEF Remaining

\* A search takes the next match from what remains, and ends the loop when
\* nothing does.
LEMMA SearchRemaining == IInv /\ Remaining /\ Search => Remaining'
<1>. SUFFICES ASSUME IInv, Remaining, Search, fixed PROVE Remaining'
  BY DEF Remaining, Search
<1>. DEFINE n == str.n
            t == str.at
            x == Exec(t, n, i)
<1>1. /\ pc = "match" /\ m' = x /\ UNCHANGED <<fixed, str, ret>>
      /\ n \in Nat /\ t \in AnyTable(n) /\ i \in 0 .. n + 1
      /\ Found \cup From(t, n)[i] = AllMatches(t, n)
  BY StringParts DEF Search, IInv, Behindhand, Remaining, AnyTable
<1>2. Found = ToSet(ret)
  BY <1>1 DEF Found
<1>3. CASE x = NoMatch
  <2>1. From(t, n)[i] = {}
    <3>. HIDE DEF t, n
    <3>. QED
      BY <1>1, <1>3, FromNone DEF x
  <2>2. pc' = "done" /\ i' = i
    BY <1>1, <1>3 DEF Search
  <2>. QED
    BY <1>1, <1>2, <2>1, <2>2 DEF Remaining
<1>4. CASE x # NoMatch
  <2>1. /\ From(t, n)[i] = {x} \cup From(t, n)[GoesOn(x, i)]
        /\ i \in 0 .. n /\ x.e \in 0 .. n
    <3>. HIDE DEF t, n
    <3>1. n \in Nat /\ t \in AnyTable(n) /\ i \in Int /\ Exec(t, n, i) # NoMatch
      BY <1>1, <1>4
    <3>2. i \in 0 .. n /\ x.b \in i .. n /\ x.e \in x.b .. n
      BY <3>1, ExecBounds DEF AnyTable
    <3>3. From(t, n)[i] = {x} \cup From(t, n)[GoesOn(x, i)]
      BY <3>1, FromLoop
    <3>. HIDE DEF x
    <3>. QED
      BY <1>1, <3>2, <3>3
  <2>2. pc' = "yield" /\ i' = GoesOn(x, i)
    BY <1>1, <1>4 DEF Search, Behind, GoesOn
  <2>3. i' \in 0 .. n + 1
    <3>. HIDE DEF x, n
    <3>. QED
      BY <1>1, <2>1, <2>2 DEF GoesOn
  <2>4. Found' = Found \cup {x}
    BY <1>1, <1>2, <2>2 DEF Found
  <2>5. Found' \cup From(t, n)[i'] = AllMatches(t, n)
    <3>. HIDE DEF x, t, n
    <3>. QED
      BY <1>1, <2>1, <2>2, <2>4
  <2>. QED
    BY <1>1, <2>2, <2>3, <2>5 DEF Remaining
<1>. QED
  BY <1>3, <1>4

\* Appending the match found does not change what was found.
LEMMA YieldRemaining == IInv /\ Remaining /\ Yield => Remaining'
<1>. SUFFICES ASSUME IInv, Remaining, Yield, fixed PROVE Remaining'
  BY DEF Remaining, Yield
<1>1. /\ pc = "yield" /\ pc' = "match" /\ ret' = Append(ret, m)
      /\ UNCHANGED <<fixed, i, m, str>> /\ ret \in Seq(Matches)
  BY DEF Yield, IInv, TypeOK
<1>2. ToSet(ret') = ToSet(ret) \cup {m}
  BY <1>1 DEF ToSet
<1>3. Found' = Found
  BY <1>1, <1>2 DEF Found
<1>. QED
  BY <1>1, <1>3 DEF Remaining

\* What was found and what remains are all matches, in every state.
LEMMA RemainingInvariance == Spec => []Remaining
<1>1. IInv /\ Remaining /\ [Next]_vars => Remaining'
  <2>1. Remaining /\ UNCHANGED vars => Remaining'
    BY DEF vars, Remaining, Found
  <2>. QED
    BY SearchRemaining, YieldRemaining, <2>1 DEF Next
<1>. QED
  BY InitRemaining, Invariance, <1>1, PTL DEF Spec

\* When the block leaves the string alone, scan returns the matches of the
\* string, each of them and nothing else.
THEOREM FindsAll == Spec => []ScanFindsAll
<1>1. Remaining => ScanFindsAll
  BY DEF Remaining, ScanFindsAll
<1>. QED
  BY RemainingInvariance, <1>1, PTL
-----------------------------------------------------------------------------
\* What is left to do: 3 for each position from the search on, and the steps
\* up to the next search.
Rank    == [match |-> 1, yield |-> 2, done |-> 0]
Left    == IF i <= str.n THEN str.n + 1 - i ELSE 0
Variant == 3 * Left + Rank[pc]

\* A step leaves less to do, unless the block makes the string longer.
Falls == ~Grows => Variant' < Variant

\* The variant is a natural number.
LEMMA RankType ==
  IInv => /\ str.n \in Nat /\ i \in Nat /\ Left \in Nat
          /\ Rank[pc] \in 0 .. 2 /\ Variant \in Nat
<1>. SUFFICES ASSUME IInv
              PROVE  /\ str.n \in Nat /\ i \in Nat /\ Left \in Nat
                     /\ Rank[pc] \in 0 .. 2 /\ Variant \in Nat
  OBVIOUS
<1>1. pc \in {"match", "yield", "done"} /\ i \in Nat /\ str.n \in Nat
  BY DEF IInv, TypeOK
<1>2. Rank[pc] \in 0 .. 2
  BY <1>1 DEF Rank
<1>3. Left \in Nat
  BY <1>1 DEF Left
<1>. QED
  BY <1>1, <1>2, <1>3 DEF Variant

\* Moving on in the string outweighs the steps up to the next search.
LEMMA Less ==
  \A a, b, x, y \in Int :
    (b <= a /\ y < x) \/ (b + 1 <= a /\ y < x + 3) => 3 * b + y < 3 * a + x
OBVIOUS

\* Each step of scan leaves less to do, unless the block makes the string
\* longer: the position moves on, and a block that does not add to the string
\* cannot make up for it.
THEOREM Progress == Spec => [](Variant \in Nat) /\ [][Falls]_vars
<1>1. IInv => Variant \in Nat
  BY RankType
<1>2. IInv /\ IInv' /\ [Next]_vars => [Falls]_vars
  <2>. SUFFICES ASSUME IInv, IInv', Next, ~Grows PROVE Variant' < Variant
    BY DEF Falls
  <2>1. /\ i \in Nat /\ i' \in Nat /\ str.n \in Nat /\ str'.n \in Nat
        /\ Left \in Int /\ Left' \in Int
        /\ Rank[pc] \in Int /\ Rank[pc'] \in Int
        /\ str'.n <= str.n
    <3>1. (Rank[pc] \in 0 .. 2)' /\ (str.n \in Nat)' /\ (i \in Nat)' /\ (Left \in Nat)'
      BY RankType, PTL
    <3>. QED
      BY <3>1, RankType DEF Grows
  <2>2. \/ Left' <= Left /\ Rank[pc'] < Rank[pc]
        \/ Left' + 1 <= Left /\ Rank[pc'] < Rank[pc] + 3
    <3>1. CASE Search
      <4>1. /\ pc = "match" /\ str' = str /\ m' = Exec(str.at, str.n, i)
            /\ m' = NoMatch => pc' = "done" /\ i' = i
            /\ m' # NoMatch => pc' = "yield" /\ i' = Behind(m')
        BY <3>1 DEF Search
      <4>2. CASE m' = NoMatch
        BY <2>1, <4>1, <4>2 DEF Rank, Left
      <4>3. CASE m' # NoMatch
        <5>1. i <= str.n
          <6>1. str.at \in Tables(str.n, {Fail, Limit})
            BY StringParts DEF IInv, Behindhand
          <6>2. \A t \in Tables(str.n, {Fail, Limit}) : Exec(t, str.n, i) # NoMatch => i \in 0 .. str.n
            BY <2>1, ExecBounds
          <6>. QED
            BY <4>1, <4>3, <6>1, <6>2
        <5>2. m'.e \in Int
          <6>1. m' \in Matches
            BY DEF IInv, TypeOK
          <6>. QED
            BY <6>1, MatchTypes
        <5>3. i' >= i + 1
          BY <2>1, <4>1, <4>3, <5>2 DEF Behind
        <5>4. Left' + 1 <= Left
          BY <2>1, <4>1, <5>1, <5>3 DEF Left
        <5>. QED
          BY <4>1, <4>3, <5>4 DEF Rank
      <4>. QED
        BY <4>2, <4>3
    <3>2. CASE Yield
      <4>1. pc = "yield" /\ pc' = "match" /\ i' = i
        BY <3>2 DEF Yield
      <4>2. Left' <= Left
        BY <2>1, <4>1 DEF Left
      <4>. QED
        BY <4>1, <4>2 DEF Rank
    <3>. QED
      BY <3>1, <3>2 DEF Next
  <2>3. 3 * Left' + Rank[pc'] < 3 * Left + Rank[pc]
    <3>. HIDE DEF Left, Rank
    <3>. QED
      BY <2>1, <2>2, Less
  <2>. QED
    BY <2>3 DEF Variant
<1>. QED
  BY <1>1, <1>2, Invariance, PTL DEF Spec
=============================================================================
