-------------------------- MODULE PcreExec_proofs --------------------------
(***************************************************************************)
(* What Exec and AllMatches return, for subjects of any length: the facts  *)
(* the proofs about pcre_exec and about the loops of String rest on, and   *)
(* inductions over positions.  No operator takes the claim of an induction *)
(* as an argument here; a set of positions does, and the least position    *)
(* outside it is the counterexample.                                       *)
(***************************************************************************)
EXTENDS PcreExec, FiniteSetTheorems, WellFoundedInduction, TLAPS

\* what a table may hold
Ends(n) == {Fail, Limit} \cup 0 .. n

\* A set of naturals has a least element, and Min is it.
LEMMA MinOfNaturals ==
  ASSUME NEW S, S \subseteq Nat, S # {}
  PROVE  Min(S) \in S /\ \A q \in S : Min(S) =< q
<1>. DEFINE R == {ss \in Nat \X Nat : ss[1] < ss[2]}
<1>1. IsWellFoundedOn(R, Nat)
  BY NatLessThanWellFounded, ZenonT(60) DEF OpToRel
<1>2. \E x \in S : \A y \in S : ~ (<<y, x>> \in R)
  <2>. HIDE DEF R
  <2>. QED
    BY <1>1, WFMin, ZenonT(60)
<1>3. \E x \in S : \A y \in S : x =< y
  <2>1. \A x, y \in Nat : y < x => <<y, x>> \in R
    OBVIOUS
  <2>2. \A x, y \in Nat : ~ (y < x) => x =< y
    OBVIOUS
  <2>. HIDE DEF R
  <2>. QED
    BY <1>2, <2>1, <2>2
<1>. QED
  BY <1>3 DEF Min

\* If position p is the first that does not fail, Exec returns what is there.
LEMMA ExecAt ==
  ASSUME NEW n \in Nat, NEW t \in [0 .. n -> Ends(n)],
         NEW start \in 0 .. n, NEW p \in start .. n,
         t[p] # Fail, \A q \in start .. p - 1 : t[q] = Fail
  PROVE  Exec(t, n, start) = IF t[p] = Limit THEN NoMatch ELSE [b |-> p, e |-> t[p]]
<1>. DEFINE tried == {q \in start .. n : t[q] # Fail}
<1>1. p \in tried /\ \A q \in tried : p =< q
  OBVIOUS
<1>2. Min(tried) \in tried /\ \A q \in tried : Min(tried) =< q
  <2>1. tried \subseteq Nat /\ tried # {}
    BY <1>1
  <2>. HIDE DEF tried
  <2>. QED
    BY <2>1, MinOfNaturals
<1>3. Min(tried) = p
  BY <1>1, <1>2
<1>. QED
  BY <1>1, <1>3 DEF Exec

\* If every position fails, or there is none, Exec finds no match.
LEMMA ExecNone ==
  ASSUME NEW n \in Nat, NEW t, NEW start \in Int,
         start < 0 \/ \A q \in start .. n : t[q] = Fail
  PROVE  Exec(t, n, start) = NoMatch
BY DEF Exec

\* Nor does it, if every position fails or exceeds the recursion limit.
LEMMA ExecLimit ==
  ASSUME NEW n \in Nat, NEW t, NEW start \in Nat,
         \A q \in start .. n : t[q] \in {Fail, Limit}
  PROVE  Exec(t, n, start) = NoMatch
<1>. DEFINE tried == {q \in start .. n : t[q] # Fail}
<1>1. SUFFICES ASSUME tried # {} PROVE t[Min(tried)] = Limit
  BY DEF Exec
<1>2. Min(tried) \in tried
  <2>1. tried \subseteq Nat
    OBVIOUS
  <2>. HIDE DEF tried
  <2>. QED
    BY <1>1, <2>1, MinOfNaturals
<1>. QED
  BY <1>2

\* A match begins at the offset or behind it, and ends in the subject, not
\* before its begin; every position before it fails.
LEMMA ExecBounds ==
  ASSUME NEW n \in Nat, NEW t \in Tables(n, {Fail, Limit}), NEW start \in Int,
         Exec(t, n, start) # NoMatch
  PROVE  LET m == Exec(t, n, start) IN
         /\ start \in 0 .. n /\ m.b \in start .. n /\ m.e \in m.b .. n /\ m.e = t[m.b]
         /\ m = [b |-> m.b, e |-> m.e]
         /\ t[m.b] # Fail /\ t[m.b] # Limit /\ \A q \in start .. m.b - 1 : t[q] = Fail
<1>. DEFINE tried == {q \in start .. n : t[q] # Fail}
<1>1. start >= 0 /\ tried # {} /\ t[Min(tried)] # Limit
      /\ Exec(t, n, start) = [b |-> Min(tried), e |-> t[Min(tried)]]
  BY DEF Exec
<1>2. Min(tried) \in tried /\ \A q \in tried : Min(tried) =< q
  <2>1. tried \subseteq Nat /\ tried # {}
    BY <1>1
  <2>. HIDE DEF tried
  <2>. QED
    BY <2>1, MinOfNaturals
<1>3. t[Min(tried)] \in Min(tried) .. n
  BY <1>1, <1>2 DEF Tables, Fail, Limit
<1>4. \A q \in start .. Min(tried) - 1 : t[q] = Fail
  <2>. SUFFICES ASSUME NEW q \in start .. Min(tried) - 1, t[q] # Fail PROVE FALSE
    OBVIOUS
  <2>1. q \in tried
    BY <1>2
  <2>. QED
    BY <1>2, <2>1
<1>. QED
  BY <1>1, <1>2, <1>3, <1>4
-----------------------------------------------------------------------------
\* what match() may find in a subject of n characters
AnyTable(n) == Tables(n, {Fail, Limit})

\* The recursive function that AllMatches defines is the value From(t, n) of
\* a CHOOSE; its equation, FromEquation, needs a proof that such a function
\* exists.
StartBehind(x) == IF IsEmpty(x) THEN x.e + 1 ELSE x.e
Unfolded(f, t, n, s) ==
  IF Exec(t, n, s) = NoMatch THEN {}
  ELSE {Exec(t, n, s)} \cup f[StartBehind(Exec(t, n, s))]
From(t, n) == CHOOSE f : f = [s \in 0 .. n + 1 |-> Unfolded(f, t, n, s)]

\* Behind a match the search goes on further on.
LEMMA StartBehindBounds ==
  ASSUME NEW n \in Nat, NEW t \in AnyTable(n), NEW s \in Int,
         Exec(t, n, s) # NoMatch
  PROVE  StartBehind(Exec(t, n, s)) \in s + 1 .. n + 1
<1>. DEFINE x == Exec(t, n, s)
<1>1. s \in 0 .. n /\ x.b \in s .. n /\ x.e \in x.b .. n
  BY ExecBounds DEF AnyTable
<1>. HIDE DEF x
<1>2. StartBehind(x) \in s + 1 .. n + 1
  BY <1>1 DEF StartBehind, IsEmpty
<1>. QED
  BY <1>2 DEF x

\* There is a function that satisfies the equation from lo on, for every lo:
\* one that satisfies it from lo + 1 on can be given another value at lo.
LEMMA FromExists ==
  ASSUME NEW n \in Nat, NEW t \in AnyTable(n)
  PROVE  \E f : f = [s \in 0 .. n + 1 |-> Unfolded(f, t, n, s)]
<1>. DEFINE Upto(f, k) == \A s \in 0 .. n + 1 : s >= n + 2 - k => f[s] = Unfolded(f, t, n, s)
            bad == {k \in Nat : k <= n + 2 /\ ~ \E f : Upto(f, k)}
<1>1. bad = {}
  <2>. SUFFICES ASSUME bad # {} PROVE FALSE
    OBVIOUS
  <2>. DEFINE k == Min(bad)
  <2>1. k \in bad /\ \A q \in bad : k <= q
    <3>1. bad \subseteq Nat
      OBVIOUS
    <3>. HIDE DEF bad
    <3>. QED
      BY <3>1, MinOfNaturals
  <2>2. k # 0
    <3>1. Upto([s \in {} |-> {}], 0)
      OBVIOUS
    <3>. QED
      BY <2>1, <3>1
  <2>3. k \in Nat /\ k - 1 \in Nat /\ k <= n + 2
    <3>. HIDE DEF k, Upto
    <3>. QED
      BY <2>1, <2>2
  <2>4. PICK f : Upto(f, k - 1)
    <3>. HIDE DEF k, Upto
    <3>. QED
      BY <2>1, <2>3
  <2>. DEFINE lo == n + 2 - k
              g  == [s \in 0 .. n + 1 |-> IF s = lo THEN Unfolded(f, t, n, lo) ELSE f[s]]
  <2>5. ASSUME NEW s \in 0 .. n + 1, s >= lo
        PROVE  g[s] = Unfolded(g, t, n, s)
    <3>1. lo \in Int /\ g[s] = Unfolded(f, t, n, s)
      BY <2>3, <2>4, <2>5
    <3>2. CASE Exec(t, n, s) = NoMatch
      BY <3>1, <3>2 DEF Unfolded
    <3>3. CASE Exec(t, n, s) # NoMatch
      <4>1. StartBehind(Exec(t, n, s)) \in s + 1 .. n + 1
        BY <3>3, StartBehindBounds
      <4>2. g[StartBehind(Exec(t, n, s))] = f[StartBehind(Exec(t, n, s))]
        <5>. DEFINE z == StartBehind(Exec(t, n, s))
        <5>1. z \in s + 1 .. n + 1
          BY <4>1
        <5>. HIDE DEF z
        <5>2. z \in 0 .. n + 1 /\ z # lo
          BY <2>3, <2>5, <5>1
        <5>. QED
          BY <5>2 DEF z
      <4>. HIDE DEF g
      <4>. QED
        BY <3>1, <3>3, <4>2 DEF Unfolded
    <3>. QED
      BY <3>2, <3>3
  <2>6. Upto(g, k)
    <3>. HIDE DEF g
    <3>. QED
      BY <2>5
  <2>. QED
    BY <2>1, <2>6
<1>2. PICK f : Upto(f, n + 2)
  <2>1. n + 2 \in Nat /\ n + 2 <= n + 2
    OBVIOUS
  <2>. HIDE DEF Upto
  <2>. QED
    BY <1>1, <2>1
<1>. DEFINE F == [s \in 0 .. n + 1 |-> f[s]]
<1>3. \A s \in 0 .. n + 1 : f[s] = Unfolded(F, t, n, s)
  <2>. SUFFICES ASSUME NEW s \in 0 .. n + 1 PROVE f[s] = Unfolded(F, t, n, s)
    OBVIOUS
  <2>1. f[s] = Unfolded(f, t, n, s)
    BY <1>2
  <2>2. Exec(t, n, s) # NoMatch => StartBehind(Exec(t, n, s)) \in 0 .. n + 1
    BY StartBehindBounds
  <2>3. Exec(t, n, s) # NoMatch =>
          F[StartBehind(Exec(t, n, s))] = f[StartBehind(Exec(t, n, s))]
    BY <2>2
  <2>. HIDE DEF F
  <2>. QED
    BY <2>1, <2>3 DEF Unfolded
<1>4. F = [s \in 0 .. n + 1 |-> Unfolded(F, t, n, s)]
  <2>. DEFINE H == [s \in 0 .. n + 1 |-> Unfolded(F, t, n, s)]
  <2>1. \A s \in 0 .. n + 1 : f[s] = Unfolded(F, t, n, s)
    BY <1>3
  <2>2. [s \in 0 .. n + 1 |-> f[s]] = [s \in 0 .. n + 1 |-> Unfolded(F, t, n, s)]
    <3>. HIDE DEF F
    <3>. QED
      BY <2>1
  <2>. QED
    BY <2>2
<1>. QED
  BY <1>4

\* The equation of the recursive function.
LEMMA FromEquation ==
  ASSUME NEW n \in Nat, NEW t \in AnyTable(n)
  PROVE  \A s \in 0 .. n + 1 : From(t, n)[s] = Unfolded(From(t, n), t, n, s)
<1>1. From(t, n) = [s \in 0 .. n + 1 |-> Unfolded(From(t, n), t, n, s)]
  BY FromExists DEF From
<1>. QED
  BY <1>1

\* AllMatches is its value at the start of the subject.
LEMMA AllMatchesIsFrom ==
  ASSUME NEW n, NEW t
  PROVE  AllMatches(t, n) = From(t, n)[0]
BY DEF AllMatches, From, Unfolded, StartBehind

\* Without a match from s on there is nothing to find, and behind the
\* subject there is no match.
LEMMA FromNone ==
  ASSUME NEW n \in Nat, NEW t \in AnyTable(n), NEW s \in 0 .. n + 1,
         s = n + 1 \/ Exec(t, n, s) = NoMatch
  PROVE  From(t, n)[s] = {}
<1>1. Exec(t, n, s) = NoMatch
  BY ExecNone
<1>. QED
  BY <1>1, FromEquation DEF Unfolded

\* With a match, it is found and what the search finds behind it.
LEMMA FromMatch ==
  ASSUME NEW n \in Nat, NEW t \in AnyTable(n), NEW s \in Int,
         Exec(t, n, s) # NoMatch
  PROVE  From(t, n)[s] =
           {Exec(t, n, s)} \cup From(t, n)[StartBehind(Exec(t, n, s))]
<1>1. s \in 0 .. n + 1
  BY ExecBounds DEF AnyTable
<1>2. From(t, n)[s] = Unfolded(From(t, n), t, n, s)
  BY <1>1, FromEquation
<1>. QED
  BY <1>2 DEF Unfolded

\* where a loop of String goes on behind the match it found from s on
GoesOn(x, s) == IF x.e > s THEN x.e ELSE s + 1

\* A loop of String goes on at the end of a match, and one character further
\* if that is where it searched from.  An empty match further on is found
\* again from its end, so the loop finds what AllMatches does.
LEMMA FromLoop ==
  ASSUME NEW n \in Nat, NEW t \in AnyTable(n), NEW s \in Int,
         Exec(t, n, s) # NoMatch
  PROVE  From(t, n)[s] = {Exec(t, n, s)} \cup From(t, n)[GoesOn(Exec(t, n, s), s)]
<1>. DEFINE x == Exec(t, n, s)
<1>1. /\ s \in 0 .. n /\ x.b \in s .. n /\ x.e \in x.b .. n /\ x.e = t[x.b]
      /\ x = [b |-> x.b, e |-> x.e] /\ t[x.b] # Fail /\ t[x.b] # Limit
  BY ExecBounds DEF AnyTable
<1>2. From(t, n)[s] = {x} \cup From(t, n)[StartBehind(x)]
  BY FromMatch
<1>3. x # NoMatch
  OBVIOUS
<1>. HIDE DEF x
<1>4. CASE ~IsEmpty(x)
  <2>1. StartBehind(x) = x.e /\ x.e > s
    BY <1>1, <1>4 DEF StartBehind, IsEmpty
  <2>. QED
    BY <1>2, <2>1 DEF x, GoesOn
<1>5. CASE IsEmpty(x) /\ x.e > s
  <2>. DEFINE p == x.e
  <2>1. Exec(t, n, p) = x
    <3>1. t \in [0 .. n -> Ends(n)]
      BY DEF AnyTable, Tables, Ends
    <3>2. x.b \in 0 .. n /\ x.b \in x.b .. n /\ x.b .. x.b - 1 = {} /\ x.b = x.e
      BY <1>1, <1>5 DEF IsEmpty
    <3>3. Exec(t, n, x.b) = IF t[x.b] = Limit THEN NoMatch ELSE [b |-> x.b, e |-> t[x.b]]
      BY <1>1, <3>1, <3>2, ExecAt
    <3>. QED
      BY <1>1, <3>2, <3>3
  <2>2. p \in Int /\ StartBehind(x) = p + 1 /\ GoesOn(x, s) = p
    BY <1>1, <1>5 DEF StartBehind, GoesOn
  <2>. HIDE DEF p
  <2>3. From(t, n)[p] = {x} \cup From(t, n)[StartBehind(x)]
    <3>1. p \in 0 .. n + 1
      BY <1>1 DEF p
    <3>2. From(t, n)[p] = Unfolded(From(t, n), t, n, p)
      BY <3>1, FromEquation
    <3>. QED
      BY <1>3, <2>1, <3>2 DEF Unfolded
  <2>. QED
    BY <1>2, <2>2, <2>3 DEF x
<1>6. CASE IsEmpty(x) /\ ~(x.e > s)
  <2>1. StartBehind(x) = s + 1 /\ GoesOn(x, s) = s + 1
    BY <1>1, <1>6 DEF StartBehind, IsEmpty, GoesOn
  <2>. QED
    BY <1>2, <2>1 DEF x
<1>. QED
  BY <1>4, <1>5, <1>6

\* Induction downward from the end of the subject, over a set of positions.
LEMMA DownwardInduction ==
  ASSUME NEW n \in Nat, NEW G,
         \A s \in 0 .. n + 1 : (\A q \in s + 1 .. n + 1 : q \in G) => s \in G
  PROVE  \A s \in 0 .. n + 1 : s \in G
<1>. DEFINE bad == {k \in Nat : k <= n + 1 /\ n + 1 - k \notin G}
            k   == Min(bad)
<1>1. SUFFICES ASSUME bad # {} PROVE FALSE
  <2>. SUFFICES ASSUME NEW s \in 0 .. n + 1, s \notin G PROVE bad # {}
    OBVIOUS
  <2>1. n + 1 - s \in Nat /\ n + 1 - s <= n + 1 /\ n + 1 - (n + 1 - s) = s
    OBVIOUS
  <2>2. n + 1 - s \in bad
    BY <2>1
  <2>. QED
    BY <2>2
<1>2. k \in bad /\ \A q \in bad : k <= q
  <2>1. bad \subseteq Nat
    OBVIOUS
  <2>. HIDE DEF bad
  <2>. QED
    BY <1>1, <2>1, MinOfNaturals
<1>. HIDE DEF k
<1>3. k \in Nat /\ n + 1 - k \in 0 .. n + 1 /\ n + 1 - k \notin G
  BY <1>2
<1>4. ASSUME NEW q \in n + 1 - k + 1 .. n + 1, q \notin G PROVE FALSE
  <2>1. n + 1 - q \in Nat /\ n + 1 - q <= n + 1 /\ n + 1 - (n + 1 - q) = q /\ n + 1 - q < k
    BY <1>3, <1>4
  <2>2. n + 1 - q \in bad
    BY <1>4, <2>1
  <2>. QED
    BY <1>2, <1>3, <2>1, <2>2
<1>. QED
  BY <1>3, <1>4

\* What is found from s on begins there or behind, and ends in the subject.
LEMMA FromBounds ==
  ASSUME NEW n \in Nat, NEW t \in AnyTable(n)
  PROVE  \A s \in 0 .. n + 1 : \A x \in From(t, n)[s] :
           x.b \in s .. n /\ x.e \in x.b .. n /\ x = [b |-> x.b, e |-> x.e]
<1>. DEFINE Bounded(x, s) == x.b \in s .. n /\ x.e \in x.b .. n /\ x = [b |-> x.b, e |-> x.e]
            G == {s \in 0 .. n + 1 : \A x \in From(t, n)[s] : Bounded(x, s)}
<1>1. ASSUME NEW s \in 0 .. n + 1, \A q \in s + 1 .. n + 1 : q \in G
      PROVE  s \in G
  <2>1. CASE Exec(t, n, s) = NoMatch
    BY <2>1, FromNone
  <2>2. CASE Exec(t, n, s) # NoMatch
    <3>. DEFINE z == Exec(t, n, s)
                p == StartBehind(z)
    <3>1. p \in s + 1 .. n + 1
      BY <2>2, StartBehindBounds
    <3>2. From(t, n)[s] = {z} \cup From(t, n)[p]
      <4>1. s \in Int
        OBVIOUS
      <4>. HIDE DEF G, Bounded
      <4>. QED
        BY <2>2, <4>1, FromMatch
    <3>3. Bounded(z, s)
      <4>1. s \in Int
        OBVIOUS
      <4>. HIDE DEF G
      <4>. QED
        BY <2>2, <4>1, ExecBounds DEF AnyTable
    <3>. HIDE DEF z, p
    <3>4. \A x \in From(t, n)[p] : Bounded(x, s)
      <4>1. \A x \in From(t, n)[p] : Bounded(x, p)
        <5>. HIDE DEF Bounded
        <5>. QED
          BY <1>1, <3>1
      <4>2. p \in Int /\ s <= p
        BY <3>1
      <4>. QED
        BY <4>1, <4>2
    <3>. HIDE DEF Bounded
    <3>. QED
      BY <3>2, <3>3, <3>4
  <2>. QED
    BY <2>1, <2>2
<1>2. \A s \in 0 .. n + 1 : s \in G
  <2>. HIDE DEF G
  <2>. QED
    BY <1>1, DownwardInduction
<1>. QED
  BY <1>2

\* They are finitely many.
LEMMA FromFinite ==
  ASSUME NEW n \in Nat, NEW t \in AnyTable(n)
  PROVE  \A s \in 0 .. n + 1 : IsFiniteSet(From(t, n)[s])
<1>. DEFINE G == {s \in 0 .. n + 1 : IsFiniteSet(From(t, n)[s])}
<1>1. ASSUME NEW s \in 0 .. n + 1, \A q \in s + 1 .. n + 1 : q \in G
      PROVE  s \in G
  <2>1. CASE Exec(t, n, s) = NoMatch
    BY <2>1, FromNone, FS_EmptySet
  <2>2. CASE Exec(t, n, s) # NoMatch
    <3>1. StartBehind(Exec(t, n, s)) \in s + 1 .. n + 1
      BY <2>2, StartBehindBounds
    <3>2. From(t, n)[s] = {Exec(t, n, s)} \cup From(t, n)[StartBehind(Exec(t, n, s))]
      <4>1. s \in Int
        OBVIOUS
      <4>. HIDE DEF G
      <4>. QED
        BY <2>2, <4>1, FromMatch
    <3>3. IsFiniteSet(From(t, n)[StartBehind(Exec(t, n, s))])
      BY <1>1, <3>1
    <3>4. IsFiniteSet(From(t, n)[StartBehind(Exec(t, n, s))] \cup {Exec(t, n, s)})
      BY <3>3, FS_AddElement
    <3>5. IsFiniteSet(From(t, n)[s])
      BY <3>2, <3>4
    <3>. QED
      BY <3>5
  <2>. QED
    BY <2>1, <2>2
<1>2. \A s \in 0 .. n + 1 : s \in G
  <2>. HIDE DEF G
  <2>. QED
    BY <1>1, DownwardInduction
<1>. QED
  BY <1>2

\* the first k of the matches A
FirstOf(A, k) == {x \in A : Cardinality({y \in A : y.b < x.b}) < k}

\* Of the matches in order, those that begin before E are the first k, if
\* they are k, or at most k and all of them.
LEMMA FirstOnes ==
  ASSUME NEW A, IsFiniteSet(A), \A x \in A : x.b \in Int, NEW E \in Int, NEW k \in Nat,
         NEW S, S \subseteq A, \A x \in A : x \in S <=> x.b < E,
         Cardinality(S) <= k, S = A \/ Cardinality(S) = k
  PROVE  FirstOf(A, k) = S
<1>. DEFINE before(x) == {y \in A : y.b < x.b}
<1>1. /\ IsFiniteSet(S) /\ Cardinality(S) \in Nat
      /\ \A x \in A : IsFiniteSet(before(x)) /\ Cardinality(before(x)) \in Nat
  BY FS_Subset, FS_CardinalityType
<1>2. ASSUME NEW x \in S PROVE Cardinality(before(x)) < k
  <2>1. before(x) \subseteq S /\ x \in S /\ x \notin before(x)
    <3>. SUFFICES ASSUME NEW y \in before(x) PROVE y \in S /\ y # x
      OBVIOUS
    <3>1. y \in A /\ x \in A /\ y.b < x.b /\ x.b < E /\ y.b \in Int /\ x.b \in Int
      OBVIOUS
    <3>. QED
      BY <3>1
  <2>. HIDE DEF before
  <2>2. Cardinality(before(x)) <= Cardinality(S)
        /\ (Cardinality(before(x)) = Cardinality(S) => before(x) = S)
    BY <1>1, <2>1, FS_Subset
  <2>3. before(x) # S
    BY <2>1
  <2>4. Cardinality(before(x)) \in Nat
    BY <1>1, <2>1, FS_Subset, FS_CardinalityType
  <2>. QED
    BY <1>1, <2>2, <2>3, <2>4
<1>3. ASSUME NEW x \in A, x \notin S PROVE ~ (Cardinality(before(x)) < k)
  <2>1. Cardinality(S) = k
    BY <1>3
  <2>2. S \subseteq before(x)
    <3>. SUFFICES ASSUME NEW y \in S PROVE y \in before(x)
      OBVIOUS
    <3>1. y \in A /\ y.b < E /\ y.b \in Int /\ x.b \in Int /\ ~ (x.b < E)
      BY <1>3
    <3>. QED
      BY <3>1
  <2>3. IsFiniteSet(before(x)) /\ Cardinality(before(x)) \in Nat
    BY <1>1
  <2>. HIDE DEF before
  <2>4. Cardinality(S) <= Cardinality(before(x))
    BY <2>2, <2>3, FS_Subset
  <2>. QED
    BY <1>1, <2>1, <2>3, <2>4
<1>. QED
  BY <1>2, <1>3 DEF FirstOf
=============================================================================
