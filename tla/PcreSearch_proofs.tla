------------------------- MODULE PcreSearch_proofs -------------------------
(***************************************************************************)
(* Proofs about PcreSearch, for subjects of any length, any number of      *)
(* groups and any REQ_BYTE_MAX: the loop of pcre_exec with its shortcuts   *)
(* finds what trying every position finds, and each step leaves less to    *)
(* do.                                                                     *)
(***************************************************************************)
EXTENDS PcreSearch, PcreExec_proofs

Looping == pc \in {"skip", "require", "try"}

\* Every position before startMatch fails.
Passed == Looping => \A p \in startOffset .. startMatch - 1 : t[p] = Fail

\* The place where the required character was found holds it.
Cached == reqCharPtr >= startOffset => reqCharPtr \in reqs

\* Until the end there is no result, and two slots are cleared at the start.
Begun ==
  /\ pc = "enter" => startMatch = startOffset
  /\ pc # "done" => result = NoMatch
  /\ Looping => {0, 1} \subseteq written

\* Lines and first characters are known only if the pattern needs them.
Unmarked == pat.kind = "anchored" => marks = {}

\* The inductive invariant.
IInv ==
  /\ TypeOK /\ Recorded
  /\ Passed /\ Cached /\ Begun /\ Unmarked
  /\ SearchFindsLeftmost /\ RequiredIsAhead /\ OffsetsWritten

\* The search starts in the invariant.
LEMMA InitIInv == Init => IInv
<1>. SUFFICES ASSUME Init PROVE IInv
  OBVIOUS
<1>1. n \in Nat /\ t \in [0 .. n -> Outcomes]
  BY SearchAssumption DEF Init, Tables, Outcomes
<1>2. marks \subseteq 0 .. n /\ reqs \subseteq 0 .. n - 1
  BY <1>1 DEF Init
<1>3. pat \in [kind : Kinds, hasReq : BOOLEAN, optimize : BOOLEAN, groups : Nat]
  BY SearchAssumption DEF Init, Patterns
<1>4. startOffset \in Int /\ startMatch = startOffset /\ reqCharPtr = startOffset - 1
  BY <1>1 DEF Init
<1>. QED
  BY <1>1, <1>2, <1>3, <1>4
  DEF Init, IInv, TypeOK, Passed, Cached, Begun, Looping, Unmarked,
      SearchFindsLeftmost, RequiredIsAhead, OffsetsWritten

\* What the pattern records does not change with the search.
LEMMA RecordedStays == Recorded /\ UNCHANGED input => Recorded'
BY DEF Recorded, ReqFrom, input

\* The end of the loop without a match, where Exec finds none.
LEMMA StopIInv ==
  ASSUME IInv, Stop, UNCHANGED input, Exec(t, n, startOffset) = NoMatch, pc # "done"
  PROVE  IInv'
BY RecordedStays
DEF IInv, Stop, input, TypeOK, Outcomes, Passed, Cached, Begun, Looping,
    Unmarked, SearchFindsLeftmost, RequiredIsAhead, OffsetsWritten, ReqFrom

\* Where a pattern that begins with ^ or .* fails, it fails at the positions
\* behind, up to the start of a line.
LEMMA FailsUpToLine ==
  ASSUME n \in Nat, t \in [0 .. n -> Outcomes], Recorded,
         pat.kind \in {"startline", "anchored"},
         NEW k \in 1 .. n + 1, t[k - 1] = Fail,
         NEW p \in k .. n + 1, \A q \in k .. p - 1 : q \notin marks
  PROVE  \A q \in k .. p - 1 : t[q] = Fail
<1>. DEFINE others == {q \in k .. p - 1 : t[q] # Fail}
<1>1. SUFFICES ASSUME others # {} PROVE FALSE
  OBVIOUS
<1>2. others \subseteq Nat
  OBVIOUS
<1>3. PICK q \in others : \A r \in others : q =< r
  <2>. HIDE DEF others
  <2>. QED
    BY <1>1, <1>2, MinOfNaturals
<1>4. q \in k .. p - 1 /\ q \in 1 .. n /\ q \notin marks /\ t[q] # Fail
  OBVIOUS
<1>5. t[q - 1] # Fail
  BY <1>4 DEF Recorded
<1>6. q - 1 \in others
  BY <1>4, <1>5
<1>. QED
  BY <1>3, <1>6

\* A skipped position fails.
LEMMA SkippedFails ==
  ASSUME IInv, pc = "skip", NEW p \in startMatch .. n,
         \A q \in startMatch .. p - 1 : CannotStart(q)
  PROVE  \A q \in startOffset .. p - 1 : t[q] = Fail
<1>1. \A q \in startOffset .. startMatch - 1 : t[q] = Fail
  BY DEF IInv, Passed, Looping
<1>2. /\ n \in Nat /\ t \in [0 .. n -> Outcomes]
      /\ startOffset \in 0 .. n /\ startMatch \in startOffset .. n
  BY DEF IInv, TypeOK
<1>3. ASSUME p > startMatch, pat.kind = "first"
      PROVE  \A q \in startMatch .. p - 1 : t[q] = Fail
  BY <1>2, <1>3 DEF CannotStart, IInv, Recorded
<1>4. ASSUME p > startMatch, pat.kind = "startline", startMatch > startOffset
      PROVE  \A q \in startMatch .. p - 1 : t[q] = Fail
  <2>1. t[startMatch - 1] = Fail
    BY <1>1, <1>2, <1>4
  <2>2. \A q \in startMatch .. p - 1 : q \notin marks
    BY DEF CannotStart
  <2>. QED
    BY <1>2, <1>4, <2>1, <2>2, FailsUpToLine DEF IInv
<1>5. p > startMatch => CannotStart(startMatch)
  BY <1>2
<1>6. p > startMatch => \A q \in startMatch .. p - 1 : t[q] = Fail
  BY <1>3, <1>4, <1>5 DEF CannotStart
<1>. QED
  BY <1>1, <1>2, <1>6

\* What the loop knows when it leaves the invariant to one of its steps.
LEMMA LoopFacts ==
  ASSUME IInv, Looping
  PROVE  /\ n \in Nat /\ t \in [0 .. n -> Outcomes] /\ t \in [0 .. n -> Ends(n)]
         /\ startOffset \in 0 .. n /\ startMatch \in startOffset .. n
         /\ startMatch \in 0 .. n /\ reqCharPtr \in Int
         /\ pat.groups \in Nat /\ result = NoMatch /\ pc # "done" /\ pc # "enter"
         /\ {0, 1} \subseteq written /\ written \subseteq 0 .. 2 * pat.groups + 1
         /\ \A p \in startOffset .. startMatch - 1 : t[p] = Fail
BY DEF IInv, TypeOK, Looping, Passed, Begun, Ends, Outcomes

\* Skipping keeps the invariant: only positions that fail are skipped.
LEMMA SkipIInv == IInv /\ Skip => IInv'
<1>. SUFFICES ASSUME IInv, Skip PROVE IInv'
  OBVIOUS
<1>1. Looping /\ pc = "skip" /\ pc' = "require" /\ UNCHANGED <<input, reqCharPtr, result, written>>
  BY DEF Skip, Looping
<1>2. PICK p \in startMatch .. n : /\ \A q \in startMatch .. p - 1 : CannotStart(q)
                                  /\ startMatch' = p
  BY DEF Skip
<1>3. \A q \in startOffset .. p - 1 : t[q] = Fail
  BY <1>1, <1>2, SkippedFails
<1>. QED
  BY <1>1, <1>2, <1>3, LoopFacts, RecordedStays
  DEF IInv, input, TypeOK, Outcomes, Passed, Cached, Begun, Unmarked, Looping, SearchFindsLeftmost,
      RequiredIsAhead, OffsetsWritten

\* Finding the required character keeps the invariant.
LEMMA RequireIInv == IInv /\ Require => IInv'
<1>. SUFFICES ASSUME IInv, Require PROVE IInv'
  OBVIOUS
<1>1. Looping /\ pc' = "try" /\ UNCHANGED <<input, startMatch, result, written>>
  BY DEF Require, Looping
<1>2. reqCharPtr' \in reqs /\ reqCharPtr' >= ReqFrom(startMatch) /\ reqCharPtr' \in Int
  BY <1>1, LoopFacts DEF Require, IInv, TypeOK
<1>. QED
  BY <1>1, <1>2, LoopFacts, RecordedStays
  DEF IInv, input, TypeOK, Outcomes, Passed, Cached, Begun, Unmarked, Looping, SearchFindsLeftmost,
      RequiredIsAhead, OffsetsWritten, ReqFrom

\* Without the required character ahead, no position ahead matches.
LEMMA NoReqIInv == IInv /\ NoReq => IInv'
<1>. SUFFICES ASSUME IInv, NoReq PROVE IInv'
  OBVIOUS
<1>1. Looping /\ pc # "done" /\ Stop /\ UNCHANGED input
  BY DEF NoReq, Looping
<1>2. \A p \in startMatch .. n : t[p] \in {Fail, Limit}
  <2>. SUFFICES ASSUME NEW p \in startMatch .. n, t[p] \notin {Fail, Limit} PROVE FALSE
    OBVIOUS
  <2>1. p \in 0 .. n /\ t[p] >= 0 /\ pat.hasReq
    BY <1>1, LoopFacts DEF Outcomes, NoReq, NeedsReq
  <2>2. PICK q \in reqs : q >= ReqFrom(p)
    BY <2>1 DEF IInv, Recorded
  <2>3. q \in Int /\ q < ReqFrom(startMatch)
    BY <1>1, LoopFacts DEF NoReq, IInv, TypeOK
  <2>. QED
    BY <1>1, <2>1, <2>2, <2>3, LoopFacts DEF ReqFrom
<1>3. Exec(t, n, startOffset) = NoMatch
  <2>1. \A p \in startOffset .. n : t[p] \in {Fail, Limit}
    BY <1>1, <1>2, LoopFacts
  <2>. QED
    BY <1>1, <2>1, LoopFacts, ExecLimit
<1>. QED
  BY <1>1, <1>3, StopIInv

\* Not looking for it keeps the invariant: the cached place is far enough ahead.
LEMMA NoNeedIInv == IInv /\ NoNeed => IInv'
<1>. SUFFICES ASSUME IInv, NoNeed PROVE IInv'
  OBVIOUS
<1>1. /\ Looping /\ ~NeedsReq /\ pc' = "try"
      /\ UNCHANGED <<input, startMatch, reqCharPtr, result, written>>
  BY DEF NoNeed, Looping
<1>2. RequiredIsAhead'
  BY <1>1, LoopFacts DEF IInv, Cached, NeedsReq, RequiredIsAhead, ReqFrom, input
<1>. QED
  BY <1>1, <1>2, LoopFacts, RecordedStays
  DEF IInv, input, TypeOK, Outcomes, Passed, Cached, Begun, Unmarked, Looping, SearchFindsLeftmost,
      OffsetsWritten

\* Entering keeps the invariant, with an offset outside the subject, too.
LEMMA EnterIInv == IInv /\ Enter => IInv'
<1>. SUFFICES ASSUME IInv, Enter PROVE IInv'
  OBVIOUS
<1>1. n \in Nat /\ startOffset \in Int /\ pc # "done" /\ UNCHANGED input
      /\ startMatch = startOffset /\ result = NoMatch /\ pat.groups \in Nat
  BY DEF IInv, TypeOK, Enter, Begun
<1>2. CASE startOffset \notin 0 .. n
  <2>1. Exec(t, n, startOffset) = NoMatch
    BY <1>1, <1>2, ExecNone
  <2>. QED
    BY <1>1, <1>2, <2>1, StopIInv DEF Enter
<1>3. CASE startOffset \in 0 .. n
  <2>1. /\ written' = {0, 1} /\ pc' = "skip"
        /\ UNCHANGED <<startMatch, reqCharPtr, result>>
    BY <1>3 DEF Enter, FirstSlots
  <2>. QED
    BY <1>1, <1>3, <2>1, RecordedStays
    DEF IInv, input, TypeOK, Outcomes, Passed, Cached, Begun, Unmarked, Looping,
        SearchFindsLeftmost, RequiredIsAhead, OffsetsWritten
<1>. QED
  BY <1>2, <1>3

\* Moving on keeps the invariant; an anchored pattern that fails at the offset fails everywhere.
LEMMA TryFailsIInv == IInv /\ TryFails => IInv'
<1>. SUFFICES ASSUME IInv, TryFails PROVE IInv'
  OBVIOUS
<1>1. Looping /\ startMatch' = startMatch + 1 /\ UNCHANGED <<input, reqCharPtr, result, written>>
  BY DEF TryFails, Looping
<1>2. \A p \in startOffset .. startMatch : t[p] = Fail
  BY <1>1, LoopFacts DEF TryFails
<1>3. CASE PastEnd(startMatch + 1)
  <2>1. \A p \in startMatch + 1 .. n : t[p] = Fail
    <3>1. CASE startMatch + 1 > n
      BY <1>1, <3>1, LoopFacts
    <3>2. CASE startMatch + 1 <= n /\ pat.kind = "anchored"
      <4>. DEFINE k == startMatch + 1
      <4>1. /\ k \in 1 .. n + 1 /\ n + 1 \in k .. n + 1
            /\ t[k - 1] = Fail /\ (n + 1) - 1 = n
        BY <1>1, <1>2, <3>2, LoopFacts
      <4>2. \A q \in k .. (n + 1) - 1 : q \notin marks
        BY <3>2 DEF IInv, Unmarked
      <4>3. /\ n \in Nat /\ t \in [0 .. n -> Outcomes] /\ Recorded
            /\ pat.kind \in {"startline", "anchored"}
        BY <1>1, <3>2, LoopFacts DEF IInv
      <4>. HIDE DEF k
      <4>4. \A q \in k .. (n + 1) - 1 : t[q] = Fail
        BY <4>1, <4>2, <4>3, FailsUpToLine
      <4>. QED
        BY <4>1, <4>4 DEF k
    <3>. QED
      BY <1>1, <1>3, <3>1, <3>2, LoopFacts DEF PastEnd
  <2>2. \A p \in startOffset .. n : t[p] = Fail
    BY <1>1, <1>2, <2>1, LoopFacts
  <2>3. Exec(t, n, startOffset) = NoMatch
    BY <1>1, <2>2, LoopFacts, ExecNone
  <2>4. pc' = "done"
    BY <1>1, <1>3 DEF TryFails
  <2>. QED
    BY <1>1, <2>3, <2>4, LoopFacts, RecordedStays
    DEF IInv, input, TypeOK, Outcomes, Passed, Cached, Begun, Unmarked, Looping,
        SearchFindsLeftmost, RequiredIsAhead, OffsetsWritten
<1>4. CASE ~PastEnd(startMatch + 1)
  <2>1. pc' = "skip" /\ startMatch + 1 <= n
    BY <1>1, <1>4, LoopFacts DEF TryFails, PastEnd
  <2>. QED
    BY <1>1, <1>2, <2>1, LoopFacts, RecordedStays
    DEF IInv, input, TypeOK, Outcomes, Passed, Cached, Begun, Unmarked, Looping,
        SearchFindsLeftmost, RequiredIsAhead, OffsetsWritten
<1>. QED
  BY <1>3, <1>4

\* Exceeding the recursion limit keeps the invariant.
LEMMA TryErrorIInv == IInv /\ TryError => IInv'
<1>. SUFFICES ASSUME IInv, TryError PROVE IInv'
  OBVIOUS
<1>1. Looping /\ pc # "done" /\ Stop /\ UNCHANGED input /\ t[startMatch] = Limit
  BY DEF TryError, Looping
<1>2. Exec(t, n, startOffset) = NoMatch
  <2>1. t[startMatch] # Fail
    BY <1>1 DEF Fail, Limit
  <2>. QED
    BY <1>1, <2>1, LoopFacts, ExecAt
<1>. QED
  BY <1>1, <1>2, StopIInv

\* The slots of the groups the match did not set are set behind it.
LEMMA TryMatchesIInv == IInv /\ TryMatches => IInv'
<1>. SUFFICES ASSUME IInv, TryMatches PROVE IInv'
  OBVIOUS
<1>1. /\ Looping /\ t[startMatch] >= 0 /\ pc' = "done"
      /\ result' = [b |-> startMatch, e |-> t[startMatch]]
      /\ UNCHANGED <<input, startMatch, reqCharPtr>>
  BY DEF TryMatches, Looping
<1>2. result' = Exec(t, n, startOffset)
  <2>1. t[startMatch] # Fail /\ t[startMatch] # Limit
    BY <1>1 DEF Fail, Limit
  <2>. QED
    BY <1>1, <2>1, LoopFacts, ExecAt
<1>3. PICK k \in 1 .. pat.groups + 1 :
        written' = written \cup 0 .. 2 * k - 1
                     \cup IF (2 * k) \div 2 <= pat.groups THEN 2 * k .. ResetEnd - 1 ELSE {}
  BY DEF TryMatches
<1>4. (2 * k) \div 2 = k /\ k \in Nat
  BY <1>1, LoopFacts
<1>5. written' = 0 .. 2 * pat.groups + 1
  <2>1. pat.groups \in Nat /\ written \subseteq 0 .. 2 * pat.groups + 1
    BY <1>1, LoopFacts
  <2>2. CASE k <= pat.groups
    <3>1. written' = written \cup 0 .. 2 * k - 1 \cup 2 * k .. 2 * pat.groups + 1
      BY <1>3, <1>4, <2>1, <2>2 DEF ResetEnd
    <3>2. (0 .. 2 * k - 1) \cup (2 * k .. 2 * pat.groups + 1) = 0 .. 2 * pat.groups + 1
      BY <1>4, <2>1, <2>2
    <3>. QED
      BY <2>1, <3>1, <3>2
  <2>3. CASE k = pat.groups + 1
    <3>1. written' = written \cup 0 .. 2 * k - 1
      BY <1>3, <1>4, <2>1, <2>3
    <3>2. 2 * k - 1 = 2 * pat.groups + 1
      BY <2>1, <2>3
    <3>. QED
      BY <2>1, <3>1, <3>2
  <2>. QED
    BY <1>4, <2>1, <2>2, <2>3
<1>6. \A g \in 0 .. pat.groups : {2 * g, 2 * g + 1} \subseteq 0 .. 2 * pat.groups + 1
  BY <1>1, LoopFacts
<1>7. OffsetsWritten'
  BY <1>1, <1>5, <1>6 DEF OffsetsWritten, input
<1>. QED
  BY <1>1, <1>2, <1>5, <1>7, LoopFacts, RecordedStays
  DEF IInv, input, TypeOK, Outcomes, Passed, Cached, Begun, Unmarked, Looping,
      SearchFindsLeftmost, RequiredIsAhead, OffsetsWritten

\* A step that changes nothing keeps the invariant.
LEMMA StutterIInv == IInv /\ UNCHANGED vars => IInv'
BY RecordedStays
DEF vars, IInv, input, TypeOK, Outcomes, Passed, Cached, Begun, Unmarked, Looping,
    SearchFindsLeftmost, RequiredIsAhead, OffsetsWritten, ReqFrom

\* The inductive invariant holds in every state.
THEOREM Invariance == Spec => []IInv
<1>1. IInv /\ [Next]_vars => IInv'
  BY EnterIInv, SkipIInv, RequireIInv, NoReqIInv, NoNeedIInv, TryFailsIInv,
     TryErrorIInv, TryMatchesIInv, StutterIInv DEF Next
<1>. QED
  BY InitIInv, <1>1, PTL DEF Spec

\* pcre_exec finds what trying each position in turn finds.
THEOREM FindsLeftmost == Spec => []SearchFindsLeftmost
<1>1. IInv => SearchFindsLeftmost
  BY DEF IInv
<1>. QED
  BY Invariance, <1>1, PTL

\* The cached place of the required character is never stale.
THEOREM RequiredAhead == Spec => []RequiredIsAhead
<1>1. IInv => RequiredIsAhead
  BY DEF IInv
<1>. QED
  BY Invariance, <1>1, PTL

\* begin and end never read a slot of the vector that was not written.
THEOREM OffsetsAreWritten == Spec => []OffsetsWritten
<1>1. IInv => OffsetsWritten
  BY DEF IInv
<1>. QED
  BY Invariance, <1>1, PTL

\* Every variable keeps its type, and the loop stays in the subject.
THEOREM TypeCorrect == Spec => []TypeOK
<1>1. IInv => TypeOK
  BY DEF IInv
<1>. QED
  BY Invariance, <1>1, PTL
-----------------------------------------------------------------------------
\* What is left to do: 5 for each position ahead of the loop, and the steps
\* up to the next one.
Rank    == [enter |-> 4, skip |-> 3, require |-> 2, try |-> 1, done |-> 0]
Variant == 5 * (n + 1 - startMatch) + Rank[pc]
Falls   == Variant' < Variant

\* Moving on outweighs the steps up to the next position.
LEMMA Less ==
  \A k, a, b, v, w, x, y \in Int :
    v = 5 * (k + 1 - a) + x /\ w = 5 * (k + 1 - b) + y
      => ((b >= a /\ y < x) \/ (b >= a + 1 /\ y < x + 5) => w < v)
OBVIOUS

\* The loop ends at most one position behind the subject.
LEMMA InReachInvariance == Spec => [](startMatch <= n + 1)
<1>1. Init => startMatch <= n + 1
  BY SearchAssumption DEF Init
<1>2. IInv /\ startMatch <= n + 1 /\ [Next]_vars => (startMatch <= n + 1)'
  <2>. SUFFICES ASSUME IInv, startMatch <= n + 1, [Next]_vars PROVE startMatch' <= n' + 1
    OBVIOUS
  <2>1. n \in Nat /\ startMatch \in Int /\ n' = n
    BY DEF IInv, TypeOK, vars, input, Next, Enter, Skip, Require, NoReq, NoNeed, TryFails,
       TryError, TryMatches
  <2>2. CASE Skip
    BY <2>1, <2>2 DEF Skip
  <2>3. CASE TryFails
    <3>1. startMatch <= n /\ startMatch' = startMatch + 1
      BY <2>1, <2>3 DEF TryFails, IInv, TypeOK
    <3>. QED
      BY <2>1, <3>1
  <2>4. CASE UNCHANGED startMatch
    BY <2>1, <2>4
  <2>. QED
    BY <2>2, <2>3, <2>4
    DEF vars, Next, Enter, Require, NoReq, NoNeed, TryError, TryMatches, Stop
<1>. QED
  BY <1>1, <1>2, Invariance, PTL DEF Spec

\* Each step of pcre_exec leaves less to do: no shortcut goes back.
THEOREM Progress == Spec => [](Variant \in Nat) /\ [][Falls]_vars
<1>1. IInv /\ startMatch <= n + 1 => Variant \in Nat
  <2>. SUFFICES ASSUME IInv, startMatch <= n + 1 PROVE Variant \in Nat
    OBVIOUS
  <2>1. n \in Nat /\ startMatch \in Int /\ pc \in {"enter", "skip", "require", "try", "done"}
    BY DEF IInv, TypeOK
  <2>2. Rank[pc] \in 0 .. 4
    BY <2>1 DEF Rank
  <2>3. n + 1 - startMatch \in Nat
    BY <2>1
  <2>. QED
    BY <2>2, <2>3 DEF Variant
<1>2. IInv /\ IInv' /\ [Next]_vars => [Falls]_vars
  <2>. SUFFICES ASSUME IInv, IInv', Next PROVE Falls
    OBVIOUS
  <2>1. /\ n \in Int /\ n' = n /\ startMatch \in Int /\ startMatch' \in Int
        /\ pc \in {"enter", "skip", "require", "try", "done"}
        /\ pc' \in {"enter", "skip", "require", "try", "done"}
    BY DEF IInv, TypeOK, input, Next, Enter, Skip, Require, NoReq, NoNeed, TryFails,
       TryError, TryMatches
  <2>2. /\ Variant = 5 * (n + 1 - startMatch) + Rank[pc]
        /\ Variant' = 5 * (n + 1 - startMatch') + Rank[pc']
        /\ Rank[pc] \in Int /\ Rank[pc'] \in Int
        /\ Variant \in Int /\ Variant' \in Int
    BY <2>1 DEF Variant, Rank
  <2>3. \/ startMatch' >= startMatch /\ Rank[pc'] < Rank[pc]
        \/ startMatch' >= startMatch + 1 /\ Rank[pc'] < Rank[pc] + 5
    <3>1. CASE Skip
      BY <2>1, <3>1 DEF Skip, Rank
    <3>2. CASE TryFails
      <4>1. pc = "try" /\ pc' \in {"done", "skip"} /\ startMatch' = startMatch + 1
        BY <3>2 DEF TryFails
      <4>. QED
        BY <2>1, <4>1 DEF Rank
    <3>3. CASE Enter
      <4>1. pc = "enter" /\ pc' \in {"done", "skip"} /\ startMatch' = startMatch
        BY <3>3 DEF Enter, Stop
      <4>. QED
        BY <2>1, <4>1 DEF Rank
    <3>4. CASE Require \/ NoNeed
      <4>1. pc = "require" /\ pc' = "try" /\ startMatch' = startMatch
        BY <3>4 DEF Require, NoNeed
      <4>. QED
        BY <2>1, <4>1 DEF Rank
    <3>5. CASE NoReq \/ TryError \/ TryMatches
      <4>1. pc \in {"require", "try"} /\ pc' = "done" /\ startMatch' = startMatch
        BY <3>5 DEF NoReq, TryError, TryMatches, Stop
      <4>. QED
        BY <2>1, <4>1 DEF Rank
    <3>. QED
      BY <3>1, <3>2, <3>3, <3>4, <3>5 DEF Next
  <2>. QED
    BY <2>1, <2>2, <2>3, Less DEF Falls
<1>. QED
  BY <1>1, <1>2, Invariance, InReachInvariance, PTL DEF Spec
=============================================================================
