--------------------------- MODULE MCPcreObjects ---------------------------
(* Small instances of PcreObjects: two patterns that compile, with one     *)
(* name and capture each in different groups, the first of them with other *)
(* options, and one that does not compile.                                 *)
EXTENDS PcreObjects, TLC, FiniteSetsExt

CONSTANTS p1, p1i, p2, bad, RegexpClass, re1, re2

MCPatterns     == {p1, p1i, p2, bad}
MCOnePattern   == {p1}
MCSourceText   == [p \in Patterns |-> IF p = p1i THEN p1 ELSE p]
MCBadPatterns  == {bad} \cap Patterns
MCCaptureCount == [p \in Patterns |-> IF p = p2 THEN 2 ELSE 1]
MCNameTable    == [p \in Patterns |->
                    [n \in 1 .. NumNames |-> IF p \in {p1, p1i} /\ n = 1 THEN 1
                                             ELSE IF p = p2 /\ n = 2 THEN 2 ELSE 0]]
MCRegexps      == {re1, re2}
MCOneRegexp    == {re1}
MCClasses      == {RegexpClass}
MCClassOf      == [r \in Regexps |-> RegexpClass]

\* A malloc with a pool for each size that reuses the lowest free address.
\* The code compares no addresses, so another choice of free block gives the
\* same behaviour up to renaming.
Pool == [regexp |-> 1 .. 2, code |-> 3 .. 4, matchdata |-> 5 .. 7, vector |-> 8 .. 10]
MCMalloc == [size \in Sizes |-> [F \in SUBSET Blocks |->
              IF F \cap Pool[size] = {} THEN {} ELSE {Min(F \cap Pool[size])}]]

Symmetry == Permutations(MatchDatas)
=============================================================================
