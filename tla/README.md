# Verification of mruby-regexp-pcre

TLA+ specifications of the gem that gives mruby `Regexp`, `MatchData` and the
regular-expression methods of `String`, built on the PCRE library in `src/pcre`.
TLC checks small instances; TLAPS proves what matters most for all of them.

All line numbers below are those of `src/src/mruby_regexp_pcre.c` (C),
`src/mrblib/regexp_pcre.rb` (R), `src/mrblib/string_pcre.rb` (S) and
`src/pcre/pcre_exec.c` (P). What the compiler of pcre records is in
`src/pcre/pcre_compile.c`.

## 1. Inventory

| Component | State | Operations | Model |
|:--|:--|:--|:--|
| `Regexp` objects (C 90-237) | `DATA_PTR` to a struct that owns pcre's code; `@source`, `@options`, `@names` | `initialize`, `match`, `==`, `dup` | `PcreObjects` |
| `MatchData` objects (C 239-338) | `DATA_PTR` to a struct that owns the offset vector; `@regexp`, `@string` | `initialize`, `initialize_copy`, `begin`, `end`, `length`, `dup` | `PcreObjects`, `MatchValues` |
| Last match (C 181-205, R 14-16) | `@last_match` of each class; `$~ $& $' $1`... | published by `match` | `PcreObjects`, `StringCalls` |
| Search (C 160-179) | none | one `pcre_exec` from an offset | `PcreExec` |
| Loop of `pcre_exec` (P 6374-7173) | position, cached required character, vector | one attempt per position | `PcreSearch` |
| `String#scan` (S 236-260) | position, matches | loop, block | `StringScan` |
| `String#sub`, `gsub` (S 14-64) | position, result | loop, block | `StringGsub`, `StringCalls` |
| `String#split` (S 79-156) | position, last match, result | loop, limit, trim | `StringSplit` |
| Replacement templates (S 196-234) | template position, result, last match | `_replace_back_reference` | `BackReference` |
| `String#[]`, `slice!`, `[]=`, `splice` (S 161-193, 266-345) | the string, last match | group read and replaced | `StringSlice`, `StringCalls` |
| `index`, `=~`, `match` (S 3-11, 66-76), `Regexp#=~`, `===` (R 18-38) | last match | one match each | `StringCalls` |
| `MatchData` accessors (R 149-236) | none of their own | `[]`, `to_a`, `captures`, `values_at`, `pre_match`, `post_match` | `MatchDataIndex` |
| Options (C 55-88, R 44-81) | `@options` | conversions to pcre, back, and to text | `RegexpOptions` |
| `escape`, `inspect` (R 59-118, 191-199) | none | layout of text | not modelled |
| the rest of `src/pcre` | | | third-party; its contract only |

**How they interact.** Every `String` method calls `Regexp#match`. `match` allocates
the offset vector, lets pcre fill it, calls `MatchData.new` through the interpreter,
hands the vector over, and calls methods of the `MatchData` to compute the globals. The
collector can run at each allocation and frees objects through the function in their
`DATA_TYPE`. A block given to `scan` or `gsub` runs between two searches. A replacement
template is read with a `case` whose `when /[0-9]/` matches a Regexp itself, and so
publishes a match while another one is being substituted.

**What is hard.** There are no threads, but the C functions are not atomic: at every
allocation the collector may run, and `NoMemoryError` may unwind the function with
blocks in its local variables. Programs can call `initialize` again on live objects, and
`initialize_copy` and `dup` on any. The loops over matches live on their handling of
empty matches, of the end of the string, and of limits. The methods that match once
publish the match before they can still raise. pcre skips positions and caches what it
found. `hazards` in `PROJECT.json` lists each of these at its line.

**What makes each correct.** Memory: no dangling pointer, one owner per block, no leak.
Values: offsets belong to the string, copies are equal and independent, code belongs to the
source, globals to one match. Methods: every match is used, in order and once; no text is
lost; the loop ends, unless a block makes the string longer for ever; what a selector
replaces is what it reads. pcre: no shortcut changes the result, and no offset is read that
was not written.

## 2. Modules

| Module | Role |
|:--|:--|
| `PcreObjects` | The C code. One action per stretch of a function between two allocations, in the functions' order. |
| `MatchValues` | What a `MatchData` promises, without memory. `PcreObjects` implements it (`ImplementsMatchValues`). |
| `MCPcreObjects` | Values of its constants for TLC. |
| `PcreExec` | One search, and `AllMatches`, the reference for what a method over the whole string should use. |
| `PcreSearch` | The loop of `pcre_exec`, shown to find what `Exec` of `PcreExec` says. |
| `StringScan`, `StringGsub`, `StringSplit` | One method each, as a loop over `Exec`. |
| `MatchDataIndex` | The Ruby accessors over the offsets of one match, and the slices of mruby they use. |
| `BackReference` | The scanner of replacement templates. |
| `StringSlice` | What a selector of `[]` reads and what `[]=` leaves of the string. |
| `StringCalls` | One call of any method that matches once; composes the three modules above. `MCStringCalls` has the characters of its templates. |
| `RegexpOptions` | The option bits, with their theorems. |
| `*_proofs` | Theorems about the module of that name; `PcreExec_proofs` has lemmas only. |

Operators introduced by a comment `Mutant:` are wrong variants of the definition that
follows them. No specification uses them: putting one in the place of its definition
makes the property named in `PROJECT.json` fail, which shows that the property depends
on that code.

### PcreObjects

`mem` maps addresses to cells. A cell is free, a struct (`struct mrb_regexp_pcre` or
`struct mrb_matchdata`, with the block it owns and `length`) or a leaf (pcre's code, an
offset vector). `ptr` and `typed` are `DATA_PTR` and `DATA_TYPE`. `call` holds the C
function in progress: where it is and its local variables (`self`, `arg`, `md`, `vec` for
`match`, `rec` for `mrb_md_copy`). Offsets are abstracted to the pattern and subject they
were computed from, which is all the properties tell apart; a freed cell is blank, so a
read of freed memory would show. `@string` is abstracted to the subject it holds: `match`
dups the string of its caller (C 192), so that only a copy and its source share a String
object (C 292), and the program of the model does not change that object in place.
`@source` and `@options` are one value, a pattern;
`SourceText` tells which patterns differ in their options only, as `==` does not.

In the refinement a MatchData holds the match whose offsets it owns (`Holds`), whether or not
its accessors show it: a duplicate has offsets but no `DATA_TYPE`. `DupEqualsSource`, which
the code violates, is the statement about what the accessors show (`View`).

| Function | Actions |
|:--|:--|
| `regexp_pcre_initialize` | `InitEnter`, `InitAlloc`, `Compile` or `CompileError`, `InitSetIvs`, `PushName`, `InitReturn` |
| `regexp_pcre_match` | `MatchEnter`, `MatchNil` or `MatchFound`, `MatchNew`, `MatchAttach`, `MatchSetIvs`, `MatchPublish`, `SetGlobal`, `MatchReturn` |
| `mrb_matchdata_init` | `MdInitEnter`, `MdInitAlloc` |
| `mrb_matchdata_init_copy` | `InitializeCopy` or `DupMatchData`, `CopyAlloc`, `CopyVec` or `CopyNull`, `CopySwap`, `CopyIvs` |
| `regexp_equal`, `begin`, `end`, `length` | operators `Equal`, `View`: they change nothing |
| mruby | `DupRegexp`, `DupMatchData`, `Raise`, `Forget`, `Sweep` |

`CopyNull` is the dereference of a struct that the source does not have (C 276), which a
failed `MatchData#initialize` (C 249-251) makes possible: the process is dead then, and
nothing follows.

Calls do not nest in the model: the methods the C code calls through the interpreter
are the gem's own, and run to their end.

### PcreExec and the methods that loop

A pattern and a subject are a table: for each position, where a match that begins there
ends, that there is none (`Fail`), or that the try exceeds `match_limit_recursion`
(`Limit`). `Exec` takes the leftmost position that does not fail. TLC runs through
*all* tables of the bounded length, so through every behaviour of a pattern at that
length except `\K` (a match that begins after its own start) and `\G`. In `StringGsub` a
table may also depend on where the rest begins (`mode = "context"`), since `gsub`
matches against `self[i..-1]`. A piece of a result is a span of the string, a matched
span, or (in `split`) a capture, of which only emptiness matters.

### PcreSearch

The same table stands for `match()`. `pat` is what the compiler recorded at the end of
`pcre_compile2`: a first character, that matches begin at lines, that the pattern is
anchored, a required character. `Recorded` says what these promise of the table; nothing else
is assumed of the compiler. The steps are those of the loop (P 6738-7033): `Skip` the
positions a shortcut rules out, look for the required character (`Require`, `NoReq`) or rely
on where it was found before (`NoNeed`), try the position (`TryFails`, `TryError`,
`TryMatches`). `written` is the set of slots of the vector that hold a value.

### StringCalls

`md` is the match the pattern has in the receiver: the length of the receiver, the number
of groups, and the span of each or `Nil`. TLC takes every such match and every call.
`call` is the method with its arguments, `out` what it returned, `result` the receiver or
the string returned, as literal characters and spans of the old receiver. `last` tells
which match `$~` names: one from before, the match of this call, or the one `/[0-9]/` made
while a template was read. `Index` is the only method with an offset: what a search from
there finds is left open, except that it finds the leftmost match if that is not before
the offset. A method that may raise after it matched has its `last'` set where the code
matches.

| Code | Actions and operators |
|:--|:--|
| `_replace_back_reference` | one round of its loop: `ExpandText`, `ExpandTrailing`, `ExpandEscape` |
| `sub` | `SubMatch`, `Expand`, `SubReturn` |
| `[]`, `slice!`, `[]=` | `Slice`, `SliceBang`, `Assign` over `ReadGroup`, `AssignIndex`, `AssignCount`, `AssignRange`, `AssignGroup`, `Splice` |
| `String#index`, `=~`, `match` | `Index`, `MatchOperator`, `Match` |
| `Regexp#=~`, `===` | `RegexpOperator`, `CaseEqual`, with the arguments that match nothing |
| accessors | `At`, `ToA`, `Captures`, `ValueAt`, `PreMatch`, `PostMatch` |

## 3. Runs

| Run | Question | Instance |
|:--|:--|:--|
| `core_raise` | Is memory safe if any allocation may raise? Where does it leak? When do offsets and string part? | 1 Regexp, 2 MatchData, 1 pattern, 1 subject, no more than 2 vectors |
| `core_dup` | Do copies and duplicates keep the promises of `MatchValues`? | the same with `dup`, 2 subjects, 3 vectors, no failing allocation |
| `core_regexps` | Do code, source, names, `==` and globals agree over repeated and failed `initialize`? | 2 Regexps, 4 patterns (one invalid, two of the same source), 2 names, 1 MatchData, 2 globals |
| `core_dup_copy` | Does `dup` copy a match? **No.** | as `core_dup` |
| `search` | Does `pcre_exec` find what trying each position finds, and fill the vector? | subjects up to 3, offsets -1 to 4, 1 group, `REQ_BYTE_MAX` 3 |
| `scan` | Order, completeness, repeats, termination | strings up to 4 (`Lengths`); up to 2 with a block that replaces the string (`BlockLengths`) |
| `scan_repeat` | Is a match reported once? **No.** | strings up to 3 |
| `gsub` | Text preserved, matches complete, repeats, termination | strings up to 4 (`Lengths`); up to 2 with left context (`ContextLengths`), and with a block (`BlockLengths`) |
| `gsub_context` | Are the matches replaced those of the string? **No.** | one character |
| `split` | Text preserved, completeness, limit, termination | strings up to 4, limits -1 to 3, up to 1 group |
| `split_hang` | Does `split` return? **No.** | strings up to 2 |
| `calls` | What does a call return, replace and publish? | receivers up to 2, 2 groups, arguments -3 to 3, templates up to 4, a 3-bit `int` |

**Bounds.** Two MatchData objects are a source and a copy, or the last match and the next
one; with them come enough structs and vectors for one call in progress beside them.
One subject is enough where only memory is at stake, and two tell the offsets of one
string from those of another. In strings of four characters two matches can be adjacent,
apart, empty, or at the end. A block replaces its string by any other of up to two
characters, so by a shorter one, which leaves the position outside, and by a longer one;
how often it grows is not bounded, as it may shrink in between, and the proofs take any set
of lengths, so one without a largest. With three characters and `REQ_BYTE_MAX` 3, pcre does not
look for the required character at the first position and does at the others, and the
place it found can lie at, before and behind the next position. Two groups are a first
and a last one, each set or not; arguments up to 3 lie outside on both sides. Templates of
four characters have two escapes, or an escaped backslash before one; they are made of every
character the scanner tells apart, with a digit in range, one beyond, and a letter. The `int` of three
bits wraps within the offsets `index` is given. `MCMalloc` gives each kind of block its
own pool and the lowest free address of it: the code compares no addresses, so which free
block malloc returns changes nothing but names. The proofs do not use it: `Malloc` is any
function that returns free blocks, or none. `MatchDatas` is a symmetry set in the runs
that check safety or a box of actions; the runs with `<>` have no symmetry.

**Deadlock** is not checked: a method that has returned has no next step, and a core
instance has no step left when its pool of blocks is exhausted and nothing may raise, or
behind `CopyNull`.

**Fairness.** The modules of the methods and of the search assume `WF_vars(Next)`: the
loop is run by one thread that goes on while it can. The core has no liveness property
and no fairness.

### What they show

Holds, as far as the bounds go: all memory properties under failing allocations; the
refinement; the offsets of a MatchData are those of its string until a raise comes between
the two (`OffsetsFitUntilRaise`); pcre's shortcuts change nothing; `scan`, `gsub` and `split`
never lose text, and use every match of a pattern that is not sensitive to its left context
(`split`: that never matches the empty string); a template means what its escapes mean, each
read once; a call that finds a match makes it `$~` even if it raises later.

Does not hold:

- `dup` and `clone` of a MatchData show no match, and leak: the new object has no
  `DATA_TYPE` and `initialize_copy` sets only `DATA_PTR` (C 289). `CopyEqualsSource`
  holds for objects on which `initialize` was called.
- Leaks happen there, at a raise before the MatchData takes the vector (C 185), and at
  the second malloc of a copy (C 281); nowhere else (`LeaksOnlyWhereKnown`).
- `scan` and `gsub` use an empty match twice when it is not at the search position
  (S 246, 55); nothing else is repeated (`ScanRepeatsOnlyEmpty`, `GsubRepeatsOnlyEmpty`).
- `gsub` replaces what `^`, `\A`, `\b` or a lookbehind would not match in the string (S 42).
- `split` without a limit never returns when all the pieces and captures it found are empty or
  nil (S 150); once one of them is not, it does (`SplitReturnsUnlessBlank`).
- A block that makes the string longer in each round keeps `scan` and `gsub` going for ever,
  as they read the string anew each time (S 244, 41-42); `ScanTerminates` and `GsubTerminates`
  say that nothing else does.
- A raise in `match` or `initialize_copy` behind the offsets (C 189-192, 289-292) leaves a
  MatchData whose offsets belong to another string, and one at C 251 leaves a MatchData
  without a struct, the copy of which kills the process (C 276).

The properties of `StringCalls` are stated around what the code does differently from
what one may expect, and name it:

- After a `sub` whose template escapes a digit, `$~` is the match of `/[0-9]/` with that
  digit (S 224), not the match that was replaced (`LastMatchAfterCall`).
- `slice!` removes the text and then always raises `NoMethodError`: nothing defines
  `Regexp.last_match=` (S 191).
- A negative group is counted from the last one by `[]=` and by `MatchData#[]`, and from
  the one before the last by `String#[]` (S 170, 323); `slice!` reads with the one and
  removes with the other. `AssignReplacesWhatIsRead` takes `MatchData#[]` for these.
- `[]=` does not check where a Range starts (S 302); the property covers ranges that
  `String#[]` reads.
- With an offset that is no `int`, `index` searches from elsewhere (C 175), and may then
  report a match before the offset. The run has such offsets; no property is about them.
- `Regexp.new(re.to_s)` never has the flags of `re` (`ToSNeverRoundTrips`): `m` means another
  option to pcre, and `to_s` switches off the one every Regexp is compiled with (C 58).

Met while modelling and recorded as hazards: stale names after a second `initialize`, a
separator that `split` skips behind an empty match, captures counted against the limit of
`split`, a String object that a copy shares with its source.

The reference `AllMatches` ends where the recursion limit is exceeded, as the methods do
(C 176 takes it for no match). So the completeness properties say which matches are used up
to there; that those behind it are missed is not what they would find.

## 4. Proofs

Each proof module states an inductive invariant, `IInv` (`Inv` in `PcreObjects`), proves
that the initial states have it and that each action keeps it, and derives the properties
from it. The assumptions are the `ASSUME` of each module: bounds and
lengths are natural numbers, and
in `PcreObjects` the sets are disjoint where the C types are, `NULL` is none of their
elements, and malloc returns only free blocks.

| Module | Proved for every value of the constants |
|:--|:--|
| `PcreObjects_proofs` | always: `TypeOK`, `NoDangling`, `SingleOwner`, `OffsetsReadable`, `CopyEqualsSource`, `LeaksOnlyWhereKnown`, `OffsetsFitUntilRaise`, and the refinement `ImplementsMatchValues` |
| | if no allocation raises (`MayFail = FALSE`): `NamesCoverSource`, `GlobalsAgree`, `CopySourceHasData`, `CodeIsSource`, `EqualRunsSameText`, `OffsetsFitString` |
| `PcreSearch_proofs` | `TypeOK`, `SearchFindsLeftmost`, `RequiredIsAhead`, `OffsetsWritten`, `Progress` |
| `StringScan_proofs` | `TypeOK`, `ScanOrdered`, `ScanRepeatsOnlyEmpty`, `ScanFindsAll`, `Progress` |
| `StringGsub_proofs` | `TypeOK`, `GsubTiles`, `GsubRepeatsOnlyEmpty`, `GsubFindsAll`, `Progress` |
| `StringSplit_proofs` | `TypeOK`, `SplitTiles`, `SplitWithinLimit`, `SplitComplete`, `Progress`, `TrimKeepsText` |
| `StringCalls_proofs` | `TypeOK`, `AccessorsAgree`, `LastMatchAfterCall`, `AssignReplacesWhatIsRead`, `ExpandsTemplate`, `Progress` |
| `RegexpOptions` | `OptionsRoundTrip`, `ToSKeepsCaseAndBlanks`, `ToSNeverRoundTrips`, for every argument |

**PcreObjects.** `NoDangling` and `SingleOwner` need each other: a free leaves no dangling
pointer only if nobody else owns the block. Both need `Frame`, which says which local
variables of the call in progress hold a block and that they are set exactly between the
allocation and the hand-over, and `CodeOwned`, which says that an object without existence
has no data, so that the object `MatchData.new` makes is blank. `QuietStep` covers every
step that leaves the heap alone: only the local variables matter. Steps that free go
through `DataIsSeparate` (what one object owns is no part of anything else) and
`FreeDataStep`; steps that allocate through `NewBlockIsFresh` (a free block has no owner)
and `AttachNewStruct`.

What the objects show rests on a frame, `DataKept`: no step changes the data of an object
(`Kept`) but `InitAlloc` and `Compile` that of `self`, and `MatchNew`, `MatchAttach`,
`CopySwap` and `MdInitAlloc` that of the MatchData of the call. `PcAfter` and `PcBefore` say
where a call stands after and before each step, so that an invariant about one stretch of a
function meets only the steps of that stretch. On these stand invariants of one subject each:
`Lengths` (a struct's `length` is that of its filled vector, also in `rec`, so that it
survives a copy that is unwound), `CopySet` (source and copy own the same from the second
malloc on, and they are two objects), `MatchSet` (what is attached is filled from the subject
of the call and goes to a MatchData without offsets), `PlaceSet` (a new block goes where
nothing is), `NamesSet`, `GlobalsSet`, `StructsSet`, `CodeSet`, `TextSet`. The last five hold
between calls only if no call is left in the middle, which is where they need `MayFail =
FALSE`; that they fail otherwise is what a raise does to this code, not a weakness of the
invariants.

The refinement maps each step: `MdInitEnter`, `MdInitAlloc`, `MatchNew` and `DupMatchData` to
`Clear`, `MatchAttach` to `Found`, `CopySwap` to `Copy`, `Sweep` of a MatchData to `Drop`, the
`SetGlobal` that changes `$~` to `Publish`; the others stutter (`OtherSteps`). `Drop` needs
that `$~` is a root of the collector, `Found` needs `MatchSet`, `Copy` needs `CopySet`. For
offsets and string, `FitSteps` has the steps that change either. For
leaks, `Uses` says from where a block can be freed, and each step is shown to lose none, with
the exceptions the property names (`LeakSteps`).

**PcreSearch.** `Passed` says that every position behind the loop fails. Positions that
`Skip` passes over fail because of `Recorded`, in the `startline` case because the position
before fails too; this is why the first position must not be skipped. `Cached` says that
`req_char_ptr` lies before the start offset or at a place where the required character
stands, so that one stands ahead when it is not looked for. `SearchFindsLeftmost` follows, as
the least position that does not fail is the one `Exec` takes.

**StringScan, StringGsub, StringSplit.** `ExecBounds` of `PcreExec_proofs` bounds what a
search finds, from the definition of `Min`. The invariants relate the position to the last
piece of the result: a repeated match must be empty because the position is behind every
other one (`Behindhand`), text is tiled because each piece begins where the one before it
ended (`Covered`, `Tiled`), and a limit is kept because the number of texts is at most the
number of pieces (`Counted`).

**StringCalls.** The invariant ties `result` and `index` to the template and `last` to what
was read of it: `last = "digit"` exactly if a digit was escaped before `index`, which needs
that `index` is never within an escape. That `[]=` replaces what is read is a statement
about each selector: the ends of the span read are those of the pieces left
(`IndexAround`, `CountAround`, `RangeAround`, `StringAround`, `GroupAround`).

**All matches.** `AllMatches` and `FlattenSeq` are recursive functions, so what they compute
needs induction. The induction theorems of the library cannot be used here; the proofs take
the least or the greatest counterexample of a set of positions instead
(`DownwardInduction` of `PcreExec_proofs`, `UpwardInduction` of `StringCalls_proofs`). A
recursive function is a CHOOSE, and its equation holds only if there is such a function: that
is proved too, position by position (`FlatExists`, `FlatEquation`).

- `ScanFindsAll` and `GsubFindsAll`: the matches returned, together with those that a search
  from the present position on finds, are all matches of the string. Where gsub skips a
  character, a match that is found again is one that the result has already. gsub searches
  the rest of the string, so the invariant also says that the tables of the rests agree,
  which is what `mode = "plain"` assumes.
- `SplitComplete`: `Cutting` says that the separators so far (`Separators`: the gaps between
  the pieces, and the last match, behind which there is no piece yet) and the matches that a
  search from the end of the last one finds are all matches; that the separators begin before
  that end; and that with a limit there are as many of them as pieces. As no match is empty,
  the search goes on just where the last match ended.
- `ExpandsTemplate`: `Said` is what the characters before `index` mean, each on its own. The
  code takes several characters at a time; the proof shows for each of its branches that
  what it appends is what these characters mean one by one.

**Progress.** For each loop, `Variant` is a natural number that every step lowers: it counts
the positions ahead, and within a round the steps up to the next one. In `StringScan` and
`StringGsub` the positions ahead are those of the string as it is now; a block may replace
it, and only a step in which the block makes it longer (`Grows`) may raise the number. In
`StringSplit` the loop that drops trailing pieces does not move on; there the result gets
shorter, and it never loses the last piece that has text (`TrimKeepsText`). So every loop
stops, for strings and templates of any length, unless a block makes the string longer again
and again. What the proofs do not show is that a step is possible until the call has
returned; split at an empty result is where it is not, and `SplitTerminates` fails for that.

**Model-checked only.** The liveness properties: `SearchReturns`, `ScanTerminates`,
`GsubTerminates`, `SplitReturnsUnlessBlank`, `CallsReturn`. They need `ENABLED`, which the
provers do not know; `Progress` is the part of them that can be proved. Every safety
property of a run that passes has a theorem.

## 5. Not modelled

- **Most of `src/pcre`**: the compiler, `match()`, the DFA matcher, the JIT compiler with its
  assemblers, the Unicode tables and the programs that test them. It is vendored, makes up
  99 % of the lines of the repository, and the gem reaches it through `pcre_compile`,
  `pcre_fullinfo`, `pcre_exec` and `pcre_free` only. The model has what these promise, and
  checks the part of `pcre_exec` that one can check without knowing what a pattern means.
  The share of the repository's lines that the model maps is small for this reason; of the
  gem's own three files it leaves out layout of text only.
- In that part: `\K`, `\G`, `(*SKIP)` and `(*COMMIT)`, `PCRE_FIRSTLINE`, newline conventions of
  two characters, UTF, partial matches, studied patterns, and the temporary vector for
  back references beyond the vector given (`match` passes one for all groups, so pcre
  never needs it).
- Text: `escape`, `inspect`, the layout of `to_s`, encodings. Offsets are character
  positions, as in a build of mruby without UTF-8 strings.
- `MatchData#[]` with a name, a Range or a length: it goes through `named_captures` and
  `to_a`. With a name it asks the Regexp for the names it has now, which a second
  `initialize` may have changed. `MatchData#push` raises, as nothing sets `@data`.
- A program that changes the String of a MatchData in place, and with it that of its copies
  (C 292): the offsets stay as they were.
- Arguments of a class that `mrb_get_args` refuses: they raise `TypeError` before anything
  changes.
- A program that redefines `name_push`, `to_s` or `[]`, so that the calls from C do
  something else; a block that raises or leaves the method.
- The String versions of the methods, which are mruby's own. `str[string] = val` is modelled
  with the place found given.

## 6. Plan

Done: all methods of the gem that match; the search they rest on; the proofs of section 4,
which cover every invariant and every action property of the runs that pass, the refinement,
and for each loop that it stops.

Left, in this order:

1. What `pcre_compile` records for `PcreSearch` (`is_startline`, `find_firstassertedchar`),
   over a small syntax of patterns, so that `Recorded` is shown and not assumed.
2. A nested call in `PcreObjects`: a program that redefines what `match` calls.
