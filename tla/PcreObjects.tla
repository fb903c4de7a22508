---------------------------- MODULE PcreObjects ----------------------------
(***************************************************************************)
(* The C half of the gem: Regexp and MatchData objects, the heap blocks    *)
(* behind their DATA_PTRs, the instance variables the C code sets, and the *)
(* "last match" state it publishes.                                        *)
(*                                                                         *)
(* mruby runs one C function at a time.  What a function does between two  *)
(* allocations is one action; at an allocation the collector may run       *)
(* (Sweep) and NoMemoryError may unwind the function (Raise), so the call  *)
(* in progress is part of the state.  A Regexp owns a struct that owns the *)
(* compiled code; a MatchData owns a struct that owns its offset vector.   *)
(***************************************************************************)
EXTENDS Integers

CONSTANTS
  Regexps, MatchDatas,  \* object identities
  Blocks,               \* heap addresses
  Malloc,               \* for a size and a set of free blocks, those malloc may return
  Patterns,             \* what a caller compiles: a source with its options
  SourceText,           \* the source of a pattern, without its options
  BadPatterns,          \* those pcre_compile rejects
  CaptureCount,         \* [Patterns -> Nat]: PCRE_INFO_CAPTURECOUNT
  NumNames,             \* group names are 1..NumNames, in alphabetical order
  NameTable,            \* the group each name has in a pattern, 0 for none
  Subjects,             \* contents a subject string can have
  Classes, ClassOf,     \* Regexp and its subclasses; the class of an object
  NumGlobals,           \* $~ is global 1, $& $` $' $1..$9 are the others
  MayFail,              \* can an allocation raise NoMemoryError?
  UseDup,               \* does the program use dup and clone?
  NULL

Objects == Regexps \cup MatchDatas

\* the two structs, pcre's compiled code and the offset vectors
Sizes == {"regexp", "matchdata", "code", "vector"}

ASSUME ConstantsAssumption ==
  /\ Regexps \cap MatchDatas = {}
  /\ NULL \notin Objects \cup Blocks \cup Patterns \cup Subjects
  /\ \A size \in Sizes, F \in SUBSET Blocks : Malloc[size][F] \subseteq F
  /\ BadPatterns \subseteq Patterns /\ DOMAIN SourceText = Patterns
  /\ NumNames \in Nat /\ NumGlobals \in Nat \ {0}
  /\ CaptureCount \in [Patterns -> Nat]
  /\ NameTable \in [Patterns -> [1 .. NumNames -> Nat]]
  /\ ClassOf \in [Regexps -> Classes]
  /\ MayFail \in BOOLEAN /\ UseDup \in BOOLEAN

VARIABLES
  mem,        \* heap cells
  ptr,        \* DATA_PTR of each object
  typed,      \* is DATA_TYPE of the object set?
  live,       \* objects that exist
  held,       \* objects the program still refers to
  source,     \* @source (and @options) of each Regexp
  names,      \* @names of each Regexp: the group of each name, 0 for none
  mdRegexp,   \* @regexp of each MatchData
  mdString,   \* @string of each MatchData
  lastMatch,  \* @last_match of each class
  gv,         \* the match each global was computed from
  call        \* the C function in progress

heap   == <<mem, ptr, typed>>
ivars  == <<live, source, names, mdRegexp, mdString>>
shared == <<lastMatch, gv>>
vars   == <<heap, ivars, shared, held, call>>
-----------------------------------------------------------------------------
(* Heap cells.  A freed cell is blank, so that reading one shows.          *)

Cell(kind, own, len, pat, sub) ==
  [kind |-> kind, own |-> own, len |-> len, pat |-> pat, sub |-> sub]

FreeCell         == Cell("free", NULL, 0, NULL, NULL)
Struct(own, len) == Cell("struct", own, len, NULL, NULL)
Code(p)          == Cell("leaf", NULL, 0, p, NULL)
\* Mutant: the vector is one slot short.
VectorTooShort(len) == Cell("leaf", NULL, len - 1, NULL, NULL)

Vector(len)      == Cell("leaf", NULL, len, NULL, NULL)

Alloc(size) == Malloc[size][{b \in Blocks : mem[b].kind = "free"}]

\* struct mrb_regexp_pcre.re, or struct mrb_matchdata.ovector
Owned(o) == IF ptr[o] = NULL THEN NULL ELSE mem[ptr[o]].own

\* Mutant: the free functions forget what the struct owns.
DataBlocksStructOnly(o) == {ptr[o]} \ {NULL}

DataBlocks(o) == {ptr[o], Owned(o)} \ {NULL}

Freed(F) == [b \in Blocks |-> IF b \in F THEN FreeCell ELSE mem[b]]

\* mrb_get_datatype: the struct, when the object is of the class it claims
HasData(o) == typed[o] /\ ptr[o] # NULL

\* the offsets an object's accessors see; nothing else of it is observable
View(m) ==
  IF ~HasData(m) THEN [len |-> 0, pat |-> NULL, sub |-> NULL]
  ELSE [len |-> mem[ptr[m]].len,
        pat |-> IF Owned(m) = NULL THEN NULL ELSE mem[Owned(m)].pat,
        sub |-> IF Owned(m) = NULL THEN NULL ELSE mem[Owned(m)].sub]

Idle == [pc |-> "idle", self |-> NULL, arg |-> NULL, rec |-> NULL,
         vec |-> NULL, md |-> NULL, i |-> 0]

Goto(pc) == call' = [call EXCEPT !.pc = pc]

\* objects the collector finds from variables, classes, globals and the C stack
Roots == live \cap ( held \cup {lastMatch[c] : c \in Classes}
                          \cup {gv[g] : g \in 1 .. NumGlobals}
                          \cup {call.self, call.arg, call.md} )
Reachable == Roots \cup {mdRegexp[m] : m \in Roots \cap MatchDatas}

NoNames == [n \in 1 .. NumNames |-> 0]

Init ==
  /\ mem = [b \in Blocks |-> FreeCell]
  /\ ptr = [o \in Objects |-> NULL]
  /\ typed = [o \in Objects |-> FALSE]
  /\ live = {} /\ held = {}
  /\ source = [r \in Regexps |-> NULL]
  /\ names = [r \in Regexps |-> NoNames]
  /\ mdRegexp = [m \in MatchDatas |-> NULL]
  /\ mdString = [m \in MatchDatas |-> NULL]
  /\ lastMatch = [c \in Classes |-> NULL]
  /\ gv = [g \in 1 .. NumGlobals |-> NULL]
  /\ call = Idle
-----------------------------------------------------------------------------
(* Regexp#initialize, from Regexp.new (r is new) or called again on r.     *)

\* Mutant: the pointer to the freed struct is kept.
InitEnterKeepsPtr(r, p) ==
  /\ call = Idle
  /\ r \in Reachable \/ r \notin live
  /\ live' = live \cup {r}
  /\ mem' = Freed(DataBlocks(r))
  /\ typed' = [typed EXCEPT ![r] = TRUE]
  /\ call' = [Idle EXCEPT !.pc = "initAlloc", !.self = r, !.arg = p]
  /\ UNCHANGED <<ptr, source, names, mdRegexp, mdString, shared, held>>

\* Up to the first malloc: the old data is freed and the pointer cleared.
\* A Regexp argument stands for its own source; when that is nil the code
\* raises TypeError before it changes anything.
InitEnter(r, p) ==
  /\ call = Idle
  /\ r \in Reachable \/ r \notin live
  /\ live' = live \cup {r}
  /\ mem' = Freed(DataBlocks(r))
  /\ typed' = [typed EXCEPT ![r] = TRUE]
  /\ ptr' = [ptr EXCEPT ![r] = NULL]
  /\ call' = [Idle EXCEPT !.pc = "initAlloc", !.self = r, !.arg = p]
  /\ UNCHANGED <<source, names, mdRegexp, mdString, shared, held>>

InitAlloc(b) ==
  /\ call.pc = "initAlloc" /\ b \in Alloc("regexp")
  /\ mem' = [mem EXCEPT ![b] = Struct(NULL, 0)]
  /\ ptr' = [ptr EXCEPT ![call.self] = b]
  /\ Goto("compile")
  /\ UNCHANGED <<typed, ivars, shared, held>>

Compile(b) ==
  /\ call.pc = "compile" /\ b \in Alloc("code")
  /\ call.arg \notin BadPatterns
  /\ mem' = [mem EXCEPT ![b] = Code(call.arg), ![ptr[call.self]].own = b]
  /\ Goto("ivs")
  /\ UNCHANGED <<ptr, typed, ivars, shared, held>>

\* ArgumentError leaves the empty struct and the old instance variables
CompileError ==
  /\ call.pc = "compile"
  /\ call.arg \in BadPatterns
  /\ call' = Idle
  /\ UNCHANGED <<heap, ivars, shared, held>>

\* Mutant: @source is set only the first time.
InitSetIvsOnce ==
  /\ call.pc = "ivs"
  /\ source' = [source EXCEPT ![call.self] = IF @ = NULL THEN call.arg ELSE @]
  /\ call' = [call EXCEPT !.pc = "names", !.i = 1]
  /\ UNCHANGED <<heap, live, names, mdRegexp, mdString, shared, held>>

\* Mutant: the name table is read from its second entry.
InitSetIvsSkipsName ==
  /\ call.pc = "ivs"
  /\ source' = [source EXCEPT ![call.self] = call.arg]
  /\ call' = [call EXCEPT !.pc = "names", !.i = 2]
  /\ UNCHANGED <<heap, live, names, mdRegexp, mdString, shared, held>>

InitSetIvs ==
  /\ call.pc = "ivs"
  /\ source' = [source EXCEPT ![call.self] = call.arg]
  /\ call' = [call EXCEPT !.pc = "names", !.i = 1]
  /\ UNCHANGED <<heap, live, names, mdRegexp, mdString, shared, held>>

\* one name_push per entry of the name table; @names is never cleared
PushName ==
  /\ call.pc = "names" /\ call.i <= NumNames
  /\ LET group == NameTable[call.arg][call.i] IN
       names' = IF group = 0 THEN names
                ELSE [names EXCEPT ![call.self][call.i] = group]
  /\ call' = [call EXCEPT !.i = @ + 1]
  /\ UNCHANGED <<heap, live, source, mdRegexp, mdString, shared, held>>

InitReturn ==
  /\ call.pc = "names" /\ call.i > NumNames
  /\ held' = held \cup {call.self}
  /\ call' = Idle
  /\ UNCHANGED <<heap, ivars, shared>>
-----------------------------------------------------------------------------
(* Regexp#match.  Without data, or without compiled code, it returns nil   *)
(* and changes nothing.                                                    *)

MatchEnter(r, s, b) ==
  /\ call = Idle /\ r \in Reachable /\ b \in Alloc("vector")
  /\ HasData(r) /\ Owned(r) # NULL
  /\ mem' = [mem EXCEPT ![b] = Vector(CaptureCount[mem[Owned(r)].pat] + 1)]
  /\ call' = [Idle EXCEPT !.pc = "exec", !.self = r, !.arg = s, !.vec = b]
  /\ UNCHANGED <<ptr, typed, ivars, shared, held>>

\* Mutant: the vector is not freed.
MatchNilKeepsVector ==
  /\ call.pc = "exec"
  /\ call' = Idle
  /\ UNCHANGED <<heap, ivars, shared, held>>

\* no match, a bad offset or a matching limit: the vector is freed
MatchNil ==
  /\ call.pc = "exec"
  /\ mem' = Freed({call.vec})
  /\ call' = Idle
  /\ UNCHANGED <<ptr, typed, ivars, shared, held>>

\* pcre_exec fills the vector, and @last_match is cleared
MatchFound ==
  /\ call.pc = "exec"
  /\ mem' = [mem EXCEPT ![call.vec].pat = mem[Owned(call.self)].pat,
                        ![call.vec].sub = call.arg]
  /\ lastMatch' = [lastMatch EXCEPT ![ClassOf[call.self]] = NULL]
  /\ Goto("new")
  /\ UNCHANGED <<ptr, typed, ivars, gv, held>>

\* MatchData.new: mrb_matchdata_init on a new object
MatchNew(m, b) ==
  /\ call.pc = "new" /\ m \notin live /\ b \in Alloc("matchdata")
  /\ live' = live \cup {m}
  /\ mem' = [mem EXCEPT ![b] = Struct(NULL, -1)]
  /\ typed' = [typed EXCEPT ![m] = TRUE]
  /\ ptr' = [ptr EXCEPT ![m] = b]
  /\ call' = [call EXCEPT !.pc = "attach", !.md = m]
  /\ UNCHANGED <<source, names, mdRegexp, mdString, shared, held>>

MatchAttach ==
  /\ call.pc = "attach"
  /\ mem' = [mem EXCEPT ![ptr[call.md]] = Struct(call.vec, mem[call.vec].len)]
  /\ call' = [call EXCEPT !.pc = "mdIvs", !.vec = NULL]
  /\ UNCHANGED <<ptr, typed, ivars, shared, held>>

MatchSetIvs ==
  /\ call.pc = "mdIvs"
  /\ mdRegexp' = [mdRegexp EXCEPT ![call.md] = call.self]
  /\ mdString' = [mdString EXCEPT ![call.md] = call.arg]
  /\ Goto("publish")
  /\ UNCHANGED <<heap, live, source, names, shared, held>>

MatchPublish ==
  /\ call.pc = "publish"
  /\ lastMatch' = [lastMatch EXCEPT ![ClassOf[call.self]] = call.md]
  /\ call' = [call EXCEPT !.pc = "globals", !.i = 1]
  /\ UNCHANGED <<heap, ivars, gv, held>>

\* Mutant: the receiver is stored in place of the MatchData.
SetGlobalSelf ==
  /\ call.pc = "globals" /\ call.i <= NumGlobals
  /\ gv' = [gv EXCEPT ![call.i] = call.self]
  /\ call' = [call EXCEPT !.i = @ + 1]
  /\ UNCHANGED <<heap, ivars, lastMatch, held>>

\* each global is set from a method call on the MatchData
SetGlobal ==
  /\ call.pc = "globals" /\ call.i <= NumGlobals
  /\ gv' = [gv EXCEPT ![call.i] = call.md]
  /\ call' = [call EXCEPT !.i = @ + 1]
  /\ UNCHANGED <<heap, ivars, lastMatch, held>>

\* Mutant: the last global is not set.
MatchReturnEarly ==
  /\ call.pc = "globals" /\ call.i >= NumGlobals
  /\ held' = held \cup {call.md}
  /\ call' = Idle
  /\ UNCHANGED <<heap, ivars, shared>>

MatchReturn ==
  /\ call.pc = "globals" /\ call.i > NumGlobals
  /\ held' = held \cup {call.md}
  /\ call' = Idle
  /\ UNCHANGED <<heap, ivars, shared>>
-----------------------------------------------------------------------------
(* MatchData#initialize, from MatchData.new or called again on m.          *)

MdInitEnter(m) ==
  /\ call = Idle
  /\ m \in Reachable \/ m \notin live
  /\ live' = live \cup {m}
  /\ mem' = Freed(DataBlocks(m))
  /\ typed' = [typed EXCEPT ![m] = TRUE]
  /\ ptr' = [ptr EXCEPT ![m] = NULL]
  /\ call' = [Idle EXCEPT !.pc = "mdAlloc", !.md = m]
  /\ UNCHANGED <<source, names, mdRegexp, mdString, shared, held>>

MdInitAlloc(b) ==
  /\ call.pc = "mdAlloc" /\ b \in Alloc("matchdata")
  /\ mem' = [mem EXCEPT ![b] = Struct(NULL, -1)]
  /\ ptr' = [ptr EXCEPT ![call.md] = b]
  /\ held' = held \cup {call.md}
  /\ call' = Idle
  /\ UNCHANGED <<typed, ivars, shared>>
-----------------------------------------------------------------------------
(* MatchData#initialize_copy: called on a MatchData the program holds, or  *)
(* by dup and clone on an object that has only its instance variables.     *)

InitializeCopy(c, s) ==
  /\ call = Idle /\ {c, s} \subseteq Reachable /\ c # s
  /\ call' = [Idle EXCEPT !.pc = "copyAlloc", !.md = c, !.arg = s]
  /\ UNCHANGED <<heap, ivars, shared, held>>

\* Mutant: the class has no initialize_copy.
DupMatchDataIvsOnly(c, s) ==
  /\ UseDup
  /\ call = Idle /\ c \notin live /\ s \in Reachable
  /\ live' = live \cup {c}
  /\ mdRegexp' = [mdRegexp EXCEPT ![c] = mdRegexp[s]]
  /\ mdString' = [mdString EXCEPT ![c] = mdString[s]]
  /\ held' = held \cup {c}
  /\ UNCHANGED <<heap, source, names, shared, call>>

DupMatchData(c, s) ==
  /\ UseDup
  /\ call = Idle /\ c \notin live /\ s \in Reachable
  /\ live' = live \cup {c}
  /\ mdRegexp' = [mdRegexp EXCEPT ![c] = mdRegexp[s]]
  /\ mdString' = [mdString EXCEPT ![c] = mdString[s]]
  /\ call' = [Idle EXCEPT !.pc = "copyAlloc", !.md = c, !.arg = s]
  /\ UNCHANGED <<heap, source, names, shared, held>>

\* Regexp defines no initialize_copy: dup copies the instance variables only
DupRegexp(d, r) ==
  /\ UseDup
  /\ call = Idle /\ d \notin live /\ r \in Reachable /\ ClassOf[d] = ClassOf[r]
  /\ live' = live \cup {d}
  /\ source' = [source EXCEPT ![d] = source[r]]
  /\ names' = [names EXCEPT ![d] = names[r]]
  /\ held' = held \cup {d}
  /\ UNCHANGED <<heap, mdRegexp, mdString, shared, call>>

CopyAlloc(b) ==
  /\ call.pc = "copyAlloc" /\ b \in Alloc("matchdata")
  /\ mem' = [mem EXCEPT ![b] = Struct(NULL, -1)]
  /\ call' = [call EXCEPT !.pc = "copyVec", !.rec = b]
  /\ UNCHANGED <<ptr, typed, ivars, shared, held>>

\* Mutant: the copy takes the vector of the source.
CopyVecShares(b) ==
  /\ call.pc = "copyVec" /\ ptr[call.arg] # NULL
  /\ mem' = [mem EXCEPT ![call.rec] = mem[ptr[call.arg]]]
  /\ Goto("copySwap")
  /\ UNCHANGED <<ptr, typed, ivars, shared, held>>

\* Mutant: the offsets are not copied.
CopyVecBlank(b) ==
  /\ call.pc = "copyVec" /\ ptr[call.arg] # NULL
  /\ LET len == mem[ptr[call.arg]].len IN
       IF Owned(call.arg) = NULL THEN mem' = mem
       ELSE /\ b \in Alloc("vector")
            /\ mem' = [mem EXCEPT ![b] = Vector(len), ![call.rec] = Struct(b, len)]
  /\ Goto("copySwap")
  /\ UNCHANGED <<ptr, typed, ivars, shared, held>>

\* The source's struct is dereferenced unchecked.  Without one, after a failed
\* initialize of the source, the process dies there.
CopyNull ==
  /\ call.pc = "copyVec" /\ ptr[call.arg] = NULL
  /\ Goto("crashed")
  /\ UNCHANGED <<heap, ivars, shared, held>>

CopyVec(b) ==
  /\ call.pc = "copyVec" /\ ptr[call.arg] # NULL
  /\ LET len == mem[ptr[call.arg]].len
         vec == Owned(call.arg)
     IN \/ /\ vec = NULL
           /\ mem' = mem
        \/ /\ vec # NULL /\ b \in Alloc("vector")
           /\ mem' = [mem EXCEPT ![b] = [mem[vec] EXCEPT !.len = len],
                                 ![call.rec] = Struct(b, len)]
  /\ Goto("copySwap")
  /\ UNCHANGED <<ptr, typed, ivars, shared, held>>

CopySwap ==
  /\ call.pc = "copySwap"
  /\ mem' = Freed(DataBlocks(call.md))
  /\ ptr' = [ptr EXCEPT ![call.md] = call.rec]
  /\ call' = [call EXCEPT !.pc = "copyIvs", !.rec = NULL]
  /\ UNCHANGED <<typed, ivars, shared, held>>

\* Mutant: @string is not copied.
CopyIvsRegexpOnly ==
  /\ call.pc = "copyIvs"
  /\ mdRegexp' = [mdRegexp EXCEPT ![call.md] = mdRegexp[call.arg]]
  /\ held' = held \cup {call.md}
  /\ call' = Idle
  /\ UNCHANGED <<heap, live, source, names, mdString, shared>>

\* The copy gets the source's String object, not a copy of it.  mdString is
\* its content: the program does not change a MatchData's string in place.
CopyIvs ==
  /\ call.pc = "copyIvs"
  /\ mdRegexp' = [mdRegexp EXCEPT ![call.md] = mdRegexp[call.arg]]
  /\ mdString' = [mdString EXCEPT ![call.md] = mdString[call.arg]]
  /\ held' = held \cup {call.md}
  /\ call' = Idle
  /\ UNCHANGED <<heap, live, source, names, shared>>
-----------------------------------------------------------------------------
(* The interpreter around the C code.                                      *)

\* An allocation fails.  Between the two of initialize_copy there is one only
\* if the source has offsets.
Raise ==
  /\ MayFail
  /\ call.pc \notin {"idle", "exec", "attach", "copySwap", "crashed"}
  /\ call.pc = "copyVec" => Owned(call.arg) # NULL
  /\ call' = Idle
  /\ UNCHANGED <<heap, ivars, shared, held>>

Forget(o) ==
  /\ call = Idle /\ o \in held
  /\ held' = held \ {o}
  /\ UNCHANGED <<heap, ivars, shared, call>>

\* the collector frees an unreachable object through its DATA_TYPE's dfree
Sweep(o) ==
  /\ call.pc # "crashed"
  /\ o \in live \ Reachable
  /\ live' = live \ {o}
  /\ mem' = IF typed[o] THEN Freed(DataBlocks(o)) ELSE mem
  /\ ptr' = [ptr EXCEPT ![o] = NULL]
  /\ typed' = [typed EXCEPT ![o] = FALSE]
  /\ IF o \in Regexps
       THEN /\ source' = [source EXCEPT ![o] = NULL]
            /\ names' = [names EXCEPT ![o] = NoNames]
            /\ UNCHANGED <<mdRegexp, mdString>>
       ELSE /\ mdRegexp' = [mdRegexp EXCEPT ![o] = NULL]
            /\ mdString' = [mdString EXCEPT ![o] = NULL]
            /\ UNCHANGED <<source, names>>
  /\ UNCHANGED <<shared, held, call>>
-----------------------------------------------------------------------------
RegexpStep ==
  \/ \E r \in Regexps, p \in Patterns : InitEnter(r, p)
  \/ \E b \in Blocks : InitAlloc(b) \/ Compile(b)
  \/ CompileError \/ InitSetIvs \/ PushName \/ InitReturn
  \/ \E r, d \in Regexps : DupRegexp(d, r)

MatchStep ==
  \/ \E r \in Regexps, s \in Subjects, b \in Blocks : MatchEnter(r, s, b)
  \/ MatchNil \/ MatchFound
  \/ \E m \in MatchDatas, b \in Blocks : MatchNew(m, b)
  \/ MatchAttach \/ MatchSetIvs \/ MatchPublish \/ SetGlobal \/ MatchReturn

MatchDataStep ==
  \/ \E m \in MatchDatas : MdInitEnter(m)
  \/ \E c, s \in MatchDatas : InitializeCopy(c, s) \/ DupMatchData(c, s)
  \/ \E b \in Blocks : MdInitAlloc(b) \/ CopyAlloc(b) \/ CopyVec(b)
  \/ CopyNull \/ CopySwap \/ CopyIvs

Next ==
  \/ RegexpStep \/ MatchStep \/ MatchDataStep
  \/ Raise
  \/ \E o \in Objects : Forget(o) \/ Sweep(o)

Spec == Init /\ [][Next]_vars
-----------------------------------------------------------------------------
Cells == [kind : {"free", "struct", "leaf"}, own : Blocks \cup {NULL}, len : Int,
          pat : Patterns \cup {NULL}, sub : Subjects \cup {NULL}]

Calls == [pc : {"idle", "initAlloc", "compile", "ivs", "names", "exec", "new",
                "attach", "mdIvs", "publish", "globals", "mdAlloc",
                "copyAlloc", "copyVec", "copySwap", "copyIvs", "crashed"},
          self : Regexps \cup {NULL},
          arg : Patterns \cup Subjects \cup MatchDatas \cup {NULL},
          rec : Blocks \cup {NULL}, vec : Blocks \cup {NULL},
          md : MatchDatas \cup {NULL}, i : Nat]

\* Every variable keeps the type the C declarations give it.
TypeOK ==
  /\ mem \in [Blocks -> Cells]
  /\ ptr \in [Objects -> Blocks \cup {NULL}]
  /\ typed \in [Objects -> BOOLEAN]
  /\ live \in SUBSET Objects /\ held \in SUBSET Objects
  /\ source \in [Regexps -> Patterns \cup {NULL}]
  /\ names \in [Regexps -> [1 .. NumNames -> Nat]]
  /\ mdRegexp \in [MatchDatas -> Regexps \cup {NULL}]
  /\ mdString \in [MatchDatas -> Subjects \cup {NULL}]
  /\ lastMatch \in [Classes -> MatchDatas \cup {NULL}]
  /\ gv \in [1 .. NumGlobals -> MatchDatas \cup {NULL}]
  /\ call \in Calls

(* What the code relies on between the steps of a call, and between calls. *)

\* Each local variable is set exactly while the code uses it, and the Regexp
\* pcre_exec runs on still has its code.
Frame ==
  /\ call.pc \in {"initAlloc", "compile", "ivs", "names"} =>
       call.self \in Regexps /\ call.self \in live /\ call.arg \in Patterns
  /\ call.pc \in {"exec", "new", "attach", "mdIvs", "publish", "globals"} =>
       call.self \in Regexps /\ call.arg \in Subjects
  /\ call.pc \in {"attach", "mdIvs", "publish", "globals", "mdAlloc"} =>
       call.md \in MatchDatas /\ call.md \in live
  /\ call.pc \in {"copyAlloc", "copyVec", "copySwap", "copyIvs", "crashed"} =>
       call.md \in MatchDatas /\ call.md \in live /\ call.arg \in MatchDatas
  /\ call.pc \in {"names", "globals"} => call.i >= 1
  /\ call.vec # NULL <=> call.pc \in {"exec", "new", "attach"}
  /\ call.rec # NULL <=> call.pc \in {"copyVec", "copySwap", "crashed"}
  /\ call.pc = "exec" => ptr[call.self] # NULL /\ Owned(call.self) # NULL

\* A Regexp's struct owns compiled code, and an object that does not exist
\* has no data.
CodeOwned ==
  /\ \A r \in Regexps : ptr[r] # NULL /\ Owned(r) # NULL =>
       mem[Owned(r)].pat \in Patterns
  /\ \A o \in Objects : ptr[o] # NULL => o \in live

(* Memory.  These hold whatever allocation fails and whenever the          *)
(* collector runs.                                                         *)

\* No object, struct or local variable of the C code points to a freed
\* block or to a block of the wrong kind: nothing is used after free.
NoDangling ==
  /\ \A o \in Objects : ptr[o] # NULL => mem[ptr[o]].kind = "struct"
  /\ \A b \in Blocks : mem[b].own # NULL =>
       mem[b].kind = "struct" /\ mem[mem[b].own].kind = "leaf"
  /\ call.rec # NULL => mem[call.rec].kind = "struct"
  /\ call.vec # NULL => mem[call.vec].kind = "leaf"

\* No two owners share a block, so no block is freed twice.
SingleOwner ==
  /\ \A o, p \in Objects : ptr[o] # NULL /\ ptr[o] = ptr[p] => o = p
  /\ \A b, c \in Blocks : mem[b].own # NULL /\ mem[b].own = mem[c].own => b = c
  /\ \A o \in Objects : ptr[o] # NULL => ptr[o] # call.rec
  /\ \A b \in Blocks : mem[b].own # NULL => mem[b].own # call.vec

\* The inductive invariant behind the properties above.
Inv == TypeOK /\ Frame /\ CodeOwned /\ NoDangling /\ SingleOwner

\* Every index begin and end accept is a slot of the vector that pcre_exec
\* filled, and length is the capture count of the pattern that matched.
OffsetsReadable ==
  \A m \in MatchDatas : HasData(m) /\ View(m).len > 0 =>
    /\ View(m).sub # NULL
    /\ View(m).len = CaptureCount[View(m).pat] + 1
    /\ mem[Owned(m)].len = View(m).len

\* Blocks become unreachable in three ways only: the vector of a match
\* unwound before the MatchData takes it, the struct of a copy unwound at
\* its second malloc, and the data of an object swept without a DATA_TYPE.
Orphans ==
  {b \in Blocks : mem[b].kind # "free"}
    \ ( (UNION {DataBlocks(o) : o \in Objects})
          \cup {call.rec, call.vec}
          \cup {mem[b].own : b \in {call.rec} \ {NULL}} )
LeaksOnlyWhereKnown ==
  [][ \/ Orphans' \subseteq Orphans
      \/ call.pc \in {"new", "copyVec"} /\ call'.pc = "idle"
      \/ \E o \in live \ live' : ~typed[o] ]_vars

(* Values.  These hold when no allocation fails.                           *)

Matched(m) == View(m).sub # NULL

\* The offsets of a MatchData are offsets into its own @string.
OffsetsFitString ==
  call = Idle => \A m \in Reachable \cap MatchDatas :
    Matched(m) => View(m).sub = mdString[m]

\* The offsets a MatchData owns are offsets into its own @string.
Fits(m) ==
  Owned(m) # NULL /\ mem[Owned(m)].sub # NULL => mem[Owned(m)].sub = mdString[m]

\* They need not be while a call that gave it offsets is about to set @string.
Settled(m) == Fits(m) \/ (m = call.md /\ call.pc \in {"mdIvs", "copyIvs"})

\* Also when allocations fail, a MatchData comes to have offsets into another
\* string in two ways only: the call that gave it offsets is unwound before
\* it sets @string, or it becomes the copy of one to which that happened.
OffsetsFitUntilRaise ==
  [][ \A m \in MatchDatas : Settled(m) =>
        \/ Settled(m)'
        \/ m = call.md /\ call.pc \in {"mdIvs", "copyIvs"} /\ Raise
        \/ m = call.md /\ CopyIvs /\ ~Fits(call.arg) ]_vars

\* All the globals describe one match, the last one of some class, and
\* that match was found by a Regexp.
GlobalsAgree ==
  call = Idle =>
    /\ \A g \in 1 .. NumGlobals : gv[g] = gv[1]
    /\ gv[1] # NULL => \E c \in Classes : lastMatch[c] = gv[1]

\* Code that can run is the code of @source: a failed initialize may leave
\* no code, never the code of another pattern.
CodeIsSource ==
  call = Idle => \A r \in Reachable \cap Regexps :
    HasData(r) /\ Owned(r) # NULL => mem[Owned(r)].pat = source[r]

\* A MatchData the program can pass to initialize_copy has a struct, which
\* the copy dereferences unchecked, and has it still when it is read.
CopySourceHasData ==
  /\ call = Idle => \A m \in Reachable \cap MatchDatas : ptr[m] # NULL
  /\ call.pc # "crashed"

\* Mutant: the sources are not compared.
SameSourceAlways(r, o) == TRUE

\* mrb_str_equal of the two @source: nil is equal to no string
SameSource(r, o) ==
  /\ source[r] # NULL /\ source[o] # NULL
  /\ SourceText[source[r]] = SourceText[source[o]]

\* Regexp#==: the options are not compared
Equal(r, o) ==
  IF r = o THEN "true"
  ELSE IF ~typed[o] THEN "false"
  ELSE IF ptr[r] = NULL \/ ptr[o] = NULL THEN "raise"
  ELSE IF SameSource(r, o) THEN "true" ELSE "false"

\* Two Regexps that == finds equal run code compiled from the same text, also
\* after a second initialize has failed on one of them.  Only their options
\* may differ.
EqualRunsSameText ==
  call = Idle => \A r, o \in Regexps \cap Reachable :
    Equal(r, o) = "true" /\ Owned(r) # NULL /\ Owned(o) # NULL =>
      SourceText[mem[Owned(r)].pat] = SourceText[mem[Owned(o)].pat]

\* Regexp#names has every name of the pattern, with its group.  It may have
\* names of an earlier pattern too.
NamesCoverSource ==
  call = Idle => \A r \in Regexps \cap Reachable, n \in 1 .. NumNames :
    source[r] # NULL /\ NameTable[source[r]][n] # 0 =>
      names[r][n] = NameTable[source[r]][n]

\* When initialize_copy returns, the copy shows what the source shows, if
\* initialize was called on both.
CopyEqualsSource ==
  [][ CopyIvs => \A c, s \in MatchDatas :
        c = call.md /\ s = call.arg /\ typed[c] /\ typed[s] => View(c)' = View(s)' ]_vars

\* The same for the copies dup makes, on which initialize is never called.
DupEqualsSource ==
  [][ CopyIvs => \A c, s \in MatchDatas :
        c = call.md /\ s = call.arg => View(c)' = View(s)' ]_vars

\* The match whose offsets a MatchData has, as the abstract MatchData has it.
\* A duplicate has them although its accessors do not show them.
Holds(m) ==
  IF m \notin live THEN <<>>
  ELSE IF Owned(m) = NULL THEN <<NULL, NULL>>
  ELSE <<mem[Owned(m)].pat, mem[Owned(m)].sub>>

Abstract == INSTANCE MatchValues WITH
  Matches <- Patterns \X Subjects, Absent <- <<>>, Empty <- <<NULL, NULL>>,
  None <- NULL, val <- [m \in MatchDatas |-> Holds(m)], last <- gv[1]

\* The objects implement the abstract MatchData: copies share nothing, no
\* call on one MatchData changes another, $~ is never collected.
ImplementsMatchValues == Abstract!Spec
=============================================================================
