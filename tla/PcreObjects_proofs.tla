------------------------ MODULE PcreObjects_proofs ------------------------
(***************************************************************************)
(* Proofs about PcreObjects, for any objects, patterns, names and any      *)
(* malloc: the types; that memory is used and freed correctly; what the    *)
(* objects, the copies and the globals show; that they implement the       *)
(* abstract MatchData; and the only ways a block is lost.                  *)
(***************************************************************************)
EXTENDS PcreObjects, TLAPS

\* NULL is no object, block, pattern or subject, and the sets are disjoint.
LEMMA Distinct ==
  /\ NULL \notin Regexps /\ NULL \notin MatchDatas /\ NULL \notin Objects
  /\ NULL \notin Blocks /\ NULL \notin Patterns /\ NULL \notin Subjects
  /\ Regexps \cap MatchDatas = {}
  /\ Regexps \subseteq Objects /\ MatchDatas \subseteq Objects
BY ConstantsAssumption DEF ConstantsAssumption, Objects

\* malloc returns a block that nothing uses.
LEMMA AllocIsFree ==
  ASSUME NEW size \in Sizes, NEW b \in Alloc(size)
  PROVE  b \in Blocks /\ mem[b].kind = "free"
<1>. DEFINE F == {x \in Blocks : mem[x].kind = "free"}
<1>1. F \in SUBSET Blocks
  OBVIOUS
<1>2. Malloc[size][F] \subseteq F
  BY <1>1, ConstantsAssumption DEF ConstantsAssumption
<1>. QED
  BY <1>2 DEF Alloc

\* The cells the code builds are cells.
LEMMA CellTypes ==
  /\ FreeCell \in Cells /\ FreeCell.kind = "free" /\ FreeCell.own = NULL
  /\ \A own \in Blocks \cup {NULL}, len \in Int :
       /\ Struct(own, len) \in Cells
       /\ Struct(own, len).kind = "struct" /\ Struct(own, len).own = own
  /\ \A p \in Patterns :
       /\ Code(p) \in Cells /\ Code(p).kind = "leaf"
       /\ Code(p).own = NULL /\ Code(p).pat = p
  /\ \A len \in Int :
       /\ Vector(len) \in Cells /\ Vector(len).kind = "leaf"
       /\ Vector(len).own = NULL
BY DEF Cells, Cell, FreeCell, Struct, Code, Vector

\* Freeing blanks the blocks freed and leaves the others alone.
LEMMA FreedCells ==
  ASSUME mem \in [Blocks -> Cells], NEW F
  PROVE  /\ Freed(F) \in [Blocks -> Cells]
         /\ \A b \in Blocks : Freed(F)[b] = IF b \in F THEN FreeCell ELSE mem[b]
BY CellTypes DEF Freed

\* The blocks of an object.
LEMMA DataTypes ==
  ASSUME TypeOK, NEW o \in Objects
  PROVE  /\ ptr[o] \in Blocks \cup {NULL} /\ Owned(o) \in Blocks \cup {NULL}
         /\ ptr[o] # NULL => Owned(o) = mem[ptr[o]].own
         /\ DataBlocks(o) \subseteq Blocks
BY Distinct DEF TypeOK, Cells, Owned, DataBlocks

\* A MatchData the collector finds exists.
LEMMA ReachableMatchData ==
  ASSUME TypeOK, NEW m \in MatchDatas, m \in Reachable
  PROVE  m \in live
<1>1. ASSUME NEW n \in Roots \cap MatchDatas, m = mdRegexp[n]
      PROVE  FALSE
  BY <1>1, Distinct DEF TypeOK
<1>2. m \in Roots
  BY <1>1 DEF Reachable
<1>. QED
  BY <1>2 DEF Roots

\* Counting in a call frame.
LEMMA CountCall ==
  ASSUME call \in Calls, call' = [call EXCEPT !.i = call.i + 1]
  PROVE  /\ call' \in Calls
         /\ call'.pc = call.pc /\ call'.self = call.self /\ call'.arg = call.arg
         /\ call'.rec = call.rec /\ call'.vec = call.vec /\ call'.md = call.md
         /\ call'.i = call.i + 1
<1>1. call.i \in Nat
  BY DEF Calls
<1>2. call.i + 1 \in Nat
  BY <1>1
<1>. DEFINE n == call.i + 1
<1>3. n \in Nat /\ call' = [call EXCEPT !.i = n]
  BY <1>2
<1>. HIDE DEF n
<1>4. /\ call' \in Calls
      /\ call'.pc = call.pc /\ call'.self = call.self /\ call'.arg = call.arg
      /\ call'.rec = call.rec /\ call'.vec = call.vec /\ call'.md = call.md
      /\ call'.i = n
  BY <1>3 DEF Calls
<1>. QED
  BY <1>4 DEF n

\* The invariant holds initially.
LEMMA InitInv == Init => Inv
<1>. SUFFICES ASSUME Init PROVE Inv
  OBVIOUS
<1>. USE ConstantsAssumption, Distinct, CellTypes DEF Init, Idle
<1>1. TypeOK
  BY DEF TypeOK, Calls, NoNames, ConstantsAssumption
<1>2. Frame /\ CodeOwned
  BY DEF Frame, CodeOwned, Owned
<1>3. NoDangling /\ SingleOwner
  BY DEF NoDangling, SingleOwner
<1>. QED
  BY <1>1, <1>2, <1>3 DEF Inv
-----------------------------------------------------------------------------
(* Steps that touch no memory.                                             *)

\* The memory part of the invariant survives a step that leaves the heap
\* alone and at most forgets a local variable.
LEMMA QuietStep ==
  ASSUME Inv, mem' = mem, ptr' = ptr, live \subseteq live',
         call'.rec \in {call.rec, NULL}, call'.vec \in {call.vec, NULL}
  PROVE  CodeOwned' /\ NoDangling' /\ SingleOwner'
BY DEF Inv, CodeOwned, NoDangling, SingleOwner, Owned

\* The steps of Regexp#initialize that touch no memory.
LEMMA InitQuietInv ==
  ASSUME Inv, CompileError \/ InitSetIvs \/ PushName \/ InitReturn
  PROVE  Inv'
<1>. USE Distinct DEF Inv
<1>1. CASE CompileError
  <2>1. TypeOK' /\ Frame'
    BY <1>1 DEF CompileError, TypeOK, Calls, Frame, Idle, heap, ivars, shared
  <2>2. CodeOwned' /\ NoDangling' /\ SingleOwner'
    BY <1>1, QuietStep DEF CompileError, Idle, heap, ivars
  <2>. QED
    BY <2>1, <2>2
<1>2. CASE InitSetIvs
  <2>1. call.self \in Regexps /\ call.arg \in Patterns
    BY <1>2 DEF InitSetIvs, Frame
  <2>2. call' = [call EXCEPT !.pc = "names", !.i = 1] /\ call' \in Calls
    BY <1>2 DEF InitSetIvs, TypeOK, Calls
  <2>3. TypeOK'
    BY <1>2, <2>1, <2>2 DEF InitSetIvs, TypeOK, heap, shared
  <2>4. Frame'
    BY <1>2, <2>1, <2>2 DEF InitSetIvs, Frame, TypeOK, Calls
  <2>5. CodeOwned' /\ NoDangling' /\ SingleOwner'
    BY <1>2, QuietStep DEF InitSetIvs, TypeOK, Calls, heap
  <2>. QED
    BY <2>3, <2>4, <2>5
<1>3. CASE PushName
  <2>. DEFINE group == NameTable[call.arg][call.i]
  <2>1. call.arg \in Patterns /\ call.i \in 1 .. NumNames /\ call.self \in Regexps
    BY <1>3, ConstantsAssumption DEF PushName, Frame, TypeOK, Calls, ConstantsAssumption
  <2>2. group \in Nat
    BY <2>1, ConstantsAssumption DEF ConstantsAssumption
  <2>3. call' \in Calls /\ call'.i >= 1 /\ call'.pc = "names"
    BY <1>3, <2>1, CountCall DEF PushName, TypeOK
  <2>4. names' \in [Regexps -> [1 .. NumNames -> Nat]]
    BY <1>3, <2>1, <2>2 DEF PushName, TypeOK
  <2>5. TypeOK'
    BY <1>3, <2>3, <2>4 DEF PushName, TypeOK, heap, shared
  <2>. Frame'
    BY <1>3, <2>1, <2>3, CountCall DEF PushName, Frame, TypeOK
  <2>6. CodeOwned' /\ NoDangling' /\ SingleOwner'
    BY <1>3, QuietStep DEF PushName, TypeOK, Calls, heap
  <2>. QED
    BY <2>5, <2>6
<1>4. CASE InitReturn
  <2>1. TypeOK' /\ Frame'
    BY <1>4 DEF InitReturn, TypeOK, Calls, Frame, Idle, heap, ivars, shared
  <2>2. CodeOwned' /\ NoDangling' /\ SingleOwner'
    BY <1>4, QuietStep DEF InitReturn, Idle, heap, ivars
  <2>. QED
    BY <2>1, <2>2
<1>. QED
  BY <1>1, <1>2, <1>3, <1>4

\* The steps of match that touch no memory.
LEMMA MatchQuietInv ==
  ASSUME Inv, MatchSetIvs \/ MatchPublish \/ SetGlobal \/ MatchReturn
  PROVE  Inv'
<1>. USE Distinct DEF Inv
<1>1. CASE MatchSetIvs
  <2>1. TypeOK' /\ Frame'
    BY <1>1 DEF MatchSetIvs, Goto, TypeOK, Calls, Frame, heap, shared
  <2>2. CodeOwned' /\ NoDangling' /\ SingleOwner'
    BY <1>1, QuietStep DEF MatchSetIvs, Goto, TypeOK, Calls, heap
  <2>. QED
    BY <2>1, <2>2
<1>2. CASE MatchPublish
  <2>1. ClassOf[call.self] \in Classes
    BY <1>2, ConstantsAssumption DEF MatchPublish, Frame, ConstantsAssumption
  <2>2. call' \in Calls
    BY <1>2 DEF MatchPublish, TypeOK, Calls
  <2>. TypeOK'
    BY <1>2, <2>1, <2>2 DEF MatchPublish, TypeOK, Calls, heap, ivars
  <2>. Frame'
    BY <1>2, <2>2 DEF MatchPublish, Frame, TypeOK, Calls, ivars
  <2>3. CodeOwned' /\ NoDangling' /\ SingleOwner'
    BY <1>2, QuietStep DEF MatchPublish, TypeOK, Calls, heap, ivars
  <2>. QED
    BY <2>2, <2>3
<1>3. CASE SetGlobal
  <2>1. call' \in Calls /\ call'.i >= 1 /\ call'.pc = "globals"
    <3>1. call.i \in Nat /\ call.i >= 1
      BY <1>3 DEF SetGlobal, TypeOK, Calls, Frame
    <3>. QED
      BY <1>3, <3>1, CountCall DEF SetGlobal, TypeOK
  <2>2. gv' \in [1 .. NumGlobals -> MatchDatas \cup {NULL}]
    BY <1>3 DEF SetGlobal, TypeOK, Calls
  <2>3. TypeOK'
    BY <1>3, <2>1, <2>2 DEF SetGlobal, TypeOK, heap, ivars
  <2>. Frame'
    BY <1>3, <2>1, CountCall DEF SetGlobal, Frame, TypeOK, ivars
  <2>4. CodeOwned' /\ NoDangling' /\ SingleOwner'
    BY <1>3, QuietStep DEF SetGlobal, TypeOK, Calls, heap, ivars
  <2>. QED
    BY <2>3, <2>4
<1>4. CASE MatchReturn
  <2>1. TypeOK' /\ Frame'
    BY <1>4 DEF MatchReturn, TypeOK, Calls, Frame, Idle, heap, ivars, shared
  <2>2. CodeOwned' /\ NoDangling' /\ SingleOwner'
    BY <1>4, QuietStep DEF MatchReturn, Idle, heap, ivars
  <2>. QED
    BY <2>1, <2>2
<1>. QED
  BY <1>1, <1>2, <1>3, <1>4

\* The steps of initialize_copy that touch no memory.
LEMMA MatchDataQuietInv ==
  ASSUME Inv,
         \/ \E c, s \in MatchDatas : InitializeCopy(c, s) \/ DupMatchData(c, s)
         \/ CopyIvs \/ CopyNull
  PROVE  Inv'
<1>. USE Distinct DEF Inv
<1>1. ASSUME NEW c \in MatchDatas, NEW s \in MatchDatas, InitializeCopy(c, s)
      PROVE  Inv'
  <2>. c \in live
    BY <1>1, ReachableMatchData DEF InitializeCopy
  <2>1. TypeOK' /\ Frame'
    BY <1>1 DEF InitializeCopy, TypeOK, Calls, Frame, Idle, heap, ivars, shared
  <2>2. CodeOwned' /\ NoDangling' /\ SingleOwner'
    BY <1>1, QuietStep DEF InitializeCopy, Idle, heap, ivars
  <2>. QED
    BY <2>1, <2>2
<1>2. ASSUME NEW c \in MatchDatas, NEW s \in MatchDatas, DupMatchData(c, s)
      PROVE  Inv'
  <2>1. TypeOK' /\ Frame'
    BY <1>2 DEF DupMatchData, TypeOK, Calls, Frame, Idle, heap, shared
  <2>2. CodeOwned' /\ NoDangling' /\ SingleOwner'
    BY <1>2, QuietStep DEF DupMatchData, Idle, heap
  <2>. QED
    BY <2>1, <2>2
<1>3. CASE CopyIvs
  <2>1. TypeOK' /\ Frame'
    BY <1>3 DEF CopyIvs, TypeOK, Calls, Frame, Idle, heap, shared
  <2>2. CodeOwned' /\ NoDangling' /\ SingleOwner'
    BY <1>3, QuietStep DEF CopyIvs, Idle, heap
  <2>. QED
    BY <2>1, <2>2
<1>4. CASE CopyNull
  <2>1. /\ call.pc = "copyVec" /\ call' = [call EXCEPT !.pc = "crashed"]
        /\ UNCHANGED <<heap, ivars, shared, held>>
    BY <1>4 DEF CopyNull, Goto
  <2>2. TypeOK' /\ Frame'
    BY <2>1 DEF TypeOK, Calls, Frame, heap, ivars, shared
  <2>3. call'.rec = call.rec /\ call'.vec = call.vec
    BY <2>1 DEF TypeOK, Calls
  <2>4. CodeOwned' /\ NoDangling' /\ SingleOwner'
    BY <2>1, <2>3, QuietStep DEF heap, ivars
  <2>. QED
    BY <2>2, <2>4
<1>. QED
  BY <1>1, <1>2, <1>3, <1>4

\* The steps of the interpreter that touch no memory.
LEMMA RuntimeQuietInv ==
  ASSUME Inv,
         \/ Raise
         \/ \E o \in Objects : Forget(o)
         \/ \E r, d \in Regexps : DupRegexp(d, r)
         \/ UNCHANGED vars
  PROVE  Inv'
<1>. USE Distinct DEF Inv
<1>1. CASE Raise
  <2>1. TypeOK' /\ Frame'
    BY <1>1 DEF Raise, TypeOK, Calls, Frame, Idle, heap, ivars, shared
  <2>2. CodeOwned' /\ NoDangling' /\ SingleOwner'
    BY <1>1, QuietStep DEF Raise, Idle, heap, ivars
  <2>. QED
    BY <2>1, <2>2
<1>2. ASSUME NEW o \in Objects, Forget(o)
      PROVE  Inv'
  <2>1. TypeOK' /\ Frame'
    BY <1>2 DEF Forget, TypeOK, Frame, Idle, Owned, heap, ivars, shared
  <2>2. CodeOwned' /\ NoDangling' /\ SingleOwner'
    BY <1>2, QuietStep DEF Forget, heap, ivars
  <2>. QED
    BY <2>1, <2>2
<1>3. ASSUME NEW r \in Regexps, NEW d \in Regexps, DupRegexp(d, r)
      PROVE  Inv'
  <2>1. TypeOK' /\ Frame'
    BY <1>3 DEF DupRegexp, TypeOK, Frame, Idle, Owned, heap, shared
  <2>2. CodeOwned' /\ NoDangling' /\ SingleOwner'
    BY <1>3, QuietStep DEF DupRegexp, heap
  <2>. QED
    BY <2>1, <2>2
<1>4. CASE UNCHANGED vars
  <2>1. TypeOK' /\ Frame'
    BY <1>4 DEF vars, TypeOK, Frame, Owned, heap, ivars, shared
  <2>2. CodeOwned' /\ NoDangling' /\ SingleOwner'
    BY <1>4, QuietStep DEF vars, heap, ivars
  <2>. QED
    BY <2>1, <2>2
<1>. QED
  BY <1>1, <1>2, <1>3, <1>4
-----------------------------------------------------------------------------
(* Steps that free blocks.                                                 *)

\* The data of one object is no part of another object's data, of a struct
\* outside it, or of the call in progress.
LEMMA DataIsSeparate ==
  ASSUME Inv, NEW o \in Objects
  PROVE  /\ \A q \in Objects : q # o /\ ptr[q] # NULL => ptr[q] \in Blocks \ DataBlocks(o)
         /\ \A b \in Blocks \ DataBlocks(o) :
              mem[b].own # NULL => mem[b].own \in Blocks \ DataBlocks(o)
         /\ call.rec # NULL => call.rec \in Blocks \ DataBlocks(o)
         /\ call.vec # NULL => call.vec \in Blocks \ DataBlocks(o)
<1>. USE Distinct DEF Inv
<1>1. ptr[o] \in Blocks \cup {NULL} /\ Owned(o) \in Blocks \cup {NULL}
      /\ (ptr[o] # NULL => Owned(o) = mem[ptr[o]].own)
      /\ (ptr[o] = NULL => Owned(o) = NULL)
  BY DataTypes DEF Owned
<1>2. ASSUME NEW q \in Objects, q # o, ptr[q] # NULL
      PROVE  ptr[q] \in Blocks \ DataBlocks(o)
  <2>1. ptr[q] \in Blocks /\ mem[ptr[q]].kind = "struct" /\ ptr[q] # ptr[o]
    BY <1>2 DEF TypeOK, NoDangling, SingleOwner
  <2>2. ptr[q] # Owned(o)
    BY <1>1, <2>1 DEF NoDangling
  <2>. QED
    BY <2>1, <2>2 DEF DataBlocks
<1>3. ASSUME NEW b \in Blocks \ DataBlocks(o), mem[b].own # NULL
      PROVE  mem[b].own \in Blocks \ DataBlocks(o)
  <2>1. mem[b].own \in Blocks /\ mem[mem[b].own].kind = "leaf"
    BY <1>3 DEF TypeOK, Cells, NoDangling
  <2>2. mem[b].own # ptr[o]
    BY <1>1, <2>1 DEF NoDangling
  <2>3. mem[b].own # Owned(o)
    BY <1>1, <1>3 DEF DataBlocks, SingleOwner
  <2>. QED
    BY <2>1, <2>2, <2>3 DEF DataBlocks
<1>4. call.rec # NULL => call.rec \in Blocks \ DataBlocks(o)
  BY <1>1 DEF NoDangling, SingleOwner, DataBlocks, TypeOK, Calls
<1>5. call.vec # NULL => call.vec \in Blocks \ DataBlocks(o)
  BY <1>1 DEF NoDangling, SingleOwner, DataBlocks, TypeOK, Calls
<1>. QED
  BY <1>2, <1>3, <1>4, <1>5

\* Freeing the data of one object, which then has no data, disturbs nothing
\* of another object or of the call in progress.
LEMMA FreeDataStep ==
  ASSUME Inv, NEW o \in Objects,
         mem' = Freed(DataBlocks(o)), ptr' = [ptr EXCEPT ![o] = NULL],
         live' = live \cup {o} \/ live' = live \ {o},
         call'.rec \in {call.rec, NULL}, call'.vec \in {call.vec, NULL}
  PROVE  CodeOwned' /\ NoDangling' /\ SingleOwner'
<1>. USE Distinct DEF Inv
<1>1. \A b \in Blocks : mem'[b] = IF b \in DataBlocks(o) THEN FreeCell ELSE mem[b]
  BY FreedCells DEF TypeOK
<1>2. \A q \in Objects : ptr'[q] # NULL => q # o /\ ptr'[q] = ptr[q]
  BY DEF TypeOK
<1>3. \A b \in Blocks : mem'[b].own # NULL => b \notin DataBlocks(o) /\ mem'[b] = mem[b]
  BY <1>1, CellTypes
<1>4. CodeOwned'
  BY <1>1, <1>2, DataIsSeparate DEF CodeOwned, Owned
<1>5. NoDangling'
  BY <1>1, <1>2, <1>3, DataIsSeparate DEF NoDangling
<1>6. SingleOwner'
  BY <1>2, <1>3 DEF SingleOwner
<1>. QED
  BY <1>4, <1>5, <1>6

\* Regexp#initialize frees the old data.
LEMMA InitEnterInv ==
  ASSUME Inv, NEW r \in Regexps, NEW p \in Patterns, InitEnter(r, p)
  PROVE  Inv'
<1>. USE Distinct DEF Inv
<1>1. mem' \in [Blocks -> Cells]
  BY FreedCells DEF InitEnter, TypeOK
<1>2. TypeOK' /\ Frame'
  BY <1>1 DEF InitEnter, TypeOK, Calls, Frame, Idle, shared
<1>3. CodeOwned' /\ NoDangling' /\ SingleOwner'
  BY FreeDataStep DEF InitEnter, Idle
<1>. QED
  BY <1>2, <1>3

\* MatchData#initialize frees the old data.
LEMMA MdInitEnterInv ==
  ASSUME Inv, NEW m \in MatchDatas, MdInitEnter(m)
  PROVE  Inv'
<1>. USE Distinct DEF Inv
<1>1. mem' \in [Blocks -> Cells]
  BY FreedCells DEF MdInitEnter, TypeOK
<1>2. TypeOK' /\ Frame'
  BY <1>1 DEF MdInitEnter, TypeOK, Calls, Frame, Idle, shared
<1>3. CodeOwned' /\ NoDangling' /\ SingleOwner'
  BY FreeDataStep DEF MdInitEnter, Idle
<1>. QED
  BY <1>2, <1>3

\* Sweeping an object without a DATA_TYPE leaves its blocks to nobody.
LEMMA SweepInv ==
  ASSUME Inv, NEW o \in Objects, Sweep(o)
  PROVE  Inv'
<1>. USE Distinct DEF Inv
<1>1. mem' \in [Blocks -> Cells]
  BY FreedCells DEF Sweep, TypeOK
<1>2. NoNames \in [1 .. NumNames -> Nat]
  BY DEF NoNames
<1>3. TypeOK'
  <2>1. CASE o \in Regexps
    <3>1. /\ source' \in [Regexps -> Patterns \cup {NULL}]
          /\ names' \in [Regexps -> [1 .. NumNames -> Nat]]
      BY <1>2, <2>1 DEF Sweep, TypeOK
    <3>. QED
      BY <1>1, <2>1, <3>1 DEF Sweep, TypeOK, shared
  <2>2. CASE o \notin Regexps
    <3>1. o \in MatchDatas
      BY <2>2 DEF Objects
    <3>. QED
      BY <1>1, <2>2, <3>1 DEF Sweep, TypeOK, shared
  <2>. QED
    BY <2>1, <2>2
<1>4. CodeOwned' /\ NoDangling' /\ SingleOwner'
  <2>1. CASE typed[o]
    BY <2>1, FreeDataStep DEF Sweep
  <2>2. CASE ~typed[o]
    <3>1. /\ mem' = mem /\ call' = call
          /\ \A q \in Objects : ptr'[q] # NULL => q # o /\ ptr'[q] = ptr[q]
      BY <2>2 DEF Sweep, TypeOK
    <3>2. live' = live \ {o}
      BY DEF Sweep
    <3>. QED
      BY <3>1, <3>2 DEF CodeOwned, NoDangling, SingleOwner, Owned
  <2>. QED
    BY <2>1, <2>2
<1>5. Frame'
  <2>. \A q \in {call.self, call.md} \cap live : q \in live'
    BY DEF Sweep, Reachable, Roots
  <2>1. CASE call.pc = "exec"
    <3>1. call.self \in Objects /\ ptr[call.self] \in Blocks
          /\ Owned(call.self) # NULL /\ call.self \in live
      BY <2>1 DEF Frame, CodeOwned, TypeOK
    <3>2. call.self # o
      BY <3>1 DEF Sweep, Reachable, Roots
    <3>3. ptr'[call.self] = ptr[call.self]
      BY <3>1, <3>2 DEF Sweep, TypeOK
    <3>4. mem'[ptr[call.self]] = mem[ptr[call.self]]
      <4>1. ptr[call.self] \notin DataBlocks(o)
        BY <3>1, <3>2 DEF DataBlocks, Owned, NoDangling, SingleOwner, TypeOK
      <4>. QED
        BY <4>1, <3>1, FreedCells DEF Sweep, TypeOK
    <3>. QED
      BY <2>1, <3>1, <3>3, <3>4 DEF Sweep, Frame, Owned
  <2>2. CASE call.pc # "exec"
    BY <2>2 DEF Sweep, Frame
  <2>. QED
    BY <2>1, <2>2
<1>. QED
  BY <1>3, <1>4, <1>5

\* The vector of a failed match belongs to the call only.
LEMMA MatchNilInv ==
  ASSUME Inv, MatchNil
  PROVE  Inv'
<1>. USE Distinct DEF Inv
<1>1. mem' \in [Blocks -> Cells]
      /\ \A b \in Blocks : mem'[b] = IF b = call.vec THEN FreeCell ELSE mem[b]
  BY FreedCells DEF MatchNil, TypeOK
<1>2. TypeOK' /\ Frame'
  BY <1>1 DEF MatchNil, TypeOK, Calls, Frame, Idle, ivars, shared
<1>3. call.vec \in Blocks /\ mem[call.vec].kind = "leaf"
  BY DEF MatchNil, Frame, NoDangling, TypeOK, Calls
<1>4. \A o \in Objects : ptr[o] # NULL => ptr[o] \in Blocks /\ mem'[ptr[o]] = mem[ptr[o]]
  BY <1>1, <1>3 DEF NoDangling, TypeOK
<1>5. \A b \in Blocks : mem'[b].own # NULL =>
        mem'[b] = mem[b] /\ mem[b].own \in Blocks /\ mem'[mem[b].own] = mem[mem[b].own]
  <2>1. ASSUME NEW b \in Blocks, mem'[b].own # NULL
        PROVE  mem'[b] = mem[b] /\ mem[b].own # NULL
    BY <1>1, <2>1, CellTypes
  <2>2. ASSUME NEW b \in Blocks, mem[b].own # NULL
        PROVE  mem[b].own \in Blocks /\ mem[b].own # call.vec
    BY <2>2 DEF SingleOwner, TypeOK, Cells
  <2>. QED
    BY <1>1, <2>1, <2>2
<1>6. ptr' = ptr /\ live' = live /\ call'.rec = NULL /\ call'.vec = NULL
  BY DEF MatchNil, Idle, ivars
<1>7. CodeOwned'
  BY <1>4, <1>5, <1>6 DEF CodeOwned, Owned
<1>8. NoDangling' /\ SingleOwner'
  BY <1>4, <1>5, <1>6 DEF NoDangling, SingleOwner
<1>. QED
  BY <1>2, <1>7, <1>8

\* The copy's old data is freed and the new struct becomes its data.
LEMMA CopySwapInv ==
  ASSUME Inv, CopySwap
  PROVE  Inv'
<1>. USE Distinct DEF Inv
<1>. DEFINE c == call.md
            F == DataBlocks(c)
<1>1. c \in MatchDatas /\ call.rec \in Blocks /\ mem[call.rec].kind = "struct"
  BY DEF CopySwap, Frame, NoDangling, TypeOK, Calls
<1>2. mem' \in [Blocks -> Cells]
      /\ \A b \in Blocks : mem'[b] = IF b \in F THEN FreeCell ELSE mem[b]
  BY FreedCells DEF CopySwap, TypeOK
<1>3. call' = [call EXCEPT !.pc = "copyIvs", !.rec = NULL] /\ call' \in Calls
  BY DEF CopySwap, TypeOK, Calls
<1>4. ptr' \in [Objects -> Blocks \cup {NULL}] /\ ptr'[c] = call.rec
      /\ \A o \in Objects : o # c => ptr'[o] = ptr[o]
  BY <1>1 DEF CopySwap, TypeOK
<1>5. TypeOK'
  BY <1>2, <1>3, <1>4 DEF CopySwap, TypeOK, ivars, shared
<1>6. Frame'
  BY <1>3 DEF CopySwap, Frame, TypeOK, Calls, ivars
<1>7. live' = live /\ call'.rec = NULL /\ call'.vec = call.vec
  BY <1>3 DEF CopySwap, ivars, TypeOK, Calls
<1>8. \A b \in Blocks : mem'[b].own # NULL => b \notin F /\ mem'[b] = mem[b]
  BY <1>2, CellTypes
<1>9. \A o \in Objects : ptr'[o] # NULL => ptr'[o] \in Blocks \ F
  BY <1>1, <1>4, DataIsSeparate
<1>10. c \in live
  BY <1>1 DEF CopySwap, Frame
<1>11. CodeOwned'
  BY <1>1, <1>2, <1>4, <1>7, <1>9, <1>10, DataIsSeparate DEF CodeOwned, Owned
<1>12. NoDangling'
  BY <1>1, <1>2, <1>4, <1>7, <1>8, <1>9, DataIsSeparate DEF NoDangling
<1>13. SingleOwner'
  BY <1>1, <1>4, <1>7, <1>8 DEF SingleOwner
<1>. QED
  BY <1>5, <1>6, <1>11, <1>12, <1>13
-----------------------------------------------------------------------------
(* Steps that allocate blocks, or fill blocks of the call in progress.     *)

\* A new block is referred to by nothing, so writing it disturbs nothing.
LEMMA NewBlockIsFresh ==
  ASSUME Inv, NEW b \in Blocks, mem[b].kind = "free"
  PROVE  /\ \A o \in Objects : ptr[o] # b
         /\ \A x \in Blocks : mem[x].own # b
         /\ mem[b].own = NULL /\ call.rec # b /\ call.vec # b
<1>. USE Distinct DEF Inv
<1>1. /\ \A o \in Objects : ptr[o] # b
      /\ \A x \in Blocks : mem[x].own # b
      /\ call.rec # b /\ call.vec # b
  BY DEF NoDangling
<1>2. mem[b].own = NULL
  BY DEF NoDangling
<1>. QED
  BY <1>1, <1>2

\* A new struct that becomes the data of an object.
LEMMA AttachNewStruct ==
  ASSUME Inv, NEW o \in Objects, NEW len \in Int,
         NEW b \in Blocks, mem[b].kind = "free",
         mem' = [mem EXCEPT ![b] = Struct(NULL, len)],
         ptr' = [ptr EXCEPT ![o] = b],
         o \in live', live \subseteq live',
         call'.rec \in {call.rec, NULL}, call'.vec \in {call.vec, NULL}
  PROVE  CodeOwned' /\ NoDangling' /\ SingleOwner'
<1>. USE Distinct DEF Inv
<1>1. \A x \in Blocks : mem'[x] = IF x = b THEN Struct(NULL, len) ELSE mem[x]
  BY DEF TypeOK
<1>2. \A x \in Blocks : mem'[x].own # NULL =>
        x # b /\ mem'[x] = mem[x] /\ mem[x].own \in Blocks
        /\ mem'[mem[x].own] = mem[mem[x].own]
  <2>1. ASSUME NEW x \in Blocks, mem'[x].own # NULL
        PROVE  x # b /\ mem'[x] = mem[x]
    BY <1>1, <2>1, CellTypes
  <2>2. ASSUME NEW x \in Blocks, mem[x].own # NULL
        PROVE  mem[x].own \in Blocks /\ mem[x].own # b
    BY <2>2, NewBlockIsFresh DEF TypeOK, Cells
  <2>. QED
    BY <1>1, <2>1, <2>2
<1>3. \A q \in Objects : ptr'[q] = IF q = o THEN b ELSE ptr[q]
  BY DEF TypeOK
<1>4. \A q \in Objects : ptr[q] # NULL => ptr[q] \in Blocks /\ mem'[ptr[q]] = mem[ptr[q]]
  BY <1>1, NewBlockIsFresh DEF TypeOK
<1>5. CodeOwned'
  BY <1>1, <1>2, <1>3, <1>4, CellTypes DEF CodeOwned, Owned
<1>6. NoDangling'
  BY <1>1, <1>2, <1>3, <1>4, CellTypes, NewBlockIsFresh DEF NoDangling, TypeOK, Calls
<1>7. SingleOwner'
  BY <1>1, <1>2, <1>3, NewBlockIsFresh DEF SingleOwner
<1>. QED
  BY <1>5, <1>6, <1>7

\* The struct of a Regexp.
LEMMA InitAllocInv ==
  ASSUME Inv, NEW b \in Blocks, InitAlloc(b)
  PROVE  Inv'
<1>. USE Distinct DEF Inv
<1>1. mem[b].kind = "free" /\ call.self \in Objects /\ call.self \in live
  BY AllocIsFree DEF InitAlloc, Frame, Sizes
<1>2. call' \in Calls /\ call'.rec = call.rec /\ call'.vec = call.vec
  BY DEF InitAlloc, Goto, TypeOK, Calls
<1>3. TypeOK'
  BY <1>1, <1>2, CellTypes DEF InitAlloc, TypeOK, ivars, shared
<1>4. Frame'
  BY DEF InitAlloc, Goto, Frame, TypeOK, Calls, ivars
<1>5. CodeOwned' /\ NoDangling' /\ SingleOwner'
  <2>1. /\ mem' = [mem EXCEPT ![b] = Struct(NULL, 0)]
        /\ ptr' = [ptr EXCEPT ![call.self] = b] /\ live' = live /\ 0 \in Int
    BY DEF InitAlloc, ivars
  <2>. QED
    BY <1>1, <1>2, <2>1, AttachNewStruct
<1>. QED
  BY <1>3, <1>4, <1>5

\* The struct of a new MatchData.
LEMMA MatchNewInv ==
  ASSUME Inv, NEW m \in MatchDatas, NEW b \in Blocks, MatchNew(m, b)
  PROVE  Inv'
<1>. USE Distinct DEF Inv
<1>1. mem[b].kind = "free"
  BY AllocIsFree DEF MatchNew, Sizes
<1>2. call' \in Calls /\ call'.rec = call.rec /\ call'.vec = call.vec
  BY DEF MatchNew, TypeOK, Calls
<1>3. TypeOK'
  BY <1>1, <1>2, CellTypes DEF MatchNew, TypeOK, shared
<1>4. Frame'
  BY DEF MatchNew, Frame, TypeOK, Calls
<1>5. CodeOwned' /\ NoDangling' /\ SingleOwner'
  <2>1. /\ mem' = [mem EXCEPT ![b] = Struct(NULL, -1)]
        /\ ptr' = [ptr EXCEPT ![m] = b] /\ live' = live \cup {m} /\ -1 \in Int
    BY DEF MatchNew
  <2>. QED
    BY <1>1, <1>2, <2>1, AttachNewStruct
<1>. QED
  BY <1>3, <1>4, <1>5

\* The struct of a MatchData.
LEMMA MdInitAllocInv ==
  ASSUME Inv, NEW b \in Blocks, MdInitAlloc(b)
  PROVE  Inv'
<1>. USE Distinct DEF Inv
<1>1. mem[b].kind = "free" /\ call.md \in Objects /\ call.md \in live
  BY AllocIsFree DEF MdInitAlloc, Frame, Sizes
<1>2. TypeOK' /\ Frame'
  BY <1>1, CellTypes DEF MdInitAlloc, TypeOK, Calls, Frame, Idle, ivars, shared
<1>3. CodeOwned' /\ NoDangling' /\ SingleOwner'
  <2>1. /\ mem' = [mem EXCEPT ![b] = Struct(NULL, -1)]
        /\ ptr' = [ptr EXCEPT ![call.md] = b] /\ live' = live /\ -1 \in Int
        /\ call'.rec = NULL /\ call'.vec = NULL
    BY DEF MdInitAlloc, Idle, ivars
  <2>. QED
    BY <1>1, <2>1, AttachNewStruct
<1>. QED
  BY <1>2, <1>3

\* The compiled code becomes the property of the new struct.
LEMMA CompileInv ==
  ASSUME Inv, NEW b \in Blocks, Compile(b)
  PROVE  Inv'
<1>. USE Distinct DEF Inv
<1>. DEFINE x == ptr[call.self]
            code == Code(call.arg)
<1>1. mem[b].kind = "free" /\ call.self \in Regexps /\ call.arg \in Patterns
  BY AllocIsFree DEF Compile, Frame, Sizes
<1>2. x \in Blocks \cup {NULL} /\ x # b
  BY <1>1, NewBlockIsFresh DEF TypeOK
<1>3. code \in Cells /\ code.kind = "leaf" /\ code.own = NULL /\ code.pat = call.arg
  BY <1>1, CellTypes
<1>. HIDE DEF code
<1>4. mem' = [mem EXCEPT ![b] = code, ![x].own = b]
  BY DEF Compile, code
<1>5. \A y \in Blocks : [mem[y] EXCEPT !.own = b] \in Cells
  BY DEF TypeOK, Cells
<1>6. /\ \A y \in Blocks : mem'[y] = IF y = b THEN code
                                ELSE IF y = x THEN [mem[y] EXCEPT !.own = b] ELSE mem[y]
      /\ mem' \in [Blocks -> Cells]
  <2>1. CASE x = NULL
    BY <1>2, <1>3, <1>4, <2>1 DEF TypeOK
  <2>2. CASE x \in Blocks
    BY <1>2, <1>3, <1>4, <1>5, <2>2 DEF TypeOK
  <2>. QED
    BY <1>2, <2>1, <2>2
<1>7. \A y \in Blocks :
        /\ y # b => mem'[y].kind = mem[y].kind /\ mem'[y].pat = mem[y].pat
        /\ y # b /\ y # x => mem'[y].own = mem[y].own
        /\ y # b /\ y = x => mem'[y].own = b
        /\ y = b => mem'[y] = code
  BY <1>6 DEF TypeOK, Cells
<1>8. /\ ptr' = ptr /\ live' = live /\ call' = [call EXCEPT !.pc = "ivs"]
      /\ call' \in Calls /\ call'.rec = call.rec /\ call'.vec = call.vec
  BY DEF Compile, Goto, ivars, TypeOK, Calls
<1>9. TypeOK'
  BY <1>6, <1>8 DEF Compile, TypeOK, ivars, shared
<1>10. Frame'
  BY <1>8 DEF Compile, Frame, TypeOK, Calls
<1>11. \A y \in Blocks : mem[y].own # NULL => mem[y].own \in Blocks /\ mem[y].own # b
  BY <1>1, NewBlockIsFresh DEF TypeOK, Cells
<1>12. \A y \in Blocks : mem'[y].own # NULL =>
         /\ y # b
         /\ \/ y = x /\ mem'[y].own = b
            \/ y # x /\ mem[y].own # NULL /\ mem'[y].own = mem[y].own
  BY <1>3, <1>7
<1>13. \A o \in Objects : ptr[o] # NULL => ptr[o] \in Blocks /\ ptr[o] # b
  BY <1>1, NewBlockIsFresh DEF TypeOK
<1>14. CodeOwned'
  <2>1. ASSUME NEW r \in Regexps, ptr[r] # NULL, mem'[ptr[r]].own # NULL
        PROVE  mem'[mem'[ptr[r]].own].pat \in Patterns
    <3>1. ptr[r] \in Blocks /\ r \in Objects
      BY <1>13, <2>1
    <3>2. CASE mem'[ptr[r]].own = b
      BY <1>1, <1>3, <1>7, <3>2
    <3>3. CASE mem[ptr[r]].own # NULL /\ mem'[ptr[r]].own = mem[ptr[r]].own
      BY <1>7, <1>11, <2>1, <3>1, <3>3 DEF CodeOwned, Owned
    <3>. QED
      BY <1>12, <2>1, <3>1, <3>2, <3>3
  <2>. QED
    BY <1>8, <2>1 DEF CodeOwned, Owned
<1>15. NoDangling'
  <2>1. x # NULL => mem[x].kind = "struct"
    BY <1>1 DEF NoDangling
  <2>2. \A o \in Objects : ptr'[o] # NULL => mem'[ptr'[o]].kind = "struct"
    BY <1>7, <1>8, <1>13 DEF NoDangling
  <2>3. \A y \in Blocks : mem'[y].own # NULL =>
          mem'[y].kind = "struct" /\ mem'[mem'[y].own].kind = "leaf"
    <3>1. ASSUME NEW y \in Blocks, y = x, mem'[y].own = b, y # b
          PROVE  mem'[y].kind = "struct" /\ mem'[mem'[y].own].kind = "leaf"
      BY <1>3, <1>7, <2>1, <3>1
    <3>2. ASSUME NEW y \in Blocks, y # b, mem[y].own # NULL, mem'[y].own = mem[y].own
          PROVE  mem'[y].kind = "struct" /\ mem'[mem'[y].own].kind = "leaf"
      BY <1>7, <1>11, <3>2 DEF NoDangling
    <3>. QED
      BY <1>12, <3>1, <3>2
  <2>4. /\ call'.rec # NULL => mem'[call'.rec].kind = "struct"
        /\ call'.vec # NULL => mem'[call'.vec].kind = "leaf"
    BY <1>1, <1>7, <1>8, NewBlockIsFresh DEF NoDangling, TypeOK, Calls
  <2>. QED
    BY <2>2, <2>3, <2>4 DEF NoDangling
<1>16. SingleOwner'
  <2>1. call.vec # b
    BY <1>1, NewBlockIsFresh
  <2>. QED
    BY <1>8, <1>11, <1>12, <2>1 DEF SingleOwner
<1>. QED
  BY <1>9, <1>10, <1>14, <1>15, <1>16

\* A new block that only the call refers to.
LEMMA CallTakesNewBlock ==
  ASSUME Inv, NEW b \in Blocks, mem[b].kind = "free", NEW cell \in Cells,
         cell.own = NULL, mem' = [mem EXCEPT ![b] = cell],
         ptr' = ptr, live' = live,
         \/ cell.kind = "struct" /\ call'.rec = b /\ call'.vec = call.vec
         \/ cell.kind = "leaf" /\ call'.vec = b /\ call'.rec = call.rec
  PROVE  CodeOwned' /\ NoDangling' /\ SingleOwner'
<1>. USE Distinct DEF Inv
<1>1. \A y \in Blocks : mem'[y] = IF y = b THEN cell ELSE mem[y]
  BY DEF TypeOK
<1>2. \A y \in Blocks : mem'[y].own # NULL =>
        y # b /\ mem'[y] = mem[y] /\ mem[y].own \in Blocks /\ mem[y].own # b
  BY <1>1, NewBlockIsFresh DEF TypeOK, Cells
<1>3. \A o \in Objects : ptr[o] # NULL => ptr[o] \in Blocks /\ ptr[o] # b
  BY NewBlockIsFresh DEF TypeOK
<1>4. CodeOwned'
  BY <1>1, <1>2, <1>3 DEF CodeOwned, Owned
<1>5. NoDangling'
  BY <1>1, <1>2, <1>3, NewBlockIsFresh DEF NoDangling, TypeOK, Calls
<1>6. SingleOwner'
  BY <1>1, <1>2, <1>3 DEF SingleOwner
<1>. QED
  BY <1>4, <1>5, <1>6

\* The vector of a match.
LEMMA MatchEnterInv ==
  ASSUME Inv, NEW r \in Regexps, NEW s \in Subjects, NEW b \in Blocks,
         MatchEnter(r, s, b)
  PROVE  Inv'
<1>. USE Distinct DEF Inv
<1>. DEFINE cell == Vector(CaptureCount[mem[Owned(r)].pat] + 1)
<1>1. mem[b].kind = "free" /\ ptr[r] \in Blocks /\ Owned(r) # NULL
  BY AllocIsFree DEF MatchEnter, HasData, Sizes, TypeOK
<1>2. CaptureCount[mem[Owned(r)].pat] + 1 \in Int
  <2>1. mem[Owned(r)].pat \in Patterns
    BY <1>1 DEF CodeOwned
  <2>2. CaptureCount[mem[Owned(r)].pat] \in Nat
    BY <2>1, ConstantsAssumption DEF ConstantsAssumption
  <2>. QED
    BY <2>2
<1>3. cell \in Cells /\ cell.kind = "leaf" /\ cell.own = NULL
  BY <1>2, CellTypes
<1>4. mem' = [mem EXCEPT ![b] = cell] /\ ptr' = ptr /\ live' = live
      /\ call' = [Idle EXCEPT !.pc = "exec", !.self = r, !.arg = s, !.vec = b]
      /\ UNCHANGED <<typed, ivars, shared, held>>
  BY DEF MatchEnter, ivars
<1>. HIDE DEF cell
<1>5. TypeOK'
  <2>1. call' \in Calls
    BY <1>4 DEF Calls, Idle
  <2>2. mem' \in [Blocks -> Cells]
    BY <1>3, <1>4 DEF TypeOK
  <2>. QED
    BY <1>4, <2>1, <2>2 DEF TypeOK, ivars, shared
<1>6. Frame'
  <2>1. mem'[ptr[r]] = mem[ptr[r]]
    BY <1>1, <1>4, NewBlockIsFresh DEF TypeOK
  <2>. QED
    BY <1>1, <1>4, <2>1 DEF Frame, Idle, Owned
<1>7. CodeOwned' /\ NoDangling' /\ SingleOwner'
  <2>1. call'.vec = b /\ call'.rec = NULL
    BY <1>4 DEF Idle
  <2>2. call.rec = NULL
    BY DEF MatchEnter, Idle
  <2>. QED
    BY <1>1, <1>3, <1>4, <2>1, <2>2, CallTakesNewBlock
<1>. QED
  BY <1>5, <1>6, <1>7

\* The struct of a copy.
LEMMA CopyAllocInv ==
  ASSUME Inv, NEW b \in Blocks, CopyAlloc(b)
  PROVE  Inv'
<1>. USE Distinct DEF Inv
<1>. DEFINE cell == Struct(NULL, -1)
<1>1. mem[b].kind = "free"
  BY AllocIsFree DEF CopyAlloc, Sizes
<1>2. cell \in Cells /\ cell.kind = "struct" /\ cell.own = NULL
  BY CellTypes
<1>3. mem' = [mem EXCEPT ![b] = cell] /\ ptr' = ptr /\ live' = live
  BY DEF CopyAlloc, ivars
<1>4. call' \in Calls /\ call'.rec = b /\ call'.vec = call.vec
  BY DEF CopyAlloc, TypeOK, Calls
<1>. HIDE DEF cell
<1>5. TypeOK'
  BY <1>2, <1>3, <1>4 DEF CopyAlloc, TypeOK, ivars, shared
<1>6. Frame'
  BY <1>3 DEF CopyAlloc, Frame, TypeOK, Calls
<1>7. CodeOwned' /\ NoDangling' /\ SingleOwner'
  BY <1>1, <1>2, <1>3, <1>4, CallTakesNewBlock
<1>. QED
  BY <1>5, <1>6, <1>7

\* pcre_exec writes the contents of a block that only the call refers to.
LEMMA MatchFoundInv ==
  ASSUME Inv, MatchFound
  PROVE  Inv'
<1>. USE Distinct DEF Inv
<1>. DEFINE v == call.vec
            pat == mem[Owned(call.self)].pat
<1>1. v \in Blocks /\ call.self \in Regexps /\ call.arg \in Subjects
  BY DEF MatchFound, Frame, TypeOK, Calls
<1>2. pat \in Patterns
  BY <1>1 DEF MatchFound, Frame, CodeOwned
<1>. HIDE DEF pat
<1>3. mem' = [mem EXCEPT ![v].pat = pat, ![v].sub = call.arg]
  BY DEF MatchFound, pat
<1>4. mem' \in [Blocks -> Cells]
      /\ \A y \in Blocks : /\ mem'[y].kind = mem[y].kind /\ mem'[y].own = mem[y].own
                           /\ (y # v => mem'[y] = mem[y])
  BY <1>1, <1>2, <1>3 DEF TypeOK, Cells
<1>5. ptr' = ptr /\ live' = live /\ call' = [call EXCEPT !.pc = "new"]
      /\ call' \in Calls /\ call'.rec = call.rec /\ call'.vec = call.vec
  BY DEF MatchFound, Goto, ivars, TypeOK, Calls
<1>6. lastMatch' \in [Classes -> MatchDatas \cup {NULL}]
  BY <1>1, ConstantsAssumption DEF MatchFound, TypeOK, ConstantsAssumption
<1>7. TypeOK'
  BY <1>4, <1>5, <1>6 DEF MatchFound, TypeOK, ivars
<1>8. Frame'
  BY <1>5 DEF MatchFound, Frame, TypeOK, Calls
<1>9. \A o \in Objects : ptr[o] # NULL => ptr[o] \in Blocks
  BY DEF TypeOK
<1>10. \A y \in Blocks : mem[y].own # NULL => mem[y].own \in Blocks /\ mem[y].own # v
  BY DEF TypeOK, Cells, SingleOwner
<1>11. CodeOwned'
  BY <1>4, <1>5, <1>9, <1>10 DEF CodeOwned, Owned
<1>12. NoDangling'
  <2>1. call.rec \in Blocks \cup {NULL} /\ call.vec \in Blocks \cup {NULL}
    BY DEF TypeOK, Calls
  <2>. QED
    BY <1>4, <1>5, <1>9, <1>10, <2>1 DEF NoDangling
<1>13. SingleOwner'
  BY <1>4, <1>5 DEF SingleOwner
<1>. QED
  BY <1>7, <1>8, <1>11, <1>12, <1>13

\* The vector passes from the call to the struct of the new MatchData.
LEMMA MatchAttachInv ==
  ASSUME Inv, MatchAttach
  PROVE  Inv'
<1>. USE Distinct DEF Inv
<1>. DEFINE v == call.vec
            x == ptr[call.md]
            cell == Struct(v, mem[v].len)
<1>1. v \in Blocks /\ mem[v].kind = "leaf" /\ call.md \in MatchDatas
  BY DEF MatchAttach, Frame, NoDangling, TypeOK, Calls
<1>2. x \in Blocks \cup {NULL} /\ (x # NULL => mem[x].kind = "struct")
  BY <1>1 DEF TypeOK, NoDangling
<1>3. cell \in Cells /\ cell.kind = "struct" /\ cell.own = v
  <2>1. mem[v].len \in Int
    BY <1>1 DEF TypeOK, Cells
  <2>. QED
    BY <1>1, <2>1, CellTypes
<1>. HIDE DEF cell
<1>4. mem' = [mem EXCEPT ![x] = cell]
  BY DEF MatchAttach, cell
<1>5. /\ mem' \in [Blocks -> Cells]
      /\ \A y \in Blocks : mem'[y] = IF y = x THEN cell ELSE mem[y]
  BY <1>2, <1>3, <1>4 DEF TypeOK
<1>6. ptr' = ptr /\ live' = live /\ call' \in Calls
      /\ call'.rec = call.rec /\ call'.vec = NULL
  BY DEF MatchAttach, ivars, TypeOK, Calls
<1>7. TypeOK'
  BY <1>5, <1>6 DEF MatchAttach, TypeOK, ivars, shared
<1>8. Frame'
  BY DEF MatchAttach, Frame, TypeOK, Calls, ivars
<1>9. \A o \in Objects : ptr[o] # NULL => ptr[o] \in Blocks
  BY DEF TypeOK
<1>10. \A y \in Blocks : mem[y].own # NULL => mem[y].own \in Blocks /\ mem[y].own # v
  BY DEF TypeOK, Cells, SingleOwner
<1>11. CodeOwned'
  <2>1. ASSUME NEW r \in Regexps, ptr[r] # NULL, mem[ptr[r]].own # NULL
        PROVE  /\ mem'[ptr[r]] = mem[ptr[r]]
               /\ mem'[mem[ptr[r]].own] = mem[mem[ptr[r]].own]
    <3>1. ptr[r] # x
      BY <1>1, <2>1 DEF SingleOwner
    <3>2. mem[ptr[r]].own # x
      BY <1>2, <1>9, <2>1 DEF NoDangling
    <3>. QED
      BY <1>5, <1>9, <1>10, <2>1, <3>1, <3>2
  <2>2. \A r \in Regexps : ptr[r] # NULL => mem'[ptr[r]] = mem[ptr[r]]
    BY <1>1, <1>5, <1>9 DEF SingleOwner
  <2>. QED
    BY <1>6, <2>1, <2>2 DEF CodeOwned, Owned
<1>12. NoDangling'
  <2>1. \A y \in Blocks : mem'[y].kind = mem[y].kind
    BY <1>2, <1>3, <1>5
  <2>2. \A y \in Blocks : mem'[y].own # NULL =>
          mem[y].kind = "struct" /\ mem'[y].own \in Blocks /\ mem[mem'[y].own].kind = "leaf"
    BY <1>1, <1>2, <1>3, <1>5, <1>10 DEF NoDangling
  <2>. QED
    BY <1>6, <1>9, <2>1, <2>2 DEF NoDangling, TypeOK, Calls
<1>13. SingleOwner'
  <2>1. \A y \in Blocks : mem'[y].own # NULL =>
          \/ y = x /\ mem'[y].own = v
          \/ y # x /\ mem'[y].own = mem[y].own /\ mem[y].own # v
    BY <1>3, <1>5, <1>10
  <2>. QED
    BY <1>6, <2>1 DEF SingleOwner
<1>. QED
  BY <1>7, <1>8, <1>11, <1>12, <1>13

\* The copied vector becomes the property of the copied struct.
LEMMA CopyVecInv ==
  ASSUME Inv, NEW b \in Blocks, CopyVec(b)
  PROVE  Inv'
<1>. USE Distinct DEF Inv
<1>. DEFINE x == call.rec
            src == mem[ptr[call.arg]]
            vec == Owned(call.arg)
<1>1. /\ x \in Blocks /\ mem[x].kind = "struct"
      /\ call.arg \in MatchDatas /\ ptr[call.arg] \in Blocks
  BY DEF CopyVec, Frame, NoDangling, TypeOK, Calls
<1>2. ptr' = ptr /\ live' = live /\ call' \in Calls
      /\ call'.rec = call.rec /\ call'.vec = call.vec
  BY DEF CopyVec, Goto, ivars, TypeOK, Calls
<1>3. Frame'
  BY DEF CopyVec, Goto, Frame, TypeOK, Calls, ivars
<1>4. CASE mem' = mem
  <2>1. TypeOK'
    BY <1>2, <1>4 DEF CopyVec, TypeOK, ivars, shared
  <2>2. CodeOwned' /\ NoDangling' /\ SingleOwner'
    BY <1>2, <1>4, QuietStep
  <2>. QED
    BY <1>3, <2>1, <2>2
<1>5. ASSUME vec # NULL, b \in Alloc("vector"),
             mem' = [mem EXCEPT ![b] = [mem[vec] EXCEPT !.len = src.len],
                                ![x] = Struct(b, src.len)]
      PROVE  Inv'
  <2>1. mem[b].kind = "free"
    BY <1>5, AllocIsFree DEF Sizes
  <2>2. vec \in Blocks /\ mem[vec].kind = "leaf" /\ mem[vec].own = NULL
        /\ src.len \in Int
    BY <1>1, <1>5 DEF Owned, NoDangling, TypeOK, Cells
  <2>. DEFINE new == [mem[vec] EXCEPT !.len = src.len]
              cell == Struct(b, src.len)
  <2>3. new \in Cells /\ new.kind = "leaf" /\ new.own = NULL
    BY <2>2 DEF TypeOK, Cells
  <2>4. cell \in Cells /\ cell.kind = "struct" /\ cell.own = b
    BY <2>2, CellTypes
  <2>5. mem' = [mem EXCEPT ![b] = new, ![x] = cell]
    BY <1>5
  <2>. HIDE DEF new, cell
  <2>6. x # b
    BY <1>1, <2>1
  <2>7. /\ mem' \in [Blocks -> Cells]
        /\ \A y \in Blocks : mem'[y] = IF y = b THEN new ELSE IF y = x THEN cell ELSE mem[y]
    BY <1>1, <2>3, <2>4, <2>5, <2>6 DEF TypeOK
  <2>8. TypeOK'
    BY <1>2, <2>7 DEF CopyVec, TypeOK, ivars, shared
  <2>9. \A o \in Objects : ptr[o] # NULL => ptr[o] \in Blocks /\ ptr[o] # b /\ ptr[o] # x
    BY <2>1, NewBlockIsFresh DEF TypeOK, SingleOwner
  <2>10. \A y \in Blocks : mem[y].own # NULL =>
           mem[y].own \in Blocks /\ mem[y].own # b /\ mem[y].own # x
    BY <1>1, <2>1, NewBlockIsFresh DEF TypeOK, Cells, NoDangling
  <2>11. CodeOwned'
    BY <1>2, <2>7, <2>9, <2>10 DEF CodeOwned, Owned
  <2>12. NoDangling'
    <3>1. \A y \in Blocks : y # b => mem'[y].kind = mem[y].kind
      BY <1>1, <2>4, <2>7
    <3>2. \A y \in Blocks : mem'[y].own # NULL =>
            /\ y # b
            /\ \/ y = x /\ mem'[y].own = b
               \/ y # x /\ mem[y].own # NULL /\ mem'[y].own = mem[y].own
      BY <2>3, <2>4, <2>7
    <3>3. mem'[b].kind = "leaf"
      BY <2>3, <2>7
    <3>4. /\ \A o \in Objects : ptr'[o] # NULL => mem'[ptr'[o]].kind = "struct"
          /\ call'.rec # NULL => mem'[call'.rec].kind = "struct"
          /\ call'.vec # NULL => mem'[call'.vec].kind = "leaf"
      BY <1>1, <1>2, <2>1, <2>9, <3>1, NewBlockIsFresh DEF NoDangling, TypeOK, Calls
    <3>5. \A y \in Blocks : mem'[y].own # NULL =>
            mem'[y].kind = "struct" /\ mem'[mem'[y].own].kind = "leaf"
      BY <1>1, <2>10, <3>1, <3>2, <3>3 DEF NoDangling
    <3>. QED
      BY <3>4, <3>5 DEF NoDangling
  <2>13. SingleOwner'
    BY <1>2, <2>1, <2>3, <2>4, <2>7, <2>10, NewBlockIsFresh DEF SingleOwner
  <2>. QED
    BY <1>3, <2>8, <2>11, <2>12, <2>13
<1>. QED
  BY <1>4, <1>5 DEF CopyVec
-----------------------------------------------------------------------------
(* The invariant, and what it implies.                                     *)

\* Every step preserves the invariant.
LEMMA NextInv == Inv /\ [Next]_vars => Inv'
<1>. SUFFICES ASSUME Inv, [Next]_vars PROVE Inv'
  OBVIOUS
<1>1. CASE RegexpStep
  <2>1. ASSUME NEW r \in Regexps, NEW p \in Patterns, InitEnter(r, p) PROVE Inv'
    BY <2>1, InitEnterInv
  <2>2. ASSUME NEW b \in Blocks, InitAlloc(b) \/ Compile(b) PROVE Inv'
    BY <2>2, InitAllocInv, CompileInv
  <2>3. CASE CompileError \/ InitSetIvs \/ PushName \/ InitReturn
    BY <2>3, InitQuietInv
  <2>4. ASSUME NEW r \in Regexps, NEW d \in Regexps, DupRegexp(d, r) PROVE Inv'
    BY <2>4, RuntimeQuietInv
  <2>. QED
    BY <1>1, <2>1, <2>2, <2>3, <2>4 DEF RegexpStep
<1>2. CASE MatchStep
  <2>1. ASSUME NEW r \in Regexps, NEW s \in Subjects, NEW b \in Blocks,
               MatchEnter(r, s, b)
        PROVE  Inv'
    BY <2>1, MatchEnterInv
  <2>2. ASSUME NEW m \in MatchDatas, NEW b \in Blocks, MatchNew(m, b) PROVE Inv'
    BY <2>2, MatchNewInv
  <2>3. CASE MatchNil \/ MatchFound \/ MatchAttach
    BY <2>3, MatchNilInv, MatchFoundInv, MatchAttachInv
  <2>4. CASE MatchSetIvs \/ MatchPublish \/ SetGlobal \/ MatchReturn
    BY <2>4, MatchQuietInv
  <2>. QED
    BY <1>2, <2>1, <2>2, <2>3, <2>4 DEF MatchStep
<1>3. CASE MatchDataStep
  <2>1. ASSUME NEW m \in MatchDatas, MdInitEnter(m) PROVE Inv'
    BY <2>1, MdInitEnterInv
  <2>2. ASSUME NEW c \in MatchDatas, NEW s \in MatchDatas,
               InitializeCopy(c, s) \/ DupMatchData(c, s)
        PROVE  Inv'
    BY <2>2, MatchDataQuietInv
  <2>3. ASSUME NEW b \in Blocks, MdInitAlloc(b) \/ CopyAlloc(b) \/ CopyVec(b)
        PROVE  Inv'
    BY <2>3, MdInitAllocInv, CopyAllocInv, CopyVecInv
  <2>4. CASE CopyNull \/ CopySwap \/ CopyIvs
    BY <2>4, CopySwapInv, MatchDataQuietInv
  <2>. QED
    BY <1>3, <2>1, <2>2, <2>3, <2>4 DEF MatchDataStep
<1>4. CASE Raise \/ UNCHANGED vars
  BY <1>4, RuntimeQuietInv
<1>5. ASSUME NEW o \in Objects, Forget(o) \/ Sweep(o) PROVE Inv'
  BY <1>5, RuntimeQuietInv, SweepInv
<1>. QED
  BY <1>1, <1>2, <1>3, <1>4, <1>5 DEF Next

\* The invariant holds in every reachable state.
THEOREM Invariance == Spec => []Inv
BY InitInv, NextInv, PTL DEF Spec

\* The variables keep the types of the C and Ruby declarations.
THEOREM TypeCorrect == Spec => []TypeOK
<1>1. Inv => TypeOK
  BY DEF Inv
<1>. QED
  BY <1>1, Invariance, PTL

\* No pointer of an object, a struct or a local variable ever refers to a
\* freed block or to a block of the wrong kind, whichever allocations raise
\* and whenever the collector runs.
THEOREM NothingDangles == Spec => []NoDangling
<1>1. Inv => NoDangling
  BY DEF Inv
<1>. QED
  BY <1>1, Invariance, PTL

\* Each block has one owner, so the code frees each block at most once.
THEOREM OwnersAreUnique == Spec => []SingleOwner
<1>1. Inv => SingleOwner
  BY DEF Inv
<1>. QED
  BY <1>1, Invariance, PTL
-----------------------------------------------------------------------------
\* An object's data is what it was.
Kept(o) ==
  /\ ptr'[o] = ptr[o] /\ mem'[ptr[o]] = mem[ptr[o]]
  /\ mem[ptr[o]].own # NULL => mem'[mem[ptr[o]].own] = mem[mem[ptr[o]].own]

\* Freeing one object's data keeps the others' and what the call holds.
LEMMA FreeKeeps ==
  ASSUME Inv, NEW o \in Objects, mem' = Freed(DataBlocks(o))
  PROVE  /\ \A q \in Objects : q # o /\ ptr[q] # NULL /\ ptr'[q] = ptr[q] => Kept(q)
         /\ call.vec # NULL => mem'[call.vec] = mem[call.vec]
         /\ call.rec # NULL =>
              /\ mem'[call.rec] = mem[call.rec]
              /\ mem[call.rec].own # NULL =>
                   mem'[mem[call.rec].own] = mem[mem[call.rec].own]
<1>1. \A b \in Blocks \ DataBlocks(o) : mem'[b] = mem[b]
  BY FreedCells DEF Inv, TypeOK
<1>. QED
  BY <1>1, DataIsSeparate DEF Kept

\* Writing a free block keeps every object's data and what the call holds.
LEMMA NewKeeps ==
  ASSUME Inv, NEW b \in Blocks, mem[b].kind = "free",
         \A y \in Blocks \ {b} : mem'[y] = mem[y]
  PROVE  /\ \A q \in Objects : ptr[q] # NULL /\ ptr'[q] = ptr[q] => Kept(q)
         /\ call.vec # NULL => mem'[call.vec] = mem[call.vec]
         /\ call.rec # NULL =>
              /\ mem'[call.rec] = mem[call.rec]
              /\ mem[call.rec].own # NULL =>
                   mem'[mem[call.rec].own] = mem[mem[call.rec].own]
<1>. USE Distinct DEF Inv
<1>1. \A q \in Objects : ptr[q] # NULL => ptr[q] \in Blocks \ {b}
  BY NewBlockIsFresh DEF TypeOK
<1>2. \A y \in Blocks : mem[y].own # NULL => mem[y].own \in Blocks \ {b}
  BY NewBlockIsFresh DEF TypeOK, Cells
<1>3. /\ call.vec # NULL => call.vec \in Blocks \ {b}
      /\ call.rec # NULL => call.rec \in Blocks \ {b}
  BY NewBlockIsFresh DEF TypeOK, Calls
<1>. QED
  BY <1>1, <1>2, <1>3 DEF Kept

\* Writing a block of the call's own keeps every object's data.
LEMMA LocalKeeps ==
  ASSUME Inv, NEW x \in Blocks, x = call.rec \/ x = call.vec,
         \A y \in Blocks \ {x} : mem'[y] = mem[y]
  PROVE  \A q \in Objects : ptr[q] # NULL /\ ptr'[q] = ptr[q] => Kept(q)
<1>. USE Distinct DEF Inv
<1>1. ASSUME NEW q \in Objects, ptr[q] # NULL
      PROVE  /\ ptr[q] \in Blocks \ {x}
             /\ mem[ptr[q]].own # NULL => mem[ptr[q]].own \in Blocks \ {x}
  <2>1. ptr[q] \in Blocks /\ mem[ptr[q]].kind = "struct"
    BY <1>1 DEF NoDangling, TypeOK
  <2>2. mem[ptr[q]].own # NULL =>
          mem[ptr[q]].own \in Blocks /\ mem[mem[ptr[q]].own].kind = "leaf"
    BY <2>1 DEF NoDangling, TypeOK, Cells
  <2>3. CASE x = call.rec
    BY <1>1, <2>1, <2>2, <2>3 DEF NoDangling, SingleOwner
  <2>4. CASE x = call.vec
    BY <1>1, <2>1, <2>2, <2>4 DEF NoDangling, SingleOwner
  <2>. QED
    BY <2>3, <2>4
<1>. QED
  BY <1>1 DEF Kept

\* Writing the struct of one object keeps the data of the others.
LEMMA StructKeeps ==
  ASSUME Inv, NEW o \in Objects,
         \A y \in Blocks \ {ptr[o]} : mem'[y] = mem[y]
  PROVE  \A q \in Objects : q # o /\ ptr[q] # NULL /\ ptr'[q] = ptr[q] => Kept(q)
<1>. USE Distinct DEF Inv
<1>1. ptr[o] # NULL => mem[ptr[o]].kind = "struct"
  BY DEF NoDangling, TypeOK
<1>2. ASSUME NEW q \in Objects, q # o, ptr[q] # NULL
      PROVE  /\ ptr[q] \in Blocks \ {ptr[o]}
             /\ mem[ptr[q]].own # NULL => mem[ptr[q]].own \in Blocks \ {ptr[o]}
  <2>1. ptr[q] \in Blocks /\ ptr[q] # ptr[o]
    BY <1>2 DEF SingleOwner, TypeOK
  <2>2. mem[ptr[q]].own # NULL =>
          mem[ptr[q]].own \in Blocks /\ mem[mem[ptr[q]].own].kind = "leaf"
    BY <2>1 DEF NoDangling, TypeOK, Cells
  <2>. QED
    BY <1>1, <2>1, <2>2
<1>. QED
  BY <1>2 DEF Kept
-----------------------------------------------------------------------------
\* The data of an object changes in few steps, and only if it is the object
\* the call is about.
LEMMA DataKept ==
  ASSUME Inv, [Next]_vars, NEW o \in Objects, ptr'[o] # NULL, ~Kept(o)
  PROVE  \/ o = call.self /\ \E b \in Blocks : InitAlloc(b) \/ Compile(b)
         \/ \E b \in Blocks : o \in MatchDatas /\ MatchNew(o, b)
         \/ o = call.md /\ (MatchAttach \/ CopySwap \/ \E b \in Blocks : MdInitAlloc(b))
<1>. USE Distinct DEF Inv
<1>1. ASSUME mem' = mem, ptr' = ptr
      PROVE  FALSE
  BY <1>1 DEF Kept
<1>2. ASSUME NEW q \in Objects, mem' = Freed(DataBlocks(q)), ptr' = [ptr EXCEPT ![q] = NULL]
      PROVE  FALSE
  <2>1. q # o /\ ptr'[o] = ptr[o]
    BY <1>2 DEF TypeOK
  <2>. QED
    BY <1>2, <2>1, FreeKeeps
<1>3. CASE \E r \in Regexps, p \in Patterns : InitEnter(r, p)
  BY <1>2, <1>3 DEF InitEnter
<1>4. CASE \E m \in MatchDatas : MdInitEnter(m)
  BY <1>2, <1>4 DEF MdInitEnter
<1>5. ASSUME NEW q \in Objects, Sweep(q)
      PROVE  FALSE
  <2>1. CASE typed[q]
    BY <1>2, <1>5, <2>1 DEF Sweep
  <2>2. CASE ~typed[q]
    <3>1. mem' = mem /\ ptr'[o] = ptr[o]
      BY <1>5, <2>2 DEF Sweep, TypeOK
    <3>. QED
      BY <3>1 DEF Kept
  <2>. QED
    BY <2>1, <2>2
<1>6. ASSUME NEW b \in Blocks, InitAlloc(b), o # call.self
      PROVE  FALSE
  <2>1. mem[b].kind = "free" /\ ptr'[o] = ptr[o] /\ \A y \in Blocks \ {b} : mem'[y] = mem[y]
    BY <1>6, AllocIsFree DEF InitAlloc, Sizes, TypeOK
  <2>. QED
    BY <2>1, NewKeeps
<1>7. ASSUME NEW b \in Blocks, NEW m \in MatchDatas, MatchNew(m, b), o # m
      PROVE  FALSE
  <2>1. mem[b].kind = "free" /\ ptr'[o] = ptr[o] /\ \A y \in Blocks \ {b} : mem'[y] = mem[y]
    BY <1>7, AllocIsFree DEF MatchNew, Sizes, TypeOK
  <2>. QED
    BY <2>1, NewKeeps
<1>8. ASSUME NEW b \in Blocks, MdInitAlloc(b), o # call.md
      PROVE  FALSE
  <2>1. mem[b].kind = "free" /\ ptr'[o] = ptr[o] /\ \A y \in Blocks \ {b} : mem'[y] = mem[y]
    BY <1>8, AllocIsFree DEF MdInitAlloc, Sizes, TypeOK
  <2>. QED
    BY <2>1, NewKeeps
<1>9. ASSUME NEW b \in Blocks, CopyAlloc(b)
      PROVE  FALSE
  <2>1. mem[b].kind = "free" /\ ptr'[o] = ptr[o] /\ \A y \in Blocks \ {b} : mem'[y] = mem[y]
    BY <1>9, AllocIsFree DEF CopyAlloc, Sizes, TypeOK
  <2>. QED
    BY <2>1, NewKeeps
<1>10. ASSUME NEW r \in Regexps, NEW s \in Subjects, NEW b \in Blocks, MatchEnter(r, s, b)
       PROVE  FALSE
  <2>1. mem[b].kind = "free" /\ ptr'[o] = ptr[o] /\ \A y \in Blocks \ {b} : mem'[y] = mem[y]
    BY <1>10, AllocIsFree DEF MatchEnter, Sizes, TypeOK
  <2>. QED
    BY <2>1, NewKeeps
<1>11. ASSUME NEW b \in Blocks, Compile(b), o # call.self
       PROVE  FALSE
  <2>. DEFINE x == ptr[call.self]
  <2>1. mem[b].kind = "free" /\ ptr' = ptr /\ call.self \in Regexps
        /\ \A y \in Blocks \ {b, x} : mem'[y] = mem[y]
    BY <1>11, AllocIsFree DEF Compile, Frame, Sizes, TypeOK
  <2>2. ptr[o] \in Blocks /\ ptr[o] # x /\ ptr[o] # b /\ mem[ptr[o]].own # b
    BY <1>11, <2>1, NewBlockIsFresh DEF SingleOwner, TypeOK
  <2>3. mem[ptr[o]].own # NULL =>
          mem[ptr[o]].own \in Blocks /\ mem[mem[ptr[o]].own].kind = "leaf"
    BY <2>2 DEF NoDangling, TypeOK, Cells
  <2>4. x # NULL => mem[x].kind = "struct"
    BY <2>1 DEF NoDangling
  <2>. QED
    BY <2>1, <2>2, <2>3, <2>4 DEF Kept
<1>12. CASE MatchNil
  <2>1. call.vec \in Blocks /\ ptr' = ptr /\ \A y \in Blocks \ {call.vec} : mem'[y] = mem[y]
    BY <1>12, FreedCells DEF MatchNil, Frame, TypeOK, Calls
  <2>. QED
    BY <2>1, LocalKeeps
<1>13. CASE MatchFound
  <2>1. call.vec \in Blocks /\ ptr' = ptr /\ \A y \in Blocks \ {call.vec} : mem'[y] = mem[y]
    BY <1>13 DEF MatchFound, Frame, TypeOK, Calls
  <2>. QED
    BY <2>1, LocalKeeps
<1>14. ASSUME MatchAttach, o # call.md
       PROVE  FALSE
  <2>1. call.md \in Objects /\ ptr' = ptr /\ \A y \in Blocks \ {ptr[call.md]} : mem'[y] = mem[y]
    BY <1>14 DEF MatchAttach, Frame, TypeOK
  <2>. QED
    BY <1>14, <2>1, StructKeeps
<1>15. ASSUME CopySwap, o # call.md
       PROVE  FALSE
  <2>1. PICK c \in Objects : c = call.md
    BY <1>15 DEF CopySwap, Frame
  <2>2. o # c /\ ptr'[o] = ptr[o]
    BY <1>15, <2>1 DEF CopySwap, TypeOK
  <2>3. mem' = Freed(DataBlocks(c))
    BY <1>15, <2>1 DEF CopySwap
  <2>. QED
    BY <2>2, <2>3, FreeKeeps
<1>16. ASSUME NEW b \in Blocks, CopyVec(b)
       PROVE  FALSE
  <2>1. CASE mem' = mem
    BY <1>1, <1>16, <2>1 DEF CopyVec
  <2>2. CASE mem' # mem
    <3>1. /\ mem[b].kind = "free" /\ ptr' = ptr /\ call.rec \in Blocks
          /\ \A y \in Blocks \ {b, call.rec} : mem'[y] = mem[y]
      BY <1>16, <2>2, AllocIsFree DEF CopyVec, Frame, Sizes, TypeOK, Calls
    <3>2. ptr[o] \in Blocks /\ ptr[o] # call.rec /\ ptr[o] # b /\ mem[ptr[o]].own # b
      BY <3>1, NewBlockIsFresh DEF SingleOwner, TypeOK
    <3>3. mem[ptr[o]].own # NULL =>
            mem[ptr[o]].own \in Blocks /\ mem[ptr[o]].own # call.rec
      BY <3>1, <3>2 DEF NoDangling, TypeOK, Cells
    <3>. QED
      BY <3>1, <3>2, <3>3 DEF Kept
  <2>. QED
    BY <2>1, <2>2
<1>17. CASE RegexpStep
  <2>1. CASE CompileError \/ InitSetIvs \/ PushName \/ InitReturn
             \/ \E r, d \in Regexps : DupRegexp(d, r)
    BY <1>1, <2>1 DEF CompileError, InitSetIvs, PushName, InitReturn, DupRegexp, heap
  <2>. QED
    BY <1>3, <1>6, <1>11, <1>17, <2>1 DEF RegexpStep
<1>18. CASE MatchStep
  <2>1. CASE MatchSetIvs \/ MatchPublish \/ SetGlobal \/ MatchReturn
    BY <1>1, <2>1 DEF MatchSetIvs, MatchPublish, SetGlobal, MatchReturn, heap
  <2>. QED
    BY <1>7, <1>10, <1>12, <1>13, <1>14, <1>18, <2>1 DEF MatchStep
<1>19. CASE MatchDataStep
  <2>1. CASE \/ CopyNull \/ CopyIvs
             \/ \E c, s \in MatchDatas : InitializeCopy(c, s) \/ DupMatchData(c, s)
    BY <1>1, <2>1 DEF CopyNull, CopyIvs, InitializeCopy, DupMatchData, heap
  <2>. QED
    BY <1>4, <1>8, <1>9, <1>15, <1>16, <1>19, <2>1 DEF MatchDataStep
<1>20. CASE Raise \/ UNCHANGED vars \/ \E q \in Objects : Forget(q)
  BY <1>1, <1>20 DEF Raise, vars, Forget, heap
<1>. QED
  BY <1>5, <1>17, <1>18, <1>19, <1>20 DEF Next
-----------------------------------------------------------------------------
\* Where a call stands after each step that is not the collector's.
LEMMA PcAfter ==
  ASSUME TypeOK
  PROVE  /\ \A r \in Regexps, p \in Patterns : InitEnter(r, p) => call'.pc = "initAlloc"
         /\ \A b \in Blocks : InitAlloc(b) => call'.pc = "compile"
         /\ \A b \in Blocks : Compile(b) => call'.pc = "ivs"
         /\ InitSetIvs \/ PushName => call'.pc = "names"
         /\ \A r \in Regexps, s \in Subjects, b \in Blocks :
              MatchEnter(r, s, b) => call'.pc = "exec"
         /\ MatchFound => call'.pc = "new"
         /\ \A m \in MatchDatas, b \in Blocks : MatchNew(m, b) => call'.pc = "attach"
         /\ MatchAttach => call'.pc = "mdIvs"
         /\ MatchSetIvs => call'.pc = "publish"
         /\ MatchPublish \/ SetGlobal => call'.pc = "globals"
         /\ \A m \in MatchDatas : MdInitEnter(m) => call'.pc = "mdAlloc"
         /\ \A c, s \in MatchDatas :
              InitializeCopy(c, s) \/ DupMatchData(c, s) => call'.pc = "copyAlloc"
         /\ \A b \in Blocks : CopyAlloc(b) => call'.pc = "copyVec"
         /\ \A b \in Blocks : CopyVec(b) => call'.pc = "copySwap"
         /\ CopyNull => call'.pc = "crashed"
         /\ CopySwap => call'.pc = "copyIvs"
         /\ \/ CompileError \/ InitReturn \/ MatchNil \/ MatchReturn \/ CopyIvs \/ Raise
            \/ \E b \in Blocks : MdInitAlloc(b)
            => call' = Idle
         /\ \/ \E o \in Objects : Forget(o)
            \/ \E r, d \in Regexps : DupRegexp(d, r)
            => call = Idle /\ call' = Idle
<1>. USE DEF TypeOK, Calls, Idle, Goto
<1>1. /\ \A r \in Regexps, p \in Patterns : InitEnter(r, p) => call'.pc = "initAlloc"
      /\ \A b \in Blocks : InitAlloc(b) => call'.pc = "compile"
      /\ \A b \in Blocks : Compile(b) => call'.pc = "ivs"
      /\ InitSetIvs => call'.pc = "names"
  BY DEF InitEnter, InitAlloc, Compile, InitSetIvs
<1>2. PushName => call'.pc = "names"
  BY CountCall DEF PushName
<1>3. /\ \A r \in Regexps, s \in Subjects, b \in Blocks :
           MatchEnter(r, s, b) => call'.pc = "exec"
      /\ MatchFound => call'.pc = "new"
      /\ \A m \in MatchDatas, b \in Blocks : MatchNew(m, b) => call'.pc = "attach"
      /\ MatchAttach => call'.pc = "mdIvs"
      /\ MatchSetIvs => call'.pc = "publish"
      /\ MatchPublish => call'.pc = "globals"
  BY DEF MatchEnter, MatchFound, MatchNew, MatchAttach, MatchSetIvs, MatchPublish
<1>4. SetGlobal => call'.pc = "globals"
  BY CountCall DEF SetGlobal
<1>5. /\ \A m \in MatchDatas : MdInitEnter(m) => call'.pc = "mdAlloc"
      /\ \A c, s \in MatchDatas :
           InitializeCopy(c, s) \/ DupMatchData(c, s) => call'.pc = "copyAlloc"
      /\ \A b \in Blocks : CopyAlloc(b) => call'.pc = "copyVec"
      /\ \A b \in Blocks : CopyVec(b) => call'.pc = "copySwap"
      /\ CopyNull => call'.pc = "crashed"
      /\ CopySwap => call'.pc = "copyIvs"
  BY DEF MdInitEnter, InitializeCopy, DupMatchData, CopyAlloc, CopyVec, CopyNull, CopySwap
<1>6. /\ \/ CompileError \/ InitReturn \/ MatchNil \/ MatchReturn \/ CopyIvs \/ Raise
         \/ \E b \in Blocks : MdInitAlloc(b)
         => call' = Idle
      /\ \/ \E o \in Objects : Forget(o)
         \/ \E r, d \in Regexps : DupRegexp(d, r)
         => call = Idle /\ call' = Idle
  BY DEF CompileError, InitReturn, MatchNil, MatchReturn, CopyIvs, Raise, MdInitAlloc,
         Forget, DupRegexp
<1>. QED
  BY <1>1, <1>2, <1>3, <1>4, <1>5, <1>6

\* The steps after which the call holds a vector, or a struct.
LEMMA HoldsVector ==
  ASSUME TypeOK, [Next]_vars, call'.pc \in {"exec", "new", "attach"}
  PROVE  \/ \E r \in Regexps, s \in Subjects, b \in Blocks : MatchEnter(r, s, b)
         \/ MatchFound
         \/ \E m \in MatchDatas, b \in Blocks : MatchNew(m, b)
         \/ UNCHANGED vars \/ \E o \in Objects : Sweep(o)
<1>1. Idle.pc = "idle"
  BY DEF Idle
<1>2. ~RegexpStep /\ ~MatchDataStep
  BY <1>1, PcAfter DEF RegexpStep, MatchDataStep
<1>. QED
  BY <1>1, <1>2, PcAfter DEF Next, MatchStep

\* The steps after which the call holds a struct.
LEMMA HoldsStruct ==
  ASSUME TypeOK, [Next]_vars, call'.pc \in {"copyVec", "copySwap", "crashed"}
  PROVE  \/ CopyNull \/ \E b \in Blocks : CopyAlloc(b) \/ CopyVec(b)
         \/ UNCHANGED vars \/ \E o \in Objects : Sweep(o)
<1>1. Idle.pc = "idle"
  BY DEF Idle
<1>2. ~RegexpStep /\ ~MatchStep
  BY <1>1, PcAfter DEF RegexpStep, MatchStep
<1>. QED
  BY <1>1, <1>2, PcAfter DEF Next, MatchDataStep
-----------------------------------------------------------------------------
(* The length recorded in a struct is that of its vector.                  *)

Filled(vec) ==
  mem[vec].sub # NULL /\ mem[vec].len = CaptureCount[mem[vec].pat] + 1

Whole(struct) ==
  IF mem[struct].own = NULL THEN mem[struct].len = -1
  ELSE Filled(mem[struct].own) /\ mem[mem[struct].own].len = mem[struct].len

\* From pcre_exec on the vector is filled, and it is made for the code that
\* pcre_exec runs.
Lengths ==
  /\ \A m \in MatchDatas : ptr[m] # NULL => Whole(ptr[m])
  /\ call.rec # NULL => Whole(call.rec)
  /\ call.pc \in {"new", "attach"} => Filled(call.vec)
  /\ call.pc = "exec" =>
       mem[call.vec].len = CaptureCount[mem[Owned(call.self)].pat] + 1

\* A struct stays whole while nobody writes it or its vector.
LEMMA StaysWhole ==
  ASSUME NEW x \in Blocks, Whole(x), mem'[x] = mem[x],
         mem[x].own # NULL => mem'[mem[x].own] = mem[mem[x].own]
  PROVE  Whole(x)'
BY DEF Whole, Filled

\* The data of MatchDatas.
LEMMA DataLengths ==
  ASSUME Inv, Lengths, [Next]_vars, NEW m \in MatchDatas, ptr'[m] # NULL
  PROVE  Whole(ptr[m])'
<1>. USE Distinct DEF Inv
<1>1. CASE Kept(m)
  <2>1. PICK x \in Blocks : x = ptr[m] /\ x = ptr'[m]
    BY <1>1 DEF Kept, TypeOK
  <2>2. Whole(x)
    BY <2>1 DEF Lengths
  <2>3. Whole(x)'
    BY <1>1, <2>1, <2>2, StaysWhole DEF Kept
  <2>. QED
    BY <2>1, <2>3 DEF Whole, Filled
<1>2. ASSUME NEW b \in Blocks, InitAlloc(b) \/ Compile(b), m = call.self
      PROVE  FALSE
  BY <1>2 DEF InitAlloc, Compile, Frame
<1>3. ASSUME NEW b \in Blocks, ptr'[m] = b, mem'[b] = Struct(NULL, -1)
      PROVE  Whole(ptr[m])'
  BY <1>3 DEF Whole, Struct, Cell
<1>4. CASE MatchAttach /\ m = call.md
  <2>1. /\ ptr' = ptr /\ ptr[m] \in Blocks /\ mem[ptr[m]].kind = "struct"
        /\ call.vec \in Blocks /\ call.vec # NULL /\ mem[call.vec].kind = "leaf"
        /\ Filled(call.vec)
    BY <1>4 DEF MatchAttach, Frame, NoDangling, TypeOK, Calls, Lengths
  <2>2. /\ mem'[ptr[m]] = Struct(call.vec, mem[call.vec].len)
        /\ mem'[call.vec] = mem[call.vec]
    BY <1>4, <2>1 DEF MatchAttach, TypeOK
  <2>3. mem'[ptr[m]].own = call.vec /\ mem'[ptr[m]].len = mem[call.vec].len
    BY <2>2 DEF Struct, Cell
  <2>. QED
    BY <2>1, <2>2, <2>3 DEF Whole, Filled
<1>5. CASE CopySwap /\ m = call.md
  <2>1. PICK x \in Blocks : x = call.rec /\ Whole(x)
    BY <1>5 DEF CopySwap, Frame, TypeOK, Calls, Lengths
  <2>2. ptr'[m] = x /\ mem' = Freed(DataBlocks(m))
    BY <1>5, <2>1 DEF CopySwap, TypeOK
  <2>3. mem'[x] = mem[x] /\ (mem[x].own # NULL => mem'[mem[x].own] = mem[mem[x].own])
    BY <2>1, <2>2, FreeKeeps
  <2>4. Whole(x)'
    BY <2>1, <2>3, StaysWhole
  <2>. QED
    BY <2>2, <2>4 DEF Whole, Filled
<1>6. CASE ~Kept(m)
  <2>1. CASE m = call.self /\ \E b \in Blocks : InitAlloc(b) \/ Compile(b)
    BY <1>2, <2>1
  <2>2. CASE \E b \in Blocks : MatchNew(m, b)
    BY <1>3, <2>2 DEF MatchNew, TypeOK
  <2>3. CASE m = call.md /\ \E b \in Blocks : MdInitAlloc(b)
    BY <1>3, <2>3 DEF MdInitAlloc, TypeOK
  <2>4. \/ m = call.self /\ \E b \in Blocks : InitAlloc(b) \/ Compile(b)
        \/ \E b \in Blocks : MatchNew(m, b)
        \/ m = call.md /\ (MatchAttach \/ CopySwap \/ \E b \in Blocks : MdInitAlloc(b))
    BY <1>6, DataKept
  <2>. QED
    BY <1>4, <1>5, <2>1, <2>2, <2>3, <2>4
<1>. QED
  BY <1>1, <1>6

\* The struct of a copy.
LEMMA CopyLengths ==
  ASSUME Inv, Lengths, [Next]_vars, call'.rec # NULL
  PROVE  Whole(call.rec)'
<1>. USE Distinct DEF Inv
<1>1. call'.pc \in {"copyVec", "copySwap", "crashed"}
  BY NextInv DEF Frame
<1>2. ASSUME NEW b \in Blocks, CopyAlloc(b)
      PROVE  Whole(call.rec)'
  <2>1. call'.rec = b /\ mem'[b] = Struct(NULL, -1)
    BY <1>2 DEF CopyAlloc, TypeOK, Calls
  <2>. QED
    BY <2>1 DEF Whole, Struct, Cell
<1>3. ASSUME NEW b \in Blocks, CopyVec(b)
      PROVE  Whole(call.rec)'
  <2>1. /\ call'.rec = call.rec /\ call.rec \in Blocks
        /\ mem[call.rec].kind = "struct" /\ Whole(call.rec)
    BY <1>3 DEF CopyVec, Goto, Frame, NoDangling, TypeOK, Calls, Lengths
  <2>2. CASE mem' = mem
    BY <2>1, <2>2 DEF Whole, Filled
  <2>3. CASE mem' # mem
    <3>. DEFINE vec == Owned(call.arg)
                len == mem[ptr[call.arg]].len
    <3>1. b \in Alloc("vector") /\ vec # NULL
          /\ mem' = [mem EXCEPT ![b] = [mem[vec] EXCEPT !.len = len],
                                ![call.rec] = Struct(b, len)]
      BY <1>3, <2>3 DEF CopyVec
    <3>2. call.arg \in MatchDatas /\ ptr[call.arg] \in Blocks
      BY <1>3 DEF CopyVec, Frame, TypeOK
    <3>3. vec = mem[ptr[call.arg]].own /\ Filled(vec) /\ mem[vec].len = len
      BY <3>1, <3>2 DEF Lengths, Whole, Owned
    <3>4. mem[vec] \in Cells
      BY <3>1, <3>2, <3>3 DEF TypeOK, Cells
    <3>5. mem[b].kind = "free" /\ b # call.rec
      BY <2>1, <3>1, AllocIsFree DEF Sizes
    <3>. HIDE DEF vec, len
    <3>6. mem'[call.rec] = Struct(b, len) /\ mem'[b] = [mem[vec] EXCEPT !.len = len]
      BY <2>1, <3>1, <3>5 DEF TypeOK
    <3>7. mem'[call.rec].own = b /\ mem'[call.rec].len = len
      BY <3>6 DEF Struct, Cell
    <3>8. /\ mem'[b].len = len /\ mem'[b].pat = mem[vec].pat
          /\ mem'[b].sub = mem[vec].sub
      BY <3>4, <3>6 DEF Cells
    <3>. QED
      BY <2>1, <3>3, <3>7, <3>8 DEF Whole, Filled
  <2>. QED
    BY <2>2, <2>3
<1>4. ASSUME NEW o \in Objects, Sweep(o)
      PROVE  Whole(call.rec)'
  <2>1. PICK x \in Blocks : x = call.rec /\ x = call'.rec /\ Whole(x)
    BY <1>4 DEF Sweep, Lengths, TypeOK, Calls
  <2>2. mem'[x] = mem[x] /\ (mem[x].own # NULL => mem'[mem[x].own] = mem[mem[x].own])
    BY <1>4, <2>1, FreeKeeps DEF Sweep
  <2>3. Whole(x)'
    BY <2>1, <2>2, StaysWhole
  <2>. QED
    BY <2>1, <2>3 DEF Whole, Filled
<1>5. CASE UNCHANGED vars
  BY <1>5 DEF vars, heap, Lengths, Whole, Filled
<1>6. CASE CopyNull
  <2>1. mem' = mem /\ call'.rec = call.rec /\ call.rec # NULL
    BY <1>6 DEF CopyNull, Goto, Frame, TypeOK, Calls, heap
  <2>. QED
    BY <2>1 DEF Lengths, Whole, Filled
<1>. QED
  BY <1>1, <1>2, <1>3, <1>4, <1>5, <1>6, HoldsStruct

\* The vector pcre_exec fills.
LEMMA VectorLengths ==
  ASSUME Inv, Lengths, [Next]_vars
  PROVE  /\ call'.pc \in {"new", "attach"} => Filled(call.vec)'
         /\ call'.pc = "exec" =>
              mem'[call'.vec].len = CaptureCount[mem'[Owned(call.self)'].pat] + 1
<1>. USE Distinct DEF Inv
<1>. SUFFICES ASSUME call'.pc \in {"exec", "new", "attach"}
              PROVE  /\ call'.pc \in {"new", "attach"} => Filled(call.vec)'
                     /\ call'.pc = "exec" =>
                          mem'[call'.vec].len = CaptureCount[mem'[Owned(call.self)'].pat] + 1
  OBVIOUS
<1>. DEFINE Goal == /\ call'.pc \in {"new", "attach"} => Filled(call.vec)'
                    /\ call'.pc = "exec" =>
                         mem'[call'.vec].len = CaptureCount[mem'[Owned(call.self)'].pat] + 1
<1>1. ASSUME NEW r \in Regexps, NEW s \in Subjects, NEW b \in Blocks, MatchEnter(r, s, b)
      PROVE  Goal
  <2>1. call'.pc = "exec" /\ call'.self = r /\ call'.vec = b
        /\ ptr' = ptr /\ mem[b].kind = "free"
    BY <1>1, AllocIsFree DEF MatchEnter, Idle, Sizes
  <2>2. ptr[r] \in Blocks /\ Owned(r) # NULL /\ Owned(r) = mem[ptr[r]].own
    BY <1>1 DEF MatchEnter, HasData, Owned, TypeOK
  <2>. DEFINE n == CaptureCount[mem[Owned(r)].pat] + 1
  <2>3. mem'[b] = Vector(n) /\ \A y \in Blocks \ {b} : mem'[y] = mem[y]
    BY <1>1 DEF MatchEnter, TypeOK
  <2>. HIDE DEF n
  <2>4. mem'[b].len = n
    BY <2>3 DEF Vector, Cell
  <2>5. Kept(r)
    BY <2>1, <2>2, <2>3, NewKeeps
  <2>6. Owned(call.self)' = Owned(r) /\ mem'[Owned(r)] = mem[Owned(r)]
    BY <2>1, <2>2, <2>5 DEF Kept, Owned
  <2>. QED
    BY <2>1, <2>4, <2>6 DEF n
<1>2. CASE MatchFound
  <2>. DEFINE v == call.vec
              pat == mem[Owned(call.self)].pat
  <2>1. /\ call'.pc = "new" /\ call'.vec = v /\ v \in Blocks
        /\ call.arg \in Subjects /\ call.pc = "exec"
    BY <1>2 DEF MatchFound, Goto, Frame, TypeOK, Calls
  <2>2. mem' = [mem EXCEPT ![v].pat = pat, ![v].sub = call.arg]
    BY <1>2 DEF MatchFound
  <2>3. mem[v].len = CaptureCount[pat] + 1
    BY <2>1 DEF Lengths
  <2>. HIDE DEF pat, v
  <2>4. mem'[v].pat = pat /\ mem'[v].sub = call.arg /\ mem'[v].len = mem[v].len
    BY <2>1, <2>2 DEF TypeOK, Cells
  <2>. QED
    BY <2>1, <2>3, <2>4 DEF Filled
<1>3. ASSUME NEW m \in MatchDatas, NEW b \in Blocks, MatchNew(m, b)
      PROVE  Goal
  <2>1. /\ call'.pc = "attach" /\ call'.vec = call.vec /\ call.vec # NULL
        /\ Filled(call.vec) /\ mem[b].kind = "free"
        /\ \A y \in Blocks \ {b} : mem'[y] = mem[y]
    BY <1>3, AllocIsFree DEF MatchNew, Frame, Lengths, Sizes, TypeOK, Calls
  <2>2. mem'[call.vec] = mem[call.vec]
    BY <2>1, NewKeeps
  <2>. QED
    BY <2>1, <2>2 DEF Filled
<1>4. ASSUME NEW o \in Objects, Sweep(o)
      PROVE  Goal
  <2>1. call' = call /\ call.vec # NULL /\ mem'[call.vec] = mem[call.vec]
    BY <1>4, FreeKeeps DEF Sweep, Frame
  <2>2. CASE call.pc = "exec"
    <3>1. call.self \in Regexps /\ ptr[call.self] # NULL /\ call.self \in live
      BY <2>2 DEF Frame, CodeOwned
    <3>2. ptr'[call.self] # NULL
      BY <1>4, <3>1 DEF Sweep, Reachable, Roots, TypeOK
    <3>3. PICK q \in Objects : q = call.self
      BY <3>1
    <3>4. Kept(q)
      <4>1. CASE typed[o]
        BY <1>4, <3>1, <3>2, <3>3, <4>1, FreeKeeps DEF Sweep, TypeOK
      <4>2. CASE ~typed[o]
        BY <1>4, <3>1, <3>2, <3>3, <4>2 DEF Sweep, TypeOK, Kept
      <4>. QED
        BY <4>1, <4>2
    <3>5. Owned(call.self)' = Owned(call.self) /\ mem'[Owned(call.self)] = mem[Owned(call.self)]
      BY <2>1, <2>2, <3>1, <3>3, <3>4 DEF Kept, Owned, Frame
    <3>. QED
      BY <2>1, <2>2, <3>5 DEF Lengths
  <2>3. CASE call.pc # "exec"
    BY <2>1, <2>3 DEF Lengths, Filled
  <2>. QED
    BY <2>2, <2>3
<1>5. CASE UNCHANGED vars
  BY <1>5 DEF vars, heap, Lengths, Filled, Owned
<1>. QED
  BY <1>1, <1>2, <1>3, <1>4, <1>5, HoldsVector

\* Every step keeps the lengths right.
LEMMA LengthsNext == Inv /\ Lengths /\ [Next]_vars => Lengths'
<1>. SUFFICES ASSUME Inv, Lengths, [Next]_vars PROVE Lengths'
  OBVIOUS
<1>. QED
  BY DataLengths, CopyLengths, VectorLengths DEF Lengths

\* With them every index the accessors accept is in the vector.
LEMMA LengthsImply == Inv /\ Lengths => OffsetsReadable
<1>. SUFFICES ASSUME Inv, Lengths, NEW m \in MatchDatas, HasData(m), View(m).len > 0
              PROVE  /\ View(m).sub # NULL
                     /\ View(m).len = CaptureCount[View(m).pat] + 1
                     /\ mem[Owned(m)].len = View(m).len
  BY DEF OffsetsReadable
<1>1. ptr[m] # NULL /\ Whole(ptr[m]) /\ Owned(m) = mem[ptr[m]].own
  BY DEF HasData, Lengths, Owned
<1>2. View(m).len = mem[ptr[m]].len
  BY DEF View
<1>3. Owned(m) # NULL
  BY <1>1, <1>2 DEF Whole
<1>4. View(m).pat = mem[Owned(m)].pat /\ View(m).sub = mem[Owned(m)].sub
  BY <1>3 DEF View
<1>. QED
  BY <1>1, <1>2, <1>3, <1>4 DEF Whole, Filled

\* Every index that begin and end accept is a slot that pcre_exec filled,
\* also after a copy, a second initialize and a failed allocation.
THEOREM ReadsAreInBounds == Spec => []OffsetsReadable
<1>1. Init => Lengths
  BY ConstantsAssumption, Distinct DEF Init, Idle, Lengths
<1>2. Spec => []Lengths
  BY <1>1, LengthsNext, Invariance, PTL DEF Spec
<1>. QED
  BY <1>2, LengthsImply, Invariance, PTL
-----------------------------------------------------------------------------
(* Values, when no allocation raises.                                      *)

\* Where a call stands before each step that is not the collector's.
LEMMA PcBefore ==
  /\ \A r \in Regexps, p \in Patterns : InitEnter(r, p) => call = Idle
  /\ \A b \in Blocks : InitAlloc(b) => call.pc = "initAlloc"
  /\ \A b \in Blocks : Compile(b) => call.pc = "compile"
  /\ CompileError => call.pc = "compile"
  /\ InitSetIvs => call.pc = "ivs"
  /\ PushName \/ InitReturn => call.pc = "names"
  /\ \A r, d \in Regexps : DupRegexp(d, r) => call = Idle
  /\ \A r \in Regexps, s \in Subjects, b \in Blocks : MatchEnter(r, s, b) => call = Idle
  /\ MatchNil \/ MatchFound => call.pc = "exec"
  /\ \A m \in MatchDatas, b \in Blocks : MatchNew(m, b) => call.pc = "new"
  /\ MatchAttach => call.pc = "attach"
  /\ MatchSetIvs => call.pc = "mdIvs"
  /\ MatchPublish => call.pc = "publish"
  /\ SetGlobal \/ MatchReturn => call.pc = "globals"
  /\ \A m \in MatchDatas : MdInitEnter(m) => call = Idle
  /\ \A b \in Blocks : MdInitAlloc(b) => call.pc = "mdAlloc"
  /\ \A c, s \in MatchDatas : InitializeCopy(c, s) \/ DupMatchData(c, s) => call = Idle
  /\ \A b \in Blocks : CopyAlloc(b) => call.pc = "copyAlloc"
  /\ \A b \in Blocks : CopyVec(b) => call.pc = "copyVec"
  /\ CopyNull => call.pc = "copyVec"
  /\ CopySwap => call.pc = "copySwap"
  /\ CopyIvs => call.pc = "copyIvs"
  /\ \A o \in Objects : Forget(o) => call = Idle
BY DEF InitEnter, InitAlloc, Compile, CompileError, InitSetIvs, PushName, InitReturn,
       DupRegexp, MatchEnter, MatchNil, MatchFound, MatchNew, MatchAttach, MatchSetIvs,
       MatchPublish, SetGlobal, MatchReturn, MdInitEnter, MdInitAlloc, InitializeCopy,
       DupMatchData, CopyAlloc, CopyVec, CopyNull, CopySwap, CopyIvs, Forget
-----------------------------------------------------------------------------
(* The names of a Regexp                                                   *)

\* While the names are pushed, those from call.i on may be missing.
NamesSet ==
  /\ \A r \in Regexps, n \in 1 .. NumNames :
       source[r] # NULL /\ NameTable[source[r]][n] # 0 =>
         \/ names[r][n] = NameTable[source[r]][n]
         \/ call.pc = "names" /\ r = call.self /\ n >= call.i
  /\ call.pc = "names" => source[call.self] = call.arg

\* Most steps touch no name.
LEMMA NamesSteps ==
  ASSUME TypeOK, ~MayFail, [Next]_vars
  PROVE  \/ InitSetIvs \/ PushName \/ InitReturn
         \/ \E r, d \in Regexps : DupRegexp(d, r)
         \/ \E o \in Objects : Sweep(o)
         \/ UNCHANGED vars
         \/ UNCHANGED <<source, names>> /\ call.pc # "names" /\ call'.pc # "names"
<1>1. Idle.pc = "idle"
  BY DEF Idle
<1>2. ~Raise
  BY DEF Raise
<1>3. CASE RegexpStep
  <2>1. CASE \/ \E r \in Regexps, p \in Patterns : InitEnter(r, p)
             \/ \E b \in Blocks : InitAlloc(b) \/ Compile(b)
             \/ CompileError
    <3>1. UNCHANGED <<source, names>>
      BY <2>1 DEF InitEnter, InitAlloc, Compile, CompileError, ivars
    <3>2. call.pc # "names" /\ call'.pc # "names"
      BY <1>1, <2>1, PcBefore, PcAfter
    <3>. QED
      BY <3>1, <3>2
  <2>. QED
    BY <1>3, <2>1 DEF RegexpStep
<1>4. CASE MatchStep
  <2>1. UNCHANGED <<source, names>>
    BY <1>4 DEF MatchStep, MatchEnter, MatchNil, MatchFound, MatchNew, MatchAttach,
                MatchSetIvs, MatchPublish, SetGlobal, MatchReturn, ivars
  <2>2. call.pc # "names" /\ call'.pc # "names"
    BY <1>1, <1>4, PcBefore, PcAfter DEF MatchStep
  <2>. QED
    BY <2>1, <2>2
<1>5. CASE MatchDataStep
  <2>1. UNCHANGED <<source, names>>
    BY <1>5 DEF MatchDataStep, MdInitEnter, MdInitAlloc, InitializeCopy, DupMatchData,
                CopyAlloc, CopyVec, CopyNull, CopySwap, CopyIvs, ivars
  <2>2. call.pc # "names" /\ call'.pc # "names"
    BY <1>1, <1>5, PcBefore, PcAfter DEF MatchDataStep
  <2>. QED
    BY <2>1, <2>2
<1>6. CASE \E o \in Objects : Forget(o)
  <2>1. UNCHANGED <<source, names>> /\ call' = call /\ call = Idle
    BY <1>6 DEF Forget, ivars
  <2>. QED
    BY <1>1, <2>1
<1>. QED
  BY <1>2, <1>3, <1>4, <1>5, <1>6 DEF Next

\* Every step keeps the names complete.
LEMMA NamesNext == ~MayFail /\ Inv /\ NamesSet /\ [Next]_vars => NamesSet'
<1>. SUFFICES ASSUME ~MayFail, Inv, NamesSet, [Next]_vars PROVE NamesSet'
  OBVIOUS
<1>. USE Distinct DEF Inv
<1>1. CASE InitSetIvs
  <2>1. /\ call.self \in Regexps /\ call'.pc = "names" /\ call'.self = call.self
        /\ call'.arg = call.arg /\ call'.i = 1 /\ names' = names
        /\ source' = [source EXCEPT ![call.self] = call.arg] /\ call.pc = "ivs"
    BY <1>1 DEF InitSetIvs, Frame, TypeOK, Calls
  <2>. QED
    BY <2>1 DEF NamesSet, TypeOK
<1>2. CASE PushName
  <2>. DEFINE group == NameTable[call.arg][call.i]
  <2>1. /\ call.self \in Regexps /\ call.arg \in Patterns /\ call.i \in 1 .. NumNames
        /\ call'.pc = "names" /\ call'.self = call.self /\ call'.arg = call.arg
        /\ call'.i = call.i + 1 /\ source' = source /\ call.pc = "names"
    BY <1>2, CountCall, ConstantsAssumption DEF PushName, Frame, TypeOK, Calls, ConstantsAssumption
  <2>2. \A r \in Regexps, n \in 1 .. NumNames :
          names'[r][n] = IF r = call.self /\ n = call.i /\ group # 0 THEN group
                         ELSE names[r][n]
    BY <1>2, <2>1 DEF PushName, TypeOK
  <2>3. \A r \in Regexps, n \in 1 .. NumNames :
          source[r] # NULL /\ NameTable[source[r]][n] # 0 =>
            \/ names'[r][n] = NameTable[source[r]][n]
            \/ r = call.self /\ n >= call.i /\ n # call.i
    BY <2>1, <2>2 DEF NamesSet
  <2>4. \A n \in 1 .. NumNames : n >= call.i /\ n # call.i => n >= call.i + 1
    BY <2>1
  <2>. QED
    BY <2>1, <2>3, <2>4 DEF NamesSet
<1>3. CASE InitReturn
  <2>1. call.i \in Nat /\ NumNames \in Nat /\ call.i > NumNames
    BY <1>3, ConstantsAssumption DEF InitReturn, TypeOK, Calls, ConstantsAssumption
  <2>2. \A n \in 1 .. NumNames : ~(n >= call.i)
    BY <2>1
  <2>3. source' = source /\ names' = names /\ call'.pc = "idle"
    BY <1>3 DEF InitReturn, Idle, ivars
  <2>. QED
    BY <2>2, <2>3 DEF NamesSet
<1>4. ASSUME NEW r \in Regexps, NEW d \in Regexps, DupRegexp(d, r)
      PROVE  NamesSet'
  <2>1. /\ call' = call /\ call.pc = "idle"
        /\ source' = [source EXCEPT ![d] = source[r]]
        /\ names' = [names EXCEPT ![d] = names[r]]
    BY <1>4 DEF DupRegexp, Idle
  <2>. QED
    BY <2>1 DEF NamesSet, TypeOK
<1>5. ASSUME NEW o \in Objects, Sweep(o)
      PROVE  NamesSet'
  <2>1. call' = call /\ (call.pc = "names" => call.self # o)
    BY <1>5 DEF Sweep, Reachable, Roots, Frame
  <2>2. CASE o \in Regexps
    <3>1. /\ source' = [source EXCEPT ![o] = NULL]
          /\ names' = [names EXCEPT ![o] = NoNames]
      BY <1>5, <2>2 DEF Sweep
    <3>. QED
      BY <2>1, <3>1 DEF NamesSet, TypeOK
  <2>3. CASE o \notin Regexps
    BY <1>5, <2>1, <2>3 DEF Sweep, NamesSet
  <2>. QED
    BY <2>2, <2>3
<1>6. CASE UNCHANGED <<source, names>> /\ call.pc # "names" /\ call'.pc # "names"
  BY <1>6 DEF NamesSet
<1>7. CASE UNCHANGED vars
  BY <1>7 DEF vars, ivars, NamesSet
<1>. QED
  BY <1>1, <1>2, <1>3, <1>4, <1>5, <1>6, <1>7, NamesSteps

\* Without a failed allocation Regexp#names has every name of the source,
\* with its group, also after a second initialize or a dup.
THEOREM NamesAreComplete == MayFail = FALSE /\ Spec => []NamesCoverSource
<1>1. Init => NamesSet
  BY DEF Init, Idle, NamesSet
<1>2. NamesSet => NamesCoverSource
  BY DEF NamesSet, NamesCoverSource, Idle
<1>3. CASE MayFail = FALSE
  <2>1. Inv /\ NamesSet /\ [Next]_vars => NamesSet'
    BY <1>3, NamesNext
  <2>. QED
    BY <1>1, <1>2, <2>1, Invariance, PTL DEF Spec
<1>. QED
  BY <1>3
-----------------------------------------------------------------------------
(* The globals                                                             *)

Publishing == {"new", "attach", "mdIvs", "publish", "globals"}

\* The globals may disagree only while a match is being published.
GlobalsSet ==
  /\ call.pc \notin Publishing =>
       /\ \A g \in 1 .. NumGlobals : gv[g] = gv[1]
       /\ gv[1] # NULL => \E c \in Classes : lastMatch[c] = gv[1]
  /\ call.pc = "globals" =>
       /\ lastMatch[ClassOf[call.self]] = call.md
       /\ \A g \in 1 .. NumGlobals : g < call.i => gv[g] = call.md

\* Only the end of match touches globals.
LEMMA GlobalsSteps ==
  ASSUME TypeOK, ~MayFail, [Next]_vars
  PROVE  \/ MatchFound \/ MatchPublish \/ SetGlobal \/ MatchReturn
         \/ call'.pc \in Publishing \ {"globals"}
         \/ UNCHANGED shared /\ call' = call
         \/ UNCHANGED shared /\ call.pc \notin Publishing /\ call'.pc \notin Publishing
<1>1. Idle.pc = "idle"
  BY DEF Idle
<1>2. ~Raise
  BY DEF Raise
<1>3. CASE RegexpStep
  <2>1. UNCHANGED shared
    BY <1>3 DEF RegexpStep, InitEnter, InitAlloc, Compile, CompileError, InitSetIvs,
                PushName, InitReturn, DupRegexp
  <2>2. call.pc \notin Publishing /\ call'.pc \notin Publishing
    BY <1>1, <1>3, PcBefore, PcAfter DEF RegexpStep, Publishing
  <2>. QED
    BY <2>1, <2>2
<1>4. CASE MatchStep
  <2>1. CASE MatchNil \/ \E r \in Regexps, s \in Subjects, b \in Blocks : MatchEnter(r, s, b)
    <3>1. UNCHANGED shared
      BY <2>1 DEF MatchNil, MatchEnter
    <3>2. call.pc \notin Publishing /\ call'.pc \notin Publishing
      BY <1>1, <2>1, PcBefore, PcAfter DEF Publishing
    <3>. QED
      BY <3>1, <3>2
  <2>2. CASE MatchAttach \/ MatchSetIvs \/ \E m \in MatchDatas, b \in Blocks : MatchNew(m, b)
    BY <2>2, PcAfter DEF Publishing
  <2>. QED
    BY <1>4, <2>1, <2>2 DEF MatchStep
<1>5. CASE MatchDataStep
  <2>1. UNCHANGED shared
    BY <1>5 DEF MatchDataStep, MdInitEnter, MdInitAlloc, InitializeCopy, DupMatchData,
                CopyAlloc, CopyVec, CopyNull, CopySwap, CopyIvs
  <2>2. call.pc \notin Publishing /\ call'.pc \notin Publishing
    BY <1>1, <1>5, PcBefore, PcAfter DEF MatchDataStep, Publishing
  <2>. QED
    BY <2>1, <2>2
<1>6. CASE UNCHANGED vars \/ \E o \in Objects : Forget(o) \/ Sweep(o)
  BY <1>6 DEF Forget, Sweep, vars
<1>. QED
  BY <1>2, <1>3, <1>4, <1>5, <1>6 DEF Next

\* Every step keeps the globals and @last_match together.
LEMMA GlobalsNext == ~MayFail /\ Inv /\ GlobalsSet /\ [Next]_vars => GlobalsSet'
<1>. SUFFICES ASSUME ~MayFail, Inv, GlobalsSet, [Next]_vars PROVE GlobalsSet'
  OBVIOUS
<1>. USE Distinct DEF Inv
<1>1. CASE MatchFound
  BY <1>1, PcAfter DEF GlobalsSet, Publishing
<1>2. CASE MatchPublish
  <2>1. /\ call.self \in Regexps /\ call'.pc = "globals" /\ call'.self = call.self
        /\ call'.md = call.md /\ call'.i = 1 /\ ClassOf[call.self] \in Classes
    BY <1>2, ConstantsAssumption DEF MatchPublish, Frame, TypeOK, Calls, ConstantsAssumption
  <2>2. lastMatch'[ClassOf[call.self]] = call.md
    BY <1>2, <2>1 DEF MatchPublish, TypeOK
  <2>3. \A g \in 1 .. NumGlobals : ~(g < 1)
    OBVIOUS
  <2>. QED
    BY <2>1, <2>2, <2>3 DEF GlobalsSet, Publishing
<1>3. CASE SetGlobal
  <2>1. /\ call.i \in 1 .. NumGlobals /\ call'.pc = "globals" /\ call'.self = call.self
        /\ call'.md = call.md /\ call'.i = call.i + 1 /\ call.pc = "globals"
    BY <1>3, CountCall, ConstantsAssumption
       DEF SetGlobal, Frame, TypeOK, Calls, ConstantsAssumption
  <2>2. /\ lastMatch' = lastMatch
        /\ \A g \in 1 .. NumGlobals : gv'[g] = IF g = call.i THEN call.md ELSE gv[g]
    BY <1>3 DEF SetGlobal, TypeOK
  <2>3. \A g \in 1 .. NumGlobals : g < call.i + 1 => g = call.i \/ g < call.i
    BY <2>1
  <2>. QED
    BY <2>1, <2>2, <2>3 DEF GlobalsSet, Publishing
<1>4. CASE MatchReturn
  <2>1. /\ call.pc = "globals" /\ call.i \in Nat /\ call.i > NumGlobals
        /\ NumGlobals \in Nat \ {0} /\ call.self \in Regexps /\ ClassOf[call.self] \in Classes
    BY <1>4, ConstantsAssumption DEF MatchReturn, Frame, TypeOK, Calls, ConstantsAssumption
  <2>2. \A g \in 1 .. NumGlobals : g < call.i
    BY <2>1
  <2>3. 1 \in 1 .. NumGlobals
    BY <2>1
  <2>4. gv' = gv /\ lastMatch' = lastMatch /\ call'.pc = "idle"
    BY <1>4 DEF MatchReturn, Idle, shared
  <2>. QED
    BY <2>1, <2>2, <2>3, <2>4 DEF GlobalsSet, Publishing
<1>5. CASE call'.pc \in Publishing \ {"globals"}
  BY <1>5 DEF GlobalsSet
<1>6. CASE UNCHANGED shared /\ call' = call
  BY <1>6 DEF GlobalsSet, shared
<1>7. CASE UNCHANGED shared /\ call.pc \notin Publishing /\ call'.pc \notin Publishing
  BY <1>7 DEF GlobalsSet, shared, Publishing
<1>. QED
  BY <1>1, <1>2, <1>3, <1>4, <1>5, <1>6, <1>7, GlobalsSteps

\* Without a failed allocation all the globals describe one match, and it is
\* the last match of a class.
THEOREM GlobalsOfOneMatch == MayFail = FALSE /\ Spec => []GlobalsAgree
<1>1. Init => GlobalsSet
  <2>1. \A g \in 1 .. NumGlobals : 1 \in 1 .. NumGlobals
    BY ConstantsAssumption DEF ConstantsAssumption
  <2>. QED
    BY <2>1, ConstantsAssumption DEF Init, Idle, GlobalsSet, Publishing, ConstantsAssumption
<1>2. GlobalsSet => GlobalsAgree
  BY DEF GlobalsSet, GlobalsAgree, Idle, Publishing
<1>3. CASE MayFail = FALSE
  <2>1. Inv /\ GlobalsSet /\ [Next]_vars => GlobalsSet'
    BY <1>3, GlobalsNext
  <2>. QED
    BY <1>1, <1>2, <2>1, Invariance, PTL DEF Spec
<1>. QED
  BY <1>3
-----------------------------------------------------------------------------
(* The code and the source of a Regexp                                     *)

\* Code and source differ only between pcre_compile and the assignment.
CodeSet ==
  /\ \A r \in Regexps : ptr[r] # NULL /\ mem[ptr[r]].own # NULL =>
       \/ mem[mem[ptr[r]].own].pat = source[r]
       \/ call.pc = "ivs" /\ r = call.self
  /\ call.pc = "ivs" /\ ptr[call.self] # NULL /\ mem[ptr[call.self]].own # NULL =>
       mem[mem[ptr[call.self]].own].pat = call.arg

\* Most steps touch no source.
LEMMA SourceSteps ==
  ASSUME TypeOK, ~MayFail, [Next]_vars
  PROVE  \/ InitSetIvs \/ \E b \in Blocks : Compile(b)
         \/ \E r, d \in Regexps : DupRegexp(d, r)
         \/ \E o \in Objects : Sweep(o)
         \/ UNCHANGED vars
         \/ source' = source /\ call.pc # "ivs" /\ call'.pc # "ivs"
<1>1. Idle.pc = "idle"
  BY DEF Idle
<1>2. ~Raise
  BY DEF Raise
<1>3. CASE RegexpStep
  <2>1. CASE \/ \E r \in Regexps, p \in Patterns : InitEnter(r, p)
             \/ \E b \in Blocks : InitAlloc(b)
             \/ CompileError \/ PushName \/ InitReturn
    <3>1. source' = source
      BY <2>1 DEF InitEnter, InitAlloc, CompileError, PushName, InitReturn, ivars
    <3>2. call.pc # "ivs" /\ call'.pc # "ivs"
      BY <1>1, <2>1, PcBefore, PcAfter
    <3>. QED
      BY <3>1, <3>2
  <2>. QED
    BY <1>3, <2>1 DEF RegexpStep
<1>4. CASE MatchStep
  <2>1. source' = source
    BY <1>4 DEF MatchStep, MatchEnter, MatchNil, MatchFound, MatchNew, MatchAttach,
                MatchSetIvs, MatchPublish, SetGlobal, MatchReturn, ivars
  <2>2. call.pc # "ivs" /\ call'.pc # "ivs"
    BY <1>1, <1>4, PcBefore, PcAfter DEF MatchStep
  <2>. QED
    BY <2>1, <2>2
<1>5. CASE MatchDataStep
  <2>1. source' = source
    BY <1>5 DEF MatchDataStep, MdInitEnter, MdInitAlloc, InitializeCopy, DupMatchData,
                CopyAlloc, CopyVec, CopyNull, CopySwap, CopyIvs, ivars
  <2>2. call.pc # "ivs" /\ call'.pc # "ivs"
    BY <1>1, <1>5, PcBefore, PcAfter DEF MatchDataStep
  <2>. QED
    BY <2>1, <2>2
<1>6. CASE \E o \in Objects : Forget(o)
  <2>1. source' = source /\ call' = call /\ call = Idle
    BY <1>6 DEF Forget, ivars
  <2>. QED
    BY <1>1, <2>1
<1>. QED
  BY <1>2, <1>3, <1>4, <1>5, <1>6 DEF Next

\* What a Regexp owns is what it was, but for the Regexp being compiled.
LEMMA RegexpKept ==
  ASSUME Inv, [Next]_vars, NEW r \in Regexps, ptr'[r] # NULL, mem'[ptr'[r]].own # NULL
  PROVE  \/ Kept(r)
         \/ r = call.self /\ \E b \in Blocks : Compile(b)
<1>. USE Distinct DEF Inv
<1>1. ASSUME NEW b \in Blocks, InitAlloc(b), r = call.self
      PROVE  FALSE
  <2>1. ptr'[r] = b /\ mem'[b] = Struct(NULL, 0)
    BY <1>1 DEF InitAlloc, TypeOK
  <2>. QED
    BY <2>1 DEF Struct, Cell
<1>2. MatchAttach \/ CopySwap \/ (\E b \in Blocks : MdInitAlloc(b)) => call.md # r
  BY DEF MatchAttach, CopySwap, MdInitAlloc, Frame
<1>. QED
  BY <1>1, <1>2, DataKept

\* Every step keeps the code to the source.
LEMMA CodeNext == ~MayFail /\ Inv /\ CodeSet /\ [Next]_vars => CodeSet'
<1>. SUFFICES ASSUME ~MayFail, Inv, CodeSet, [Next]_vars PROVE CodeSet'
  OBVIOUS
<1>. USE Distinct DEF Inv
<1>1. ASSUME NEW b \in Blocks, Compile(b)
      PROVE  CodeSet'
  <2>1. /\ call.self \in Regexps /\ call'.self = call.self /\ call'.arg = call.arg
        /\ call'.pc = "ivs" /\ call.pc = "compile" /\ source' = source /\ ptr' = ptr
        /\ call.arg \in Patterns /\ mem[b].kind = "free"
    BY <1>1, AllocIsFree DEF Compile, Goto, Frame, Sizes, TypeOK, Calls, ivars
  <2>2. ASSUME NEW r \in Regexps, r # call.self, ptr'[r] # NULL, mem'[ptr'[r]].own # NULL
        PROVE  mem'[mem'[ptr'[r]].own].pat = source'[r]
    BY <2>1, <2>2, RegexpKept DEF Kept, CodeSet
  <2>3. ASSUME ptr[call.self] # NULL
        PROVE  mem'[mem'[ptr[call.self]].own].pat = call.arg
    <3>. DEFINE x == ptr[call.self]
                code == Code(call.arg)
    <3>1. x \in Blocks /\ x # b
      BY <2>1, <2>3, NewBlockIsFresh DEF TypeOK
    <3>2. mem' = [mem EXCEPT ![b] = code, ![x].own = b]
      BY <1>1 DEF Compile
    <3>3. code.pat = call.arg
      BY <2>1, CellTypes
    <3>. HIDE DEF x, code
    <3>4. mem'[x].own = b /\ mem'[b] = code
      BY <3>1, <3>2 DEF TypeOK, Cells
    <3>. QED
      BY <3>3, <3>4 DEF x
  <2>. QED
    BY <2>1, <2>2, <2>3 DEF CodeSet
<1>2. ASSUME NEW r \in Regexps, ~\E b \in Blocks : Compile(b),
             ptr'[r] # NULL, mem'[ptr'[r]].own # NULL
      PROVE  /\ ptr[r] # NULL /\ mem[ptr[r]].own # NULL
             /\ ptr'[r] = ptr[r]
             /\ mem'[mem'[ptr'[r]].own].pat = mem[mem[ptr[r]].own].pat
  BY <1>2, RegexpKept DEF Kept
<1>3. CASE InitSetIvs
  <2>1. /\ call.self \in Regexps /\ call.pc = "ivs" /\ call'.pc = "names"
        /\ source' = [source EXCEPT ![call.self] = call.arg]
    BY <1>3, PcAfter DEF InitSetIvs, Frame
  <2>2. ~\E b \in Blocks : Compile(b)
    BY <2>1, PcBefore
  <2>. QED
    BY <1>2, <2>1, <2>2 DEF CodeSet, TypeOK
<1>4. ASSUME NEW r \in Regexps, NEW d \in Regexps, DupRegexp(d, r)
      PROVE  CodeSet'
  <2>1. call' = call /\ call.pc = "idle" /\ UNCHANGED heap
        /\ source' = [source EXCEPT ![d] = source[r]] /\ d \notin live
    BY <1>4 DEF DupRegexp, Idle
  <2>2. ptr[d] = NULL
    BY <2>1 DEF CodeOwned
  <2>. QED
    BY <2>1, <2>2 DEF CodeSet, TypeOK, heap
<1>5. ASSUME NEW o \in Objects, Sweep(o)
      PROVE  CodeSet'
  <2>1. /\ call' = call /\ ptr'[o] = NULL
        /\ \A r \in Regexps : r # o => source'[r] = source[r]
    BY <1>5 DEF Sweep, TypeOK
  <2>2. ~\E b \in Blocks : Compile(b)
    BY <1>5 DEF Sweep, Compile, Goto, TypeOK, Calls
  <2>3. call.pc = "ivs" => call.self \in Regexps
    BY DEF Frame
  <2>. QED
    BY <1>2, <2>1, <2>2, <2>3 DEF CodeSet
<1>6. CASE UNCHANGED vars
  BY <1>6 DEF vars, heap, ivars, CodeSet
<1>7. CASE source' = source /\ call.pc # "ivs" /\ call'.pc # "ivs"
  <2>1. ~\E b \in Blocks : Compile(b)
    BY <1>7, PcAfter
  <2>. QED
    BY <1>2, <1>7, <2>1 DEF CodeSet
<1>. QED
  BY <1>1, <1>3, <1>4, <1>5, <1>6, <1>7, SourceSteps

\* What both theorems on compiled code rest on.
LEMMA CodeSpec == MayFail = FALSE /\ Spec => []CodeIsSource /\ []EqualRunsSameText
<1>1. Init => CodeSet
  BY Distinct DEF Init, Idle, CodeSet
<1>2. CodeSet => CodeIsSource
  <2>. SUFFICES ASSUME CodeSet, call = Idle,
                       NEW r \in Regexps, HasData(r), Owned(r) # NULL
                PROVE  mem[Owned(r)].pat = source[r]
    BY DEF CodeIsSource
  <2>1. ptr[r] # NULL /\ Owned(r) = mem[ptr[r]].own /\ call.pc = "idle"
    BY DEF HasData, Owned, Idle
  <2>. QED
    BY <2>1 DEF CodeSet
<1>3. Inv /\ CodeSet => EqualRunsSameText
  <2>. SUFFICES ASSUME Inv, CodeSet, call = Idle,
                       NEW r \in Regexps, NEW o \in Regexps, Equal(r, o) = "true",
                       Owned(r) # NULL, Owned(o) # NULL
                PROVE  SourceText[mem[Owned(r)].pat] = SourceText[mem[Owned(o)].pat]
    BY DEF EqualRunsSameText
  <2>1. \A q \in {r, o} : mem[Owned(q)].pat = source[q]
    BY DEF CodeSet, Owned, Idle
  <2>2. r = o \/ SameSource(r, o)
    BY DEF Equal
  <2>. QED
    BY <2>1, <2>2 DEF SameSource
<1>4. CASE MayFail = FALSE
  <2>1. Inv /\ CodeSet /\ [Next]_vars => CodeSet'
    BY <1>4, CodeNext
  <2>. QED
    BY <1>1, <1>2, <1>3, <2>1, Invariance, PTL DEF Spec
<1>. QED
  BY <1>4

\* Without a failed allocation the code a Regexp runs is that of its source,
\* also after a second initialize that pcre_compile rejects.
THEOREM CodeOfSource == MayFail = FALSE /\ Spec => []CodeIsSource
BY CodeSpec, PTL

\* Without a failed allocation Regexps that == finds equal run code compiled
\* from the same text.
THEOREM EqualMeansSameText == MayFail = FALSE /\ Spec => []EqualRunsSameText
BY CodeSpec, PTL
-----------------------------------------------------------------------------
(* The offsets of a MatchData and its string                               *)

Moving == {"new", "attach", "mdIvs", "copyAlloc", "copyVec", "copySwap", "copyIvs", "crashed"}

\* A MatchData may show offsets into another string only until the call that
\* gives it offsets has set @string, and these are then the call's.
TextSet ==
  /\ \A m \in MatchDatas : ptr[m] # NULL /\ mem[ptr[m]].own # NULL =>
       \/ mem[mem[ptr[m]].own].sub = mdString[m]
       \/ m = call.md /\ call.pc \in {"mdIvs", "copyIvs"}
  /\ call.pc \in {"new", "attach"} => mem[call.vec].sub = call.arg
  /\ call.pc \in {"mdIvs", "copyIvs"}
       /\ ptr[call.md] # NULL /\ mem[ptr[call.md]].own # NULL =>
       mem[mem[ptr[call.md]].own].sub =
         IF call.pc = "mdIvs" THEN call.arg ELSE mdString[call.arg]
  /\ call.rec # NULL /\ mem[call.rec].own # NULL =>
       mem[mem[call.rec].own].sub = mdString[call.arg]
  /\ call.pc \in {"copyAlloc", "copyVec", "copySwap", "copyIvs"} => call.arg \in live

\* Most steps move no offsets.
LEMMA TextSteps ==
  ASSUME TypeOK, ~MayFail, [Next]_vars
  PROVE  \/ MatchFound \/ \E m \in MatchDatas, b \in Blocks : MatchNew(m, b)
         \/ MatchAttach \/ MatchSetIvs
         \/ \E c, s \in MatchDatas : InitializeCopy(c, s) \/ DupMatchData(c, s)
         \/ \E b \in Blocks : CopyAlloc(b) \/ CopyVec(b)
         \/ CopyNull \/ CopySwap \/ CopyIvs
         \/ \E o \in Objects : Sweep(o)
         \/ UNCHANGED vars
         \/ mdString' = mdString /\ call.pc \notin Moving /\ call'.pc \notin Moving
<1>1. Idle.pc = "idle"
  BY DEF Idle
<1>2. ~Raise
  BY DEF Raise
<1>3. CASE RegexpStep
  <2>1. mdString' = mdString
    BY <1>3 DEF RegexpStep, InitEnter, InitAlloc, Compile, CompileError, InitSetIvs,
                PushName, InitReturn, DupRegexp, ivars
  <2>2. call.pc \notin Moving /\ call'.pc \notin Moving
    BY <1>1, <1>3, PcBefore, PcAfter DEF RegexpStep, Moving
  <2>. QED
    BY <2>1, <2>2
<1>4. CASE MatchStep
  <2>1. CASE \/ \E r \in Regexps, s \in Subjects, b \in Blocks : MatchEnter(r, s, b)
             \/ MatchNil \/ MatchPublish \/ SetGlobal \/ MatchReturn
    <3>1. mdString' = mdString
      BY <2>1 DEF MatchEnter, MatchNil, MatchPublish, SetGlobal, MatchReturn, ivars
    <3>2. call.pc \notin Moving /\ call'.pc \notin Moving
      BY <1>1, <2>1, PcBefore, PcAfter DEF Moving
    <3>. QED
      BY <3>1, <3>2
  <2>. QED
    BY <1>4, <2>1 DEF MatchStep
<1>5. CASE MatchDataStep
  <2>1. CASE \/ \E m \in MatchDatas : MdInitEnter(m)
             \/ \E b \in Blocks : MdInitAlloc(b)
    <3>1. mdString' = mdString
      BY <2>1 DEF MdInitEnter, MdInitAlloc, ivars
    <3>2. call.pc \notin Moving /\ call'.pc \notin Moving
      BY <1>1, <2>1, PcBefore, PcAfter DEF Moving
    <3>. QED
      BY <3>1, <3>2
  <2>. QED
    BY <1>5, <2>1 DEF MatchDataStep
<1>6. CASE \E o \in Objects : Forget(o)
  <2>1. mdString' = mdString /\ call' = call /\ call = Idle
    BY <1>6 DEF Forget, ivars
  <2>. QED
    BY <1>1, <2>1 DEF Moving
<1>. QED
  BY <1>2, <1>3, <1>4, <1>5, <1>6 DEF Next

\* What a MatchData owns is what it was, but for the one that takes a vector
\* or a copied struct.
LEMMA MatchDataKept ==
  ASSUME Inv, [Next]_vars, NEW m \in MatchDatas, ptr'[m] # NULL, mem'[ptr'[m]].own # NULL
  PROVE  \/ Kept(m) /\ ptr[m] # NULL /\ mem[ptr[m]].own # NULL
            /\ mem'[mem'[ptr'[m]].own] = mem[mem[ptr[m]].own]
         \/ m = call.md /\ (MatchAttach \/ CopySwap)
<1>. USE Distinct DEF Inv
<1>1. ASSUME NEW b \in Blocks, ptr'[m] = b, mem'[b] = Struct(NULL, -1)
      PROVE  FALSE
  BY <1>1 DEF Struct, Cell
<1>2. \A b \in Blocks : ~MatchNew(m, b)
  BY <1>1 DEF MatchNew, TypeOK
<1>3. m = call.md => \A b \in Blocks : ~MdInitAlloc(b)
  BY <1>1 DEF MdInitAlloc, TypeOK
<1>4. m = call.self => \A b \in Blocks : ~InitAlloc(b) /\ ~Compile(b)
  BY DEF InitAlloc, Compile, Frame
<1>5. ASSUME ~Kept(m)
      PROVE  m = call.md /\ (MatchAttach \/ CopySwap)
  <2>1. \/ m = call.self /\ \E b \in Blocks : InitAlloc(b) \/ Compile(b)
        \/ \E b \in Blocks : MatchNew(m, b)
        \/ m = call.md /\ (MatchAttach \/ CopySwap \/ \E b \in Blocks : MdInitAlloc(b))
    BY <1>5, DataKept
  <2>. QED
    BY <1>2, <1>3, <1>4, <2>1
<1>. QED
  BY <1>5 DEF Kept

\* The steps of match.
LEMMA TextOfMatch ==
  ASSUME Inv, TextSet, [Next]_vars,
         \/ MatchFound \/ MatchAttach \/ MatchSetIvs
         \/ \E m \in MatchDatas, b \in Blocks : MatchNew(m, b)
  PROVE  TextSet'
<1>. USE Distinct DEF Inv
<1>1. CASE MatchFound
  <2>. DEFINE v == call.vec
              pat == mem[Owned(call.self)].pat
  <2>1. /\ call'.pc = "new" /\ call'.vec = v /\ v \in Blocks /\ call'.arg = call.arg
        /\ call'.rec = NULL /\ call.pc = "exec" /\ mdString' = mdString
    BY <1>1 DEF MatchFound, Goto, Frame, TypeOK, Calls, ivars
  <2>2. mem' = [mem EXCEPT ![v].pat = pat, ![v].sub = call.arg]
    BY <1>1 DEF MatchFound
  <2>. HIDE DEF pat, v
  <2>3. mem'[v].sub = call.arg
    BY <2>1, <2>2 DEF TypeOK, Cells
  <2>4. ~MatchAttach /\ ~CopySwap
    BY <2>1, PcBefore
  <2>5. \A m \in MatchDatas : ptr'[m] # NULL /\ mem'[ptr'[m]].own # NULL =>
          mem'[mem'[ptr'[m]].own].sub = mdString[m]
    BY <2>1, <2>4, MatchDataKept DEF TextSet
  <2>. QED
    BY <2>1, <2>3, <2>5 DEF TextSet
<1>2. ASSUME NEW m \in MatchDatas, NEW b \in Blocks, MatchNew(m, b)
      PROVE  TextSet'
  <2>1. /\ call'.pc = "attach" /\ call'.vec = call.vec /\ call'.arg = call.arg
        /\ call'.rec = NULL /\ call.pc = "new" /\ mdString' = mdString
        /\ call.vec # NULL
    BY <1>2 DEF MatchNew, Frame, TypeOK, Calls
  <2>. mem[b].kind = "free"
    BY <1>2, AllocIsFree DEF MatchNew, Sizes
  <2>. \A y \in Blocks \ {b} : mem'[y] = mem[y]
    <3>. mem' = [mem EXCEPT ![b] = Struct(NULL, -1)]
      BY <1>2 DEF MatchNew
    <3>. QED
      BY DEF TypeOK
  <2>2. mem'[call.vec] = mem[call.vec]
    BY <2>1, NewKeeps
  <2>3. ~MatchAttach /\ ~CopySwap
    BY <2>1, PcBefore
  <2>. QED
    BY <2>1, <2>2, <2>3, MatchDataKept DEF TextSet
<1>3. CASE MatchAttach
  <2>1. /\ call'.pc = "mdIvs" /\ call'.md = call.md /\ call'.arg = call.arg
        /\ call'.rec = NULL /\ call.pc = "attach" /\ mdString' = mdString
        /\ ptr' = ptr /\ call.md \in MatchDatas
        /\ call.vec \in Blocks /\ mem[call.vec].kind = "leaf"
    BY <1>3 DEF MatchAttach, Frame, NoDangling, TypeOK, Calls, ivars
  <2>2. ASSUME ptr[call.md] # NULL
        PROVE  mem'[mem'[ptr[call.md]].own].sub = call.arg
    <3>1. ptr[call.md] \in Blocks /\ mem[ptr[call.md]].kind = "struct"
      BY <2>1, <2>2 DEF NoDangling, TypeOK
    <3>2. /\ mem'[ptr[call.md]] = Struct(call.vec, mem[call.vec].len)
          /\ mem'[call.vec] = mem[call.vec]
      BY <1>3, <2>1, <3>1 DEF MatchAttach, TypeOK
    <3>3. mem'[ptr[call.md]].own = call.vec
      BY <3>2 DEF Struct, Cell
    <3>. QED
      BY <2>1, <3>2, <3>3 DEF TextSet
  <2>3. ~CopySwap
    BY <2>1, PcBefore
  <2>. QED
    BY <2>1, <2>2, <2>3, MatchDataKept DEF TextSet
<1>4. CASE MatchSetIvs
  <2>1. /\ call'.pc = "publish" /\ call'.rec = NULL /\ call.pc = "mdIvs"
        /\ call.md \in MatchDatas /\ UNCHANGED heap
        /\ mdString' = [mdString EXCEPT ![call.md] = call.arg]
    BY <1>4 DEF MatchSetIvs, Goto, Frame, TypeOK, Calls
  <2>. QED
    BY <2>1 DEF TextSet, TypeOK, heap
<1>. QED
  BY <1>1, <1>2, <1>3, <1>4

\* The steps of initialize_copy.
LEMMA TextOfCopy ==
  ASSUME Inv, TextSet, [Next]_vars,
         \/ \E c, s \in MatchDatas : InitializeCopy(c, s) \/ DupMatchData(c, s)
         \/ \E b \in Blocks : CopyAlloc(b) \/ CopyVec(b)
         \/ CopyNull \/ CopySwap \/ CopyIvs
  PROVE  TextSet'
<1>. USE Distinct DEF Inv
<1>1. ASSUME NEW c \in MatchDatas, NEW s \in MatchDatas, InitializeCopy(c, s)
      PROVE  TextSet'
  <2>1. /\ call' = [Idle EXCEPT !.pc = "copyAlloc", !.md = c, !.arg = s]
        /\ UNCHANGED <<heap, mdString, live>> /\ call = Idle
        /\ s \in Reachable
    BY <1>1 DEF InitializeCopy, ivars
  <2>2. s \in live
    BY <2>1, ReachableMatchData
  <2>3. call.pc = "idle" /\ call'.pc = "copyAlloc" /\ call'.arg = s /\ call'.rec = NULL
    BY <2>1 DEF Idle
  <2>. QED
    BY <2>1, <2>2, <2>3 DEF TextSet, heap
<1>2. ASSUME NEW c \in MatchDatas, NEW s \in MatchDatas, DupMatchData(c, s)
      PROVE  TextSet'
  <2>1. /\ call' = [Idle EXCEPT !.pc = "copyAlloc", !.md = c, !.arg = s]
        /\ UNCHANGED heap /\ call = Idle /\ live' = live \cup {c} /\ c \notin live
        /\ mdString' = [mdString EXCEPT ![c] = mdString[s]]
        /\ s \in Reachable
    BY <1>2 DEF DupMatchData
  <2>2. s \in live /\ ptr[c] = NULL
    BY <2>1, ReachableMatchData DEF CodeOwned
  <2>3. call.pc = "idle" /\ call'.pc = "copyAlloc" /\ call'.arg = s /\ call'.rec = NULL
    BY <2>1 DEF Idle
  <2>. QED
    BY <2>1, <2>2, <2>3 DEF TextSet, TypeOK, heap
<1>3. ASSUME NEW b \in Blocks, CopyAlloc(b)
      PROVE  TextSet'
  <2>1. /\ call'.pc = "copyVec" /\ call'.arg = call.arg /\ call'.rec = b
        /\ call.pc = "copyAlloc" /\ UNCHANGED <<mdString, live>>
        /\ mem'[b] = Struct(NULL, -1)
    BY <1>3 DEF CopyAlloc, TypeOK, Calls, ivars
  <2>2. mem'[b].own = NULL
    BY <2>1 DEF Struct, Cell
  <2>3. ~MatchAttach /\ ~CopySwap
    BY <2>1, PcBefore
  <2>. QED
    BY <2>1, <2>2, <2>3, MatchDataKept DEF TextSet
<1>4. ASSUME NEW b \in Blocks, CopyVec(b)
      PROVE  TextSet'
  <2>1. /\ call'.pc = "copySwap" /\ call'.arg = call.arg /\ call'.rec = call.rec
        /\ call.pc = "copyVec" /\ UNCHANGED <<mdString, live>>
        /\ call.arg \in MatchDatas /\ ptr[call.arg] \in Blocks
        /\ call.rec \in Blocks /\ mem[call.rec].kind = "struct"
    BY <1>4 DEF CopyVec, Goto, Frame, NoDangling, TypeOK, Calls, ivars
  <2>2. ~MatchAttach /\ ~CopySwap
    BY <2>1, PcBefore
  <2>3. mem'[call.rec].own # NULL => mem'[mem'[call.rec].own].sub = mdString[call.arg]
    <3>1. CASE mem' = mem
      BY <2>1, <3>1 DEF TextSet
    <3>2. CASE mem' # mem
      <4>. DEFINE vec == Owned(call.arg)
                  len == mem[ptr[call.arg]].len
      <4>1. b \in Alloc("vector") /\ vec # NULL
            /\ mem' = [mem EXCEPT ![b] = [mem[vec] EXCEPT !.len = len],
                                  ![call.rec] = Struct(b, len)]
        BY <1>4, <3>2 DEF CopyVec
      <4>2. vec = mem[ptr[call.arg]].own
        BY <2>1 DEF Owned
      <4>3. mem[vec] \in Cells /\ mem[vec].sub = mdString[call.arg]
        <5>1. mem[ptr[call.arg]] \in Cells /\ vec \in Blocks
          BY <2>1, <4>1, <4>2 DEF TypeOK, Cells
        <5>2. mem[mem[ptr[call.arg]].own].sub = mdString[call.arg]
          BY <2>1, <4>1, <4>2 DEF TextSet
        <5>. QED
          BY <4>2, <5>1, <5>2 DEF TypeOK
      <4>4. mem[b].kind = "free" /\ b # call.rec
        BY <2>1, <4>1, AllocIsFree DEF Sizes
      <4>. HIDE DEF vec, len
      <4>5. mem'[call.rec] = Struct(b, len) /\ mem'[b] = [mem[vec] EXCEPT !.len = len]
        BY <2>1, <4>1, <4>4 DEF TypeOK
      <4>6. mem'[call.rec].own = b
        BY <4>5 DEF Struct, Cell
      <4>7. mem'[b].sub = mem[vec].sub
        BY <4>3, <4>5 DEF Cells
      <4>. QED
        BY <4>3, <4>6, <4>7
    <3>. QED
      BY <3>1, <3>2
  <2>. QED
    BY <2>1, <2>2, <2>3, MatchDataKept DEF TextSet
<1>5. CASE CopySwap
  <2>1. /\ call'.pc = "copyIvs" /\ call'.md = call.md /\ call'.arg = call.arg
        /\ call'.rec = NULL /\ call.pc = "copySwap" /\ UNCHANGED <<mdString, live>>
        /\ call.md \in MatchDatas /\ call.rec \in Blocks /\ ptr'[call.md] = call.rec
    BY <1>5 DEF CopySwap, Frame, TypeOK, Calls, ivars
  <2>2. PICK c \in Objects : c = call.md
    BY <2>1
  <2>3. mem' = Freed(DataBlocks(c))
    BY <1>5, <2>2 DEF CopySwap
  <2>4. mem'[call.rec] = mem[call.rec]
        /\ (mem[call.rec].own # NULL =>
              mem'[mem[call.rec].own] = mem[mem[call.rec].own])
    BY <2>1, <2>3, FreeKeeps
  <2>5. ~MatchAttach
    BY <2>1, PcBefore
  <2>. QED
    BY <2>1, <2>4, <2>5, MatchDataKept DEF TextSet
<1>6. CASE CopyIvs
  <2>1. /\ call.pc = "copyIvs" /\ call' = Idle /\ UNCHANGED heap
        /\ mdString' = [mdString EXCEPT ![call.md] = mdString[call.arg]]
        /\ call.md \in MatchDatas
    BY <1>6 DEF CopyIvs, Frame
  <2>2. call'.pc = "idle" /\ call'.rec = NULL
    BY <2>1 DEF Idle
  <2>. QED
    BY <2>1, <2>2 DEF TextSet, TypeOK, heap
<1>7. CASE CopyNull
  <2>1. /\ call.pc = "copyVec" /\ call'.pc = "crashed" /\ call'.arg = call.arg
        /\ call'.rec = call.rec /\ UNCHANGED heap /\ mdString' = mdString
    BY <1>7 DEF CopyNull, Goto, TypeOK, Calls, ivars
  <2>. QED
    BY <2>1 DEF TextSet, heap
<1>. QED
  BY <1>1, <1>2, <1>3, <1>4, <1>5, <1>6, <1>7

\* Every step keeps the offsets to the string.
LEMMA TextNext == ~MayFail /\ Inv /\ TextSet /\ [Next]_vars => TextSet'
<1>. SUFFICES ASSUME ~MayFail, Inv, TextSet, [Next]_vars PROVE TextSet'
  OBVIOUS
<1>. USE Distinct DEF Inv
<1>1. CASE \/ MatchFound \/ MatchAttach \/ MatchSetIvs
           \/ \E m \in MatchDatas, b \in Blocks : MatchNew(m, b)
  BY <1>1, TextOfMatch
<1>2. CASE \/ \E c, s \in MatchDatas : InitializeCopy(c, s) \/ DupMatchData(c, s)
           \/ \E b \in Blocks : CopyAlloc(b) \/ CopyVec(b)
           \/ CopyNull \/ CopySwap \/ CopyIvs
  BY <1>2, TextOfCopy
<1>3. ASSUME NEW o \in Objects, Sweep(o)
      PROVE  TextSet'
  <2>1. /\ call' = call /\ live' = live \ {o} /\ ptr'[o] = NULL
        /\ o \notin {call.self, call.arg, call.md}
        /\ \A m \in MatchDatas : m # o => mdString'[m] = mdString[m]
    BY <1>3 DEF Sweep, Reachable, Roots, TypeOK
  <2>2. mem' = mem \/ mem' = Freed(DataBlocks(o))
    BY <1>3 DEF Sweep
  <2>3. /\ call.vec # NULL => mem'[call.vec] = mem[call.vec]
        /\ call.rec # NULL =>
             /\ mem'[call.rec] = mem[call.rec]
             /\ mem[call.rec].own # NULL =>
                  mem'[mem[call.rec].own] = mem[mem[call.rec].own]
    BY <2>2, FreeKeeps
  <2>4. \A m \in MatchDatas : ptr'[m] # NULL /\ mem'[ptr'[m]].own # NULL =>
          /\ m # o /\ ptr[m] # NULL /\ mem[ptr[m]].own # NULL
          /\ mem'[mem'[ptr'[m]].own] = mem[mem[ptr[m]].own]
    <3>1. ASSUME NEW m \in MatchDatas, ptr'[m] # NULL, mem'[ptr'[m]].own # NULL
          PROVE  /\ ptr[m] # NULL /\ mem[ptr[m]].own # NULL
                 /\ mem'[mem'[ptr'[m]].own] = mem[mem[ptr[m]].own]
      <4>1. m # o /\ ptr'[m] = ptr[m]
        BY <1>3, <2>1, <3>1 DEF Sweep, TypeOK
      <4>2. Kept(m)
        BY <2>2, <3>1, <4>1, FreeKeeps DEF Kept
      <4>. QED
        BY <3>1, <4>1, <4>2 DEF Kept
    <3>. QED
      BY <2>1, <3>1
  <2>5. call.pc \in {"copyVec", "copySwap", "copyIvs"} =>
          call.arg \in MatchDatas /\ mdString'[call.arg] = mdString[call.arg]
    BY <2>1 DEF Frame
  <2>6. call.rec # NULL => call.pc \in {"copyVec", "copySwap"}
    BY <1>3 DEF Frame, Sweep
  <2>7. call.pc \in {"new", "attach"} => call.vec # NULL
    BY DEF Frame
  <2>8. call.pc \in {"mdIvs", "copyIvs"} => call.md \in MatchDatas
    BY DEF Frame
  <2>. QED
    BY <2>1, <2>3, <2>4, <2>5, <2>6, <2>7, <2>8 DEF TextSet
<1>4. CASE UNCHANGED vars
  BY <1>4 DEF vars, heap, ivars, TextSet
<1>5. CASE mdString' = mdString /\ call.pc \notin Moving /\ call'.pc \notin Moving
  <2>1. ~MatchAttach /\ ~CopySwap
    BY <1>5, PcBefore DEF Moving
  <2>2. call'.rec = NULL
    BY <1>5, NextInv DEF Frame, Moving
  <2>. QED
    BY <1>5, <2>1, <2>2, MatchDataKept DEF TextSet, Moving
<1>. QED
  BY <1>1, <1>2, <1>3, <1>4, <1>5, TextSteps

\* Without a failed allocation the offsets of a MatchData are offsets into
\* its own @string, also after initialize_copy and dup.
THEOREM OffsetsAreOfString == MayFail = FALSE /\ Spec => []OffsetsFitString
<1>1. Init => TextSet
  BY Distinct DEF Init, Idle, TextSet
<1>2. Inv /\ TextSet => OffsetsFitString
  <2>. SUFFICES ASSUME TextSet, call = Idle, NEW m \in MatchDatas, Matched(m)
                PROVE  View(m).sub = mdString[m]
    BY DEF OffsetsFitString
  <2>1. HasData(m) /\ Owned(m) # NULL /\ View(m).sub = mem[Owned(m)].sub
    BY DEF Matched, View
  <2>2. ptr[m] # NULL /\ Owned(m) = mem[ptr[m]].own /\ call.pc = "idle"
    BY <2>1 DEF HasData, Owned, Idle
  <2>. QED
    BY <2>1, <2>2 DEF TextSet
<1>3. CASE MayFail = FALSE
  <2>1. Inv /\ TextSet /\ [Next]_vars => TextSet'
    BY <1>3, TextNext
  <2>. QED
    BY <1>1, <1>2, <2>1, Invariance, PTL DEF Spec
<1>. QED
  BY <1>3
-----------------------------------------------------------------------------
(* Copies                                                                  *)

\* Two structs own the same offsets, or none.
SameData(x, y) ==
  /\ mem[x].len = mem[y].len
  /\ mem[x].own = NULL <=> mem[y].own = NULL
  /\ mem[x].own # NULL =>
       /\ mem[mem[x].own].pat = mem[mem[y].own].pat
       /\ mem[mem[x].own].sub = mem[mem[y].own].sub

\* initialize_copy gives the copy what the source has.
CopySet ==
  /\ call.pc \in {"copyAlloc", "copyVec", "copySwap", "copyIvs"} =>
       call.arg \in live /\ call.arg # call.md
  /\ call.pc = "copyVec" => mem[call.rec].own = NULL
  /\ call.pc = "copySwap" => ptr[call.arg] # NULL /\ SameData(call.rec, ptr[call.arg])
  /\ call.pc = "copyIvs" =>
       /\ ptr[call.arg] # NULL /\ ptr[call.md] # NULL
       /\ SameData(ptr[call.md], ptr[call.arg])

\* The steps after which a copy is in progress.
LEMMA CopySteps ==
  ASSUME TypeOK, [Next]_vars, call'.pc \in {"copyAlloc", "copyVec", "copySwap", "copyIvs"}
  PROVE  \/ \E c, s \in MatchDatas : InitializeCopy(c, s) \/ DupMatchData(c, s)
         \/ \E b \in Blocks : CopyAlloc(b) \/ CopyVec(b)
         \/ CopySwap
         \/ UNCHANGED vars \/ \E o \in Objects : Sweep(o)
<1>1. Idle.pc = "idle"
  BY DEF Idle
<1>2. ~RegexpStep /\ ~MatchStep
  BY <1>1, PcAfter DEF RegexpStep, MatchStep
<1>. QED
  BY <1>1, <1>2, PcAfter DEF Next, MatchDataStep

\* Structs that nobody writes keep the same data.
LEMMA StaysSame ==
  ASSUME NEW x \in Blocks, NEW y \in Blocks, SameData(x, y),
         mem'[x] = mem[x], mem[x].own # NULL => mem'[mem[x].own] = mem[mem[x].own],
         mem'[y] = mem[y], mem[y].own # NULL => mem'[mem[y].own] = mem[mem[y].own]
  PROVE  SameData(x, y)'
BY DEF SameData

\* Every step keeps the copy in progress like its source.
LEMMA CopyNext == Inv /\ Lengths /\ CopySet /\ [Next]_vars => CopySet'
<1>. SUFFICES ASSUME Inv, Lengths, CopySet, [Next]_vars,
                     call'.pc \in {"copyAlloc", "copyVec", "copySwap", "copyIvs"}
              PROVE  CopySet'
  BY DEF CopySet
<1>. USE Distinct DEF Inv
<1>1. ASSUME NEW c \in MatchDatas, NEW s \in MatchDatas,
             InitializeCopy(c, s) \/ DupMatchData(c, s)
      PROVE  CopySet'
  <2>1. call' = [Idle EXCEPT !.pc = "copyAlloc", !.md = c, !.arg = s]
    BY <1>1 DEF InitializeCopy, DupMatchData
  <2>2. s \in Reachable /\ live \subseteq live'
    BY <1>1 DEF InitializeCopy, DupMatchData, ivars
  <2>3. s \in live
    BY <2>2, ReachableMatchData
  <2>4. c # s
    BY <1>1, <2>3 DEF InitializeCopy, DupMatchData
  <2>5. call'.pc = "copyAlloc" /\ call'.md = c /\ call'.arg = s
    BY <2>1 DEF Idle
  <2>. QED
    BY <2>2, <2>3, <2>4, <2>5 DEF CopySet
<1>2. ASSUME NEW b \in Blocks, CopyAlloc(b)
      PROVE  CopySet'
  <2>1. /\ call.pc = "copyAlloc" /\ call'.pc = "copyVec" /\ call'.rec = b
        /\ call'.md = call.md /\ call'.arg = call.arg /\ live' = live
        /\ mem'[b] = Struct(NULL, -1)
    BY <1>2 DEF CopyAlloc, TypeOK, Calls, ivars
  <2>. QED
    BY <2>1 DEF CopySet, Struct, Cell
<1>3. ASSUME NEW b \in Blocks, CopyVec(b)
      PROVE  CopySet'
  <2>. DEFINE x == call.rec
              y == ptr[call.arg]
  <2>1. /\ call.pc = "copyVec" /\ call'.pc = "copySwap" /\ call'.rec = x
        /\ call'.md = call.md /\ call'.arg = call.arg /\ live' = live /\ ptr' = ptr
        /\ x \in Blocks /\ mem[x].own = NULL /\ mem[x].len = -1
        /\ call.arg \in MatchDatas /\ y \in Blocks /\ x # y
    BY <1>3 DEF CopyVec, Goto, Frame, SingleOwner, TypeOK, Calls, ivars, CopySet, Lengths, Whole
  <2>2. SameData(x, y)'
    <3>1. CASE mem[y].own = NULL
      <4>1. mem' = mem
        BY <1>3, <2>1, <3>1 DEF CopyVec, Owned
      <4>2. mem[y].len = -1
        BY <2>1, <3>1 DEF Lengths, Whole
      <4>. QED
        BY <2>1, <3>1, <4>1, <4>2 DEF SameData
    <3>2. CASE mem[y].own # NULL
      <4>. DEFINE vec == mem[y].own
                  len == mem[y].len
      <4>1. b \in Alloc("vector")
            /\ mem' = [mem EXCEPT ![b] = [mem[vec] EXCEPT !.len = len], ![x] = Struct(b, len)]
        BY <1>3, <2>1, <3>2 DEF CopyVec, Owned
      <4>2. vec \in Blocks /\ mem[vec].kind = "leaf" /\ mem[y].kind = "struct"
            /\ mem[vec] \in Cells /\ mem[x].kind = "struct"
        BY <2>1, <3>2 DEF NoDangling, TypeOK, Cells
      <4>3. mem[b].kind = "free"
        BY <4>1, AllocIsFree DEF Sizes
      <4>. HIDE DEF vec, len
      <4>4. b # x /\ b # y /\ b # vec /\ vec # x
        BY <4>2, <4>3
      <4>5. /\ mem'[x] = Struct(b, len) /\ mem'[b] = [mem[vec] EXCEPT !.len = len]
            /\ mem'[y] = mem[y] /\ mem'[vec] = mem[vec]
        BY <2>1, <4>1, <4>2, <4>4 DEF TypeOK
      <4>6. mem'[x].own = b /\ mem'[x].len = len
        BY <4>5 DEF Struct, Cell
      <4>7. mem'[b].pat = mem[vec].pat /\ mem'[b].sub = mem[vec].sub
        BY <4>2, <4>5 DEF Cells
      <4>8. vec = mem[y].own /\ len = mem[y].len
        BY DEF vec, len
      <4>9. mem'[x].len = mem'[y].len
        BY <4>5, <4>6, <4>8
      <4>10. mem'[x].own # NULL /\ mem'[y].own # NULL
        BY <3>2, <4>1, <4>5, <4>6, Distinct DEF Alloc
      <4>11. mem'[x].own = b /\ mem'[y].own = vec
        BY <4>5, <4>6, <4>8
      <4>12. /\ mem'[mem'[x].own].pat = mem'[mem'[y].own].pat
             /\ mem'[mem'[x].own].sub = mem'[mem'[y].own].sub
        BY <4>5, <4>7, <4>11
      <4>13. x' = x /\ y' = y
        BY <2>1
      <4>. HIDE DEF x, y
      <4>. QED
        BY <4>9, <4>10, <4>12, <4>13 DEF SameData
    <3>. QED
      BY <3>1, <3>2
  <2>. QED
    BY <2>1, <2>2 DEF CopySet, SameData
<1>4. CASE CopySwap
  <2>1. /\ call.pc = "copySwap" /\ call'.pc = "copyIvs" /\ call'.md = call.md
        /\ call'.arg = call.arg /\ live' = live /\ call.md \in MatchDatas
        /\ call.arg \in MatchDatas /\ call.arg # call.md
        /\ ptr' = [ptr EXCEPT ![call.md] = call.rec]
        /\ SameData(call.rec, ptr[call.arg])
    BY <1>4 DEF CopySwap, Frame, TypeOK, Calls, ivars, CopySet
  <2>2. PICK c \in Objects, s \in Objects : c = call.md /\ s = call.arg
    BY <2>1
  <2>3. PICK x \in Blocks, y \in Blocks : x = call.rec /\ y = ptr[s]
    BY <2>1, <2>2 DEF Frame, TypeOK, Calls, CopySet
  <2>4. ptr'[c] = x /\ ptr'[s] = y
    BY <2>1, <2>2, <2>3 DEF TypeOK
  <2>5. mem' = Freed(DataBlocks(c))
    BY <1>4, <2>2 DEF CopySwap
  <2>6. /\ mem'[x] = mem[x] /\ (mem[x].own # NULL => mem'[mem[x].own] = mem[mem[x].own])
        /\ mem'[y] = mem[y] /\ (mem[y].own # NULL => mem'[mem[y].own] = mem[mem[y].own])
    BY <2>1, <2>2, <2>3, <2>4, <2>5, FreeKeeps DEF Kept
  <2>7. SameData(x, y)'
    BY <2>1, <2>2, <2>3, <2>6, StaysSame
  <2>. QED
    BY <2>1, <2>2, <2>4, <2>7 DEF CopySet, SameData
<1>5. ASSUME NEW o \in Objects, Sweep(o)
      PROVE  CopySet'
  <2>1. /\ call' = call /\ live' = live \ {o}
        /\ \A q \in Objects : q # o => ptr'[q] = ptr[q]
        /\ call.md \in Objects /\ call.md # o /\ call.arg \in Objects /\ call.arg # o
    BY <1>5 DEF Sweep, Reachable, Roots, Frame, CopySet, TypeOK
  <2>2. mem' = mem \/ mem' = Freed(DataBlocks(o))
    BY <1>5 DEF Sweep
  <2>3. PICK c \in Objects, s \in Objects : c = call.md /\ s = call.arg
    BY <2>1
  <2>4. /\ call.rec # NULL =>
             /\ mem'[call.rec] = mem[call.rec]
             /\ mem[call.rec].own # NULL =>
                  mem'[mem[call.rec].own] = mem[mem[call.rec].own]
        /\ ptr[c] # NULL => Kept(c)
        /\ ptr[s] # NULL => Kept(s)
    BY <2>1, <2>2, <2>3, FreeKeeps DEF Kept
  <2>5. CASE call.pc = "copySwap"
    <3>1. PICK x \in Blocks, y \in Blocks : x = call.rec /\ y = ptr[s]
      BY <2>3, <2>5 DEF Frame, TypeOK, Calls, CopySet
    <3>2. SameData(x, y)
      BY <2>3, <2>5, <3>1 DEF CopySet
    <3>3. SameData(x, y)'
      BY <2>4, <3>1, <3>2, StaysSame DEF Kept
    <3>. QED
      BY <2>1, <2>3, <2>4, <2>5, <3>1, <3>3 DEF CopySet, SameData, Kept
  <2>6. CASE call.pc = "copyIvs"
    <3>1. PICK x \in Blocks, y \in Blocks : x = ptr[c] /\ y = ptr[s]
      BY <2>3, <2>6 DEF TypeOK, CopySet
    <3>2. SameData(x, y)
      BY <2>3, <2>6, <3>1 DEF CopySet
    <3>3. SameData(x, y)'
      BY <2>4, <3>1, <3>2, StaysSame DEF Kept
    <3>. QED
      BY <2>1, <2>3, <2>4, <2>6, <3>1, <3>3 DEF CopySet, SameData, Kept
  <2>7. CASE call.pc = "copyVec" \/ call.pc = "copyAlloc"
    BY <2>1, <2>4, <2>7 DEF CopySet, Frame
  <2>. QED
    BY <2>1, <2>5, <2>6, <2>7
<1>6. CASE UNCHANGED vars
  BY <1>6 DEF vars, heap, ivars, CopySet, SameData
<1>. QED
  BY <1>1, <1>2, <1>3, <1>4, <1>5, <1>6, CopySteps

\* When initialize_copy returns, the copy shows what the source shows, also
\* when allocations may raise.
THEOREM CopiesAreEqual == Spec => CopyEqualsSource
<1>1. Init => CopySet
  BY DEF Init, Idle, CopySet
<1>2. Spec => []CopySet
  <2>1. Init => Lengths
    BY ConstantsAssumption, Distinct DEF Init, Idle, Lengths
  <2>. QED
    BY <1>1, <2>1, CopyNext, LengthsNext, Invariance, PTL DEF Spec
<1>3. Inv /\ CopySet /\ [Next]_vars =>
        [ CopyIvs => \A c, s \in MatchDatas :
            c = call.md /\ s = call.arg /\ typed[c] /\ typed[s] => View(c)' = View(s)' ]_vars
  <2>. SUFFICES ASSUME CopySet, CopyIvs, NEW c \in MatchDatas, NEW s \in MatchDatas,
                       c = call.md, s = call.arg, typed[c], typed[s]
                PROVE  View(c)' = View(s)'
    OBVIOUS
  <2>1. /\ ptr[c] # NULL /\ ptr[s] # NULL /\ SameData(ptr[c], ptr[s])
        /\ UNCHANGED heap
    BY DEF CopyIvs, CopySet
  <2>. QED
    BY <2>1 DEF View, HasData, Owned, SameData, heap
<1>. QED
  BY <1>2, <1>3, Invariance, PTL DEF Spec, CopyEqualsSource
-----------------------------------------------------------------------------
(* Every MatchData has a struct                                            *)

\* An object that exists has a struct, except while a call is giving it one.
StructsSet ==
  \A m \in MatchDatas : m \in live =>
    \/ ptr[m] # NULL
    \/ m = call.md /\ call.pc \in {"mdAlloc", "copyAlloc", "copyVec", "copySwap"}

\* Then initialize_copy finds a struct to read.
LEMMA SourceHasStruct ==
  ASSUME Inv, CopySet, StructsSet
  PROVE  ~CopyNull
<1>. SUFFICES ASSUME CopyNull PROVE FALSE
  OBVIOUS
<1>1. call.pc = "copyVec" /\ call.arg \in MatchDatas /\ ptr[call.arg] = NULL
  BY DEF CopyNull, Inv, Frame
<1>2. call.arg \in live /\ call.arg # call.md
  BY <1>1 DEF CopySet
<1>. QED
  BY <1>1, <1>2 DEF StructsSet

\* Every step keeps a struct in every MatchData.
LEMMA StructsNext ==
  ~MayFail /\ Inv /\ CopySet /\ StructsSet /\ [Next]_vars => StructsSet'
<1>. SUFFICES ASSUME ~MayFail, Inv, CopySet, StructsSet, [Next]_vars,
                     NEW m \in MatchDatas, m \in live', ptr'[m] = NULL
              PROVE  /\ m = call'.md
                     /\ call'.pc \in {"mdAlloc", "copyAlloc", "copyVec", "copySwap"}
  BY DEF StructsSet
<1>. USE Distinct DEF Inv
<1>1. ~Raise /\ ~CopyNull
  BY SourceHasStruct DEF Raise
<1>2. m \notin Regexps /\ Idle.pc = "idle"
  BY DEF Idle
<1>3. ASSUME m \in live, ptr[m] = NULL
      PROVE  /\ m = call.md
             /\ call.pc \in {"mdAlloc", "copyAlloc", "copyVec", "copySwap"}
  BY <1>3 DEF StructsSet
<1>4. CASE RegexpStep
  <2>1. ASSUME NEW r \in Regexps, NEW p \in Patterns, InitEnter(r, p)
        PROVE  m \in live /\ ptr[m] = NULL
    BY <1>2, <2>1 DEF InitEnter, TypeOK
  <2>2. ASSUME NEW b \in Blocks, InitAlloc(b)
        PROVE  m \in live /\ ptr[m] = NULL
    <3>1. ptr' = [ptr EXCEPT ![call.self] = b] /\ live' = live /\ call.self \in Regexps
      BY <2>2 DEF InitAlloc, Frame, ivars
    <3>. QED
      BY <1>2, <3>1 DEF TypeOK
  <2>3. ASSUME NEW r \in Regexps, NEW d \in Regexps, DupRegexp(d, r)
        PROVE  m \in live /\ ptr[m] = NULL
    BY <1>2, <2>3 DEF DupRegexp, heap
  <2>4. ASSUME \/ CompileError \/ InitSetIvs \/ PushName \/ InitReturn
               \/ \E b \in Blocks : Compile(b)
        PROVE  m \in live /\ ptr[m] = NULL
    BY <2>4 DEF Compile, CompileError, InitSetIvs, PushName, InitReturn, heap, ivars
  <2>5. m \in live /\ ptr[m] = NULL
    BY <1>4, <2>1, <2>2, <2>3, <2>4 DEF RegexpStep
  <2>. QED
    BY <1>2, <1>3, <1>4, <2>5, PcBefore DEF RegexpStep
<1>5. CASE MatchStep
  <2>1. ASSUME NEW n \in MatchDatas, NEW b \in Blocks, MatchNew(n, b)
        PROVE  m \in live /\ ptr[m] = NULL
    BY <2>1 DEF MatchNew, TypeOK
  <2>2. ASSUME \/ \E r \in Regexps, s \in Subjects, b \in Blocks : MatchEnter(r, s, b)
               \/ MatchNil \/ MatchFound \/ MatchAttach
        PROVE  m \in live /\ ptr[m] = NULL
    BY <2>2 DEF MatchEnter, MatchNil, MatchFound, MatchAttach, ivars
  <2>3. ASSUME MatchSetIvs \/ MatchPublish \/ SetGlobal \/ MatchReturn
        PROVE  m \in live /\ ptr[m] = NULL
    BY <2>3 DEF MatchSetIvs, MatchPublish, SetGlobal, MatchReturn, heap, ivars
  <2>4. m \in live /\ ptr[m] = NULL
    BY <1>5, <2>1, <2>2, <2>3 DEF MatchStep
  <2>. QED
    BY <1>2, <1>3, <1>5, <2>4, PcBefore DEF MatchStep
<1>6. ASSUME NEW n \in MatchDatas, MdInitEnter(n)
      PROVE  m = call'.md /\ call'.pc = "mdAlloc"
  <2>1. call'.md = n /\ call'.pc = "mdAlloc" /\ call.pc = "idle"
    BY <1>6 DEF MdInitEnter, Idle
  <2>2. m # n => m \in live /\ ptr[m] = NULL
    BY <1>6 DEF MdInitEnter, TypeOK
  <2>. QED
    BY <1>3, <2>1, <2>2
<1>7. ASSUME NEW c \in MatchDatas, NEW s \in MatchDatas,
             InitializeCopy(c, s) \/ DupMatchData(c, s)
      PROVE  m = call'.md /\ call'.pc = "copyAlloc"
  <2>1. /\ call' = [Idle EXCEPT !.pc = "copyAlloc", !.md = c, !.arg = s]
        /\ call.pc = "idle"
    BY <1>2, <1>7 DEF InitializeCopy, DupMatchData
  <2>. call'.md = c /\ call'.pc = "copyAlloc"
    BY <2>1 DEF Idle
  <2>2. m # c => m \in live /\ ptr[m] = NULL
    BY <1>7 DEF InitializeCopy, DupMatchData, heap, ivars
  <2>3. CASE m # c
    BY <1>3, <2>1, <2>2, <2>3
  <2>4. CASE m = c
    BY <2>1, <2>4
  <2>. QED
    BY <2>3, <2>4
<1>8. ASSUME NEW b \in Blocks, MdInitAlloc(b)
      PROVE  FALSE
  <2>1. call.md \in MatchDatas /\ ptr'[call.md] = b /\ live' = live
        /\ \A n \in MatchDatas : n # call.md => ptr'[n] = ptr[n]
    BY <1>8 DEF MdInitAlloc, Frame, TypeOK, ivars
  <2>. QED
    BY <1>3, <2>1
<1>9. ASSUME NEW b \in Blocks, CopyAlloc(b) \/ CopyVec(b)
      PROVE  m = call'.md /\ call'.pc \in {"copyVec", "copySwap"}
  <2>1. ptr' = ptr /\ live' = live /\ call'.md = call.md /\ call'.pc \in {"copyVec", "copySwap"}
    BY <1>9 DEF CopyAlloc, CopyVec, Goto, TypeOK, Calls, ivars
  <2>. QED
    BY <1>3, <2>1
<1>10. CASE CopySwap
  <2>1. call.md \in MatchDatas /\ ptr'[call.md] # NULL /\ live' = live
        /\ \A n \in MatchDatas : n # call.md => ptr'[n] = ptr[n]
    BY <1>10 DEF CopySwap, Frame, TypeOK, Calls, ivars
  <2>. QED
    BY <1>3, <2>1
<1>11. CASE CopyIvs
  <2>1. ptr' = ptr /\ live' = live /\ call.pc = "copyIvs"
    BY <1>11 DEF CopyIvs, heap
  <2>. QED
    BY <1>3, <2>1
<1>12. CASE UNCHANGED vars \/ \E o \in Objects : Forget(o) \/ Sweep(o)
  <2>1. m \in live /\ ptr[m] = NULL /\ call' = call
    BY <1>12 DEF Forget, Sweep, TypeOK, vars, heap, ivars
  <2>. QED
    BY <1>3, <2>1
<1>. QED
  BY <1>1, <1>4, <1>5, <1>6, <1>7, <1>8, <1>9, <1>10, <1>11, <1>12 DEF Next, MatchDataStep

Running == call.pc # "crashed"

\* No other step ends the process.
LEMMA CrashNext == Inv /\ CopySet /\ StructsSet /\ Running /\ [Next]_vars => Running'
<1>. SUFFICES ASSUME Inv, CopySet, StructsSet, call.pc # "crashed", [Next]_vars,
                     call'.pc = "crashed"
              PROVE  FALSE
  BY DEF Running
<1>1. Idle.pc = "idle" /\ TypeOK
  BY DEF Idle, Inv
<1>2. ~RegexpStep /\ ~MatchStep
  BY <1>1, PcAfter DEF RegexpStep, MatchStep
<1>3. ~MatchDataStep
  BY <1>1, PcAfter, SourceHasStruct DEF MatchDataStep
<1>4. ~Raise /\ \A o \in Objects : ~Forget(o)
  BY <1>1, PcAfter
<1>5. ~UNCHANGED vars /\ \A o \in Objects : ~Sweep(o)
  BY DEF vars, Sweep
<1>. QED
  BY <1>2, <1>3, <1>4, <1>5 DEF Next

\* Without a failed allocation initialize_copy, which dereferences the
\* struct of its argument unchecked, always finds one.
THEOREM CopySourcesHaveData == MayFail = FALSE /\ Spec => []CopySourceHasData
<1>1. Init => StructsSet /\ CopySet /\ Lengths /\ Running
  BY ConstantsAssumption, Distinct DEF Init, Idle, StructsSet, CopySet, Lengths, Running
<1>2. Inv /\ StructsSet /\ Running => CopySourceHasData
  <2>. SUFFICES ASSUME Inv, StructsSet, call = Idle,
                       NEW m \in Reachable \cap MatchDatas
                PROVE  ptr[m] # NULL
    BY DEF CopySourceHasData, Running
  <2>1. m \in live
    BY ReachableMatchData DEF Inv
  <2>. QED
    BY <2>1 DEF StructsSet, Idle
<1>3. CASE MayFail = FALSE
  <2>1. Inv /\ CopySet /\ StructsSet /\ [Next]_vars => StructsSet'
    BY <1>3, StructsNext
  <2>. QED
    BY <1>1, <1>2, <2>1, CrashNext, CopyNext, LengthsNext, Invariance, PTL DEF Spec
<1>. QED
  BY <1>3
-----------------------------------------------------------------------------
(* The abstract MatchData                                                  *)

\* The vector that a match attaches is filled, from the string of the call,
\* and goes to a MatchData that has none; $~ is set to one that has a vector.
MatchSet ==
  /\ call.pc \in {"new", "attach"} =>
       /\ mem[call.vec].pat \in Patterns /\ mem[call.vec].sub \in Subjects
       /\ mem[call.vec].sub = call.arg
  /\ call.pc = "attach" => ptr[call.md] # NULL /\ mem[ptr[call.md]].own = NULL
  /\ call.pc \in {"mdIvs", "publish", "globals"} =>
       /\ ptr[call.md] # NULL /\ mem[ptr[call.md]].own # NULL
       /\ mem[mem[ptr[call.md]].own].pat \in Patterns
       /\ mem[mem[ptr[call.md]].own].sub \in Subjects
       /\ call.pc = "mdIvs" => mem[mem[ptr[call.md]].own].sub = call.arg

\* Only the steps of match lead to such a state.
LEMMA MatchSteps ==
  ASSUME TypeOK, [Next]_vars, call'.pc \in Publishing
  PROVE  \/ MatchFound
         \/ \E m \in MatchDatas, b \in Blocks : MatchNew(m, b)
         \/ MatchAttach \/ MatchSetIvs \/ MatchPublish \/ SetGlobal
         \/ UNCHANGED vars \/ \E o \in Objects : Sweep(o)
<1>1. Idle.pc = "idle"
  BY DEF Idle
<1>2. ~RegexpStep /\ ~MatchDataStep
  BY <1>1, PcAfter DEF RegexpStep, MatchDataStep, Publishing
<1>. QED
  BY <1>1, <1>2, PcAfter DEF Next, MatchStep, Publishing

\* Every step keeps the match in progress as it is described.
LEMMA MatchNext == Inv /\ MatchSet /\ [Next]_vars => MatchSet'
<1>. SUFFICES ASSUME Inv, MatchSet, [Next]_vars, call'.pc \in Publishing
              PROVE  MatchSet'
  BY DEF MatchSet, Publishing
<1>. USE Distinct DEF Inv
<1>1. CASE MatchFound
  <2>. DEFINE v == call.vec
              pat == mem[Owned(call.self)].pat
  <2>1. /\ call'.pc = "new" /\ call'.vec = v /\ v \in Blocks /\ call.arg \in Subjects
        /\ call'.arg = call.arg
    BY <1>1 DEF MatchFound, Goto, Frame, TypeOK, Calls
  <2>2. mem' = [mem EXCEPT ![v].pat = pat, ![v].sub = call.arg]
    BY <1>1 DEF MatchFound
  <2>3. pat \in Patterns
    BY <1>1 DEF MatchFound, Frame, CodeOwned
  <2>. HIDE DEF pat, v
  <2>4. mem'[v].pat = pat /\ mem'[v].sub = call.arg
    BY <2>1, <2>2 DEF TypeOK, Cells
  <2>. QED
    BY <2>1, <2>3, <2>4 DEF MatchSet
<1>2. ASSUME NEW m \in MatchDatas, NEW b \in Blocks, MatchNew(m, b)
      PROVE  MatchSet'
  <2>1. /\ call'.pc = "attach" /\ call'.vec = call.vec /\ call'.md = m
        /\ call'.arg = call.arg /\ call.pc = "new" /\ call.vec # NULL /\ ptr'[m] = b
    BY <1>2 DEF MatchNew, Frame, TypeOK, Calls
  <2>2. mem[b].kind = "free"
    BY <1>2, AllocIsFree DEF MatchNew, Sizes
  <2>3. mem'[b] = Struct(NULL, -1) /\ \A y \in Blocks \ {b} : mem'[y] = mem[y]
    <3>. mem' = [mem EXCEPT ![b] = Struct(NULL, -1)]
      BY <1>2 DEF MatchNew
    <3>. QED
      BY DEF TypeOK
  <2>4. mem'[call.vec] = mem[call.vec]
    BY <2>1, <2>2, <2>3, NewKeeps
  <2>. QED
    BY <2>1, <2>3, <2>4 DEF MatchSet, Struct, Cell
<1>3. CASE MatchAttach
  <2>1. /\ call'.pc = "mdIvs" /\ call'.md = call.md /\ call.pc = "attach" /\ ptr' = ptr
        /\ call'.arg = call.arg
        /\ call.md \in MatchDatas /\ call.vec \in Blocks
        /\ mem[call.vec].kind = "leaf" /\ ptr[call.md] # NULL
    BY <1>3 DEF MatchAttach, Frame, NoDangling, TypeOK, Calls, MatchSet
  <2>2. ptr[call.md] \in Blocks /\ mem[ptr[call.md]].kind = "struct"
    BY <2>1 DEF NoDangling, TypeOK
  <2>3. /\ mem'[ptr[call.md]] = Struct(call.vec, mem[call.vec].len)
        /\ mem'[call.vec] = mem[call.vec]
    BY <1>3, <2>1, <2>2 DEF MatchAttach, TypeOK
  <2>4. mem'[ptr[call.md]].own = call.vec
    BY <2>3 DEF Struct, Cell
  <2>. QED
    BY <2>1, <2>3, <2>4 DEF MatchSet
<1>4. CASE MatchSetIvs \/ MatchPublish
  <2>1. /\ call.pc \in {"mdIvs", "publish"} /\ call'.pc \in {"publish", "globals"}
        /\ call'.md = call.md /\ UNCHANGED heap
    BY <1>4 DEF MatchSetIvs, MatchPublish, Goto, TypeOK, Calls
  <2>. QED
    BY <2>1 DEF MatchSet, heap
<1>5. CASE SetGlobal
  <2>1. call.pc = "globals" /\ call'.pc = "globals" /\ call'.md = call.md /\ UNCHANGED heap
    BY <1>5, CountCall DEF SetGlobal, TypeOK
  <2>. QED
    BY <2>1 DEF MatchSet, heap
<1>6. ASSUME NEW o \in Objects, Sweep(o)
      PROVE  MatchSet'
  <2>1. /\ call' = call
        /\ \A q \in Objects : q # o => ptr'[q] = ptr[q]
    BY <1>6 DEF Sweep, TypeOK
  <2>2. mem' = mem \/ mem' = Freed(DataBlocks(o))
    BY <1>6 DEF Sweep
  <2>3. call.vec # NULL => mem'[call.vec] = mem[call.vec]
    BY <2>2, FreeKeeps
  <2>4. CASE call.pc = "new"
    BY <2>1, <2>3, <2>4 DEF MatchSet, Frame
  <2>5. CASE call.pc # "new"
    <3>1. call.md \in MatchDatas /\ call.md \in live
      BY <2>1, <2>5 DEF Frame, Publishing
    <3>2. call.md # o
      BY <1>6, <3>1 DEF Sweep, Reachable, Roots
    <3>3. PICK m \in Objects : m = call.md
      BY <3>1
    <3>4. ptr[m] # NULL => Kept(m)
      BY <2>1, <2>2, <3>2, <3>3, FreeKeeps DEF Kept
    <3>. QED
      BY <2>1, <2>3, <2>5, <3>3, <3>4 DEF MatchSet, Kept, Frame
  <2>. QED
    BY <2>4, <2>5
<1>7. CASE UNCHANGED vars
  BY <1>7 DEF vars, heap, MatchSet
<1>. QED
  BY <1>1, <1>2, <1>3, <1>4, <1>5, <1>6, <1>7, MatchSteps

\* What a step does to @string of a MatchData that keeps its data.
LEMMA StringSteps ==
  ASSUME Inv, [Next]_vars, NEW m \in MatchDatas, ptr[m] # NULL, ptr'[m] # NULL
  PROVE  \/ mdString'[m] = mdString[m] /\ call' = call
         \/ mdString'[m] = mdString[m] /\ call.pc \notin {"mdIvs", "copyIvs"}
         \/ MatchSetIvs \/ CopyIvs \/ Raise
<1>. USE Distinct DEF Inv
<1>1. Idle.pc = "idle"
  BY DEF Idle
<1>2. CASE RegexpStep
  <2>1. mdString' = mdString
    BY <1>2 DEF RegexpStep, InitEnter, InitAlloc, Compile, CompileError, InitSetIvs,
                PushName, InitReturn, DupRegexp, ivars
  <2>. QED
    BY <1>1, <1>2, <2>1, PcBefore DEF RegexpStep
<1>3. CASE MatchStep
  <2>1. CASE MatchSetIvs
    BY <2>1
  <2>2. CASE ~MatchSetIvs
    <3>1. mdString' = mdString
      BY <1>3, <2>2 DEF MatchStep, MatchEnter, MatchNil, MatchFound, MatchNew, MatchAttach,
                        MatchPublish, SetGlobal, MatchReturn, ivars
    <3>. QED
      BY <1>1, <1>3, <2>2, <3>1, PcBefore DEF MatchStep
  <2>. QED
    BY <2>1, <2>2
<1>4. CASE MatchDataStep
  <2>1. ASSUME NEW c \in MatchDatas, NEW s \in MatchDatas, DupMatchData(c, s)
        PROVE  mdString'[m] = mdString[m] /\ call.pc = "idle"
    <3>1. /\ c \notin live /\ mdString' = [mdString EXCEPT ![c] = mdString[s]]
          /\ call = Idle
      BY <2>1 DEF DupMatchData
    <3>2. m # c
      BY <3>1 DEF CodeOwned, Objects
    <3>. QED
      BY <1>1, <3>1, <3>2 DEF TypeOK
  <2>2. CASE CopyIvs
    BY <2>2
  <2>3. CASE \/ \E n \in MatchDatas : MdInitEnter(n)
             \/ \E c, s \in MatchDatas : InitializeCopy(c, s)
             \/ \E b \in Blocks : MdInitAlloc(b) \/ CopyAlloc(b) \/ CopyVec(b)
             \/ CopyNull \/ CopySwap
    <3>1. mdString' = mdString
      BY <2>3 DEF MdInitEnter, InitializeCopy, MdInitAlloc, CopyAlloc, CopyVec, CopyNull,
                  CopySwap, ivars
    <3>. QED
      BY <1>1, <2>3, <3>1, PcBefore
  <2>. QED
    BY <1>4, <2>1, <2>2, <2>3 DEF MatchDataStep
<1>5. ASSUME NEW o \in Objects, Sweep(o)
      PROVE  mdString'[m] = mdString[m] /\ call' = call
  <2>1. m # o
    BY <1>5 DEF Sweep, TypeOK
  <2>. QED
    BY <1>5, <2>1 DEF Sweep, TypeOK
<1>6. CASE UNCHANGED vars \/ \E o \in Objects : Forget(o)
  BY <1>6 DEF Forget, vars, ivars
<1>. QED
  BY <1>2, <1>3, <1>4, <1>5, <1>6 DEF Next

\* A step that leaves a MatchData with offsets into another string is one of
\* the two the property names.
LEMMA FitSteps ==
  ASSUME Inv, CopySet, MatchSet, [Next]_vars, NEW m \in MatchDatas, Settled(m), ~Settled(m)'
  PROVE  \/ m = call.md /\ call.pc \in {"mdIvs", "copyIvs"} /\ Raise
         \/ m = call.md /\ CopyIvs /\ ~Fits(call.arg)
<1>. USE Distinct DEF Inv
<1>1. /\ ptr'[m] # NULL /\ mem'[ptr'[m]].own # NULL
      /\ mem'[mem'[ptr'[m]].own].sub # NULL
      /\ mem'[mem'[ptr'[m]].own].sub # mdString'[m]
      /\ ~(m = call'.md /\ call'.pc \in {"mdIvs", "copyIvs"})
  BY DEF Settled, Fits, Owned
<1>2. ~(m = call.md /\ (MatchAttach \/ CopySwap))
  <2>1. MatchAttach => call'.md = call.md /\ call'.pc = "mdIvs"
    BY DEF MatchAttach, TypeOK, Calls
  <2>2. CopySwap => call'.md = call.md /\ call'.pc = "copyIvs"
    BY DEF CopySwap, TypeOK, Calls
  <2>. QED
    BY <1>1, <2>1, <2>2
<1>3. /\ ptr[m] # NULL /\ mem[ptr[m]].own # NULL
      /\ mem'[mem'[ptr'[m]].own] = mem[mem[ptr[m]].own]
  BY <1>1, <1>2, MatchDataKept
<1>. DEFINE sub == mem[mem[ptr[m]].own].sub
<1>4. sub # NULL /\ sub # mdString'[m] /\ Owned(m) = mem[ptr[m]].own
  BY <1>1, <1>3 DEF Owned
<1>5. sub = mdString[m] \/ (m = call.md /\ call.pc \in {"mdIvs", "copyIvs"})
  BY <1>3, <1>4 DEF Settled, Fits
<1>6. CASE MatchSetIvs
  <2>1. /\ call.pc = "mdIvs" /\ call.md \in MatchDatas
        /\ mdString' = [mdString EXCEPT ![call.md] = call.arg]
    BY <1>6 DEF MatchSetIvs, Frame
  <2>2. CASE m = call.md
    BY <1>4, <2>1, <2>2 DEF MatchSet, TypeOK
  <2>3. CASE m # call.md
    BY <1>4, <1>5, <2>1, <2>3 DEF TypeOK
  <2>. QED
    BY <2>2, <2>3
<1>7. CASE CopyIvs
  <2>1. /\ call.pc = "copyIvs" /\ call.md \in MatchDatas /\ call.arg \in MatchDatas
        /\ mdString' = [mdString EXCEPT ![call.md] = mdString[call.arg]]
    BY <1>7 DEF CopyIvs, Frame
  <2>2. CASE m = call.md
    <3>1. mdString'[m] = mdString[call.arg]
      BY <2>1, <2>2 DEF TypeOK
    <3>2. ptr[call.arg] # NULL /\ SameData(ptr[m], ptr[call.arg])
      BY <2>1, <2>2 DEF CopySet
    <3>3. Owned(call.arg) # NULL /\ mem[Owned(call.arg)].sub = sub
      BY <1>3, <3>2 DEF SameData, Owned
    <3>4. ~Fits(call.arg)
      BY <1>4, <3>1, <3>3 DEF Fits
    <3>. QED
      BY <1>7, <2>2, <3>4
  <2>3. CASE m # call.md
    BY <1>4, <1>5, <2>1, <2>3 DEF TypeOK
  <2>. QED
    BY <2>2, <2>3
<1>8. CASE Raise
  <2>1. mdString' = mdString
    BY <1>8 DEF Raise, ivars
  <2>. QED
    BY <1>4, <1>5, <1>8, <2>1
<1>9. CASE ~MatchSetIvs /\ ~CopyIvs /\ ~Raise
  <2>1. \/ mdString'[m] = mdString[m] /\ call' = call
        \/ mdString'[m] = mdString[m] /\ call.pc \notin {"mdIvs", "copyIvs"}
    BY <1>1, <1>3, <1>9, StringSteps
  <2>. QED
    BY <1>1, <1>4, <1>5, <2>1
<1>. QED
  BY <1>6, <1>7, <1>8, <1>9

\* Whatever allocation raises, a MatchData gets offsets into another string
\* only by a match or a copy unwound before it sets @string, or as the copy
\* of a MatchData that has them.
THEOREM StringsGoWithOffsets == Spec => OffsetsFitUntilRaise
<1>1. Init => Lengths /\ CopySet /\ MatchSet
  BY ConstantsAssumption, Distinct DEF Init, Idle, Lengths, CopySet, MatchSet
<1>2. Spec => [](Inv /\ CopySet /\ MatchSet)
  BY <1>1, CopyNext, LengthsNext, MatchNext, Invariance, PTL DEF Spec
<1>3. Inv /\ CopySet /\ MatchSet /\ [Next]_vars =>
        [ \A m \in MatchDatas : Settled(m) =>
            \/ Settled(m)'
            \/ m = call.md /\ call.pc \in {"mdIvs", "copyIvs"} /\ Raise
            \/ m = call.md /\ CopyIvs /\ ~Fits(call.arg) ]_vars
  BY FitSteps
<1>. QED
  BY <1>2, <1>3, PTL DEF Spec, OffsetsFitUntilRaise

\* A MatchData whose data is kept holds what it held.
LEMMA HoldsKept ==
  ASSUME Inv, NEW m \in MatchDatas, m \in live' <=> m \in live,
         ptr'[m] = ptr[m], ptr[m] # NULL => Kept(m)
  PROVE  Holds(m)' = Holds(m)
BY DEF Holds, Owned, Kept

\* The steps that take a MatchData's data away, or create or delete one.
LEMMA MatchDataSteps ==
  ASSUME Inv, [Next]_vars, NEW m \in MatchDatas
  PROVE  \/ /\ m \in live' <=> m \in live
            /\ ptr'[m] = NULL => ptr[m] = NULL
         \/ MdInitEnter(m) \/ Sweep(m)
         \/ \E b \in Blocks : MatchNew(m, b)
         \/ \E s \in MatchDatas : DupMatchData(m, s)
<1>. USE Distinct DEF Inv
<1>. DEFINE Stays == /\ m \in live' <=> m \in live
                     /\ ptr'[m] = NULL => ptr[m] = NULL
<1>1. ASSUME live' = live, ptr' = ptr
      PROVE  Stays
  BY <1>1
<1>2. ASSUME NEW r \in Regexps, NEW p \in Patterns, InitEnter(r, p)
      PROVE  Stays
  BY <1>2 DEF InitEnter, TypeOK
<1>3. ASSUME NEW b \in Blocks, InitAlloc(b)
      PROVE  Stays
  BY <1>3 DEF InitAlloc, TypeOK, Frame, ivars
<1>4. ASSUME NEW r \in Regexps, NEW d \in Regexps, DupRegexp(d, r)
      PROVE  Stays
  BY <1>4 DEF DupRegexp, TypeOK, heap
<1>5. CASE RegexpStep
  <2>1. CASE \/ \E b \in Blocks : Compile(b)
             \/ CompileError \/ InitSetIvs \/ PushName \/ InitReturn
    BY <1>1, <2>1 DEF Compile, CompileError, InitSetIvs, PushName, InitReturn, heap, ivars
  <2>. QED
    BY <1>2, <1>3, <1>4, <1>5, <2>1 DEF RegexpStep
<1>6. ASSUME NEW n \in MatchDatas, n # m, NEW b \in Blocks, MatchNew(n, b)
      PROVE  Stays
  BY <1>6 DEF MatchNew, TypeOK
<1>7. CASE MatchStep
  <2>1. CASE \/ \E r \in Regexps, s \in Subjects, b \in Blocks : MatchEnter(r, s, b)
             \/ MatchNil \/ MatchFound \/ MatchAttach
    BY <1>1, <2>1 DEF MatchEnter, MatchNil, MatchFound, MatchAttach, ivars
  <2>2. CASE MatchSetIvs \/ MatchPublish \/ SetGlobal \/ MatchReturn
    BY <1>1, <2>2 DEF MatchSetIvs, MatchPublish, SetGlobal, MatchReturn, heap, ivars
  <2>. QED
    BY <1>6, <1>7, <2>1, <2>2 DEF MatchStep
<1>8. ASSUME NEW n \in MatchDatas, n # m, MdInitEnter(n)
      PROVE  Stays
  BY <1>8 DEF MdInitEnter, TypeOK
<1>9. ASSUME NEW n \in MatchDatas, n # m, NEW s \in MatchDatas, DupMatchData(n, s)
      PROVE  Stays
  BY <1>9 DEF DupMatchData, TypeOK, heap
<1>10. ASSUME NEW b \in Blocks, MdInitAlloc(b)
       PROVE  Stays
  BY <1>10 DEF MdInitAlloc, TypeOK, Frame, ivars
<1>11. CASE CopySwap
  <2>1. /\ call.md \in MatchDatas /\ call.rec \in Blocks /\ live' = live
        /\ ptr' = [ptr EXCEPT ![call.md] = call.rec]
    BY <1>11 DEF CopySwap, TypeOK, Calls, Frame, ivars
  <2>. QED
    BY <2>1 DEF TypeOK
<1>12. CASE MatchDataStep
  <2>1. CASE \/ \E c, s \in MatchDatas : InitializeCopy(c, s)
             \/ \E b \in Blocks : CopyAlloc(b) \/ CopyVec(b)
             \/ CopyNull \/ CopyIvs
    BY <1>1, <2>1 DEF InitializeCopy, CopyAlloc, CopyVec, CopyNull, CopyIvs, heap, ivars
  <2>. QED
    BY <1>8, <1>9, <1>10, <1>11, <1>12, <2>1 DEF MatchDataStep
<1>13. ASSUME NEW o \in Objects, o # m, Sweep(o)
       PROVE  Stays
  BY <1>13 DEF Sweep, TypeOK
<1>14. CASE Raise \/ UNCHANGED vars \/ \E o \in Objects : Forget(o)
  BY <1>1, <1>14 DEF Raise, Forget, vars, heap, ivars
<1>. QED
  BY <1>5, <1>7, <1>12, <1>13, <1>14 DEF Next

\* Only the end of match sets $~, and to the MatchData of the call.
LEMMA LastSteps ==
  ASSUME Inv, [Next]_vars, gv'[1] # gv[1]
  PROVE  SetGlobal /\ gv'[1] = call.md
<1>1. ~UNCHANGED gv
  OBVIOUS
<1>2. ~RegexpStep /\ ~MatchDataStep
  <2>1. ~RegexpStep
    BY <1>1 DEF RegexpStep, InitEnter, InitAlloc, Compile, CompileError, InitSetIvs,
                PushName, InitReturn, DupRegexp, shared
  <2>2. ~MatchDataStep
    BY <1>1 DEF MatchDataStep, MdInitEnter, MdInitAlloc, InitializeCopy, DupMatchData,
                CopyAlloc, CopyVec, CopyNull, CopySwap, CopyIvs, shared
  <2>. QED
    BY <2>1, <2>2
<1>3. SetGlobal
  BY <1>1, <1>2 DEF Next, MatchStep, MatchEnter, MatchNil, MatchFound, MatchNew, MatchAttach,
                    MatchSetIvs, MatchPublish, MatchReturn, Raise, Forget, Sweep, vars, shared
<1>4. 1 \in 1 .. NumGlobals
  BY ConstantsAssumption DEF ConstantsAssumption
<1>. QED
  BY <1>3, <1>4 DEF SetGlobal, Inv, TypeOK

\* What is left of a struct without offsets.
LEMMA HoldsNothing ==
  ASSUME NEW m \in MatchDatas, m \in live, ptr[m] = NULL \/ mem[ptr[m]].own = NULL
  PROVE  Holds(m) = <<NULL, NULL>>
BY DEF Holds, Owned

\* A step that changes one MatchData, or none, as the abstract one does.
LEMMA AbstractSteps ==
  ASSUME gv'[1] = gv[1], NEW m \in MatchDatas,
         \A n \in MatchDatas \ {m} : Holds(n)' = Holds(n)
  PROVE  /\ Holds(m)' = <<NULL, NULL>> => Abstract!Next
         /\ \A v \in Patterns \X Subjects :
              Holds(m) = <<NULL, NULL>> /\ Holds(m)' = v => Abstract!Next
         /\ \A s \in MatchDatas :
              Holds(m) # <<>> /\ Holds(s) # <<>> /\ Holds(m)' = Holds(s) => Abstract!Next
         /\ Holds(m) # <<>> /\ m # gv[1] /\ Holds(m)' = <<>> => Abstract!Next
<1>. DEFINE val == [n \in MatchDatas |-> Holds(n)]
<1>1. \A x : Holds(m)' = x => val' = [val EXCEPT ![m] = x]
  OBVIOUS
<1>2. \A n \in MatchDatas : val[n] = Holds(n)
  OBVIOUS
<1>. HIDE DEF val
<1>3. Abstract!Clear(m) <=> val' = [val EXCEPT ![m] = <<NULL, NULL>>] /\ gv'[1] = gv[1]
  BY DEF Abstract!Clear, val
<1>4. \A v : Abstract!Found(m, v) <=>
        val[m] = <<NULL, NULL>> /\ val' = [val EXCEPT ![m] = v] /\ gv'[1] = gv[1]
  BY DEF Abstract!Found, val
<1>5. \A s \in MatchDatas : Abstract!Copy(m, s) <=>
        /\ val[m] # <<>> /\ val[s] # <<>>
        /\ val' = [val EXCEPT ![m] = val[s]] /\ gv'[1] = gv[1]
  BY DEF Abstract!Copy, val
<1>6. Abstract!Drop(m) <=>
        val[m] # <<>> /\ m # gv[1] /\ val' = [val EXCEPT ![m] = <<>>] /\ gv'[1] = gv[1]
  BY DEF Abstract!Drop, val
<1>. QED
  BY <1>1, <1>2, <1>3, <1>4, <1>5, <1>6 DEF Abstract!Next

\* A step that changes no MatchData and not $~.
LEMMA AbstractStutter ==
  ASSUME gv'[1] = gv[1], \A n \in MatchDatas : Holds(n)' = Holds(n)
  PROVE  UNCHANGED Abstract!vars
BY DEF Abstract!vars

\* The steps that change no MatchData but one.
LEMMA FreeingSteps ==
  ASSUME Inv, [Next]_vars, gv'[1] = gv[1], NEW m \in MatchDatas,
         MdInitEnter(m) \/ Sweep(m)
  PROVE  Abstract!Next
<1>. USE Distinct DEF Inv
<1>1. mem' = mem \/ mem' = Freed(DataBlocks(m))
  BY DEF MdInitEnter, Sweep
<1>2. ptr' = [ptr EXCEPT ![m] = NULL]
  BY DEF MdInitEnter, Sweep
<1>3. \A n \in MatchDatas \ {m} : n \in live' <=> n \in live
  BY DEF MdInitEnter, Sweep
<1>4. ASSUME NEW n \in MatchDatas \ {m}
      PROVE  Holds(n)' = Holds(n)
  <2>1. ptr'[n] = ptr[n] /\ n \in Objects /\ m \in Objects /\ n # m
    BY <1>2 DEF TypeOK
  <2>2. ptr[n] # NULL => Kept(n)
    BY <1>1, <2>1, FreeKeeps DEF Kept
  <2>. QED
    BY <1>3, <2>1, <2>2, HoldsKept
<1>5. CASE MdInitEnter(m)
  <2>1. m \in live' /\ ptr'[m] = NULL
    BY <1>5 DEF MdInitEnter, TypeOK
  <2>2. Holds(m)' = <<NULL, NULL>>
    BY <2>1 DEF Holds, Owned
  <2>. QED
    BY <1>4, <2>2, AbstractSteps
<1>6. CASE Sweep(m)
  <2>1. m \in live /\ m \notin live' /\ m \notin Roots
    BY <1>6 DEF Sweep, Reachable
  <2>2. 1 \in 1 .. NumGlobals
    BY ConstantsAssumption DEF ConstantsAssumption
  <2>3. m # gv[1]
    BY <2>1, <2>2 DEF Roots
  <2>4. Holds(m)' = <<>> /\ Holds(m) # <<>>
    BY <2>1 DEF Holds
  <2>. QED
    BY <1>4, <2>3, <2>4, AbstractSteps
<1>. QED
  BY <1>5, <1>6

\* MatchData.new and initialize: a struct without offsets.
LEMMA NewStructSteps ==
  ASSUME Inv, [Next]_vars, gv'[1] = gv[1], NEW m \in MatchDatas, NEW b \in Blocks,
         MatchNew(m, b) \/ (m = call.md /\ MdInitAlloc(b))
  PROVE  Abstract!Next
<1>. USE Distinct DEF Inv
<1>1. /\ b \in Alloc("matchdata") /\ mem' = [mem EXCEPT ![b] = Struct(NULL, -1)]
      /\ ptr' = [ptr EXCEPT ![m] = b]
  BY DEF MatchNew, MdInitAlloc
<1>2. m \in live' /\ \A n \in MatchDatas \ {m} : n \in live' <=> n \in live
  BY DEF MatchNew, MdInitAlloc, Frame, ivars
<1>3. mem[b].kind = "free" /\ \A y \in Blocks \ {b} : mem'[y] = mem[y]
  BY <1>1, AllocIsFree DEF Sizes, TypeOK
<1>4. ASSUME NEW n \in MatchDatas \ {m}
      PROVE  Holds(n)' = Holds(n)
  <2>1. ptr'[n] = ptr[n] /\ n \in Objects
    BY <1>1 DEF TypeOK
  <2>2. ptr[n] # NULL => Kept(n)
    BY <1>3, <2>1, NewKeeps
  <2>. QED
    BY <1>2, <2>1, <2>2, HoldsKept
<1>5. ptr'[m] = b /\ mem'[b].own = NULL
  BY <1>1 DEF TypeOK, Struct, Cell
<1>6. Holds(m)' = <<NULL, NULL>>
  BY <1>2, <1>5 DEF Holds, Owned
<1>. QED
  BY <1>4, <1>6, AbstractSteps

\* dup and clone: the copy exists and has no data yet.
LEMMA DupStep ==
  ASSUME Inv, gv'[1] = gv[1], NEW m \in MatchDatas, NEW s \in MatchDatas, DupMatchData(m, s)
  PROVE  Abstract!Next
<1>1. /\ m \notin live /\ live' = live \cup {m} /\ mem' = mem /\ ptr' = ptr
  BY DEF DupMatchData, heap
<1>2. ptr[m] = NULL
  BY <1>1 DEF Inv, CodeOwned, Objects
<1>3. \A n \in MatchDatas \ {m} : Holds(n)' = Holds(n)
  BY <1>1 DEF Holds, Owned
<1>4. Holds(m)' = <<NULL, NULL>>
  BY <1>1, <1>2 DEF Holds, Owned
<1>. QED
  BY <1>3, <1>4, AbstractSteps

\* A match is given to a new MatchData.
LEMMA AttachStep ==
  ASSUME Inv, MatchSet, gv'[1] = gv[1], MatchAttach
  PROVE  Abstract!Next
<1>. USE Distinct DEF Inv
<1>1. PICK m \in MatchDatas : m = call.md
  BY DEF MatchAttach, Frame
<1>2. /\ m \in live /\ live' = live /\ ptr' = ptr /\ ptr[m] # NULL /\ mem[ptr[m]].own = NULL
      /\ call.vec \in Blocks /\ mem[call.vec].kind = "leaf"
      /\ mem[call.vec].pat \in Patterns /\ mem[call.vec].sub \in Subjects
  BY <1>1 DEF MatchAttach, Frame, NoDangling, TypeOK, Calls, MatchSet, ivars
<1>3. ptr[m] \in Blocks /\ mem[ptr[m]].kind = "struct"
  BY <1>2 DEF NoDangling, TypeOK
<1>4. /\ mem'[ptr[m]] = Struct(call.vec, mem[call.vec].len)
      /\ \A y \in Blocks \ {ptr[m]} : mem'[y] = mem[y]
  BY <1>1, <1>3 DEF MatchAttach, TypeOK
<1>5. ASSUME NEW n \in MatchDatas \ {m}
      PROVE  Holds(n)' = Holds(n)
  <2>1. ptr[n] # NULL => Kept(n)
    BY <1>2, <1>4, StructKeeps
  <2>. QED
    BY <1>2, <2>1, HoldsKept
<1>6. mem'[ptr[m]].own = call.vec /\ mem'[call.vec] = mem[call.vec]
  BY <1>2, <1>3, <1>4 DEF Struct, Cell
<1>7. Holds(m) = <<NULL, NULL>>
  BY <1>2 DEF Holds, Owned
<1>8. Holds(m)' = <<mem[call.vec].pat, mem[call.vec].sub>>
  BY <1>2, <1>6 DEF Holds, Owned
<1>9. <<mem[call.vec].pat, mem[call.vec].sub>> \in Patterns \X Subjects
  BY <1>2
<1>. QED
  BY <1>5, <1>7, <1>8, <1>9, AbstractSteps

\* A copy takes its struct.
LEMMA SwapStep ==
  ASSUME Inv, CopySet, gv'[1] = gv[1], CopySwap
  PROVE  Abstract!Next
<1>. USE Distinct DEF Inv
<1>1. PICK m \in MatchDatas, s \in MatchDatas : m = call.md /\ s = call.arg
  BY DEF CopySwap, Frame
<1>2. PICK x \in Blocks, y \in Blocks : x = call.rec /\ y = ptr[s]
  BY <1>1 DEF CopySwap, Frame, TypeOK, Calls, CopySet
<1>3. /\ m \in live /\ s \in live /\ m # s /\ live' = live /\ ptr' = [ptr EXCEPT ![m] = x]
      /\ mem' = Freed(DataBlocks(m)) /\ SameData(x, y)
  BY <1>1, <1>2 DEF CopySwap, Frame, CopySet, ivars
<1>4. ASSUME NEW n \in MatchDatas \ {m}
      PROVE  Holds(n)' = Holds(n)
  <2>1. ptr'[n] = ptr[n] /\ n \in Objects /\ m \in Objects /\ n # m
    BY <1>3 DEF TypeOK
  <2>2. ptr[n] # NULL => Kept(n)
    BY <1>3, <2>1, FreeKeeps
  <2>. QED
    BY <1>3, <2>1, <2>2, HoldsKept
<1>5. /\ ptr'[m] = x /\ mem'[x] = mem[x]
      /\ mem[x].own # NULL => mem'[mem[x].own] = mem[mem[x].own]
  BY <1>2, <1>3, FreeKeeps DEF TypeOK
<1>6. Holds(m)' = IF mem[x].own = NULL THEN <<NULL, NULL>>
                  ELSE <<mem[mem[x].own].pat, mem[mem[x].own].sub>>
  BY <1>2, <1>3, <1>5 DEF Holds, Owned
<1>7. Holds(s) = IF mem[y].own = NULL THEN <<NULL, NULL>>
                 ELSE <<mem[mem[y].own].pat, mem[mem[y].own].sub>>
  BY <1>2, <1>3 DEF Holds, Owned
<1>8. Holds(m)' = Holds(s)
  BY <1>3, <1>6, <1>7 DEF SameData
<1>9. Holds(m) # <<>> /\ Holds(s) # <<>>
  BY <1>3 DEF Holds
<1>. QED
  BY <1>4, <1>8, <1>9, AbstractSteps

\* Every other step leaves what each MatchData holds alone, or sets $~.
LEMMA OtherSteps ==
  ASSUME Inv, MatchSet, [Next]_vars, ~MatchAttach, ~CopySwap,
         \A m \in MatchDatas :
           /\ ~MdInitEnter(m) /\ ~Sweep(m)
           /\ \A b \in Blocks : ~MatchNew(m, b) /\ (m = call.md => ~MdInitAlloc(b))
           /\ \A s \in MatchDatas : ~DupMatchData(m, s)
  PROVE  [Abstract!Next]_(Abstract!vars)
<1>. USE Distinct DEF Inv
<1>1. ASSUME NEW m \in MatchDatas
      PROVE  Holds(m)' = Holds(m)
  <2>1. (m \in live' <=> m \in live) /\ (ptr'[m] = NULL => ptr[m] = NULL)
    BY MatchDataSteps
  <2>2. m = call.self => \A b \in Blocks : ~InitAlloc(b) /\ ~Compile(b)
    BY DEF InitAlloc, Compile, Frame
  <2>3. ptr'[m] # NULL => Kept(m)
    BY <2>2, DataKept
  <2>. QED
    <3>1. CASE ptr'[m] = NULL
      BY <2>1, <3>1, HoldsKept
    <3>2. CASE ptr'[m] # NULL
      BY <2>1, <2>3, <3>2, HoldsKept DEF Kept
    <3>. QED
      BY <3>1, <3>2
<1>2. CASE gv'[1] = gv[1]
  BY <1>1, <1>2, AbstractStutter
<1>3. CASE gv'[1] # gv[1]
  <2>1. SetGlobal /\ gv'[1] = call.md
    BY <1>3, LastSteps
  <2>2. PICK m \in MatchDatas : m = call.md
    BY <2>1 DEF SetGlobal, Frame
  <2>3. /\ m \in live /\ ptr[m] # NULL /\ mem[ptr[m]].own # NULL
        /\ <<mem[mem[ptr[m]].own].pat, mem[mem[ptr[m]].own].sub>> \in Patterns \X Subjects
    BY <2>1, <2>2 DEF SetGlobal, Frame, MatchSet
  <2>4. Holds(m) \in Patterns \X Subjects
    BY <2>3 DEF Holds, Owned
  <2>5. Abstract!Publish(m)
    BY <1>1, <2>1, <2>2, <2>4 DEF Abstract!Publish
  <2>. QED
    BY <2>5 DEF Abstract!Next
<1>. QED
  BY <1>2, <1>3

\* Every step is a step of the abstract MatchData, or changes nothing of it.
LEMMA StepRefines ==
  ASSUME Inv, CopySet, MatchSet, [Next]_vars
  PROVE  [Abstract!Next]_(Abstract!vars)
<1>1. CASE SetGlobal
  <2>1. call.pc = "globals" /\ Idle.pc = "idle"
    BY <1>1 DEF SetGlobal, Idle
  <2>2. call' # call
    BY <1>1, CountCall DEF SetGlobal, Inv, TypeOK, Calls
  <2>3. ~MatchAttach /\ ~CopySwap
    BY <2>1 DEF MatchAttach, CopySwap
  <2>4. \A m \in MatchDatas, b \in Blocks : ~MatchNew(m, b) /\ ~MdInitAlloc(b)
    BY <2>1 DEF MatchNew, MdInitAlloc
  <2>5. \A m \in MatchDatas : ~MdInitEnter(m) /\ \A s \in MatchDatas : ~DupMatchData(m, s)
    BY <2>1 DEF MdInitEnter, DupMatchData
  <2>6. \A m \in MatchDatas : ~Sweep(m)
    BY <2>2 DEF Sweep
  <2>. QED
    BY <2>3, <2>4, <2>5, <2>6, OtherSteps
<1>2. CASE ~SetGlobal
  <2>1. gv'[1] = gv[1]
    BY <1>2, LastSteps
  <2>. QED
    BY <2>1, FreeingSteps, NewStructSteps, DupStep, AttachStep, SwapStep, OtherSteps
<1>. QED
  BY <1>1, <1>2

\* The heap, the collector and failing allocations implement the abstract
\* MatchData: a call changes what one MatchData holds and no other, a copy
\* shares nothing with its source, and $~ is never collected.
THEOREM MatchDataRefines == Spec => ImplementsMatchValues
<1>1. Init => Abstract!Init
  <2>1. 1 \in 1 .. NumGlobals
    BY ConstantsAssumption DEF ConstantsAssumption
  <2>. QED
    BY <2>1 DEF Init, Abstract!Init, Holds
<1>2. Init => Lengths /\ CopySet /\ MatchSet
  BY ConstantsAssumption, Distinct DEF Init, Idle, Lengths, CopySet, MatchSet
<1>3. Spec => [](Inv /\ CopySet /\ MatchSet)
  BY <1>2, CopyNext, LengthsNext, MatchNext, Invariance, PTL DEF Spec
<1>. QED
  BY <1>1, <1>3, StepRefines, PTL DEF Spec, ImplementsMatchValues, Abstract!Spec
-----------------------------------------------------------------------------
(* Leaks                                                                   *)

\* A block the call allocates goes to a place that holds nothing.
PlaceSet ==
  /\ call.pc = "initAlloc" => ptr[call.self] = NULL
  /\ call.pc = "compile" => ptr[call.self] # NULL /\ mem[ptr[call.self]].own = NULL
  /\ call.pc = "mdAlloc" => ptr[call.md] = NULL

\* Every step keeps those places empty.
LEMMA PlaceNext == Inv /\ PlaceSet /\ [Next]_vars => PlaceSet'
<1>. SUFFICES ASSUME Inv, PlaceSet, [Next]_vars,
                     call'.pc \in {"initAlloc", "compile", "mdAlloc"}
              PROVE  PlaceSet'
  BY DEF PlaceSet
<1>. USE Distinct DEF Inv
<1>1. ASSUME NEW r \in Regexps, NEW p \in Patterns, InitEnter(r, p)
      PROVE  PlaceSet'
  <2>1. call'.pc = "initAlloc" /\ call'.self = r /\ ptr'[r] = NULL
    BY <1>1 DEF InitEnter, Idle, TypeOK
  <2>. QED
    BY <2>1 DEF PlaceSet
<1>2. ASSUME NEW b \in Blocks, InitAlloc(b)
      PROVE  PlaceSet'
  <2>1. /\ call'.pc = "compile" /\ call'.self = call.self /\ call.self \in Regexps
        /\ ptr' = [ptr EXCEPT ![call.self] = b] /\ mem' = [mem EXCEPT ![b] = Struct(NULL, 0)]
    BY <1>2 DEF InitAlloc, Goto, Frame, TypeOK, Calls
  <2>2. ptr'[call.self] = b /\ mem'[b].own = NULL
    BY <2>1 DEF TypeOK, Struct, Cell
  <2>. QED
    BY <2>1, <2>2 DEF PlaceSet
<1>3. ASSUME NEW m \in MatchDatas, MdInitEnter(m)
      PROVE  PlaceSet'
  <2>1. call'.pc = "mdAlloc" /\ call'.md = m /\ ptr'[m] = NULL
    BY <1>3 DEF MdInitEnter, Idle, TypeOK
  <2>. QED
    BY <2>1 DEF PlaceSet
<1>4. ASSUME NEW o \in Objects, Sweep(o)
      PROVE  PlaceSet'
  <2>1. /\ call' = call
        /\ \A q \in Objects : q # o => ptr'[q] = ptr[q]
    BY <1>4 DEF Sweep, TypeOK
  <2>2. mem' = mem \/ mem' = Freed(DataBlocks(o))
    BY <1>4 DEF Sweep
  <2>3. PICK q \in Objects : q = IF call.pc = "mdAlloc" THEN call.md ELSE call.self
    BY <2>1 DEF Frame
  <2>4. q # o
    BY <1>4, <2>1, <2>3 DEF Sweep, Reachable, Roots, Frame
  <2>5. ptr[q] # NULL => Kept(q)
    BY <2>1, <2>2, <2>4, FreeKeeps DEF Kept
  <2>. QED
    BY <2>1, <2>3, <2>4, <2>5 DEF PlaceSet, Kept
<1>5. CASE UNCHANGED vars
  BY <1>5 DEF vars, heap, PlaceSet
<1>6. Idle.pc = "idle"
  BY DEF Idle
<1>7. ~MatchStep
  BY <1>6, PcAfter DEF MatchStep
<1>. QED
  BY <1>1, <1>2, <1>3, <1>4, <1>5, <1>6, <1>7, PcAfter DEF Next, RegexpStep, MatchDataStep

\* What an object, or the call in progress, can free.
Uses(b) ==
  \/ \E o \in Objects : ptr[o] # NULL /\ (b = ptr[o] \/ b = mem[ptr[o]].own)
  \/ b = call.vec
  \/ call.rec # NULL /\ (b = call.rec \/ b = mem[call.rec].own)

\* The orphans are the blocks in use that nobody can free.
LEMMA OrphansUnused ==
  TypeOK => Orphans = {b \in Blocks : mem[b].kind # "free" /\ ~Uses(b)}
<1>1. ASSUME NEW b \in Blocks, NEW o \in Objects
      PROVE  b \in DataBlocks(o) <=> ptr[o] # NULL /\ (b = ptr[o] \/ b = mem[ptr[o]].own)
  BY Distinct DEF DataBlocks, Owned
<1>2. \A b \in Blocks : b \in {mem[x].own : x \in {call.rec} \ {NULL}} <=>
                          call.rec # NULL /\ b = mem[call.rec].own
  OBVIOUS
<1>3. \A b \in Blocks : b \in UNION {DataBlocks(o) : o \in Objects} <=>
                          \E o \in Objects : b \in DataBlocks(o)
  OBVIOUS
<1>4. NULL \notin Blocks
  BY Distinct
<1>. QED
  BY <1>1, <1>2, <1>3, <1>4 DEF Orphans, Uses

\* A step that loses no block makes no orphan.
LEMMA NoNewOrphan ==
  ASSUME Inv, Inv',
         \A b \in Blocks : mem'[b].kind # "free" /\ (mem[b].kind # "free" => Uses(b)) => Uses(b)'
  PROVE  Orphans' \subseteq Orphans
<1>1. Orphans = {b \in Blocks : mem[b].kind # "free" /\ ~Uses(b)}
  BY OrphansUnused DEF Inv
<1>2. (TypeOK => Orphans = {b \in Blocks : mem[b].kind # "free" /\ ~Uses(b)})'
  BY OrphansUnused, PTL
<1>3. Orphans' = {b \in Blocks : mem'[b].kind # "free" /\ ~Uses(b)'}
  BY <1>2 DEF Inv
<1>. QED
  BY <1>1, <1>3

\* A step that leaves the heap alone.
LEMMA QuietOrphans ==
  ASSUME Inv, Inv', mem' = mem, ptr' = ptr, call'.rec = call.rec, call'.vec = call.vec
  PROVE  Orphans' \subseteq Orphans
<1>1. \A b \in Blocks : Uses(b)' <=> Uses(b)
  BY DEF Uses
<1>. QED
  BY <1>1, NoNewOrphan

\* A step that frees all the data of one object.
LEMMA FreeingOrphans ==
  ASSUME Inv, Inv', NEW o \in Objects,
         mem' = Freed(DataBlocks(o)), ptr' = [ptr EXCEPT ![o] = NULL],
         call'.rec = call.rec, call'.vec = call.vec
  PROVE  Orphans' \subseteq Orphans
<1>. USE Distinct DEF Inv
<1>1. \A b \in Blocks : mem'[b] = IF b \in DataBlocks(o) THEN FreeCell ELSE mem[b]
  BY FreedCells DEF TypeOK
<1>2. /\ \A q \in Objects : q # o /\ ptr[q] # NULL => Kept(q)
      /\ call.rec # NULL => mem'[call.rec] = mem[call.rec]
  BY FreeKeeps DEF TypeOK
<1>3. \A q \in Objects : q # o => ptr'[q] = ptr[q]
  BY DEF TypeOK
<1>4. ASSUME NEW b \in Blocks, mem'[b].kind # "free", mem[b].kind # "free" => Uses(b)
      PROVE  Uses(b)'
  <2>1. b \notin DataBlocks(o) /\ mem'[b] = mem[b]
    BY <1>1, <1>4, CellTypes
  <2>2. Uses(b)
    BY <1>4, <2>1
  <2>3. ASSUME NEW q \in Objects, ptr[q] # NULL, b = ptr[q] \/ b = mem[ptr[q]].own
        PROVE  Uses(b)'
    <3>1. q # o
      BY <2>1, <2>3 DEF DataBlocks, Owned
    <3>. QED
      BY <1>2, <1>3, <2>3, <3>1 DEF Uses, Kept
  <2>4. ASSUME b = call.vec \/ (call.rec # NULL /\ (b = call.rec \/ b = mem[call.rec].own))
        PROVE  Uses(b)'
    BY <1>2, <2>4 DEF Uses
  <2>. QED
    BY <2>2, <2>3, <2>4 DEF Uses
<1>. QED
  BY <1>4, NoNewOrphan

\* A step that takes a free block for something, and loses nothing.
LEMMA NewOrphans ==
  ASSUME Inv, Inv', NEW b \in Blocks, mem[b].kind = "free", Uses(b)',
         \A y \in Blocks \ {b} : mem'[y] = mem[y],
         \A q \in Objects : ptr[q] # NULL => ptr'[q] = ptr[q],
         call.rec # NULL => call'.rec = call.rec,
         call.vec # NULL => call'.vec = call.vec
  PROVE  Orphans' \subseteq Orphans
<1>. USE Distinct DEF Inv
<1>1. /\ \A q \in Objects : ptr[q] # NULL => Kept(q)
      /\ call.rec # NULL => mem'[call.rec] = mem[call.rec]
  BY NewKeeps
<1>2. ASSUME NEW y \in Blocks, mem'[y].kind # "free", mem[y].kind # "free" => Uses(y)
      PROVE  Uses(y)'
  <2>1. CASE y = b
    BY <2>1
  <2>2. CASE y # b
    <3>1. Uses(y)
      BY <1>2, <2>2
    <3>. QED
      BY <1>1, <3>1 DEF Uses, Kept
  <2>. QED
    BY <2>1, <2>2
<1>. QED
  BY <1>2, NoNewOrphan

\* A step that puts a block, a new one or the call's vector, into a struct
\* that owns nothing.
LEMMA AttachOrphans ==
  ASSUME Inv, Inv', NEW b \in Blocks, NEW x \in Blocks,
         (mem[b].kind = "free" /\ call'.vec = call.vec) \/ (mem[b].kind = "leaf" /\ b = call.vec),
         mem[x].kind = "struct", mem[x].own = NULL, mem'[x].own = b,
         \A y \in Blocks \ {b, x} : mem'[y] = mem[y],
         ptr' = ptr, call'.rec = call.rec,
         x = call.rec \/ \E o \in Objects : ptr[o] = x
  PROVE  Orphans' \subseteq Orphans
<1>. USE Distinct DEF Inv
<1>1. Uses(b)'
  BY DEF Uses
<1>2. /\ \A o \in Objects : ptr[o] # NULL => ptr[o] \in Blocks \ {b}
      /\ call.rec # NULL => call.rec \in Blocks \ {b}
  BY DEF NoDangling, TypeOK, Calls
<1>3. ASSUME NEW y \in Blocks, mem'[y].kind # "free", mem[y].kind # "free" => Uses(y), y # b
      PROVE  Uses(y)'
  <2>1. Uses(y)
    BY <1>3
  <2>2. ASSUME NEW o \in Objects, ptr[o] # NULL, y = ptr[o] \/ y = mem[ptr[o]].own
        PROVE  Uses(y)'
    <3>1. y = ptr[o] \/ mem'[ptr[o]] = mem[ptr[o]]
      BY <1>2, <2>2
    <3>. QED
      BY <2>2, <3>1 DEF Uses
  <2>3. ASSUME call.rec # NULL, y = call.rec \/ y = mem[call.rec].own
        PROVE  Uses(y)'
    <3>1. y = call.rec \/ mem'[call.rec] = mem[call.rec]
      BY <1>2, <2>3
    <3>. QED
      BY <2>3, <3>1 DEF Uses
  <2>4. y = call.vec => Uses(y)'
    BY <1>3 DEF Uses
  <2>. QED
    BY <2>1, <2>2, <2>3, <2>4 DEF Uses
<1>. QED
  BY <1>1, <1>3, NoNewOrphan

\* Without a match the vector is freed.
LEMMA NilOrphans == Inv /\ Inv' /\ MatchNil => Orphans' \subseteq Orphans
<1>. SUFFICES ASSUME Inv, Inv', MatchNil PROVE Orphans' \subseteq Orphans
  OBVIOUS
<1>. USE Distinct DEF Inv
<1>1. /\ call.vec \in Blocks /\ call.rec = NULL /\ ptr' = ptr
      /\ mem' = Freed({call.vec})
  BY DEF MatchNil, Frame, TypeOK, Calls
<1>2. \A y \in Blocks : mem'[y] = IF y = call.vec THEN FreeCell ELSE mem[y]
  BY <1>1, FreedCells DEF TypeOK
<1>3. \A q \in Objects : ptr[q] # NULL => Kept(q)
  BY <1>1, <1>2, LocalKeeps
<1>4. ASSUME NEW y \in Blocks, mem'[y].kind # "free", mem[y].kind # "free" => Uses(y)
      PROVE  Uses(y)'
  <2>1. y # call.vec /\ mem'[y] = mem[y]
    BY <1>2, <1>4, CellTypes
  <2>2. \E q \in Objects : ptr[q] # NULL /\ (y = ptr[q] \/ y = mem[ptr[q]].own)
    BY <1>1, <1>4, <2>1 DEF Uses
  <2>. QED
    BY <1>1, <1>3, <2>2 DEF Uses, Kept
<1>. QED
  BY <1>4, NoNewOrphan

\* pcre_exec fills a vector that the call holds.
LEMMA FoundOrphans == Inv /\ Inv' /\ MatchFound => Orphans' \subseteq Orphans
<1>. SUFFICES ASSUME Inv, Inv', MatchFound PROVE Orphans' \subseteq Orphans
  OBVIOUS
<1>. USE Distinct DEF Inv
<1>. DEFINE v == call.vec
            pat == mem[Owned(call.self)].pat
<1>1. /\ v \in Blocks /\ call.rec = NULL /\ ptr' = ptr
      /\ call'.vec = v /\ call'.rec = call.rec /\ mem[v].kind = "leaf"
  BY DEF MatchFound, Goto, Frame, NoDangling, TypeOK, Calls
<1>2. mem' = [mem EXCEPT ![v].pat = pat, ![v].sub = call.arg]
  BY DEF MatchFound
<1>. HIDE DEF pat, v
<1>3. \A y \in Blocks \ {v} : mem'[y] = mem[y]
  BY <1>1, <1>2 DEF TypeOK
<1>4. v = call.vec
  BY DEF v
<1>5. \A q \in Objects : ptr[q] # NULL => Kept(q)
  BY <1>1, <1>3, <1>4, LocalKeeps
<1>6. ASSUME NEW y \in Blocks, mem[y].kind # "free" => Uses(y), mem'[y].kind # "free"
      PROVE  Uses(y)'
  <2>1. Uses(y) \/ y = v
    BY <1>1, <1>3, <1>6
  <2>. QED
    BY <1>1, <1>4, <1>5, <2>1 DEF Uses, Kept
<1>. QED
  BY <1>6, NoNewOrphan

\* The old data is freed and the new struct taken.
LEMMA SwapOrphans == Inv /\ Inv' /\ CopySwap => Orphans' \subseteq Orphans
<1>. SUFFICES ASSUME Inv, Inv', CopySwap PROVE Orphans' \subseteq Orphans
  OBVIOUS
<1>. USE Distinct DEF Inv
<1>1. PICK m \in Objects, x \in Blocks : m = call.md /\ x = call.rec
  BY DEF CopySwap, Frame, TypeOK, Calls
<1>2. /\ mem' = Freed(DataBlocks(m)) /\ ptr' = [ptr EXCEPT ![m] = x]
      /\ call.vec = NULL /\ call'.vec = NULL /\ call'.rec = NULL
  BY <1>1 DEF CopySwap, Frame, TypeOK, Calls
<1>3. \A y \in Blocks : mem'[y] = IF y \in DataBlocks(m) THEN FreeCell ELSE mem[y]
  BY <1>2, FreedCells DEF TypeOK
<1>4. /\ \A q \in Objects : q # m => ptr'[q] = ptr[q]
      /\ ptr'[m] = x
  BY <1>2 DEF TypeOK
<1>5. /\ \A q \in Objects : q # m /\ ptr[q] # NULL => Kept(q)
      /\ mem'[x] = mem[x]
  BY <1>1, <1>2, <1>4, FreeKeeps
<1>6. ASSUME NEW y \in Blocks, mem'[y].kind # "free", mem[y].kind # "free" => Uses(y)
      PROVE  Uses(y)'
  <2>1. y \notin DataBlocks(m) /\ mem'[y] = mem[y]
    BY <1>3, <1>6, CellTypes
  <2>2. Uses(y)
    BY <1>6, <2>1
  <2>3. ASSUME NEW q \in Objects, ptr[q] # NULL, y = ptr[q] \/ y = mem[ptr[q]].own
        PROVE  Uses(y)'
    <3>1. q # m
      BY <2>1, <2>3 DEF DataBlocks, Owned
    <3>. QED
      BY <1>4, <1>5, <2>3, <3>1 DEF Uses, Kept
  <2>4. ASSUME y = x \/ y = mem[x].own
        PROVE  Uses(y)'
    BY <1>4, <1>5, <2>4 DEF Uses
  <2>. QED
    BY <1>1, <1>2, <2>2, <2>3, <2>4 DEF Uses
<1>. QED
  BY <1>6, NoNewOrphan

\* The steps that take a free block for an object or for the call.
LEMMA AllocOrphans ==
  ASSUME Inv, Inv', PlaceSet, NEW b \in Blocks,
         \/ InitAlloc(b) \/ MdInitAlloc(b) \/ CopyAlloc(b)
         \/ \E r \in Regexps, s \in Subjects : MatchEnter(r, s, b)
         \/ \E m \in MatchDatas : MatchNew(m, b)
  PROVE  Orphans' \subseteq Orphans
<1>. USE Distinct DEF Inv
<1>1. CASE InitAlloc(b)
  <2>1. /\ mem[b].kind = "free" /\ \A y \in Blocks \ {b} : mem'[y] = mem[y]
        /\ call.self \in Objects /\ ptr[call.self] = NULL
        /\ call'.rec = call.rec /\ call'.vec = call.vec
    BY <1>1, AllocIsFree DEF InitAlloc, Goto, Frame, PlaceSet, Sizes, TypeOK, Calls
  <2>2. ptr'[call.self] = b /\ \A q \in Objects : ptr[q] # NULL => ptr'[q] = ptr[q]
    BY <1>1, <2>1 DEF InitAlloc, TypeOK
  <2>3. Uses(b)'
    <3>. PICK o \in Objects : o = call.self
      BY <2>1
    <3>. QED
      BY <2>2 DEF Uses
  <2>. QED
    BY <2>1, <2>2, <2>3, NewOrphans
<1>2. CASE MdInitAlloc(b)
  <2>1. /\ mem[b].kind = "free" /\ \A y \in Blocks \ {b} : mem'[y] = mem[y]
        /\ call.md \in Objects /\ ptr[call.md] = NULL /\ call.rec = NULL /\ call.vec = NULL
    BY <1>2, AllocIsFree DEF MdInitAlloc, Frame, PlaceSet, Sizes, TypeOK, Calls
  <2>2. ptr'[call.md] = b /\ \A q \in Objects : ptr[q] # NULL => ptr'[q] = ptr[q]
    BY <1>2, <2>1 DEF MdInitAlloc, TypeOK
  <2>3. Uses(b)'
    <3>. PICK o \in Objects : o = call.md
      BY <2>1
    <3>. QED
      BY <2>2 DEF Uses
  <2>. QED
    BY <2>1, <2>2, <2>3, NewOrphans
<1>3. CASE CopyAlloc(b)
  <2>1. /\ mem[b].kind = "free" /\ \A y \in Blocks \ {b} : mem'[y] = mem[y]
        /\ ptr' = ptr /\ call.rec = NULL /\ call'.rec = b /\ call'.vec = call.vec
    BY <1>3, AllocIsFree DEF CopyAlloc, Frame, Sizes, TypeOK, Calls
  <2>2. Uses(b)'
    BY <2>1 DEF Uses
  <2>. QED
    BY <2>1, <2>2, NewOrphans
<1>4. ASSUME NEW r \in Regexps, NEW s \in Subjects, MatchEnter(r, s, b)
      PROVE  Orphans' \subseteq Orphans
  <2>1. /\ mem[b].kind = "free" /\ \A y \in Blocks \ {b} : mem'[y] = mem[y]
        /\ ptr' = ptr /\ call.rec = NULL /\ call.vec = NULL /\ call'.vec = b
    BY <1>4, AllocIsFree DEF MatchEnter, Idle, Sizes, TypeOK
  <2>2. Uses(b)'
    BY <2>1 DEF Uses
  <2>. QED
    BY <2>1, <2>2, NewOrphans
<1>5. ASSUME NEW m \in MatchDatas, MatchNew(m, b)
      PROVE  Orphans' \subseteq Orphans
  <2>1. mem[b].kind = "free" /\ \A y \in Blocks \ {b} : mem'[y] = mem[y]
    BY <1>5, AllocIsFree DEF MatchNew, Sizes, TypeOK
  <2>2. call'.rec = call.rec /\ call'.vec = call.vec
    BY <1>5 DEF MatchNew, TypeOK, Calls
  <2>3. ptr[m] = NULL /\ ptr' = [ptr EXCEPT ![m] = b]
    BY <1>5 DEF MatchNew, CodeOwned
  <2>4. ptr'[m] = b /\ \A q \in Objects : ptr[q] # NULL => ptr'[q] = ptr[q]
    BY <2>3 DEF TypeOK
  <2>5. Uses(b)'
    BY <2>4 DEF Uses
  <2>. QED
    BY <2>1, <2>2, <2>4, <2>5, NewOrphans
<1>. QED
  BY <1>1, <1>2, <1>3, <1>4, <1>5

\* The steps that give a struct what it owns.
LEMMA OwnOrphans ==
  ASSUME Inv, Inv', PlaceSet, MatchSet, CopySet,
         MatchAttach \/ \E b \in Blocks : Compile(b) \/ CopyVec(b)
  PROVE  Orphans' \subseteq Orphans
<1>. USE Distinct DEF Inv
<1>1. ASSUME NEW b \in Blocks, Compile(b)
      PROVE  Orphans' \subseteq Orphans
  <2>. DEFINE x == ptr[call.self]
  <2>1. /\ mem[b].kind = "free" /\ call.self \in Objects /\ x # NULL /\ mem[x].own = NULL
        /\ ptr' = ptr /\ call'.rec = call.rec /\ call'.vec = call.vec
    BY <1>1, AllocIsFree DEF Compile, Goto, Frame, PlaceSet, Sizes, TypeOK, Calls
  <2>2. x \in Blocks /\ mem[x].kind = "struct"
    BY <2>1 DEF NoDangling, TypeOK
  <2>3. mem' = [mem EXCEPT ![b] = Code(call.arg), ![x].own = b]
    BY <1>1 DEF Compile
  <2>4. \E o \in Objects : ptr[o] = x
    BY <2>1
  <2>. HIDE DEF x
  <2>5. b # x /\ mem[x] \in Cells
    BY <2>1, <2>2 DEF TypeOK
  <2>6. mem'[x].own = b /\ \A y \in Blocks \ {b, x} : mem'[y] = mem[y]
    BY <2>2, <2>3, <2>5 DEF TypeOK, Cells
  <2>. QED
    BY <2>1, <2>2, <2>4, <2>6, AttachOrphans
<1>2. ASSUME NEW b \in Blocks, CopyVec(b)
      PROVE  Orphans' \subseteq Orphans
  <2>1. /\ call.pc = "copyVec" /\ call.rec \in Blocks /\ mem[call.rec].own = NULL
        /\ mem[call.rec].kind = "struct"
        /\ ptr' = ptr /\ call'.rec = call.rec /\ call'.vec = call.vec
    BY <1>2 DEF CopyVec, Goto, Frame, CopySet, NoDangling, TypeOK, Calls
  <2>2. CASE mem' = mem
    BY <2>1, <2>2, QuietOrphans
  <2>3. CASE mem' # mem
    <3>. DEFINE vec == Owned(call.arg)
                len == mem[ptr[call.arg]].len
                x == call.rec
    <3>1. /\ b \in Alloc("vector")
          /\ mem' = [mem EXCEPT ![b] = [mem[vec] EXCEPT !.len = len], ![x] = Struct(b, len)]
      BY <1>2, <2>3 DEF CopyVec
    <3>2. mem[b].kind = "free"
      BY <3>1, AllocIsFree DEF Sizes
    <3>3. x \in Blocks /\ x = call.rec /\ b # x
      BY <2>1, <3>2
    <3>. HIDE DEF vec, len, x
    <3>4. mem'[x] = Struct(b, len) /\ \A y \in Blocks \ {b, x} : mem'[y] = mem[y]
      BY <3>1, <3>3 DEF TypeOK
    <3>5. mem'[x].own = b
      BY <3>4 DEF Struct, Cell
    <3>. QED
      BY <2>1, <3>2, <3>3, <3>4, <3>5, AttachOrphans
  <2>. QED
    BY <2>2, <2>3
<1>3. CASE MatchAttach
  <2>. DEFINE x == ptr[call.md]
              v == call.vec
  <2>1. /\ v \in Blocks /\ mem[v].kind = "leaf" /\ call.md \in Objects
        /\ x # NULL /\ mem[x].own = NULL /\ ptr' = ptr /\ call'.rec = call.rec
    BY <1>3 DEF MatchAttach, Frame, MatchSet, NoDangling, TypeOK, Calls
  <2>2. x \in Blocks /\ mem[x].kind = "struct"
    BY <2>1 DEF NoDangling, TypeOK
  <2>3. mem' = [mem EXCEPT ![x] = Struct(v, mem[v].len)]
    BY <1>3 DEF MatchAttach
  <2>4. (\E o \in Objects : ptr[o] = x) /\ v = call.vec
    BY <2>1
  <2>. HIDE DEF x, v
  <2>5. mem'[x] = Struct(v, mem[v].len) /\ \A y \in Blocks \ {v, x} : mem'[y] = mem[y]
    BY <2>2, <2>3 DEF TypeOK
  <2>6. mem'[x].own = v
    BY <2>5 DEF Struct, Cell
  <2>. QED
    BY <2>1, <2>2, <2>4, <2>5, <2>6, AttachOrphans
<1>. QED
  BY <1>1, <1>2, <1>3

\* The steps that leave the heap alone.
LEMMA StillOrphans ==
  ASSUME Inv, Inv',
         \/ CompileError \/ InitSetIvs \/ PushName \/ InitReturn
         \/ \E r, d \in Regexps : DupRegexp(d, r)
         \/ MatchSetIvs \/ MatchPublish \/ SetGlobal \/ MatchReturn
         \/ \E c, s \in MatchDatas : InitializeCopy(c, s) \/ DupMatchData(c, s)
         \/ CopyNull \/ CopyIvs
         \/ UNCHANGED vars \/ \E o \in Objects : Forget(o)
         \/ Raise /\ call.pc \notin {"new", "copyVec"}
  PROVE  Orphans' \subseteq Orphans
<1>. USE DEF Inv
<1>1. mem' = mem /\ ptr' = ptr
  BY DEF CompileError, InitSetIvs, PushName, InitReturn, DupRegexp, MatchSetIvs,
         MatchPublish, SetGlobal, MatchReturn, InitializeCopy, DupMatchData, CopyNull,
         CopyIvs, Forget, Raise, vars, heap
<1>2. CASE PushName \/ SetGlobal
  BY <1>1, <1>2, CountCall, QuietOrphans DEF PushName, SetGlobal, TypeOK
<1>3. CASE InitSetIvs \/ MatchSetIvs \/ MatchPublish \/ CopyNull
  <2>1. call'.rec = call.rec /\ call'.vec = call.vec
    BY <1>3 DEF InitSetIvs, MatchSetIvs, MatchPublish, CopyNull, Goto, TypeOK, Calls
  <2>. QED
    BY <1>1, <2>1, QuietOrphans
<1>4. CASE \/ CompileError \/ InitReturn \/ MatchReturn \/ CopyIvs
           \/ Raise /\ call.pc \notin {"new", "copyVec"}
  <2>1. /\ call' = Idle
        /\ call.pc \notin {"exec", "new", "attach", "copyVec", "copySwap", "crashed"}
    BY <1>4 DEF CompileError, InitReturn, MatchReturn, CopyIvs, Raise
  <2>2. call.rec = NULL /\ call.vec = NULL
    BY <2>1 DEF Frame
  <2>. QED
    BY <1>1, <2>1, <2>2, QuietOrphans DEF Idle
<1>5. CASE \/ \E r, d \in Regexps : DupRegexp(d, r)
           \/ \E c, s \in MatchDatas : InitializeCopy(c, s) \/ DupMatchData(c, s)
           \/ UNCHANGED vars \/ \E o \in Objects : Forget(o)
  <2>1. call'.rec = call.rec /\ call'.vec = call.vec
    <3>1. CASE UNCHANGED vars \/ \E o \in Objects : Forget(o)
      <4>1. call' = call
        BY <3>1 DEF Forget, vars
      <4>. QED
        BY <4>1
    <3>2. CASE \E r, d \in Regexps : DupRegexp(d, r)
      BY <3>2 DEF DupRegexp
    <3>3. CASE \E c, s \in MatchDatas : InitializeCopy(c, s) \/ DupMatchData(c, s)
      <4>1. PICK c, s \in MatchDatas : call' = [call EXCEPT !.pc = "copyAlloc", !.md = c, !.arg = s]
        BY <3>3 DEF InitializeCopy, DupMatchData
      <4>. QED
        BY <4>1 DEF TypeOK, Calls
    <3>. QED
      BY <1>5, <3>1, <3>2, <3>3
  <2>. QED
    BY <1>1, <2>1, QuietOrphans
<1>. QED
  BY <1>2, <1>3, <1>4, <1>5

\* No step loses a block but the three the property names.
LEMMA LeakSteps ==
  ASSUME Inv, Inv', PlaceSet, MatchSet, CopySet, [Next]_vars
  PROVE  \/ Orphans' \subseteq Orphans
         \/ call.pc \in {"new", "copyVec"} /\ call'.pc = "idle"
         \/ \E o \in live \ live' : ~typed[o]
<1>1. CASE RegexpStep
  <2>1. ASSUME NEW r \in Regexps, NEW p \in Patterns, InitEnter(r, p)
        PROVE  Orphans' \subseteq Orphans
    BY <2>1, FreeingOrphans DEF InitEnter, Idle, Objects
  <2>. QED
    BY <1>1, <2>1, AllocOrphans, OwnOrphans, StillOrphans DEF RegexpStep
<1>2. CASE MatchStep
  BY <1>2, AllocOrphans, OwnOrphans, StillOrphans, NilOrphans, FoundOrphans DEF MatchStep
<1>3. CASE MatchDataStep
  <2>1. ASSUME NEW m \in MatchDatas, MdInitEnter(m)
        PROVE  Orphans' \subseteq Orphans
    BY <2>1, FreeingOrphans DEF MdInitEnter, Idle, Objects
  <2>. QED
    BY <1>3, <2>1, AllocOrphans, OwnOrphans, StillOrphans, SwapOrphans DEF MatchDataStep
<1>4. CASE Raise
  <2>1. call'.pc = "idle"
    BY <1>4 DEF Raise, Idle
  <2>. QED
    BY <1>4, <2>1, StillOrphans
<1>5. ASSUME NEW o \in Objects, Sweep(o)
      PROVE  Orphans' \subseteq Orphans \/ \E q \in live \ live' : ~typed[q]
  <2>1. CASE typed[o]
    BY <1>5, <2>1, FreeingOrphans DEF Sweep
  <2>2. CASE ~typed[o]
    BY <1>5, <2>2 DEF Sweep
  <2>. QED
    BY <2>1, <2>2
<1>6. CASE UNCHANGED vars \/ \E o \in Objects : Forget(o)
  BY <1>6, StillOrphans
<1>. QED
  BY <1>1, <1>2, <1>3, <1>4, <1>5, <1>6 DEF Next

\* Whatever allocation raises and whenever the collector runs, a block is
\* lost only by a match or a copy unwound while it holds the block, or with
\* an object swept without a DATA_TYPE.
THEOREM LeaksAreKnown == Spec => LeaksOnlyWhereKnown
<1>1. Init => Lengths /\ CopySet /\ MatchSet /\ PlaceSet
  BY ConstantsAssumption, Distinct DEF Init, Idle, Lengths, CopySet, MatchSet, PlaceSet
<1>2. Spec => [](Inv /\ CopySet /\ MatchSet /\ PlaceSet)
  BY <1>1, CopyNext, LengthsNext, MatchNext, PlaceNext, Invariance, PTL DEF Spec
<1>3. Inv /\ Inv' /\ CopySet /\ MatchSet /\ PlaceSet /\ [Next]_vars =>
        [ \/ Orphans' \subseteq Orphans
          \/ call.pc \in {"new", "copyVec"} /\ call'.pc = "idle"
          \/ \E o \in live \ live' : ~typed[o] ]_vars
  BY LeakSteps
<1>. QED
  BY <1>2, <1>3, PTL DEF Spec, LeaksOnlyWhereKnown
=============================================================================
