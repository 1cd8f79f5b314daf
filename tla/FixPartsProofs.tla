--------------------------- MODULE FixPartsProofs ---------------------------
(***************************************************************************)
(* FixParts for every disk, number of sessions, edits and faults.          *)
(*                                                                         *)
(* TypeInv is about every variable, ChainInv about the walk through a      *)
(* chain of EBRs, LoadInv, KindInv and SaveInv about a save, killed or     *)
(* done.  An array without extended partitions is rearranged by            *)
(* permutations, and the EBRs that are written lie in free sectors, which  *)
(* is what IsLegal() asks.  ReadBackInv says that the EBRs written so far  *)
(* are one path that shows the first of the new logical partitions,        *)
(* InventInv that a record reached in a save shows an old or a new one,    *)
(* and MenuInv that the array in the menu is repaired.                     *)
(***************************************************************************)
EXTENDS FixParts, MbrLayoutProofs

\* The loop of XFormToMBR().
MadeFrom(gpt) ==
  LET Make(m, i) == IF gpt[i].len > 0 THEN MakePart(m, i, gpt[i].start, gpt[i].len, "data") ELSE m
  IN  Loop(Make, EmptyMBR, Upward)

\* Its steps.
LEMMA MakeSteps ==
  ASSUME NEW gpt, NEW V, EmptyMBR \in V,
         \A v \in V, i \in Slots :
           (IF gpt[i].len > 0 THEN MakePart(v, i, gpt[i].start, gpt[i].len, "data") ELSE v) \in V
  PROVE  \E f \in [0..MaxParts -> V] :
           /\ f[0] = EmptyMBR
           /\ \A k \in 1..MaxParts :
                f[k] = (IF gpt[k - 1].len > 0 THEN MakePart(f[k - 1], k - 1, gpt[k - 1].start, gpt[k - 1].len, "data") ELSE f[k - 1])
           /\ MadeFrom(gpt) = f[MaxParts]
<1> DEFINE N == MaxParts
           order == Upward
           state == EmptyMBR
           Step(v, i) == (IF gpt[i].len > 0 THEN MakePart(v, i, gpt[i].start, gpt[i].len, "data") ELSE v)
           Is(F, n) == F = [k \in 0..n |->
                         IF k = 0 THEN state
                         ELSE CHOOSE y \in {Step(v, order[k]) : v \in {F[k - 1]}} : TRUE]
           g == [x \in (1..N) \X V |-> Step(x[2], order[x[1]])]
<1>0. /\ N \in Nat /\ Len(order) = N
      /\ \A k \in 1..N : order[k] = k - 1 /\ order[k] \in Slots
  BY LayoutAssumption DEF Upward, Slots
<1>1. state \in V /\ \A v \in V, i \in Slots : Step(v, i) \in V
  OBVIOUS
<1>2. MadeFrom(gpt) = (CHOOSE F : Is(F, N))[N]
  BY <1>0 DEF Loop, MadeFrom
<1> HIDE DEF N, order, state, Step, Is
<1>3. g \in [(1..N) \X V -> V]
  BY <1>0, <1>1
<1>4. PICK f \in [0..N -> V] : LoopsBy(f, N, state, g)
  <2> HIDE DEF g
  <2> QED BY <1>0, <1>1, <1>3, LoopExists
<1>5. Is(f, N)
  <2>1. ASSUME NEW k \in 0..N, k # 0
        PROVE  g[<<k, f[k - 1]>>] = CHOOSE y \in {Step(v, order[k]) : v \in {f[k - 1]}} : TRUE
    <3>1. f[k - 1] \in V /\ k \in 1..N
      BY <1>0, <2>1
    <3>2. g[<<k, f[k - 1]>>] = Step(f[k - 1], order[k])
      BY <3>1
    <3>3. {Step(v, order[k]) : v \in {f[k - 1]}} = {Step(f[k - 1], order[k])}
      OBVIOUS
    <3> HIDE DEF g
    <3> QED BY <3>2, <3>3
  <2>2. f = [k \in 0..N |-> IF k = 0 THEN state ELSE g[<<k, f[k - 1]>>]]
    BY <1>4 DEF LoopsBy
  <2> HIDE DEF g
  <2> QED BY <2>1, <2>2 DEF Is
<1> DEFINE F == CHOOSE F : Is(F, N)
<1>6. Is(F, N)
  BY <1>5
<1> HIDE DEF F
<1>7. F = [k \in 0..N |-> F[k]] /\ F[0] = state
  BY <1>0, <1>6 DEF Is
<1>8. ASSUME NEW k \in 1..N PROVE F[k] = Step(F[k - 1], order[k])
  <2>1. k \in 0..N /\ k # 0
    BY <1>0
  <2>2. F[k] = CHOOSE y \in {Step(v, order[k]) : v \in {F[k - 1]}} : TRUE
    BY <1>6, <2>1 DEF Is
  <2>3. {Step(v, order[k]) : v \in {F[k - 1]}} = {Step(F[k - 1], order[k])}
    OBVIOUS
  <2> QED BY <2>2, <2>3
<1>9. \A k \in 0..N : F[k] \in V
  <2>1. \A k \in 1..N : F[k - 1] \in V => F[k] \in V
    BY <1>0, <1>1, <1>8
  <2> QED BY <1>0, <1>1, <1>7, <2>1, LoopStays
<1>10. F \in [0..N -> V]
  BY <1>7, <1>9
<1>11. \A k \in 1..N : F[k] = Step(F[k - 1], k - 1)
  BY <1>0, <1>8
<1>12. MadeFrom(gpt) = F[N]
  BY <1>2 DEF F
<1> HIDE DEF g
<1> USE DEF N, state, Step
<1> QED BY <1>7, <1>10, <1>11, <1>12

LEMMA MadeType ==
  ASSUME NEW T, {"none", "data"} \subseteq T, NEW gpt \in [Slots -> [start : Nat, len : Nat]]
  PROVE  MadeFrom(gpt) \in Tables(T)
<1> DEFINE Step(v, i) == IF gpt[i].len > 0 THEN MakePart(v, i, gpt[i].start, gpt[i].len, "data") ELSE v
<1>1. ASSUME NEW v \in Tables(T), NEW i \in Slots PROVE Step(v, i) \in Tables(T)
  <2> DEFINE s == gpt[i].start
             n == gpt[i].len
             as == IF i < 4 THEN "PRIMARY" ELSE "LOGICAL"
  <2>1. s \in Nat /\ n \in Nat /\ as \in {"NONE", "PRIMARY", "LOGICAL"}
    OBVIOUS
  <2> HIDE DEF s, n, as
  <2>2. MakePart(v, i, s, n, "data") = IF s > Max32 \/ n > Max32 THEN v
                                       ELSE [v EXCEPT ![i] = MkPart(s, n, as, "data")]
    BY DEF MakePart, as
  <2>3. ~(s > Max32 \/ n > Max32) => MkPart(s, n, as, "data") \in Parts(T)
    <3>1. ~(s > Max32 \/ n > Max32) => s \in 0..Max32 /\ n \in 0..Max32
      BY <2>1, Sizes
    <3> QED BY <2>1, <3>1, PartType
  <2>4. MakePart(v, i, s, n, "data") \in Tables(T)
    BY <2>2, <2>3 DEF Tables
  <2> QED BY <2>4 DEF s, n
<1>2. EmptyMBR \in Tables(T)
  BY EmptyTypes
<1>3. \E f \in [0..MaxParts -> Tables(T)] : MadeFrom(gpt) = f[MaxParts]
  BY <1>1, <1>2, MakeSteps
<1> QED BY <1>3, Sizes

-----------------------------------------------------------------------------
(* The records of the disk and the walk through a chain.                   *)

Walks == [slot : 0..3, ext : Nat, offset : Nat, num : Nat, seen : [Slots -> Nat], more : BOOLEAN]
Ebrs == [part : Slots, to : Nat, ext : Nat]
Entries == [start : 0..Max32, len : 0..Max32, type : Types]

LEMMA ContentsAre == Contents = [holds : {"record", "gpt", "data"}, entries : [1 .. 4 -> Entries]]
BY DEF Contents, Entries

LEMMA EntryType ==
  ASSUME NEW s \in 0..Max32, NEW n \in 0..Max32, NEW t \in Types
  PROVE  Entry(s, n, t) \in Entries
BY DEF Entry, Entries

LEMMA NoEntryType == NoEntry \in Entries
BY EntryType, Sizes DEF NoEntry, Types

LEMMA DataType == Data \in Contents
BY NoEntryType, ContentsAre DEF Data

LEMMA EbrType ==
  ASSUME NEW x \in Entries, NEW y \in Entries
  PROVE  Ebr(x, y) \in Contents
<1> DEFINE es == <<x, y, NoEntry, NoEntry>>
<1>1. es \in [1 .. 4 -> Entries]
  BY NoEntryType
<1> HIDE DEF es
<1>2. Record(es) \in Contents
  BY <1>1, ContentsAre DEF Record
<1> QED BY <1>2 DEF Ebr, es

LEMMA ToEntryType ==
  ASSUME NEW p \in Parts(Types)
  PROVE  ToEntry(p) \in Entries
<1>1. p.start \in 0..Max32 /\ p.len \in 0..Max32 /\ p.type \in Types
  BY DEF Parts
<1> QED BY <1>1, EntryType DEF ToEntry

LEMMA FromEntryType ==
  ASSUME NEW e \in Entries
  PROVE  FromEntry(e) \in Parts(Types)
<1>1. e.start \in 0..Max32 /\ e.len \in 0..Max32 /\ e.type \in Types
  BY DEF Entries
<1>2. (IF e.len > 0 THEN "PRIMARY" ELSE "NONE") \in {"NONE", "PRIMARY", "LOGICAL"}
  OBVIOUS
<1> QED BY <1>1, <1>2, PartType DEF FromEntry

LEMMA GreatestOfPair ==
  ASSUME NEW x \in Int
  PROVE  GreatestOf({0, x}) = IF x > 0 THEN x ELSE 0
<1> DEFINE g == IF x > 0 THEN x ELSE 0
<1>1. g \in {0, x} /\ \A y \in {0, x} : g >= y
  OBVIOUS
<1>2. ASSUME NEW z \in {0, x}, \A y \in {0, x} : z >= y PROVE z = g
  BY <1>2
<1> HIDE DEF g
<1>3. GreatestOf({0, x}) = g
  BY <1>1, <1>2 DEF GreatestOf
<1> QED BY <1>3 DEF g

-----------------------------------------------------------------------------
(* Type correctness.                                                       *)

TypeInv ==
  /\ disk \in [Sectors -> Contents]
  /\ program \in {"none", "fixparts", "scripted", "gdisk"}
  /\ pc \in {"off", "scan", "walking", "erase", "menu", "writeMBR", "writeEBR"}
  /\ mbr \in Tables(Types)
  /\ walk \in Walks /\ (walk.more => walk.num \in Slots)
  /\ ebr \in Ebrs
  /\ faults \in 0 .. Faults /\ edits \in 0 .. MaxEdits /\ sessions \in 0 .. MaxSessions

LEMMA NoTypes == NoWalk \in Walks /\ ~NoWalk.more /\ NoEbr \in Ebrs
<1>1. NoWalk \in Walks
  <2> DEFINE seen == [i \in Slots |-> 0]
  <2>1. 0 \in 0..3 /\ 0 \in Nat /\ 3 \in Nat /\ seen \in [Slots -> Nat] /\ FALSE \in BOOLEAN
    OBVIOUS
  <2> HIDE DEF seen
  <2>2. NoWalk = [slot |-> 0, ext |-> 0, offset |-> 0, num |-> 3, seen |-> seen, more |-> FALSE]
    BY DEF NoWalk, seen
  <2> QED BY <2>1, <2>2, Zenon DEF Walks
<1>2. ~NoWalk.more
  BY DEF NoWalk
<1>3. NoEbr \in Ebrs
  BY Sizes DEF NoEbr, Ebrs
<1> QED BY <1>1, <1>2, <1>3

LEMMA FailsType ==
  ASSUME TypeInv, Fails \/ Works
  PROVE  faults' \in 0 .. Faults
BY DiskAssumption DEF TypeInv, Fails, MayFail, Works

LEMMA StopTypes ==
  ASSUME Stop
  PROVE  /\ program' \in {"none", "fixparts", "scripted", "gdisk"}
         /\ pc' \in {"off", "scan", "walking", "erase", "menu", "writeMBR", "writeEBR"}
         /\ mbr' \in Tables(Types)
         /\ walk' \in Walks /\ (walk'.more => walk'.num \in Slots)
         /\ ebr' \in Ebrs
<1>1. EmptyMBR \in Tables(Types)
  BY EmptyTypes DEF Types
<1> QED BY <1>1, NoTypes DEF Stop

LEMMA InitTypes == Init => TypeInv
<1> SUFFICES ASSUME Init PROVE TypeInv
  OBVIOUS
<1>1. disk \in [Sectors -> Contents]
  BY DiskAssumption DEF Init
<1>2. EmptyMBR \in Tables(Types)
  BY EmptyTypes DEF Types
<1>3. walk \in Walks /\ (walk.more => walk.num \in Slots) /\ ebr \in Ebrs
  BY NoTypes DEF Init
<1> QED BY <1>1, <1>2, <1>3, DiskAssumption DEF Init, TypeInv

LEMMA ReadMBRTypes ==
  ASSUME TypeInv, NEW p \in {"fixparts", "scripted"}, ReadMBR(p)
  PROVE  TypeInv'
<1>1. sessions' \in 0..MaxSessions /\ faults' \in 0..Faults
  BY FailsType, DiskAssumption DEF ReadMBR, TypeInv
<1> DEFINE read == [i \in Slots |-> IF i < 4 THEN FromEntry(disk[0].entries[i + 1]) ELSE EmptyPart]
<1>2. read \in Tables(Types)
  <2>1. ASSUME NEW i \in Slots PROVE (IF i < 4 THEN FromEntry(disk[0].entries[i + 1]) ELSE EmptyPart) \in Parts(Types)
    <3>1. EmptyPart \in Parts(Types)
      BY EmptyTypes DEF Types
    <3>2. ASSUME i < 4 PROVE FromEntry(disk[0].entries[i + 1]) \in Parts(Types)
      <4>1. 0 \in Sectors
        BY Sizes DEF Sectors
      <4>2. disk[0] \in Contents
        BY <4>1 DEF TypeInv
      <4>3. disk[0].entries \in [1 .. 4 -> Entries]
        BY <4>2, ContentsAre
      <4>4. i + 1 \in 1..4
        BY <3>2, Sizes
      <4>5. disk[0].entries[i + 1] \in Entries
        BY <4>3, <4>4
      <4> QED BY <4>5, FromEntryType
    <3> QED BY <3>1, <3>2
  <2> QED BY <2>1 DEF Tables
<1> HIDE DEF read
<1>3. \/ UNCHANGED <<disk, program, mbr, walk, ebr, pc, edits>>
      \/ program' = p /\ pc' = "scan" /\ mbr' \in {read, EmptyMBR} /\ UNCHANGED <<disk, walk, ebr, edits>>
  BY DEF ReadMBR, session, read
<1>4. CASE UNCHANGED <<disk, program, mbr, walk, ebr, pc, edits>>
  BY <1>1, <1>4 DEF TypeInv
<1>5. CASE program' = p /\ pc' = "scan" /\ mbr' \in {read, EmptyMBR} /\ UNCHANGED <<disk, walk, ebr, edits>>
  <2>1. EmptyMBR \in Tables(Types)
    BY EmptyTypes DEF Types
  <2> QED BY <1>1, <1>2, <1>5, <2>1 DEF TypeInv
<1> QED BY <1>3, <1>4, <1>5

LEMMA ExtendedSlotsType ==
  ASSUME ExtendedSlots # {}
  PROVE  LeastOf(ExtendedSlots) \in ExtendedSlots
<1>1. ExtendedSlots \subseteq Nat
  BY DEF ExtendedSlots
<1> QED BY <1>1, LeastIn

LEMMA SlotType ==
  ASSUME TypeInv, NEW i \in Slots
  PROVE  /\ mbr[i] \in Parts(Types)
         /\ mbr[i].start \in 0..Max32 /\ mbr[i].len \in 0..Max32 /\ mbr[i].type \in Types
         /\ mbr[i].as \in {"NONE", "PRIMARY", "LOGICAL"}
BY DEF TypeInv, Tables, Parts

LEMMA BeginChainTypes == ASSUME TypeInv, BeginChain PROVE TypeInv'
<1> DEFINE slot == LeastOf(ExtendedSlots)
           start == mbr[slot].start
           num == walk.num + 1
           seen == [i \in Slots |-> 0]
           more == walk.num + 1 < MaxParts
<1>1. slot \in 0..3 /\ slot \in Slots
  BY ExtendedSlotsType, Sizes DEF BeginChain, ExtendedSlots
<1>2. start \in Nat
  BY <1>1, SlotType, Sizes
<1>3. walk.num \in Nat
  BY DEF TypeInv, Walks
<1>4. num \in Nat /\ seen \in [Slots -> Nat] /\ more \in BOOLEAN /\ (more => num \in Slots)
  BY <1>3, Sizes DEF Slots
<1>5. walk' = [slot |-> slot, ext |-> start, offset |-> start, num |-> num, seen |-> seen, more |-> more]
  BY DEF BeginChain
<1> HIDE DEF slot, start, num, seen, more
<1>6. walk' \in Walks
  BY <1>1, <1>2, <1>4, <1>5, Zenon DEF Walks
<1>7. walk'.more => walk'.num \in Slots
  BY <1>4, <1>5
<1> QED BY <1>6, <1>7 DEF BeginChain, TypeInv

\* The walk after its look at the EBRs that it has read.
Checked == [walk EXCEPT !.num = NumberAfterCheck, !.seen[NumberAfterCheck] = walk.offset]

LEMMA NumberType ==
  ASSUME TypeInv, walk.more
  PROVE  /\ SeenBefore \in SUBSET Slots /\ Cardinality(SeenBefore) \in Nat
         /\ NumberAfterCheck = IF walk.num - Cardinality(SeenBefore) > 0
                               THEN walk.num - Cardinality(SeenBefore) ELSE 0
         /\ NumberAfterCheck \in Slots
<1>1. SeenBefore \in SUBSET Slots
  BY DEF SeenBefore
<1>2. Cardinality(SeenBefore) \in Nat
  BY <1>1, CountType
<1>3. walk.num \in Slots /\ walk.num \in Nat
  BY Sizes DEF TypeInv
<1> DEFINE c == Cardinality(SeenBefore)
           x == walk.num - c
<1>4. x \in Int /\ x <= walk.num
  <2>1. c \in Nat
    BY <1>2
  <2> HIDE DEF c
  <2> QED BY <1>3, <2>1
<1>5. NumberAfterCheck = IF x > 0 THEN x ELSE 0
  <2>1. NumberAfterCheck = GreatestOf({0, x})
    BY DEF NumberAfterCheck
  <2> HIDE DEF x
  <2> QED BY <1>4, <2>1, GreatestOfPair
<1>6. NumberAfterCheck \in Slots
  BY <1>3, <1>4, <1>5, Sizes DEF Slots
<1> QED BY <1>1, <1>2, <1>5, <1>6

LEMMA CheckedType ==
  ASSUME TypeInv, walk.more
  PROVE  /\ Checked \in Walks /\ Checked.num = NumberAfterCheck /\ Checked.num \in Slots
         /\ Checked.ext = walk.ext /\ Checked.offset = walk.offset /\ Checked.slot = walk.slot
         /\ Checked.seen = [walk.seen EXCEPT ![NumberAfterCheck] = walk.offset]
         /\ Checked.more = walk.more
<1> DEFINE n == NumberAfterCheck
           seen == [walk.seen EXCEPT ![n] = walk.offset]
<1>1. n \in Slots /\ n \in Nat
  BY NumberType, Sizes
<1>2. walk \in Walks
  BY DEF TypeInv
<1>3. seen \in [Slots -> Nat]
  BY <1>1, <1>2 DEF Walks
<1>4. Checked = [walk EXCEPT !.num = n, !.seen = seen]
  BY <1>2 DEF Checked, Walks
<1> HIDE DEF n, seen
<1>5. Checked \in Walks
  BY <1>1, <1>2, <1>3, <1>4, Zenon DEF Walks
<1>6. /\ Checked.num = n /\ Checked.seen = seen /\ Checked.ext = walk.ext /\ Checked.offset = walk.offset
      /\ Checked.slot = walk.slot /\ Checked.more = walk.more
  BY <1>2, <1>4 DEF Walks
<1> QED BY <1>1, <1>5, <1>6 DEF n, seen

LEMMA WalkUpdates ==
  ASSUME NEW w \in Walks, NEW n \in Nat
  PROVE  /\ [w EXCEPT !.more = FALSE] \in Walks /\ ~[w EXCEPT !.more = FALSE].more
         /\ [w EXCEPT !.more = FALSE].num = w.num /\ [w EXCEPT !.more = FALSE].ext = w.ext
         /\ [w EXCEPT !.offset = n] \in Walks
         /\ [w EXCEPT !.offset = n].num = w.num /\ [w EXCEPT !.offset = n].ext = w.ext
         /\ [w EXCEPT !.offset = n].offset = n /\ [w EXCEPT !.offset = n].seen = w.seen
         /\ [w EXCEPT !.num = n] \in Walks
         /\ [w EXCEPT !.num = n].num = n /\ [w EXCEPT !.num = n].ext = w.ext
         /\ [w EXCEPT !.num = n].offset = w.offset /\ [w EXCEPT !.num = n].seen = w.seen
<1> DEFINE a == [w EXCEPT !.more = FALSE]
           b == [w EXCEPT !.offset = n]
           c == [w EXCEPT !.num = n]
<1>1. a \in Walks
  BY Zenon DEF Walks
<1>2. b \in Walks
  BY Zenon DEF Walks
<1>3. c \in Walks
  BY Zenon DEF Walks
<1>4. ~a.more /\ a.num = w.num /\ a.ext = w.ext
  BY DEF Walks
<1>5. b.num = w.num /\ b.ext = w.ext /\ b.offset = n /\ b.seen = w.seen
  BY DEF Walks
<1>6. c.num = n /\ c.ext = w.ext /\ c.offset = w.offset /\ c.seen = w.seen
  BY DEF Walks
<1> QED BY <1>1, <1>2, <1>3, <1>4, <1>5, <1>6

\* What one round of ReadLogicalParts() does to the walk and the array.
Stopped == walk' = [Checked EXCEPT !.more = FALSE] /\ UNCHANGED mbr
GoesOn(e) ==
  /\ SeenBefore = {} /\ e \in [1 .. 4 -> Entries]
  /\ \/ walk' = [Checked EXCEPT !.offset = walk.ext + e[1].start] /\ UNCHANGED mbr
     \/ /\ ~IsExtended(e[1])
        /\ mbr' = [mbr EXCEPT ![NumberAfterCheck] =
                     MkPart(Low32(e[1].start + walk.offset), e[1].len, "LOGICAL", e[1].type)]
        /\ \/ walk' = [Checked EXCEPT !.more = FALSE]
           \/ /\ e[2].start # 0 /\ NumberAfterCheck < MaxParts - 1
              /\ walk' = [[Checked EXCEPT !.offset = walk.ext + e[2].start] EXCEPT !.num = NumberAfterCheck + 1]

LEMMA ReadEbrCases ==
  ASSUME TypeInv, ReadEbr
  PROVE  /\ pc = "walking" /\ walk.more
         /\ UNCHANGED <<disk, program, pc, ebr, edits, sessions, auxSave>> /\ faults' \in 0 .. Faults
         /\ Stopped \/ \E e : GoesOn(e)
<1>1. /\ pc = "walking" /\ walk.more
      /\ UNCHANGED <<disk, program, pc, ebr, edits, sessions, auxSave>> /\ (Fails \/ Works)
  BY DEF ReadEbr
<1>2. faults' \in 0 .. Faults
  BY <1>1, FailsType
<1> DEFINE e == disk[walk.offset].entries
           good == /\ SeenBefore = {}
                   /\ walk.offset \in Sectors /\ disk[walk.offset].holds = "record"
<1>3. Checked.ext = walk.ext /\ Checked.offset = walk.offset /\ Checked.num = NumberAfterCheck
  BY <1>1, CheckedType
<1>4. \/ walk' = [Checked EXCEPT !.more = FALSE] /\ UNCHANGED mbr
      \/ good /\ walk' = FollowLink(Checked, e[1]) /\ UNCHANGED mbr
      \/ /\ good /\ ~IsExtended(e[1])
         /\ walk' = ReadPartition(Checked, e[1], e[2])
         /\ mbr' = [mbr EXCEPT ![Checked.num] = MkPart(Low32(e[1].start + walk.offset), e[1].len, "LOGICAL", e[1].type)]
  BY DEF ReadEbr, Checked
<1>5. good => e \in [1 .. 4 -> Entries]
  BY ContentsAre DEF TypeInv
<1> HIDE DEF e
<1>6. CASE walk' = [Checked EXCEPT !.more = FALSE] /\ UNCHANGED mbr
  BY <1>1, <1>2, <1>6 DEF Stopped
<1>7. CASE good /\ walk' = FollowLink(Checked, e[1]) /\ UNCHANGED mbr
  <2>1. GoesOn(e)
    BY <1>3, <1>5, <1>7 DEF GoesOn, FollowLink
  <2> QED BY <1>1, <1>2, <2>1
<1>8. CASE /\ good /\ ~IsExtended(e[1])
           /\ walk' = ReadPartition(Checked, e[1], e[2])
           /\ mbr' = [mbr EXCEPT ![Checked.num] =
                        MkPart(Low32(e[1].start + walk.offset), e[1].len, "LOGICAL", e[1].type)]
  <2>1. \/ walk' = [Checked EXCEPT !.more = FALSE]
        \/ /\ e[2].start # 0 /\ NumberAfterCheck < MaxParts - 1
           /\ walk' = [Checked EXCEPT !.offset = walk.ext + e[2].start, !.num = NumberAfterCheck + 1]
    BY <1>3, <1>8 DEF ReadPartition
  <2>2. GoesOn(e)
    BY <1>3, <1>5, <1>8, <2>1 DEF GoesOn
  <2> QED BY <1>1, <1>2, <2>2
<1> QED BY <1>4, <1>6, <1>7, <1>8

\* The partition that an EBR describes.
LEMMA ReadPartType ==
  ASSUME TypeInv, NEW e \in Entries, NEW T, e.type \in T
  PROVE  MkPart(Low32(e.start + walk.offset), e.len, "LOGICAL", e.type) \in Parts(T)
<1>1. e.start \in 0..Max32 /\ e.len \in 0..Max32 /\ walk.offset \in Nat
  BY DEF Entries, TypeInv, Walks
<1>2. e.start + walk.offset \in Int
  BY <1>1, Sizes
<1>3. Low32(e.start + walk.offset) \in 0..Max32
  BY <1>2, Low32Type
<1> QED BY <1>1, <1>3, PartType

LEMMA ReadEbrTypes == ASSUME TypeInv, ReadEbr PROVE TypeInv'
<1>1. /\ walk.more /\ UNCHANGED <<disk, program, pc, ebr, edits, sessions>> /\ faults' \in 0 .. Faults
      /\ Stopped \/ \E e : GoesOn(e)
  BY ReadEbrCases
<1>2. /\ Checked \in Walks /\ Checked.num = NumberAfterCheck /\ NumberAfterCheck \in Slots
      /\ NumberAfterCheck \in Nat /\ walk.ext \in Nat
  BY <1>1, CheckedType, Sizes DEF TypeInv, Walks
<1>3. ASSUME mbr' \in Tables(Types), walk' \in Walks, walk'.more => walk'.num \in Slots PROVE TypeInv'
  BY <1>1, <1>3 DEF TypeInv
<1>4. mbr \in Tables(Types)
  BY DEF TypeInv
<1>5. walk' = [Checked EXCEPT !.more = FALSE] => walk' \in Walks /\ (walk'.more => walk'.num \in Slots)
  BY <1>2, WalkUpdates
<1>6. CASE Stopped
  BY <1>3, <1>4, <1>5, <1>6 DEF Stopped
<1>7. ASSUME NEW e, GoesOn(e) PROVE TypeInv'
  <2>1. e[1] \in Entries /\ e[2] \in Entries /\ e[1].start \in Nat /\ e[2].start \in Nat /\ e[1].type \in Types
    BY <1>7, Sizes DEF GoesOn, Entries
  <2> DEFINE n == NumberAfterCheck
             a == walk.ext + e[1].start
             b == walk.ext + e[2].start
  <2>2. a \in Nat /\ b \in Nat
    BY <1>2, <2>1
  <2>3. n \in Slots /\ n + 1 \in Nat
    BY <1>2
  <2>4. n < MaxParts - 1 => n + 1 \in Slots
    BY <1>2, Sizes DEF Slots
  <2>5. MkPart(Low32(e[1].start + walk.offset), e[1].len, "LOGICAL", e[1].type) \in Parts(Types)
    BY <2>1, ReadPartType
  <2>6. CASE walk' = [Checked EXCEPT !.offset = a] /\ UNCHANGED mbr
    <3> HIDE DEF a
    <3>1. walk' \in Walks /\ walk'.num = NumberAfterCheck
      BY <1>2, <2>2, <2>6, WalkUpdates
    <3> QED BY <1>2, <1>3, <1>4, <2>6, <3>1
  <2>7. CASE /\ mbr' = [mbr EXCEPT ![n] = MkPart(Low32(e[1].start + walk.offset), e[1].len, "LOGICAL", e[1].type)]
             /\ \/ walk' = [Checked EXCEPT !.more = FALSE]
                \/ n < MaxParts - 1 /\ walk' = [[Checked EXCEPT !.offset = b] EXCEPT !.num = n + 1]
    <3>1. mbr' \in Tables(Types)
      <4> HIDE DEF MkPart, n
      <4> QED BY <1>4, <2>3, <2>5, <2>7 DEF Tables
    <3>2. walk' \in Walks /\ (walk'.more => walk'.num \in Slots)
      <4>1. CASE walk' = [Checked EXCEPT !.more = FALSE]
        BY <1>5, <4>1
      <4>2. CASE n < MaxParts - 1 /\ walk' = [[Checked EXCEPT !.offset = b] EXCEPT !.num = n + 1]
        <5> DEFINE k == n + 1
                   v == [Checked EXCEPT !.offset = b]
        <5>1. /\ k \in Nat /\ k \in Slots /\ walk' = [v EXCEPT !.num = k]
              /\ Checked \in Walks /\ b \in Nat
          BY <1>2, <2>2, <2>3, <2>4, <4>2
        <5> HIDE DEF b, k, n
        <5>2. v \in Walks
          BY <5>1, WalkUpdates
        <5> HIDE DEF v
        <5>3. walk' \in Walks /\ walk'.num = k
          BY <5>1, <5>2, WalkUpdates
        <5> QED BY <5>1, <5>3
      <4> QED BY <2>7, <4>1, <4>2
    <3> QED BY <1>3, <3>1, <3>2
  <2> QED BY <1>7, <2>6, <2>7 DEF GoesOn
<1> QED BY <1>1, <1>6, <1>7

LEMMA EndChainTypes == ASSUME TypeInv, EndChain PROVE TypeInv'
<1>1. mbr' \in Tables(Types)
  <2>1. EmptyPart \in Parts(Types)
    BY EmptyTypes DEF Types
  <2> QED BY <2>1 DEF EndChain, TypeInv, Tables
<1> QED BY <1>1 DEF EndChain, TypeInv

\* Loading and repairing never leaves an entry of an extended partition in the
\* array, so the statements about the menu are about arrays without one.
Plain == Types \ {"ext"}

LEMMA PlainTypes == "none" \in Plain /\ "data" \in Plain /\ Plain \subseteq Types /\ "none" \in Types /\ "ext" \in Types
BY DEF Plain, Types

LEMMA PlainTables == ASSUME NEW m PROVE m \in Tables(Plain) <=> m \in Tables(Types) /\ \A i \in Slots : m[i].type # "ext"
<1>1. ASSUME m \in Tables(Plain), NEW i \in Slots PROVE m[i] \in Parts(Types) /\ m[i].type # "ext"
  BY <1>1, PlainTypes DEF Tables, Parts, Plain
<1>2. ASSUME m \in Tables(Types), \A i \in Slots : m[i].type # "ext", NEW i \in Slots
      PROVE  m[i] \in Parts(Plain)
  <2>1. m[i] \in Parts(Types) /\ m[i].type # "ext"
    BY <1>2 DEF Tables
  <2> QED BY <2>1 DEF Parts, Plain
<1> QED BY <1>1, <1>2 DEF Tables

LEMMA EndLoadTypes == ASSUME TypeInv, EndLoad PROVE TypeInv'
<1>1. MakeItLegal(mbr) \in Tables(Types)
  BY MakeItLegalType, PlainTypes DEF TypeInv
<1>2. CASE Refused
  BY <1>2, StopTypes DEF EndLoad, TypeInv
<1>3. CASE ~Refused
  BY <1>1, <1>3, NoTypes DEF EndLoad, TypeInv
<1> QED BY <1>2, <1>3

LEMMA BlankTypes ==
  ASSUME TypeInv, NEW erased, BlankGPTData(erased)
  PROVE  disk' \in [Sectors -> Contents] /\ faults' \in 0 .. Faults
<1>1. faults' \in 0 .. Faults
  BY FailsType DEF BlankGPTData
<1>2. disk' = [s \in Sectors |-> IF s \in erased THEN Data ELSE disk[s]]
  BY DEF BlankGPTData
<1> QED BY <1>1, <1>2, DataType DEF TypeInv

LEMMA DoMBRTypes == ASSUME TypeInv, DoMBR PROVE TypeInv'
<1>1. MakeItLegal(mbr) \in Tables(Types)
  BY MakeItLegalType, PlainTypes DEF TypeInv
<1>2. disk' \in [Sectors -> Contents] /\ faults' \in 0 .. Faults
  BY BlankTypes DEF DoMBR
<1> QED BY <1>1, <1>2 DEF DoMBR, TypeInv

LEMMA XFormFrame ==
  ASSUME XFormToMBR
  PROVE  /\ pc = "off" /\ pc' = "menu" /\ program' = "gdisk" /\ auxSave' = NothingSaved
         /\ sessions < MaxSessions /\ sessions' = sessions + 1
         /\ UNCHANGED <<disk, walk, ebr, faults, edits>>
BY Zenon DEF XFormToMBR

LEMMA XFormToMBRTypes ==
  ASSUME TypeInv, XFormToMBR
  PROVE  TypeInv' /\ mbr' \in Tables(Plain)
<1>1. PICK gpt \in GptTables : mbr' = MakeItLegal(MadeFrom(gpt))
  BY Zenon DEF XFormToMBR, MadeFrom
<1>2. gpt \in [Slots -> [start : Nat, len : Nat]]
  BY DiskAssumption
<1>3. MadeFrom(gpt) \in Tables(Plain)
  BY <1>2, MadeType, PlainTypes
<1>4. mbr' \in Tables(Plain)
  BY <1>1, <1>3, MakeItLegalType, PlainTypes
<1>5. mbr' \in Tables(Types)
  BY <1>4, PlainTables
<1>6. sessions' \in 0..MaxSessions
  <2>1. sessions < MaxSessions /\ sessions' = sessions + 1
    BY XFormFrame
  <2> QED BY <2>1, DiskAssumption DEF TypeInv
<1> QED BY <1>4, <1>5, <1>6, XFormFrame DEF TypeInv

LEMMA MenuTypes ==
  ASSUME NEW T, Plain \subseteq T, TypeInv, mbr \in Tables(T), Menu
  PROVE  mbr' \in Tables(T)
<1>0. "none" \in T /\ "data" \in T /\ "ee" \in T
  BY DEF Plain, Types
<1>1. CASE SetInclusion
  BY <1>1, SetInclusionType DEF SetInclusion
<1>2. CASE Sort
  BY <1>0, <1>2, SortType DEF Sort
<1>3. CASE ChangeType
  <2>1. PICK num \in Slots, type \in {"data", "ext", "ee"} : mbr' = SetType(mbr, num, type)
    BY <1>3 DEF ChangeType
  <2>2. type # "ext" => type \in T
    BY <1>0
  <2> QED BY <2>1, <2>2, SetTypeType
<1> QED BY <1>1, <1>2, <1>3 DEF Menu

LEMMA MenuFrame ==
  ASSUME TypeInv, Menu
  PROVE  /\ pc = "menu" /\ UNCHANGED <<disk, program, pc, walk, ebr, faults, sessions, auxLoad, auxSave>>
         /\ edits' \in 0 .. MaxEdits
<1>1. Editing
  BY DEF Menu, SetInclusion, Sort, ChangeType
<1> QED BY <1>1, DiskAssumption DEF Editing, TypeInv

LEMMA BeginWriteTypes == ASSUME TypeInv, BeginWrite PROVE TypeInv'
<1>1. PICK arranged \in CreateExtended(mbr) :
        \/ pc' = "writeMBR" /\ mbr' = arranged.mbr /\ UNCHANGED <<program, walk, ebr>>
        \/ Stop
  BY DEF BeginWrite
<1>2. arranged.mbr \in Tables(Types)
  BY CreateExtendedType, PlainTypes DEF TypeInv
<1>3. CASE Stop
  BY <1>3, StopTypes DEF BeginWrite, TypeInv
<1>4. CASE pc' = "writeMBR" /\ mbr' = arranged.mbr /\ UNCHANGED <<program, walk, ebr>>
  BY <1>2, <1>4 DEF BeginWrite, TypeInv
<1> QED BY <1>1, <1>3, <1>4

LEMMA MBRRecordType ==
  ASSUME TypeInv
  PROVE  /\ MBRRecord \in Contents
         /\ \A k \in 1..4 : MBRRecord.entries[k] = ToEntry(mbr[k - 1])
<1> DEFINE es == [k \in 1 .. 4 |-> ToEntry(mbr[k - 1])]
<1>1. es \in [1 .. 4 -> Entries]
  <2>1. ASSUME NEW k \in 1..4 PROVE ToEntry(mbr[k - 1]) \in Entries
    <3>1. k - 1 \in Slots
      BY Sizes
    <3> QED BY <3>1, ToEntryType, SlotType
  <2> QED BY <2>1
<1>2. MBRRecord = [holds |-> "record", entries |-> es]
  BY DEF MBRRecord, Record
<1>3. MBRRecord.entries = es
  BY <1>2
<1>4. MBRRecord \in Contents
  <2> HIDE DEF es
  <2> QED BY <1>1, <1>2, ContentsAre
<1> QED BY <1>3, <1>4

LEMMA WriteFailsTypes == ASSUME TypeInv, WriteFails, UNCHANGED <<edits, sessions>> PROVE TypeInv'
<1>1. (Fails \/ Works) /\ Stop /\ UNCHANGED disk
  BY DEF WriteFails, EndWrite
<1> QED BY <1>1, FailsType, StopTypes DEF TypeInv

\* The extended partition and the first logical one that the writer turns to.
LEMMA FirstEbr ==
  ASSUME TypeInv, ExtendedSlots # {}, FindNextInUse(mbr, 4) >= 0
  PROVE  /\ GreatestOf(ExtendedSlots) \in ExtendedSlots
         /\ mbr[GreatestOf(ExtendedSlots)].start \in 0..Max32
         /\ FindNextInUse(mbr, 4) \in Slots
<1>1. GreatestOf(ExtendedSlots) \in ExtendedSlots
  <2>1. ExtendedSlots \subseteq 0..3 /\ 3 \in Nat
    BY DEF ExtendedSlots
  <2> QED BY <2>1, GreatestIn
<1>2. mbr[GreatestOf(ExtendedSlots)].start \in 0..Max32
  <2>1. GreatestOf(ExtendedSlots) \in Slots
    BY <1>1, Sizes DEF ExtendedSlots
  <2> QED BY <2>1, SlotType
<1>3. FindNextInUse(mbr, 4) \in Slots
  <2>1. mbr \in Tables(Types) /\ 4 \in Nat
    BY DEF TypeInv
  <2> QED BY <2>1, NextInUseType
<1> QED BY <1>1, <1>2, <1>3

LEMMA EbrUpdates ==
  ASSUME NEW part \in Slots, NEW to \in Nat, NEW ext \in Nat, NEW x \in Ebrs
  PROVE  /\ [part |-> part, to |-> to, ext |-> ext] \in Ebrs
         /\ [x EXCEPT !.part = part, !.to = to] \in Ebrs
         /\ [x EXCEPT !.part = part, !.to = to].part = part /\ [x EXCEPT !.part = part, !.to = to].to = to
         /\ [x EXCEPT !.part = part, !.to = to].ext = x.ext
BY DEF Ebrs

LEMMA WriteMBRTypes == ASSUME TypeInv, WriteMBR PROVE TypeInv'
<1>1. CASE WriteFails
  BY <1>1, WriteFailsTypes DEF WriteMBR
<1>2. CASE ~WriteFails
  <2>1. disk' = [disk EXCEPT ![0] = MBRRecord] /\ UNCHANGED <<faults, edits, sessions>>
    BY <1>2 DEF WriteMBR, Store, Works
  <2>2. disk' \in [Sectors -> Contents]
    <3>1. MBRRecord \in Contents
      BY MBRRecordType
    <3> QED BY <2>1, <3>1 DEF TypeInv
  <2>3. CASE ~(ExtendedSlots # {} /\ FindNextInUse(mbr, 4) >= 0)
    <3>1. Stop
      BY <1>2, <2>3 DEF WriteMBR, EndWrite
    <3> QED BY <2>1, <2>2, <3>1, StopTypes DEF TypeInv
  <2>4. CASE ExtendedSlots # {} /\ FindNextInUse(mbr, 4) >= 0
    <3> DEFINE first == FindNextInUse(mbr, 4)
               ext == mbr[GreatestOf(ExtendedSlots)].start
    <3>1. ebr' = [part |-> first, to |-> ext, ext |-> ext] /\ pc' = "writeEBR" /\ UNCHANGED <<program, mbr, walk>>
      BY <1>2, <2>4 DEF WriteMBR
    <3>2. first \in Slots /\ ext \in Nat
      BY <2>4, FirstEbr, Sizes
    <3> HIDE DEF first, ext
    <3>3. ebr' \in Ebrs
      BY <3>1, <3>2 DEF Ebrs
    <3> QED BY <2>1, <2>2, <3>1, <3>3 DEF TypeInv
  <2> QED BY <2>3, <2>4
<1> QED BY <1>1, <1>2

\* The link to the EBR of the next logical partition.
LEMMA LinkType ==
  ASSUME TypeInv
  PROVE  /\ HasNext => NextLogical \in Slots /\ NextLogical > ebr.part /\ mbr[NextLogical].as # "NONE"
         /\ HasNext => /\ LinkTo(mbr[NextLogical]) \in Entries
                       /\ LinkTo(mbr[NextLogical]).start = Low32(Minus64(mbr[NextLogical].start, ebr.ext + 1))
<1>0. ebr.part \in Slots /\ ebr.part \in Nat /\ ebr.ext \in Nat /\ mbr \in Tables(Types)
  BY Sizes DEF TypeInv, Ebrs
<1>1. ASSUME HasNext PROVE NextLogical \in Slots /\ NextLogical > ebr.part /\ mbr[NextLogical].as # "NONE"
  <2> DEFINE from == ebr.part + 1
  <2>1. from \in Nat
    BY <1>0
  <2>2. NextLogical = FindNextInUse(mbr, from)
    BY DEF NextLogical
  <2>3. NextLogical \in Slots /\ NextLogical >= from /\ mbr[NextLogical].as # "NONE"
    <3> HIDE DEF from
    <3>1. NextLogical # -1
      BY <1>1 DEF HasNext
    <3> QED BY <1>0, <2>1, <2>2, <3>1, NextInUseType
  <2>4. NextLogical \in Nat
    BY <2>3, Sizes
  <2> QED BY <1>0, <2>3, <2>4
<1>2. ASSUME HasNext PROVE /\ LinkTo(mbr[NextLogical]) \in Entries
                           /\ LinkTo(mbr[NextLogical]).start = Low32(Minus64(mbr[NextLogical].start, ebr.ext + 1))
  <2> DEFINE p == mbr[NextLogical]
             before == Minus64(p.start, ebr.ext + 1)
             size == p.len + 1
  <2>1. p.start \in Int /\ size \in Int
    <3>1. NextLogical \in Slots
      BY <1>1, <1>2
    <3>2. p.start \in 0..Max32 /\ p.len \in 0..Max32
      BY <3>1, SlotType
    <3> QED BY <3>2, Sizes
  <2>2. before \in Int
    <3>1. ebr.ext + 1 \in Int
      BY <1>0
    <3> QED BY <2>1, <3>1, Minus64Type
  <2>3. LinkTo(p) = Entry(Low32(before), Low32(size), "ext")
    BY DEF LinkTo
  <2> HIDE DEF before, size
  <2>4. Low32(before) \in 0..Max32 /\ Low32(size) \in 0..Max32
    BY <2>1, <2>2, Low32Type
  <2>5. LinkTo(p) \in Entries
    BY <2>3, <2>4, EntryType, PlainTypes
  <2>6. LinkTo(p).start = Low32(before)
    BY <2>3 DEF Entry
  <2> QED BY <2>5, <2>6 DEF before
<1> QED BY <1>1, <1>2

LEMMA WriteEBRTypes == ASSUME TypeInv, WriteEBR PROVE TypeInv'
<1> DEFINE link == IF HasNext THEN LinkTo(mbr[NextLogical]) ELSE NoEntry
<1>0. link \in Entries /\ ebr.part \in Slots /\ ebr.ext \in Nat /\ ebr \in Ebrs
  BY LinkType, NoEntryType DEF TypeInv, Ebrs
<1>1. CASE WriteFails
  BY <1>1, WriteFailsTypes DEF WriteEBR
<1>2. CASE ~WriteFails
  <2>1. /\ disk' = [disk EXCEPT ![ebr.to] = Ebr(FromItsEbr(mbr[ebr.part]), link)]
        /\ UNCHANGED <<faults, edits, sessions>>
    BY <1>2 DEF WriteEBR, Store, Works
  <2>2. disk' \in [Sectors -> Contents]
    <3> HIDE DEF link
    <3>1. FromItsEbr(mbr[ebr.part]) \in Entries
      <4>1. 1 \in 0..Max32
        BY Sizes
      <4> QED BY <1>0, <4>1, SlotType, EntryType DEF FromItsEbr
    <3>2. Ebr(FromItsEbr(mbr[ebr.part]), link) \in Contents
      BY <1>0, <3>1, EbrType
    <3> QED BY <2>1, <3>2 DEF TypeInv
  <2>3. CASE ~HasNext
    <3>1. Stop
      BY <1>2, <2>3 DEF WriteEBR, EndWrite
    <3> QED BY <2>1, <2>2, <3>1, StopTypes DEF TypeInv
  <2>4. CASE HasNext
    <3> DEFINE to == link.start + ebr.ext
    <3>1. ebr' = [ebr EXCEPT !.part = NextLogical, !.to = to] /\ UNCHANGED <<program, pc, mbr, walk>>
      BY <1>2, <2>4 DEF WriteEBR
    <3>2. to \in Nat
      <4> HIDE DEF link
      <4> QED BY <1>0, Sizes DEF Entries
    <3>3. ebr' \in Ebrs
      <4>1. NextLogical \in Slots
        BY <2>4, LinkType
      <4> HIDE DEF to
      <4> QED BY <1>0, <3>1, <3>2, <4>1, EbrUpdates
    <3> QED BY <2>1, <2>2, <3>1, <3>3 DEF TypeInv
  <2> QED BY <2>3, <2>4
<1> QED BY <1>1, <1>2

LEMMA StepTypes == TypeInv /\ [Next]_vars => TypeInv'
<1> SUFFICES ASSUME TypeInv, [Next]_vars PROVE TypeInv'
  OBVIOUS
<1>1. CASE \E p \in {"fixparts", "scripted"} : ReadMBR(p)
  BY <1>1, ReadMBRTypes
<1>2. CASE ReadChains
  BY <1>2, BeginChainTypes, ReadEbrTypes, EndChainTypes DEF ReadChains
<1>3. CASE EndLoad
  BY <1>3, EndLoadTypes
<1>4. CASE DoMBR
  BY <1>4, DoMBRTypes
<1>5. CASE XFormToMBR
  BY <1>5, XFormToMBRTypes
<1>6. CASE Menu
  <2>1. mbr' \in Tables(Types)
    BY <1>6, MenuTypes, PlainTypes DEF TypeInv
  <2> QED BY <1>6, <2>1, MenuFrame DEF TypeInv
<1>7. CASE BeginWrite
  BY <1>7, BeginWriteTypes
<1>8. CASE WriteMBR
  BY <1>8, WriteMBRTypes
<1>9. CASE WriteEBR
  BY <1>9, WriteEBRTypes
<1>10. CASE Quit
  BY <1>10, StopTypes DEF Quit, TypeInv
<1>11. CASE UNCHANGED vars
  BY <1>11 DEF vars, TypeInv
<1> QED BY <1>1, <1>2, <1>3, <1>4, <1>5, <1>6, <1>7, <1>8, <1>9, <1>10, <1>11 DEF Next, Read, Write

LEMMA AlwaysTypes == Spec => []TypeInv
BY InitTypes, StepTypes, PTL DEF Spec

LEMMA TypesSuffice == TypeInv => TypeOK
BY DEF TypeInv, TypeOK, Walks, Ebrs, Tables, Parts

\* Every variable keeps its type; the number of a logical partition that is read
\* from a chain stays within the array (ReadLogicalParts()).
THEOREM TypeCorrect == Spec => []TypeOK
BY AlwaysTypes, TypesSuffice, PTL

-----------------------------------------------------------------------------
(***************************************************************************)
(* The first four entries while the disk is read.  The number of the next  *)
(* logical partition is taken back by one for each EBR read before that    *)
(* equals the next one; that there is at most one, and so that the number  *)
(* of a partition is never below 4, takes that the EBRs read are pairwise  *)
(* different and none is sector 0.                                         *)
(***************************************************************************)

ExtendedFollowMBR == \A i \in ExtendedOn(disk) : disk[0].entries[i].start > 0

ChainInv ==
  /\ pc = "off" => walk.num = 3
  /\ pc \in {"scan", "walking"} /\ ExtendedFollowMBR =>
       /\ \A i \in 0..3 : mbr[i].as # "LOGICAL" /\ (mbr[i].type = "ext" => mbr[i].start > 0)
       /\ walk.num >= 3
       /\ pc = "walking" => walk.ext > 0
       /\ pc = "walking" /\ walk.more =>
            /\ walk.num >= 4 /\ walk.offset > 0
            /\ \A j, k \in Slots : walk.seen[j] # 0 /\ walk.seen[j] = walk.seen[k] => j = k

LEMMA StopChain == ASSUME Stop PROVE ChainInv'
BY DEF Stop, ChainInv, NoWalk

LEMMA ReadMBRChain ==
  ASSUME TypeInv, ChainInv, NEW p \in {"fixparts", "scripted"}, ReadMBR(p)
  PROVE  ChainInv'
<1>0. pc = "off" /\ walk.num = 3
  BY DEF ReadMBR, ChainInv
<1> DEFINE read == [i \in Slots |-> IF i < 4 THEN FromEntry(disk[0].entries[i + 1]) ELSE EmptyPart]
<1>1. \/ UNCHANGED <<pc, walk>>
      \/ pc' = "scan" /\ mbr' \in {read, EmptyMBR} /\ UNCHANGED <<disk, walk>>
  BY DEF ReadMBR, session, read
<1>2. CASE UNCHANGED <<pc, walk>>
  BY <1>0, <1>2 DEF ChainInv
<1>3. CASE pc' = "scan" /\ mbr' \in {read, EmptyMBR} /\ UNCHANGED <<disk, walk>>
  <2>1. ASSUME ExtendedFollowMBR, NEW i \in 0..3
        PROVE  read[i].as # "LOGICAL" /\ (read[i].type = "ext" => read[i].start > 0)
    <3> DEFINE e == disk[0].entries[i + 1]
    <3>1. i + 1 \in 1..4
      OBVIOUS
    <3>2. read[i] = FromEntry(e)
      BY Sizes
    <3>3. e.type = "ext" => e.start > 0
      BY <2>1, <3>1 DEF ExtendedFollowMBR, ExtendedOn, IsExtended
    <3> HIDE DEF e, read
    <3>4. FromEntry(e).as # "LOGICAL" /\ FromEntry(e).type = e.type /\ FromEntry(e).start = e.start
      BY DEF FromEntry, MkPart
    <3> QED BY <3>2, <3>3, <3>4
  <2>2. ExtendedFollowMBR' = ExtendedFollowMBR
    BY <1>3 DEF ExtendedFollowMBR, ExtendedOn
  <2>3. \A i \in 0..3 : EmptyMBR[i].as # "LOGICAL" /\ EmptyMBR[i].type # "ext"
    BY Sizes DEF EmptyMBR, EmptyPart
  <2> HIDE DEF read
  <2> QED BY <1>0, <1>3, <2>1, <2>2, <2>3 DEF ChainInv
<1> QED BY <1>1, <1>2, <1>3

LEMMA BeginChainChain == ASSUME TypeInv, ChainInv, BeginChain PROVE ChainInv'
<1> SUFFICES ASSUME ExtendedFollowMBR PROVE ChainInv'
  BY DEF BeginChain, ChainInv, ExtendedFollowMBR, ExtendedOn
<1> DEFINE slot == LeastOf(ExtendedSlots)
           seen == [i \in Slots |-> 0]
           start == mbr[slot].start
<1>1. slot \in 0..3 /\ mbr[slot].type = "ext"
  BY ExtendedSlotsType DEF BeginChain, ExtendedSlots
<1>2. start > 0 /\ walk.num >= 3 /\ walk.num \in Nat
  BY <1>1 DEF BeginChain, ChainInv, TypeInv, Walks
<1>3. walk'.ext = start /\ walk'.offset = start /\ walk'.num = walk.num + 1 /\ walk'.seen = seen
  BY DEF BeginChain
<1>4. pc' = "walking" /\ UNCHANGED mbr /\ \A i \in 0..3 : mbr[i].as # "LOGICAL" /\ (mbr[i].type = "ext" => mbr[i].start > 0)
  BY DEF BeginChain, ChainInv
<1>5. \A j \in Slots : walk'.seen[j] = 0
  BY <1>3
<1> HIDE DEF start, seen
<1> QED BY <1>2, <1>3, <1>4, <1>5 DEF ChainInv

LEMMA ReadEbrChain == ASSUME TypeInv, ChainInv, ReadEbr PROVE ChainInv'
<1> SUFFICES ASSUME ExtendedFollowMBR PROVE ChainInv'
  BY ReadEbrCases DEF ChainInv, ExtendedFollowMBR, ExtendedOn
<1>1. /\ pc = "walking" /\ pc' = "walking" /\ walk.more
      /\ Stopped \/ \E e : GoesOn(e)
  BY ReadEbrCases
<1>2. /\ \A i \in 0..3 : mbr[i].as # "LOGICAL" /\ (mbr[i].type = "ext" => mbr[i].start > 0)
      /\ walk.ext > 0 /\ walk.num >= 4 /\ walk.offset > 0
      /\ \A j, k \in Slots : walk.seen[j] # 0 /\ walk.seen[j] = walk.seen[k] => j = k
  BY <1>1 DEF ChainInv
<1>3. /\ Checked \in Walks /\ Checked.num = NumberAfterCheck /\ Checked.ext = walk.ext
      /\ Checked.offset = walk.offset /\ Checked.seen = [walk.seen EXCEPT ![NumberAfterCheck] = walk.offset]
      /\ NumberAfterCheck \in Slots
  BY <1>1, CheckedType
<1>4. walk.num \in Nat /\ walk.ext \in Nat /\ walk.offset \in Nat /\ walk.seen \in [Slots -> Nat]
  BY DEF TypeInv, Walks
\* At most one EBR read before equals this one.
<1>5. Cardinality(SeenBefore) \in {0, 1} /\ (SeenBefore = {} => Cardinality(SeenBefore) = 0)
  <2>1. CASE SeenBefore = {}
    BY <2>1, FS_EmptySet
  <2>2. CASE SeenBefore # {}
    <3>1. PICK j \in Slots : walk.seen[j] = walk.offset
      BY <2>2 DEF SeenBefore
    <3>2. SeenBefore = {j}
      BY <1>2, <1>4, <3>1 DEF SeenBefore
    <3> QED BY <2>2, <3>2, FS_Singleton
  <2> QED BY <2>1, <2>2
<1>6. NumberAfterCheck >= 3 /\ NumberAfterCheck \in Nat /\ (SeenBefore = {} => NumberAfterCheck = walk.num)
  <2> DEFINE c == Cardinality(SeenBefore)
  <2>1. NumberAfterCheck = IF walk.num - c > 0 THEN walk.num - c ELSE 0
    BY <1>1, NumberType
  <2>2. c \in {0, 1} /\ (SeenBefore = {} => c = 0)
    BY <1>5
  <2> HIDE DEF c
  <2> QED BY <1>2, <1>4, <2>1, <2>2
<1>7. CASE Stopped
  <2>1. ~walk'.more /\ walk'.num = NumberAfterCheck /\ walk'.ext = walk.ext /\ UNCHANGED mbr
    BY <1>3, <1>4, <1>7, WalkUpdates DEF Stopped
  <2> QED BY <1>1, <1>2, <1>6, <2>1 DEF ChainInv
<1>8. ASSUME NEW e, GoesOn(e) PROVE ChainInv'
  <2>1. SeenBefore = {} /\ NumberAfterCheck = walk.num /\ walk.num \in Slots
    BY <1>3, <1>6, <1>8 DEF GoesOn
  <2>2. e[1].start \in Nat /\ e[2].start \in Nat
    BY <1>8, Sizes DEF GoesOn, Entries
  <2> DEFINE a == walk.ext + e[1].start
             b == walk.ext + e[2].start
  <2>3. a \in Nat /\ a > 0 /\ b \in Nat /\ b > 0
    BY <1>2, <1>4, <2>2
  <2>4. \A j, k \in Slots : Checked.seen[j] # 0 /\ Checked.seen[j] = Checked.seen[k] => j = k
    <3>1. \A j \in Slots : walk.seen[j] # walk.offset
      BY <2>1 DEF SeenBefore
    <3>2. \A j \in Slots : Checked.seen[j] = IF j = walk.num THEN walk.offset ELSE walk.seen[j]
      BY <1>3, <1>4, <2>1
    <3> QED BY <1>2, <3>1, <3>2
  <2>5. \A i \in 0..3 : mbr'[i].as # "LOGICAL" /\ (mbr'[i].type = "ext" => mbr'[i].start > 0)
    <3>1. CASE UNCHANGED mbr
      BY <1>2, <3>1
    <3>2. CASE mbr' = [mbr EXCEPT ![NumberAfterCheck] =
                         MkPart(Low32(e[1].start + walk.offset), e[1].len, "LOGICAL", e[1].type)]
      <4>1. ASSUME NEW i \in 0..3 PROVE mbr'[i] = mbr[i]
        <5>1. i \in Slots /\ i # NumberAfterCheck /\ mbr \in [Slots -> Parts(Types)]
          BY <1>2, <1>4, <2>1, Sizes DEF TypeInv, Tables
        <5> HIDE DEF MkPart
        <5> QED BY <3>2, <5>1
      <4> QED BY <1>2, <4>1
    <3> QED BY <1>8, <3>1, <3>2 DEF GoesOn
  <2>6. CASE walk' = [Checked EXCEPT !.offset = a]
    <3> HIDE DEF a
    <3>1. walk'.num = walk.num /\ walk'.ext = walk.ext /\ walk'.offset = a /\ walk'.seen = Checked.seen
      BY <1>3, <2>1, <2>3, <2>6, WalkUpdates
    <3> QED BY <1>1, <1>2, <1>4, <2>3, <2>4, <2>5, <3>1 DEF ChainInv
  <2>7. CASE walk' = [Checked EXCEPT !.more = FALSE]
    <3>1. ~walk'.more /\ walk'.num = walk.num /\ walk'.ext = walk.ext
      BY <1>3, <1>4, <2>1, <2>7, WalkUpdates
    <3> QED BY <1>1, <1>2, <1>4, <2>5, <3>1 DEF ChainInv
  <2>8. CASE walk' = [[Checked EXCEPT !.offset = b] EXCEPT !.num = NumberAfterCheck + 1]
    <3> DEFINE k == walk.num + 1
               v == [Checked EXCEPT !.offset = b]
    <3>1. k \in Nat /\ k >= 4 /\ walk' = [v EXCEPT !.num = k] /\ Checked \in Walks
      BY <1>2, <1>3, <1>4, <2>1, <2>8
    <3>2. b \in Nat /\ b > 0
      BY <2>3
    <3> HIDE DEF b, k
    <3>3. v \in Walks /\ v.ext = Checked.ext /\ v.offset = b /\ v.seen = Checked.seen
      BY <3>1, <3>2, WalkUpdates
    <3> HIDE DEF v
    <3>4. walk'.num = k /\ walk'.ext = v.ext /\ walk'.offset = v.offset /\ walk'.seen = v.seen
      BY <3>1, <3>3, WalkUpdates
    <3>5. walk'.num = k /\ walk'.ext = walk.ext /\ walk'.offset = b /\ walk'.seen = Checked.seen
      BY <1>3, <3>3, <3>4
    <3> QED BY <1>1, <1>2, <1>4, <2>4, <2>5, <3>1, <3>2, <3>5 DEF ChainInv
  <2> QED BY <1>8, <2>6, <2>7, <2>8 DEF GoesOn
<1> QED BY <1>1, <1>7, <1>8

LEMMA EndChainChain == ASSUME TypeInv, ChainInv, EndChain PROVE ChainInv'
<1> SUFFICES ASSUME ExtendedFollowMBR PROVE ChainInv'
  BY DEF EndChain, ChainInv, ExtendedFollowMBR, ExtendedOn
<1>1. /\ \A i \in 0..3 : mbr[i].as # "LOGICAL" /\ (mbr[i].type = "ext" => mbr[i].start > 0)
      /\ walk.num >= 3 /\ pc' = "scan" /\ UNCHANGED walk
      /\ mbr' = [mbr EXCEPT ![walk.slot] = EmptyPart] /\ mbr \in [Slots -> Parts(Types)]
  BY DEF EndChain, ChainInv, TypeInv, Tables
<1>2. ASSUME NEW i \in 0..3 PROVE mbr'[i].as # "LOGICAL" /\ (mbr'[i].type = "ext" => mbr'[i].start > 0)
  <2>1. i \in Slots
    BY Sizes
  <2>2. mbr'[i] = EmptyPart \/ mbr'[i] = mbr[i]
    BY <1>1, <2>1
  <2> QED BY <1>1, <2>2 DEF EmptyPart
<1> QED BY <1>1, <1>2 DEF ChainInv

LEMMA OthersChain ==
  ASSUME TypeInv, ChainInv, EndLoad \/ DoMBR \/ XFormToMBR \/ Menu \/ Write \/ Quit
  PROVE  ChainInv'
<1>1. ASSUME pc' \notin {"off", "scan", "walking"} PROVE ChainInv'
  BY <1>1 DEF ChainInv
<1>2. CASE EndLoad
  BY <1>1, <1>2, StopChain DEF EndLoad
<1>3. CASE DoMBR \/ XFormToMBR
  BY <1>1, <1>3, XFormFrame DEF DoMBR
<1>4. CASE Menu
  BY <1>1, <1>4, MenuFrame
<1>5. CASE BeginWrite
  BY <1>1, <1>5, StopChain DEF BeginWrite
<1>6. CASE WriteMBR
  BY <1>1, <1>6, StopChain DEF WriteMBR, WriteFails, EndWrite
<1>7. CASE WriteEBR
  BY <1>1, <1>7, StopChain DEF WriteEBR, WriteFails, EndWrite
<1>8. CASE Quit
  BY <1>8, StopChain DEF Quit
<1> QED BY <1>2, <1>3, <1>4, <1>5, <1>6, <1>7, <1>8 DEF Write

LEMMA StepChain == TypeInv /\ ChainInv /\ [Next]_vars => ChainInv'
<1> SUFFICES ASSUME TypeInv, ChainInv, [Next]_vars PROVE ChainInv'
  OBVIOUS
<1>1. CASE \E p \in {"fixparts", "scripted"} : ReadMBR(p)
  BY <1>1, ReadMBRChain
<1>2. CASE ReadChains
  BY <1>2, BeginChainChain, ReadEbrChain, EndChainChain DEF ReadChains
<1>3. CASE UNCHANGED vars
  BY <1>3 DEF vars, ChainInv, ExtendedFollowMBR, ExtendedOn
<1>4. CASE EndLoad \/ DoMBR \/ XFormToMBR \/ Menu \/ Write \/ Quit
  BY <1>4, OthersChain
<1> QED BY <1>1, <1>2, <1>3, <1>4 DEF Next, Read

LEMMA AlwaysChain == Spec => [](TypeInv /\ ChainInv)
<1>1. Init => ChainInv
  BY DEF Init, ChainInv, NoWalk
<1> QED BY <1>1, AlwaysTypes, StepChain, PTL DEF Spec

\* While ReadMBRData() follows the chains, no logical partition is put into the
\* first four entries, unless an extended partition starts in the MBR itself.
THEOREM LogicalsStayBehind == Spec => []LogicalsAreNumberedFromFive
<1>1. ChainInv => LogicalsAreNumberedFromFive
  BY DEF ChainInv, LogicalsAreNumberedFromFive, ExtendedFollowMBR
<1> QED BY <1>1, AlwaysChain, PTL

-----------------------------------------------------------------------------
(* What is written of an array that is legal and plain.                    *)

PlainArray(m) ==
  /\ \A i \in Slots : m[i].len = 0 => m[i].start = 0 /\ m[i].as = "NONE"
  /\ \A i \in Included(m) : m[i].start > IF m[i].as = "LOGICAL" THEN 1 ELSE 0
  /\ Cardinality(Misplaced(m)) <= Cardinality(RoomBehind(m))

LEMMA PlainTableIs == PlainTable => PlainArray(mbr)
BY DEF PlainTable, PlainArray, ToMove, Spare, Misplaced, RoomBehind

\* The primary partitions as their entries of the MBR show them.
InFirst(m) == {OnDisk(m[i].start, m[i], "PRIMARY") : i \in {j \in 0 .. 3 : m[j].len > 0 /\ m[j].type # "ext"}}

\* The extended partition starts with the EBR of the first logical one; EBRs are
\* not in partitions in use.
Arranged(m) ==
  /\ \A i \in Slots : i >= 4 => m[i].as # "PRIMARY"
  /\ \A i \in 0 .. 3 : m[i].type = "ext" =>
       /\ m[i].start > 0
       /\ \A j \in Including(m, "LOGICAL") : m[i].start < m[j].start
       /\ Including(m, "LOGICAL") # {} => \E j \in Including(m, "LOGICAL") : m[i].start = m[j].start - 1
  /\ \A j \in Included(m) : m[j].type # "ext" =>
       /\ m[j].start > 0
       /\ \A i \in Including(m, "LOGICAL") : ~Covers(m[j], m[i].start - 1)

LEMMA FewPrimaries ==
  ASSUME NEW T, NEW m \in Tables(T), IsLegal(m), PlainArray(m)
  PROVE  Cardinality(Including(m, "PRIMARY")) <= 4
<1> DEFINE Sized(as) == {i \in Including(m, as) : m[i].len > 0}
<1>1. Sized("PRIMARY") = Including(m, "PRIMARY")
  <2>1. ASSUME NEW i \in Including(m, "PRIMARY") PROVE m[i].len > 0
    <3>1. i \in Slots /\ m[i].as = "PRIMARY" /\ m[i].len \in Nat
      BY Sizes DEF Including, Tables, Parts
    <3> QED BY <3>1 DEF PlainArray
  <2> QED BY <2>1
<1>2. NumPrimaries(m) = Cardinality(Sized("PRIMARY")) + (IF Sized("LOGICAL") # {} THEN 1 ELSE 0)
  BY DEF NumPrimaries
<1>3. NumPrimaries(m) <= 4
  BY DEF IsLegal
<1>4. Cardinality(Including(m, "PRIMARY")) \in Nat
  BY CountType DEF Including
<1> HIDE DEF Sized
<1> QED BY <1>1, <1>2, <1>3, <1>4

LEMMA Moves ==
  ASSUME NEW m \in Tables(Plain), IsLegal(m), PlainArray(m)
  PROVE  LET moved == MovePrimariesToFirstFour(RemoveLogicalsFromFirstFour(m))
         IN  /\ moved \in Tables(Plain) /\ Permutes(moved, m) /\ Misplaced(moved) = {}
             /\ \A i \in 4 .. MaxParts - 1 : moved[i].as # "PRIMARY"
<1> DEFINE away == RemoveLogicalsFromFirstFour(m)
<1>1. away \in Tables(Plain) /\ Permutes(away, m) /\ Misplaced(away) = {}
  BY AwayClears DEF PlainArray
<1>2. Cardinality(Including(m, "PRIMARY")) <= 4
  BY FewPrimaries
<1> HIDE DEF away
<1>3. LET moved == MovePrimariesToFirstFour(away)
      IN  /\ moved \in Tables(Plain) /\ Permutes(moved, m) /\ Misplaced(moved) = {}
          /\ \A i \in 4 .. MaxParts - 1 : moved[i].as # "PRIMARY"
  BY <1>1, <1>2, ForwardClears
<1> QED BY <1>3 DEF away

LEMMA FirstPrimaries ==
  ASSUME NEW m \in Tables(Plain), NEW n \in Tables(Plain), Permutes(n, m), Misplaced(n) = {},
         \A i \in 4 .. MaxParts - 1 : n[i].as # "PRIMARY"
  PROVE  InFirst(n) = PrimariesIn(TableOf(m))
<1>1. PICK p : PermutesBy(n, m, p)
  BY DEF Permutes
<1>2. ASSUME NEW i \in 0 .. 3, n[i].len > 0
      PROVE  OnDisk(n[i].start, n[i], "PRIMARY") \in PrimariesIn(TableOf(m))
  <2> DEFINE j == p[i]
             x == OnDisk(m[j].start, m[j], m[j].as)
  <2>1. i \in Slots /\ j \in Slots /\ n[i] = m[j]
    BY <1>1, Sizes DEF PermutesBy
  <2>2. n[i].as = "PRIMARY"
    BY <1>2 DEF Misplaced
  <2> HIDE DEF j
  <2>3. j \in {k \in Included(m) : m[k].len > 0}
    BY <1>2, <2>1, <2>2 DEF Included, Including
  <2>4. x \in TableOf(m) /\ x.as = "PRIMARY"
    BY <2>1, <2>2, <2>3 DEF TableOf, OnDisk
  <2>5. OnDisk(n[i].start, n[i], "PRIMARY") = x
    BY <2>1, <2>2
  <2> QED BY <2>4, <2>5 DEF PrimariesIn
<1>3. ASSUME NEW x \in PrimariesIn(TableOf(m)) PROVE x \in InFirst(n)
  <2>1. PICK j \in {k \in Included(m) : m[k].len > 0} : x = OnDisk(m[j].start, m[j], m[j].as)
    BY DEF PrimariesIn, TableOf
  <2>2. x.as = "PRIMARY" /\ m[j].as = x.as /\ j \in Slots /\ m[j].len > 0
    BY <2>1 DEF PrimariesIn, OnDisk, Included, Including
  <2>3. PICK i \in Slots : p[i] = j
    BY <1>1, <2>2 DEF PermutesBy
  <2>4. n[i] = m[j]
    BY <1>1, <2>3 DEF PermutesBy
  <2>5. i \in 0 .. 3
    BY <2>2, <2>4 DEF Slots
  <2>6. n[i].type # "ext"
    BY PlainTables
  <2>7. x = OnDisk(n[i].start, n[i], "PRIMARY")
    BY <2>1, <2>2, <2>4
  <2> QED BY <2>2, <2>4, <2>5, <2>6, <2>7 DEF InFirst
<1> QED BY <1>2, <1>3 DEF InFirst

\* An array of entries of a legal one.
LEMMA EntriesArePlain ==
  ASSUME NEW m \in Tables(Plain), IsLegal(m), PlainArray(m),
         NEW n \in Tables(Plain), \A i \in Slots : \E k \in Slots : n[i] = m[k]
  PROVE  \A j \in Included(n) :
           /\ n[j].start > 0 /\ (n[j].as = "LOGICAL" => n[j].start > 1)
           /\ \A i \in Including(n, "LOGICAL") : ~Covers(n[j], n[i].start - 1)
<1>1. ASSUME NEW j \in Included(n) PROVE \E k \in Included(m) : n[j] = m[k]
  <2>1. j \in Slots /\ n[j].as \in {"PRIMARY", "LOGICAL"}
    BY DEF Included, Including
  <2>2. PICK k \in Slots : n[j] = m[k]
    BY <2>1
  <2> QED BY <2>1, <2>2 DEF Included, Including
<1>2. ASSUME NEW j \in Included(n) PROVE n[j].start > 0 /\ (n[j].as = "LOGICAL" => n[j].start > 1)
  <2>1. PICK k \in Included(m) : n[j] = m[k]
    BY <1>1
  <2>2. m[k].start > IF m[k].as = "LOGICAL" THEN 1 ELSE 0
    BY DEF PlainArray
  <2>3. m[k].start \in Nat
    BY Sizes DEF Included, Including, Tables, Parts
  <2> QED BY <2>1, <2>2, <2>3
<1>3. ASSUME NEW j \in Included(n), NEW i \in Including(n, "LOGICAL") PROVE ~Covers(n[j], n[i].start - 1)
  <2>1. PICK k \in Included(m) : n[j] = m[k]
    BY <1>1
  <2>2. i \in Included(n) /\ n[i].as = "LOGICAL"
    BY DEF Included, Including
  <2>3. PICK l \in Included(m) : n[i] = m[l]
    BY <1>1, <2>2
  <2>4. l \in Including(m, "LOGICAL")
    BY <2>2, <2>3 DEF Included, Including
  <2>5. m[l].start > 1
    BY <1>2, <2>2, <2>3
  <2> QED BY <2>1, <2>3, <2>4, <2>5, EbrsAreFree
<1> QED BY <1>2, <1>3

LEMMA PermutedEntries ==
  ASSUME NEW n, NEW m, Permutes(n, m), NEW i \in Slots
  PROVE  \E k \in Slots : n[i] = m[k]
<1>1. PICK p : PermutesBy(n, m, p)
  BY DEF Permutes
<1> QED BY <1>1 DEF PermutesBy

\* The entry of the extended partition starts one sector before the first
\* logical partition.
LEMMA ExtendedStart ==
  ASSUME NEW n \in Tables(Plain), \A i \in Including(n, "LOGICAL") : n[i].start > 1
  PROVE  /\ ExtendedFor(n).type = "ext" /\ ExtendedFor(n).as = "PRIMARY"
         /\ ExtendedFor(n).start > 0
         /\ \A j \in Including(n, "LOGICAL") : ExtendedFor(n).start < n[j].start
         /\ Including(n, "LOGICAL") # {} => \E j \in Including(n, "LOGICAL") : ExtendedFor(n).start = n[j].start - 1
<1> DEFINE first == FirstLogicalLBA(n)
<1>1. /\ first \in 0..Max32
      /\ \A i \in Including(n, "LOGICAL") : first <= n[i].start
      /\ first = Max32 \/ \E i \in Including(n, "LOGICAL") : first = n[i].start
  BY FirstLogicalType
<1>2. \A i \in Including(n, "LOGICAL") : n[i].start \in 0..Max32
  BY DEF Including, Tables, Parts
<1> HIDE DEF first
<1>3. first > 1
  BY <1>1, Sizes
<1>4. Minus64(first, 1) = first - 1 /\ first - 1 \in 0..Max32
  BY <1>1, <1>3, Sizes DEF Minus64
<1>5. Low32(Minus64(first, 1)) = first - 1
  BY <1>4, Low32Small
<1>6. ExtendedFor(n).type = "ext" /\ ExtendedFor(n).as = "PRIMARY" /\ ExtendedFor(n).start = Low32(Minus64(first, 1))
  BY DEF ExtendedFor, MkPart, first
<1>7. ExtendedFor(n).start = first - 1
  BY <1>5, <1>6
<1>8. Including(n, "LOGICAL") # {} => \E j \in Including(n, "LOGICAL") : first = n[j].start
  <2>1. SUFFICES ASSUME first = Max32, NEW j \in Including(n, "LOGICAL") PROVE first = n[j].start
    BY <1>1
  <2> QED BY <1>1, <1>2, <2>1, Sizes
<1>9. ExtendedFor(n).start > 0 /\ \A j \in Including(n, "LOGICAL") : ExtendedFor(n).start < n[j].start
  BY <1>1, <1>2, <1>3, <1>7, Sizes
<1>10. Including(n, "LOGICAL") # {} => \E j \in Including(n, "LOGICAL") : ExtendedFor(n).start = n[j].start - 1
  BY <1>7, <1>8
<1> QED BY <1>6, <1>9, <1>10

\* An array without an extended partition.
LEMMA ArrangedPlain ==
  ASSUME NEW m \in Tables(Plain), IsLegal(m), PlainArray(m),
         NEW n \in Tables(Plain), \A i \in Slots : \E k \in Slots : n[i] = m[k],
         \A i \in Slots : i >= 4 => n[i].as # "PRIMARY"
  PROVE  Arranged(n)
<1>1. \A i \in 0 .. 3 : n[i].type # "ext"
  BY PlainTables, Sizes
<1> QED BY <1>1, EntriesArePlain DEF Arranged

\* ... and with one among the first four.
LEMMA ArrangedExtended ==
  ASSUME NEW m \in Tables(Plain), IsLegal(m), PlainArray(m),
         NEW n \in Tables(Plain), \A i \in Slots : \E k \in Slots : n[i] = m[k],
         \A i \in Slots : i >= 4 => n[i].as # "PRIMARY", Misplaced(n) = {},
         NEW j \in 0 .. 3, n[j].as = "NONE" \/ n[j].len = 0
  PROVE  /\ Arranged([n EXCEPT ![j] = ExtendedFor(n)])
         /\ InFirst([n EXCEPT ![j] = ExtendedFor(n)]) = InFirst(n)
<1> DEFINE x == [n EXCEPT ![j] = ExtendedFor(n)]
           e == ExtendedFor(n)
<1>1. j \in Slots /\ x[j] = e /\ \A i \in Slots : i # j => x[i] = n[i]
  BY Sizes DEF Tables
<1>2. \A i \in Including(n, "LOGICAL") : n[i].start > 1
  BY EntriesArePlain DEF Including, Included
<1>3. /\ e.type = "ext" /\ e.as = "PRIMARY" /\ e.start > 0
      /\ \A i \in Including(n, "LOGICAL") : e.start < n[i].start
      /\ Including(n, "LOGICAL") # {} => \E i \in Including(n, "LOGICAL") : e.start = n[i].start - 1
  BY <1>2, ExtendedStart
<1> HIDE DEF x, e
\* The entry that it takes was blank.
<1>4. n[j].len = 0
  <2>1. n[j].len \in Nat
    BY <1>1, Sizes DEF Tables, Parts
  <2> QED BY <2>1 DEF Misplaced
<1>5. \A i \in Slots : n[i].type # "ext"
  BY PlainTables
<1>6. ASSUME NEW i \in Including(x, "LOGICAL") PROVE i \in Including(n, "LOGICAL") /\ x[i] = n[i]
  BY <1>1, <1>3 DEF Including
<1>7. Including(n, "LOGICAL") \subseteq Including(x, "LOGICAL")
  <2>1. ASSUME NEW i \in Including(n, "LOGICAL"), i = j PROVE FALSE
    <3>1. n[j].as = "LOGICAL" /\ n[j].start > 1 /\ n[j].as # "NONE"
      BY <1>2, <2>1 DEF Including
    <3>2. PICK k \in Slots : n[j] = m[k]
      BY <1>1
    <3> QED BY <1>4, <3>1, <3>2 DEF PlainArray
  <2> QED BY <1>1, <2>1 DEF Including
<1>8. ASSUME NEW i \in Included(x), x[i].type # "ext" PROVE i \in Included(n) /\ x[i] = n[i]
  BY <1>1, <1>3, <1>8 DEF Included, Including
<1>9. InFirst(x) = InFirst(n)
  <2> DEFINE I == {i \in 0 .. 3 : n[i].len > 0 /\ n[i].type # "ext"}
  <2>1. {i \in 0 .. 3 : x[i].len > 0 /\ x[i].type # "ext"} = I
    BY <1>1, <1>3, <1>4, Sizes
  <2>2. \A i \in I : x[i] = n[i]
    BY <1>1, <1>4, Sizes
  <2>3. InFirst(x) = {OnDisk(x[i].start, x[i], "PRIMARY") : i \in I}
    BY <2>1 DEF InFirst
  <2>4. InFirst(n) = {OnDisk(n[i].start, n[i], "PRIMARY") : i \in I}
    BY DEF InFirst
  <2> HIDE DEF I
  <2> QED BY <2>2, <2>3, <2>4
<1>10. ASSUME NEW i \in Slots, i >= 4 PROVE x[i].as # "PRIMARY"
  <2>1. i # j
    BY <1>10, Sizes
  <2> QED BY <1>1, <1>10, <2>1
<1>11. ASSUME NEW i \in 0 .. 3, x[i].type = "ext"
       PROVE  /\ x[i].start > 0
              /\ \A k \in Including(x, "LOGICAL") : x[i].start < x[k].start
              /\ Including(x, "LOGICAL") # {} => \E k \in Including(x, "LOGICAL") : x[i].start = x[k].start - 1
  <2>1. x[i] = e
    BY <1>1, <1>5, <1>11, Sizes
  <2>2. \A k \in Including(x, "LOGICAL") : e.start < x[k].start
    BY <1>3, <1>6
  <2>3. Including(x, "LOGICAL") # {} => \E k \in Including(x, "LOGICAL") : e.start = x[k].start - 1
    <3>1. Including(x, "LOGICAL") = Including(n, "LOGICAL")
      BY <1>6, <1>7
    <3>2. \A k \in Including(x, "LOGICAL") : x[k] = n[k]
      BY <1>6
    <3> QED BY <1>3, <3>1, <3>2
  <2> QED BY <1>3, <2>1, <2>2, <2>3
<1>12. ASSUME NEW i \in Included(x), x[i].type # "ext"
       PROVE  x[i].start > 0 /\ \A k \in Including(x, "LOGICAL") : ~Covers(x[i], x[k].start - 1)
  BY <1>6, <1>8, <1>12, EntriesArePlain
<1>13. Arranged(x)
  BY <1>10, <1>11, <1>12 DEF Arranged
<1> QED BY <1>9, <1>13 DEF x

LEMMA Arranges ==
  ASSUME NEW m \in Tables(Plain), PlainArray(m), NEW x \in CreateExtended(m), x.ok
  PROVE  Arranged(x.mbr) /\ InFirst(x.mbr) = PrimariesIn(TableOf(m))
<1> DEFINE moved == MovePrimariesToFirstFour(RemoveLogicalsFromFirstFour(m))
<1>1. CreateExtended(m) = IF ~IsLegal(m) THEN {[mbr |-> m, ok |-> FALSE]}
                          ELSE IF NumLogicals(moved) = 0 THEN {[mbr |-> moved, ok |-> TRUE]}
                          ELSE {WithExtended(sorted) : sorted \in SortMBR(moved, 4)}
  BY DEF CreateExtended
<1>2. IsLegal(m)
  <2>1. ~IsLegal(m) => ~x.ok
    <3> HIDE DEF moved
    <3> QED BY <1>1
  <2> QED BY <2>1
<1>3. /\ moved \in Tables(Plain) /\ Permutes(moved, m) /\ Misplaced(moved) = {}
      /\ \A i \in 4 .. MaxParts - 1 : moved[i].as # "PRIMARY"
  BY <1>2, Moves
<1> HIDE DEF moved
<1>4. \A i \in Slots : \E k \in Slots : moved[i] = m[k]
  BY <1>3, PermutedEntries
<1>5. InFirst(moved) = PrimariesIn(TableOf(m))
  BY <1>3, FirstPrimaries
<1>6. \A i \in Slots : i >= 4 => i \in 4 .. MaxParts - 1
  BY Sizes DEF Slots
<1>7. CASE x = [mbr |-> moved, ok |-> TRUE]
  <2>1. Arranged(moved)
    BY <1>2, <1>3, <1>4, <1>6, ArrangedPlain
  <2> QED BY <1>5, <1>7, <2>1
<1>8. ASSUME NEW sorted \in SortMBR(moved, 4), x = WithExtended(sorted)
      PROVE  Arranged(x.mbr) /\ InFirst(x.mbr) = PrimariesIn(TableOf(m))
  <2>1. /\ sorted \in Tables(Plain)
        /\ \A i \in Slots : i < 4 => sorted[i] = moved[i]
        /\ \A i \in Slots : i >= 4 => \E k \in Slots : k >= 4 /\ sorted[i] = moved[k]
    <3>1. 4 \in {0, 4}
      OBVIOUS
    <3> QED BY <1>3, <3>1, SortType
  <2>2. \A i \in Slots : \E k \in Slots : sorted[i] = m[k]
    <3>1. ASSUME NEW i \in Slots, i < 4 PROVE \E k \in Slots : sorted[i] = m[k]
      BY <1>4, <2>1, <3>1
    <3>2. ASSUME NEW i \in Slots, i >= 4 PROVE \E k \in Slots : sorted[i] = m[k]
      BY <1>4, <2>1, <3>2
    <3> QED BY <3>1, <3>2, Sizes
  <2>3. ASSUME NEW i \in Slots, i >= 4 PROVE sorted[i].as # "PRIMARY"
    <3>1. PICK k \in Slots : k >= 4 /\ sorted[i] = moved[k]
      BY <2>1, <2>3
    <3> QED BY <1>3, <1>6, <3>1
  <2>4. \A i \in 0 .. 3 : sorted[i] = moved[i]
    BY <2>1, Sizes
  <2>5. Misplaced(sorted) = {} /\ InFirst(sorted) = InFirst(moved)
    <3>1. Misplaced(sorted) = Misplaced(moved)
      BY <2>4 DEF Misplaced
    <3>2. InFirst(sorted) = InFirst(moved)
      <4>1. {i \in 0 .. 3 : sorted[i].len > 0 /\ sorted[i].type # "ext"}
              = {i \in 0 .. 3 : moved[i].len > 0 /\ moved[i].type # "ext"}
        BY <2>4
      <4> QED BY <2>4, <4>1 DEF InFirst
    <3> QED BY <1>3, <3>1, <3>2
  <2>6. PICK j \in 0 .. 3 : /\ sorted[j].as = "NONE" \/ sorted[j].len = 0
                            /\ x.mbr = [sorted EXCEPT ![j] = ExtendedFor(sorted)]
    <3>1. sorted \in Tables(Types)
      BY <2>1, PlainTables
    <3> QED BY <1>8, <3>1, WithExtendedType, PlainTypes
  <2>7. /\ Arranged([sorted EXCEPT ![j] = ExtendedFor(sorted)])
        /\ InFirst([sorted EXCEPT ![j] = ExtendedFor(sorted)]) = InFirst(sorted)
    BY <1>2, <2>1, <2>2, <2>3, <2>5, <2>6, ArrangedExtended
  <2> QED BY <1>5, <2>5, <2>6, <2>7
<1>9. x = [mbr |-> moved, ok |-> TRUE] \/ \E sorted \in SortMBR(moved, 4) : x = WithExtended(sorted)
  BY <1>1, <1>2
<1> QED BY <1>7, <1>8, <1>9

-----------------------------------------------------------------------------
(***************************************************************************)
(* Saving.  The invariant says of the table being written what             *)
(* CreateExtended() arranged, and of the disk which of the two tables its  *)
(* MBR shows.                                                              *)
(***************************************************************************)
ASave(t, b, p, s, k) == [table |-> t, before |-> b, plain |-> p, stale |-> s, kind |-> k]
IsSave(a) == \E t, b, p, s, k : a = ASave(t, b, p, s, k)

\* No extended partition outlasts the reading of the disk.
LoadInv ==
  /\ pc \in {"scan", "walking"} => \A i \in Slots : i >= 4 => mbr[i].type # "ext"
  /\ pc \in {"erase", "menu"} => mbr \in Tables(Plain)

KindInv ==
  /\ IsSave(auxSave)
  /\ pc \in {"scan", "walking", "erase", "menu"} => auxSave.kind = "none"

SaveInv ==
  /\ pc = "off" => InterruptedSaveKeepsPrimaries
  /\ pc = "writeMBR" /\ auxSave.plain =>
       /\ PrimariesOn(disk) = PrimariesIn(auxSave.before)
       /\ InFirst(mbr) = PrimariesIn(auxSave.table)
       /\ Arranged(mbr)
  /\ pc = "writeEBR" /\ auxSave.plain =>
       /\ PrimariesOn(disk) = PrimariesIn(auxSave.table)
       /\ Arranged(mbr)
       /\ ebr.part >= 4 /\ ebr.ext > 0
       /\ \A j \in Including(mbr, "LOGICAL") : ebr.ext < mbr[j].start
       /\ ebr.to > 0 /\ \E j \in Including(mbr, "LOGICAL") : ebr.to = mbr[j].start - 1

LEMMA SaveFields ==
  ASSUME NEW a, IsSave(a), NEW k
  PROVE  /\ IsSave([a EXCEPT !.kind = k])
         /\ [a EXCEPT !.kind = k].plain = a.plain /\ [a EXCEPT !.kind = k].kind = k
         /\ [a EXCEPT !.kind = k].table = a.table /\ [a EXCEPT !.kind = k].before = a.before
         /\ [a EXCEPT !.kind = k].stale = a.stale
<1>1. PICK t, b, p, s, old : a = ASave(t, b, p, s, old)
  BY DEF IsSave
<1>2. [a EXCEPT !.kind = k] = ASave(t, b, p, s, k)
  BY <1>1 DEF ASave
<1>3. IsSave([a EXCEPT !.kind = k])
  BY <1>2 DEF IsSave
<1>4. /\ a.plain = p /\ a.table = t /\ a.before = b /\ a.stale = s /\ ASave(t, b, p, s, k).stale = s
      /\ ASave(t, b, p, s, k).plain = p /\ ASave(t, b, p, s, k).kind = k
      /\ ASave(t, b, p, s, k).table = t /\ ASave(t, b, p, s, k).before = b
  BY <1>1, Zenon DEF ASave
<1> QED BY <1>2, <1>3, <1>4

LEMMA NothingIsSaved ==
  /\ IsSave(NothingSaved) /\ NothingSaved.kind = "none" /\ ~NothingSaved.plain
  /\ IsSave([NothingSaved EXCEPT !.kind = "refused"]) /\ [NothingSaved EXCEPT !.kind = "refused"].kind = "refused"
<1>1. IsSave(NothingSaved)
  BY Zenon DEF NothingSaved, IsSave, ASave
<1>2. NothingSaved.kind = "none" /\ ~NothingSaved.plain
  BY DEF NothingSaved
<1> QED BY <1>1, <1>2, SaveFields

-----------------------------------------------------------------------------
(* The array while it is loaded and edited.                                *)

LEMMA StopLoad == ASSUME Stop PROVE LoadInv'
BY DEF Stop, LoadInv

LEMMA ReadEbrLoad == ASSUME TypeInv, LoadInv, ReadEbr PROVE LoadInv'
<1> SUFFICES ASSUME NEW i \in Slots, i >= 4 PROVE mbr'[i].type # "ext"
  BY DEF LoadInv, ReadEbr
<1>1. pc = "walking" /\ mbr[i].type # "ext"
  BY DEF LoadInv, ReadEbr
<1>2. CASE UNCHANGED mbr
  BY <1>1, <1>2
<1>3. CASE ~UNCHANGED mbr
  <2> DEFINE num == [walk EXCEPT !.num = NumberAfterCheck, !.seen[NumberAfterCheck] = walk.offset].num
             e == disk[walk.offset].entries
             p == MkPart(Low32(e[1].start + walk.offset), e[1].len, "LOGICAL", e[1].type)
  <2>1. ~IsExtended(e[1]) /\ mbr' = [mbr EXCEPT ![num] = p]
    BY <1>3 DEF ReadEbr
  <2>2. p.type # "ext"
    BY <2>1 DEF IsExtended, MkPart
  <2> HIDE DEF p, num
  <2> QED BY <1>1, <2>1, <2>2 DEF TypeInv, Tables
<1> QED BY <1>2, <1>3

LEMMA EndChainLoad == ASSUME TypeInv, LoadInv, EndChain PROVE LoadInv'
<1>1. pc = "walking" /\ pc' = "scan" /\ mbr' = [mbr EXCEPT ![walk.slot] = EmptyPart]
  BY DEF EndChain
<1>2. EmptyPart.type # "ext"
  BY DEF EmptyPart
<1>3. ASSUME NEW i \in Slots, i >= 4 PROVE mbr'[i].type # "ext"
  BY <1>1, <1>2, <1>3 DEF TypeInv, Tables, LoadInv
<1> QED BY <1>1, <1>3 DEF LoadInv

LEMMA EndLoadLoad == ASSUME TypeInv, LoadInv, EndLoad PROVE LoadInv'
<1>1. mbr \in Tables(Plain)
  <2>1. \A i \in 0..3 : mbr[i].type # "ext"
    BY DEF EndLoad, ExtendedSlots
  <2>2. \A i \in Slots : mbr[i].type # "ext"
    BY <2>1, Sizes DEF EndLoad, LoadInv, Slots
  <2> QED BY <2>2, PlainTables DEF TypeInv
<1>2. MakeItLegal(mbr) \in Tables(Plain)
  BY <1>1, MakeItLegalType, PlainTypes
<1>3. CASE Refused
  BY <1>3, StopLoad DEF EndLoad
<1>4. CASE ~Refused
  BY <1>1, <1>2, <1>4 DEF EndLoad, LoadInv
<1> QED BY <1>3, <1>4

LEMMA StepLoad == TypeInv /\ LoadInv /\ [Next]_vars => LoadInv'
<1> SUFFICES ASSUME TypeInv, LoadInv, [Next]_vars PROVE LoadInv'
  OBVIOUS
<1>1. CASE \E p \in {"fixparts", "scripted"} : ReadMBR(p)
  <2>1. EmptyPart.type # "ext"
    BY DEF EmptyPart
  <2>2. PICK p \in {"fixparts", "scripted"} : ReadMBR(p)
    BY <1>1
  <2>3. \/ pc' = "off"
        \/ /\ pc' = "scan"
           /\ \/ mbr' = EmptyMBR
              \/ mbr' = [i \in Slots |-> IF i < 4 THEN FromEntry(disk[0].entries[i + 1]) ELSE EmptyPart]
    BY <2>2 DEF ReadMBR
  <2>4. ASSUME pc' = "scan", NEW i \in Slots, i >= 4 PROVE mbr'[i].type # "ext"
    <3>1. mbr'[i] = EmptyPart
      BY <2>3, <2>4, Sizes DEF EmptyMBR
    <3> QED BY <2>1, <3>1
  <2> QED BY <2>3, <2>4 DEF LoadInv
<1>2. CASE BeginChain
  BY <1>2 DEF BeginChain, LoadInv
<1>3. CASE ReadEbr
  BY <1>3, ReadEbrLoad
<1>4. CASE EndChain
  BY <1>4, EndChainLoad
<1>5. CASE EndLoad
  BY <1>5, EndLoadLoad
<1>6. CASE DoMBR
  BY <1>6, MakeItLegalType, PlainTypes DEF DoMBR, LoadInv
<1>7. CASE XFormToMBR
  <2>1. pc' = "menu" /\ mbr' \in Tables(Plain)
    BY <1>7, XFormToMBRTypes, XFormFrame
  <2> QED BY <2>1 DEF LoadInv
<1>8. CASE Menu
  <2>1. pc = "menu" /\ pc' = "menu"
    BY <1>8, MenuFrame
  <2>2. mbr' \in Tables(Plain)
    BY <1>8, <2>1, MenuTypes DEF LoadInv
  <2> QED BY <2>1, <2>2 DEF LoadInv
<1>9. CASE BeginWrite
  BY <1>9 DEF BeginWrite, Stop, LoadInv
<1>10. CASE WriteMBR
  BY <1>10 DEF WriteMBR, WriteFails, EndWrite, Stop, LoadInv
<1>11. CASE WriteEBR
  BY <1>11 DEF WriteEBR, WriteFails, EndWrite, Stop, LoadInv
<1>12. CASE Quit
  BY <1>12, StopLoad DEF Quit
<1>13. CASE UNCHANGED vars
  BY <1>13 DEF vars, LoadInv
<1> QED BY <1>1, <1>2, <1>3, <1>4, <1>5, <1>6, <1>7, <1>8, <1>9, <1>10, <1>11, <1>12, <1>13
        DEF Next, Read, ReadChains, Write

LEMMA StepKind == TypeInv /\ KindInv /\ [Next]_vars => KindInv'
<1> SUFFICES ASSUME TypeInv, KindInv, [Next]_vars PROVE KindInv'
  OBVIOUS
<1>1. CASE (\E p \in {"fixparts", "scripted"} : ReadMBR(p)) \/ XFormToMBR
  BY <1>1, NothingIsSaved, XFormFrame DEF ReadMBR, KindInv
<1>2. CASE ReadChains \/ EndLoad \/ DoMBR
  BY <1>2 DEF ReadChains, BeginChain, ReadEbr, EndChain, EndLoad, Stop, DoMBR, KindInv
<1>3. CASE Menu
  BY <1>3, MenuFrame DEF KindInv
<1>4. CASE BeginWrite
  <2>1. pc' \in {"writeMBR", "off"}
    BY <1>4 DEF BeginWrite, Stop
  <2>2. IsSave(auxSave')
    <3>1. \/ \E t, b, p, s : auxSave' = [table |-> t, before |-> b, plain |-> p, stale |-> s, kind |-> "begun"]
          \/ auxSave' = [NothingSaved EXCEPT !.kind = "refused"]
      BY <1>4, Zenon DEF BeginWrite
    <3> QED BY <3>1, NothingIsSaved, Zenon DEF IsSave, ASave
  <2> QED BY <2>1, <2>2 DEF KindInv
<1>5. CASE WriteMBR \/ WriteEBR
  <2>1. \/ UNCHANGED auxSave /\ pc' = "writeEBR"
        \/ pc' = "off" /\ \E k : auxSave' = [auxSave EXCEPT !.kind = k]
    BY <1>5 DEF WriteMBR, WriteEBR, WriteFails, EndWrite, Stop
  <2> QED BY <2>1, SaveFields DEF KindInv
<1>6. CASE Quit
  BY <1>6 DEF Quit, Stop, KindInv
<1>7. CASE UNCHANGED vars
  BY <1>7 DEF vars, KindInv
<1> QED BY <1>1, <1>2, <1>3, <1>4, <1>5, <1>6, <1>7 DEF Next, Read, Write

-----------------------------------------------------------------------------
(* What a reader of the disk finds.                                        *)

LEMMA PrimariesOfTable ==
  ASSUME NEW d
  PROVE  PrimariesIn(TableOn(d)) = PrimariesOn(d)
<1>1. ASSUME NEW x \in PrimariesOn(d) PROVE x.as = "PRIMARY"
  BY DEF PrimariesOn, OnDisk
<1>2. ASSUME NEW ext, NEW x \in LogicalsOn(d, ext) PROVE x.as = "LOGICAL"
  <2>1. \E s : x = OnDisk(s + d[s].entries[1].start, d[s].entries[1], "LOGICAL")
    BY DEF LogicalsOn
  <2> QED BY <2>1 DEF OnDisk
<1>3. ASSUME NEW x \in TableOn(d), x.as = "PRIMARY" PROVE x \in PrimariesOn(d)
  <2>1. CASE \E i \in ExtendedOn(d) : x \in LogicalsOn(d, d[0].entries[i].start)
    BY <1>2, <1>3, <2>1
  <2> QED BY <2>1 DEF TableOn
<1>4. PrimariesOn(d) \subseteq TableOn(d)
  BY DEF TableOn
<1> QED BY <1>1, <1>3, <1>4 DEF PrimariesIn

LEMMA OnDiskEntry ==
  ASSUME NEW p, NEW as
  PROVE  /\ OnDisk(ToEntry(p).start, ToEntry(p), as) = OnDisk(p.start, p, as)
         /\ ToEntry(p).start = p.start /\ ToEntry(p).len = p.len /\ ToEntry(p).type = p.type
BY DEF OnDisk, ToEntry, Entry

LEMMA PrimariesOfMBR ==
  ASSUME TypeInv, NEW d, d[0] = MBRRecord
  PROVE  PrimariesOn(d) = InFirst(mbr)
<1>1. \A k \in 1..4 : d[0].entries[k] = ToEntry(mbr[k - 1])
  BY MBRRecordType
<1> DEFINE e(k) == d[0].entries[k]
<1>2. ASSUME NEW x \in PrimariesOn(d) PROVE x \in InFirst(mbr)
  <2>1. PICK k \in 1..4 : e(k).len > 0 /\ ~IsExtended(e(k)) /\ x = OnDisk(e(k).start, e(k), "PRIMARY")
    BY DEF PrimariesOn
  <2> DEFINE i == k - 1
  <2>2. i \in 0..3 /\ e(k) = ToEntry(mbr[i])
    BY <1>1
  <2> HIDE DEF i, e
  <2>3. mbr[i].len > 0 /\ mbr[i].type # "ext" /\ x = OnDisk(mbr[i].start, mbr[i], "PRIMARY")
    BY <2>1, <2>2, OnDiskEntry DEF IsExtended
  <2> QED BY <2>2, <2>3 DEF InFirst
<1>3. ASSUME NEW x \in InFirst(mbr) PROVE x \in PrimariesOn(d)
  <2>1. PICK i \in 0..3 : mbr[i].len > 0 /\ mbr[i].type # "ext" /\ x = OnDisk(mbr[i].start, mbr[i], "PRIMARY")
    BY DEF InFirst
  <2> DEFINE k == i + 1
  <2>2. k \in 1..4 /\ k - 1 = i
    OBVIOUS
  <2>3. e(k) = ToEntry(mbr[i])
    BY <1>1, <2>2
  <2> HIDE DEF k
  <2>4. e(k).len > 0 /\ ~IsExtended(e(k)) /\ x = OnDisk(e(k).start, e(k), "PRIMARY")
    <3> HIDE DEF e
    <3> QED BY <2>1, <2>3, OnDiskEntry DEF IsExtended
  <2> QED BY <2>2, <2>4 DEF PrimariesOn
<1> QED BY <1>2, <1>3

\* Other sectors do not matter to the primary partitions.
LEMMA PrimariesOfFirst ==
  ASSUME NEW c, NEW d, c[0] = d[0]
  PROVE  PrimariesOn(c) = PrimariesOn(d)
BY DEF PrimariesOn

-----------------------------------------------------------------------------
(* Beginning a save.                                                       *)

LEMMA BeginWriteSave == ASSUME TypeInv, LoadInv, KindInv, SaveInv, BeginWrite PROVE SaveInv'
<1>0. pc = "menu" /\ mbr \in Tables(Plain) /\ UNCHANGED disk
  BY DEF BeginWrite, LoadInv
<1>1. PICK arranged \in CreateExtended(mbr) :
        \/ /\ arranged.ok /\ pc' = "writeMBR" /\ mbr' = arranged.mbr
           /\ auxSave' = [table |-> TableOf(mbr), before |-> TableOn(disk), plain |-> PlainTable,
                          stale |-> StaleEbrs # {}, kind |-> "begun"]
        \/ pc' = "off" /\ auxSave' = [NothingSaved EXCEPT !.kind = "refused"]
  BY DEF BeginWrite, Stop
<1>2. CASE pc' = "off" /\ auxSave' = [NothingSaved EXCEPT !.kind = "refused"]
  BY <1>2, NothingIsSaved DEF SaveInv, InterruptedSaveKeepsPrimaries
<1>3. CASE /\ arranged.ok /\ pc' = "writeMBR" /\ mbr' = arranged.mbr
           /\ auxSave' = [table |-> TableOf(mbr), before |-> TableOn(disk), plain |-> PlainTable,
                          stale |-> StaleEbrs # {}, kind |-> "begun"]
  <2>1. auxSave'.table = TableOf(mbr) /\ auxSave'.before = TableOn(disk) /\ (auxSave'.plain <=> PlainTable)
    BY <1>3, Zenon
  <2>2. ASSUME auxSave'.plain PROVE Arranged(mbr') /\ InFirst(mbr') = PrimariesIn(auxSave'.table)
    <3>1. PlainArray(mbr)
      BY <2>1, <2>2, PlainTableIs
    <3>2. Arranged(arranged.mbr) /\ InFirst(arranged.mbr) = PrimariesIn(TableOf(mbr))
      BY <1>0, <1>3, <3>1, Arranges
    <3> QED BY <1>3, <2>1, <3>2
  <2>3. PrimariesOn(disk)' = PrimariesIn(auxSave.before)'
    BY <1>0, <2>1, PrimariesOfTable
  <2> QED BY <1>3, <2>2, <2>3 DEF SaveInv
<1> QED BY <1>1, <1>2, <1>3

-----------------------------------------------------------------------------
(* Writing.                                                                *)

LEMMA WriteFailsSave ==
  ASSUME KindInv, WriteFails,
         auxSave.plain => PrimariesOn(disk) \in {PrimariesIn(auxSave.before), PrimariesIn(auxSave.table)}
  PROVE  SaveInv'
<1>1. pc' = "off" /\ auxSave' = [auxSave EXCEPT !.kind = "failed"] /\ UNCHANGED disk
  BY DEF WriteFails, EndWrite, Stop
<1>2. auxSave'.plain = auxSave.plain /\ auxSave'.table = auxSave.table /\ auxSave'.before = auxSave.before
  BY <1>1, SaveFields DEF KindInv
<1>3. auxSave'.plain => PrimariesOn(disk)' \in {PrimariesIn(auxSave'.before), PrimariesIn(auxSave'.table)}
  BY <1>1, <1>2
<1> QED BY <1>1, <1>3 DEF SaveInv, InterruptedSaveKeepsPrimaries

LEMMA DoneSave ==
  ASSUME KindInv, EndWrite("done")
  PROVE  SaveInv'
<1>1. pc' = "off" /\ auxSave'.kind = "done"
  BY SaveFields DEF EndWrite, Stop, KindInv
<1> QED BY <1>1 DEF SaveInv, InterruptedSaveKeepsPrimaries

\* The entries that the writer takes behind the first four are logical.
LEMMA LogicalsBehind ==
  ASSUME NEW m \in Tables(Types), Arranged(m), NEW i \in Slots, i >= 4, m[i].as # "NONE"
  PROVE  i \in Including(m, "LOGICAL")
<1>1. m[i].as \in {"NONE", "PRIMARY", "LOGICAL"}
  BY DEF Tables, Parts
<1> QED BY <1>1 DEF Arranged, Including

LEMMA WriteMBRSave == ASSUME TypeInv, LoadInv, KindInv, SaveInv, WriteMBR PROVE SaveInv'
<1>0. pc = "writeMBR"
  BY DEF WriteMBR
<1>1. CASE WriteFails
  BY <1>0, <1>1, WriteFailsSave DEF SaveInv
<1>2. CASE ~WriteFails /\ ~(ExtendedSlots # {} /\ FindNextInUse(mbr, 4) >= 0)
  BY <1>2, DoneSave DEF WriteMBR
<1>3. CASE ~WriteFails /\ ExtendedSlots # {} /\ FindNextInUse(mbr, 4) >= 0
  <2> DEFINE first == FindNextInUse(mbr, 4)
             ext == mbr[GreatestOf(ExtendedSlots)].start
             at == GreatestOf(ExtendedSlots)
  <2>1. /\ ebr' = [part |-> first, to |-> ext, ext |-> ext] /\ pc' = "writeEBR" /\ UNCHANGED <<mbr, auxSave>>
        /\ disk' = [disk EXCEPT ![0] = MBRRecord]
    BY <1>3 DEF WriteMBR, Store
  <2>2. ebr'.part = first /\ ebr'.to = ext /\ ebr'.ext = ext
    <3> HIDE DEF first, ext
    <3> QED BY <2>1
  <2>3. at \in 0..3 /\ mbr[at].type = "ext" /\ first \in Slots
    BY <1>3, FirstEbr DEF ExtendedSlots
  <2>4. SUFFICES ASSUME auxSave.plain
                 PROVE  /\ PrimariesOn(disk') = PrimariesIn(auxSave.table)
                        /\ Arranged(mbr)
                        /\ first >= 4 /\ ext > 0
                        /\ \A j \in Including(mbr, "LOGICAL") : ext < mbr[j].start
                        /\ \E j \in Including(mbr, "LOGICAL") : ext = mbr[j].start - 1
    <3> HIDE DEF first, ext
    <3> QED BY <2>1, <2>2 DEF SaveInv
  <2>5. Arranged(mbr) /\ InFirst(mbr) = PrimariesIn(auxSave.table)
    BY <1>0, <2>4 DEF SaveInv
  <2>6. PrimariesOn(disk') = PrimariesIn(auxSave.table)
    <3>1. disk'[0] = MBRRecord
      BY <2>1, Sizes DEF TypeInv, Sectors
    <3> QED BY <2>5, <3>1, PrimariesOfMBR
  <2>7. first >= 4 /\ mbr[first].as # "NONE"
    <3>1. mbr \in Tables(Types) /\ 4 \in Nat /\ first # -1
      BY <1>3 DEF TypeInv
    <3> QED BY <3>1, NextInUseType
  <2>8. first \in Including(mbr, "LOGICAL")
    <3> HIDE DEF first
    <3> QED BY <2>3, <2>5, <2>7, LogicalsBehind DEF TypeInv
  <2>9. /\ ext > 0 /\ \A j \in Including(mbr, "LOGICAL") : ext < mbr[j].start
        /\ \E j \in Including(mbr, "LOGICAL") : ext = mbr[j].start - 1
    <3>1. ext = mbr[at].start
      OBVIOUS
    <3> HIDE DEF at, ext, first
    <3> QED BY <2>3, <2>5, <2>8, <3>1 DEF Arranged
  <2> QED BY <2>5, <2>6, <2>7, <2>9
<1> QED BY <1>1, <1>2, <1>3

\* The sector that a link leads to is the one before the next logical partition.
LEMMA LinkLeads ==
  ASSUME NEW ext \in Nat, NEW start \in 0..Max32, ext < start
  PROVE  Low32(Minus64(start, ext + 1)) + ext = start - 1
<1>1. Minus64(start, ext + 1) = start - (ext + 1)
  BY Sizes DEF Minus64
<1>2. start - (ext + 1) \in 0..Max32
  BY Sizes
<1>3. Low32(start - (ext + 1)) = start - (ext + 1)
  BY <1>2, Low32Small
<1> QED BY <1>1, <1>3, Sizes

LEMMA WriteEBRSave == ASSUME TypeInv, LoadInv, KindInv, SaveInv, WriteEBR PROVE SaveInv'
<1>0. pc = "writeEBR"
  BY DEF WriteEBR
<1>1. CASE WriteFails
  BY <1>0, <1>1, WriteFailsSave DEF SaveInv
<1>2. CASE ~WriteFails /\ ~HasNext
  BY <1>2, DoneSave DEF WriteEBR
<1>3. CASE ~WriteFails /\ HasNext
  <2> DEFINE start == mbr[NextLogical].start
             link == LinkTo(mbr[NextLogical])
             to == link.start + ebr.ext
             written == Ebr(FromItsEbr(mbr[ebr.part]), link)
  <2>1. /\ ebr' = [ebr EXCEPT !.part = NextLogical, !.to = to] /\ UNCHANGED <<pc, mbr, auxSave>>
        /\ disk' = [disk EXCEPT ![ebr.to] = written]
    BY <1>3 DEF WriteEBR, Store
  <2>2. /\ NextLogical \in Slots /\ NextLogical > ebr.part /\ mbr[NextLogical].as # "NONE"
        /\ link \in Entries /\ link.start = Low32(Minus64(start, ebr.ext + 1))
    BY <1>3, LinkType
  <2>3. ebr.part \in Nat /\ ebr.to \in Nat /\ ebr.ext \in Nat /\ ebr \in Ebrs /\ start \in 0..Max32 /\ to \in Nat
    <3>1. start \in 0..Max32
      BY <2>2, SlotType
    <3>2. link.start \in Nat
      BY <2>2, Sizes DEF Entries
    <3>3. ebr.part \in Nat /\ ebr.to \in Nat /\ ebr.ext \in Nat /\ ebr \in Ebrs
      BY Sizes DEF TypeInv, Ebrs
    <3> HIDE DEF start, link
    <3>4. to \in Nat
      BY <3>2, <3>3
    <3> QED BY <3>1, <3>3, <3>4
  <2> HIDE DEF start, link, to, written
  <2>4. ebr'.part = NextLogical /\ ebr'.to = to /\ ebr'.ext = ebr.ext
    <3>1. ebr' = [ebr EXCEPT !.part = NextLogical, !.to = to]
      BY <2>1
    <3> QED BY ONLY <2>3, <3>1 DEF Ebrs
  <2>5. SUFFICES ASSUME auxSave.plain
                 PROVE  /\ PrimariesOn(disk') = PrimariesIn(auxSave.table)
                        /\ Arranged(mbr)
                        /\ NextLogical >= 4 /\ ebr.ext > 0
                        /\ \A j \in Including(mbr, "LOGICAL") : ebr.ext < mbr[j].start
                        /\ to > 0 /\ \E j \in Including(mbr, "LOGICAL") : to = mbr[j].start - 1
    BY <1>0, <2>1, <2>4 DEF SaveInv
  <2>6. /\ PrimariesOn(disk) = PrimariesIn(auxSave.table)
        /\ Arranged(mbr)
        /\ ebr.part >= 4 /\ ebr.ext > 0 /\ ebr.to > 0
        /\ \A j \in Including(mbr, "LOGICAL") : ebr.ext < mbr[j].start
    BY <1>0, <2>5 DEF SaveInv
  <2>7. PrimariesOn(disk') = PrimariesOn(disk)
    <3>1. 0 \in Sectors /\ 0 # ebr.to
      BY <2>3, <2>6, Sizes DEF Sectors
    <3>2. disk'[0] = disk[0]
      BY <2>1, <3>1 DEF TypeInv
    <3> QED BY <3>2, PrimariesOfFirst
  <2>8. NextLogical >= 4
    BY <2>2, <2>3, <2>6, Sizes
  <2>9. NextLogical \in Including(mbr, "LOGICAL")
    BY <2>2, <2>6, <2>8, LogicalsBehind DEF TypeInv
  <2>10. ebr.ext < start
    BY <2>6, <2>9 DEF start
  <2>11. to = start - 1 /\ to > 0
    <3>1. to = Low32(Minus64(start, ebr.ext + 1)) + ebr.ext
      BY <2>2 DEF to
    <3>2. to = start - 1
      BY <2>3, <2>10, <3>1, LinkLeads
    <3> QED BY <2>3, <2>6, <2>10, <3>2
  <2> QED BY <2>6, <2>7, <2>8, <2>9, <2>11 DEF start
<1> QED BY <1>1, <1>2, <1>3

LEMMA StepSave == TypeInv /\ LoadInv /\ KindInv /\ SaveInv /\ [Next]_vars => SaveInv'
<1> SUFFICES ASSUME TypeInv, LoadInv, KindInv, SaveInv, [Next]_vars PROVE SaveInv'
  OBVIOUS
<1>1. CASE (\E p \in {"fixparts", "scripted"} : ReadMBR(p)) \/ XFormToMBR
  <2>1. auxSave' = NothingSaved /\ pc' \in {"off", "scan", "menu"}
    BY <1>1, XFormFrame DEF ReadMBR
  <2> QED BY <2>1, NothingIsSaved DEF SaveInv, InterruptedSaveKeepsPrimaries
<1>2. CASE ReadChains \/ EndLoad \/ DoMBR
  <2>1. pc \in {"scan", "walking", "erase"} /\ pc' \in {"scan", "walking", "erase", "menu", "off"} /\ UNCHANGED auxSave
    BY <1>2 DEF ReadChains, BeginChain, ReadEbr, EndChain, EndLoad, Stop, DoMBR
  <2>2. auxSave'.kind = "none"
    BY <2>1 DEF KindInv
  <2> QED BY <2>1, <2>2 DEF SaveInv, InterruptedSaveKeepsPrimaries
<1>3. CASE Menu
  BY <1>3, MenuFrame DEF SaveInv
<1>4. CASE BeginWrite
  BY <1>4, BeginWriteSave
<1>5. CASE WriteMBR
  BY <1>5, WriteMBRSave
<1>6. CASE WriteEBR
  BY <1>6, WriteEBRSave
<1>7. CASE Quit
  <2>1. pc # "off" /\ pc' = "off" /\ UNCHANGED <<disk, auxSave>>
    BY <1>7 DEF Quit, Stop
  <2>2. InterruptedSaveKeepsPrimaries'
    <3>1. auxSave.kind = "none" \/ (auxSave.plain => PrimariesOn(disk) \in {PrimariesIn(auxSave.before), PrimariesIn(auxSave.table)})
      BY <2>1 DEF SaveInv, KindInv, TypeInv
    <3> QED BY <2>1, <3>1 DEF InterruptedSaveKeepsPrimaries
  <2> QED BY <2>1, <2>2 DEF SaveInv
<1>8. CASE UNCHANGED vars
  <2>1. UNCHANGED <<disk, pc, mbr, ebr, auxSave>>
    BY <1>8 DEF vars
  <2> QED BY <2>1 DEF SaveInv, InterruptedSaveKeepsPrimaries
<1> QED BY <1>1, <1>2, <1>3, <1>4, <1>5, <1>6, <1>7, <1>8 DEF Next, Read, Write

LEMMA InitSave == Init => LoadInv /\ KindInv /\ SaveInv
<1> SUFFICES ASSUME Init PROVE LoadInv /\ KindInv /\ SaveInv
  OBVIOUS
<1>1. pc = "off" /\ auxSave = NothingSaved
  BY DEF Init
<1> QED BY <1>1, NothingIsSaved DEF LoadInv, KindInv, SaveInv, InterruptedSaveKeepsPrimaries

LEMMA AlwaysSave == Spec => [](TypeInv /\ LoadInv /\ KindInv /\ SaveInv)
<1>1. Init => TypeInv /\ LoadInv /\ KindInv /\ SaveInv
  BY InitTypes, InitSave
<1>2. TypeInv /\ LoadInv /\ KindInv /\ SaveInv /\ [Next]_vars => (TypeInv /\ LoadInv /\ KindInv /\ SaveInv)'
  BY StepTypes, StepLoad, StepKind, StepSave
<1> QED BY <1>1, <1>2, PTL DEF Spec

LEMMA SaveSuffices == TypeInv /\ KindInv /\ SaveInv => InterruptedSaveKeepsPrimaries
BY DEF TypeInv, KindInv, SaveInv, InterruptedSaveKeepsPrimaries

\* However many partitions there are and wherever they lie, a save of a plain
\* table that fails or is killed leaves an MBR with the primary partitions of the
\* table before or of the new one (CreateExtended(), WriteMBRData()).
THEOREM PrimariesSurvive == Spec => []InterruptedSaveKeepsPrimaries
BY AlwaysSave, SaveSuffices, PTL

-----------------------------------------------------------------------------
(* A save spares the partitions in use.                                    *)

LEMMA WriteMBRSpares ==
  ASSUME TypeInv, SaveInv, WriteMBR, auxSave.plain, NEW s \in Sectors, disk'[s] # disk[s], InUse(s)
  PROVE  FALSE
<1>1. s = 0
  BY DEF WriteMBR, WriteFails, Store, TypeInv
<1>2. Arranged(mbr)
  BY DEF WriteMBR, SaveInv
<1>3. PICK i \in Included(mbr) : mbr[i].type # "ext" /\ Covers(mbr[i], 0)
  BY <1>1 DEF InUse
<1>4. mbr[i].start > 0
  BY <1>2, <1>3 DEF Arranged
<1>5. mbr[i].start \in Nat /\ mbr[i].start <= 0
  BY <1>3, SlotType, Sizes DEF Covers, Included, Including
<1> QED BY <1>4, <1>5

LEMMA WriteEBRSpares ==
  ASSUME TypeInv, SaveInv, WriteEBR, auxSave.plain, NEW s \in Sectors, disk'[s] # disk[s], InUse(s)
  PROVE  FALSE
<1>1. s = ebr.to
  BY DEF WriteEBR, WriteFails, Store, TypeInv
<1>2. Arranged(mbr) /\ \E j \in Including(mbr, "LOGICAL") : ebr.to = mbr[j].start - 1
  BY DEF WriteEBR, SaveInv
<1>3. PICK j \in Including(mbr, "LOGICAL") : s = mbr[j].start - 1
  BY <1>1, <1>2
<1>4. PICK i \in Included(mbr) : mbr[i].type # "ext" /\ Covers(mbr[i], s)
  BY DEF InUse
<1>5. ~Covers(mbr[i], mbr[j].start - 1)
  BY <1>2, <1>4 DEF Arranged
<1> QED BY <1>3, <1>4, <1>5

LEMMA StepSpares ==
  TypeInv /\ SaveInv /\ [Next]_vars =>
    [(pc \in {"writeMBR", "writeEBR"} /\ auxSave.plain) =>
       \A s \in Sectors : disk'[s] # disk[s] => ~InUse(s)]_vars
<1> SUFFICES ASSUME TypeInv, SaveInv, [Next]_vars, pc \in {"writeMBR", "writeEBR"}, auxSave.plain,
                    NEW s \in Sectors, disk'[s] # disk[s], InUse(s)
             PROVE  FALSE
  OBVIOUS
<1>1. CASE WriteMBR
  BY <1>1, WriteMBRSpares
<1>2. CASE WriteEBR
  BY <1>2, WriteEBRSpares
<1>3. CASE Quit \/ UNCHANGED vars
  BY <1>3 DEF Quit, vars
<1>4. CASE Menu
  BY <1>4, MenuFrame
<1>5. CASE Read \/ BeginWrite
  BY <1>5, XFormFrame DEF Read, ReadMBR, ReadChains, BeginChain, ReadEbr, EndChain, EndLoad, DoMBR, BeginWrite
<1> QED BY <1>1, <1>2, <1>3, <1>4, <1>5 DEF Next, Write

\* A save of a plain table never writes to a sector of a partition in use: the
\* EBRs lie in sectors that SpaceBeforeAllLogicals() found free.
THEOREM SaveSparesPartitions == Spec => SavesSparePartitions
<1>1. SavesSparePartitions <=>
        [][(pc \in {"writeMBR", "writeEBR"} /\ auxSave.plain) =>
             \A s \in Sectors : disk'[s] # disk[s] => ~InUse(s)]_vars
  BY DEF SavesSparePartitions
<1>2. TypeInv /\ SaveInv /\ [Next]_vars =>
        [(pc \in {"writeMBR", "writeEBR"} /\ auxSave.plain) =>
           \A s \in Sectors : disk'[s] # disk[s] => ~InUse(s)]_vars
  BY StepSpares
<1> QED BY <1>1, <1>2, AlwaysSave, PTL DEF Spec

-----------------------------------------------------------------------------
(***************************************************************************)
(* What a reader finds who follows the links of the EBRs.                  *)
(***************************************************************************)
\* The EBRs of a chain are the last of a growing series of sets, each of which
\* adds to the one before it what its EBRs link to.
Reaches(d, ext, r) ==
  /\ r[0] = {ext}
  /\ \A k \in 1 .. DiskSize : r[k] = r[k - 1] \union UNION {Links(d, ext, s) : s \in r[k - 1]}
  /\ Chain(d, ext) = {s \in r[DiskSize] : s \in Sectors /\ d[s].holds = "record"}

LEMMA ChainReaches ==
  ASSUME NEW d, NEW ext, NEW U, ext \in U, \A s \in U : Links(d, ext, s) \subseteq U
  PROVE  \E r : r \in [0 .. DiskSize -> SUBSET U] /\ Reaches(d, ext, r)
<1> DEFINE N == DiskSize
           V == SUBSET U
           Onward(R) == R \union UNION {Links(d, ext, s) : s \in R}
           Is(F) == F = [n \in 0 .. N |-> IF n = 0 THEN {ext} ELSE Onward(F[n - 1])]
           g == [x \in (1 .. N) \X V |-> Onward(x[2])]
<1>0. N \in Nat
  BY Sizes
<1>1. {ext} \in V /\ \A R \in V : Onward(R) \in V
  OBVIOUS
<1>2. Chain(d, ext) = {s \in (CHOOSE F : Is(F))[N] : s \in Sectors /\ d[s].holds = "record"}
  BY DEF Chain
<1> HIDE DEF N, V, Onward, Is
<1>3. g \in [(1 .. N) \X V -> V]
  BY <1>1
<1>4. PICK f \in [0 .. N -> V] : LoopsBy(f, N, {ext}, g)
  <2> HIDE DEF g
  <2> QED BY <1>0, <1>1, <1>3, LoopExists
<1>5. Is(f)
  <2>1. ASSUME NEW k \in 0 .. N, k # 0 PROVE g[<<k, f[k - 1]>>] = Onward(f[k - 1])
    <3>1. f[k - 1] \in V /\ k \in 1 .. N
      BY <1>0, <2>1
    <3> QED BY <3>1
  <2>2. f = [k \in 0 .. N |-> IF k = 0 THEN {ext} ELSE g[<<k, f[k - 1]>>]]
    BY <1>4 DEF LoopsBy
  <2> HIDE DEF g
  <2> QED BY <2>1, <2>2 DEF Is
<1> DEFINE r == CHOOSE F : Is(F)
<1>6. Is(r)
  BY <1>5
<1> HIDE DEF r
<1>7. r = [k \in 0 .. N |-> r[k]] /\ r[0] = {ext} /\ \A k \in 1 .. N : r[k] = Onward(r[k - 1])
  <2>1. r = [n \in 0 .. N |-> IF n = 0 THEN {ext} ELSE Onward(r[n - 1])]
    BY <1>6 DEF Is
  <2>2. \A k \in 1 .. N : k \in 0 .. N /\ k # 0
    BY <1>0
  <2>3. 0 \in 0 .. N
    BY <1>0
  <2> HIDE DEF g
  <2> QED BY <2>1, <2>2, <2>3
<1> HIDE DEF g
<1>8. \A k \in 0 .. N : r[k] \in V
  <2>1. r[0] \in V /\ \A k \in 1 .. N : r[k - 1] \in V => r[k] \in V
    BY <1>1, <1>7
  <2> QED BY <1>0, <2>1, LoopStays
<1>9. r \in [0 .. N -> V]
  BY <1>7, <1>8
<1>10. Chain(d, ext) = {s \in r[N] : s \in Sectors /\ d[s].holds = "record"}
  BY <1>2 DEF r
<1> QED BY <1>7, <1>9, <1>10 DEF Reaches, N, V, Onward

\* A set of sectors that no link leaves contains the chain.
LEMMA ChainStays ==
  ASSUME NEW d, NEW ext, NEW U, ext \in U, \A s \in U : Links(d, ext, s) \subseteq U
  PROVE  Chain(d, ext) \subseteq U
<1>1. PICK r : r \in [0 .. DiskSize -> SUBSET U] /\ Reaches(d, ext, r)
  BY ChainReaches
<1>2. DiskSize \in 0 .. DiskSize
  BY Sizes
<1> QED BY <1>1, <1>2 DEF Reaches

\* No chain behind the MBR comes back to it.
LEMMA ChainLeavesMBR ==
  ASSUME NEW d \in [Sectors -> Contents], NEW ext \in Nat, ext > 0
  PROVE  0 \notin Chain(d, ext)
<1> DEFINE U == Nat \ {0}
<1>1. ASSUME NEW s \in U PROVE Links(d, ext, s) \subseteq U
  <2>1. CASE s \notin Sectors
    BY <2>1 DEF Links
  <2>2. CASE s \in Sectors
    <3>1. \A k \in 1 .. 4 : d[s].entries[k].start \in Nat
      BY <2>2, Sizes, ContentsAre DEF Entries
    <3>2. ext + d[s].entries[1].start \in U /\ ext + d[s].entries[2].start \in U
      BY <3>1
    <3> QED BY <3>2 DEF Links
  <2> QED BY <2>1, <2>2
<1>2. Chain(d, ext) \subseteq U
  <2>1. ext \in U
    OBVIOUS
  <2> HIDE DEF U
  <2> QED BY <1>1, <2>1, ChainStays
<1> QED BY <1>2

-----------------------------------------------------------------------------
(***************************************************************************)
(* What the writer of the chain relies on.  The logical partitions lie     *)
(* behind the first four entries, in the order of their starts, and there  *)
(* is one extended partition, if there are any of them.                    *)
(***************************************************************************)
InLine(m) ==
  /\ \A i \in Including(m, "LOGICAL") : /\ i >= 4 /\ m[i].len > 0 /\ m[i].type # "ext"
                                        /\ m[i].start > 1 /\ m[i].start <= DiskSize
  /\ \A i, j \in Including(m, "LOGICAL") : i < j => m[i].start < m[j].start
  /\ \A i, j \in 0 .. 3 : m[i].type = "ext" /\ m[j].type = "ext" => i = j
  /\ Including(m, "LOGICAL") # {} <=> \E i \in 0 .. 3 : m[i].type = "ext"

\* The logical partitions as their EBRs show them.
InEbrs(m) == {OnDisk(m[i].start, m[i], "LOGICAL") : i \in Including(m, "LOGICAL")}

LEMMA NumLogicalsIs == ASSUME NEW m PROVE NumLogicals(m) = 0 <=> Including(m, "LOGICAL") = {}
<1>1. IsFiniteSet(Including(m, "LOGICAL"))
  BY CountType DEF Including
<1> QED BY <1>1, FS_EmptySet DEF NumLogicals

LEMMA LegalLogical ==
  ASSUME NEW m \in Tables(Plain), IsLegal(m), PlainArray(m), NEW k \in Including(m, "LOGICAL")
  PROVE  /\ k \in Slots /\ m[k].as = "LOGICAL" /\ m[k].len > 0 /\ m[k].start > 1 /\ m[k].start <= DiskSize
         /\ m[k].start \in Nat /\ m[k].len \in Nat
         /\ OnDisk(m[k].start, m[k], "LOGICAL") \in LogicalsIn(TableOf(m))
<1>1. k \in Slots /\ m[k].as = "LOGICAL" /\ k \in Included(m)
  BY DEF Including, Included
<1>2. m[k].start \in Nat /\ m[k].len \in Nat
  BY <1>1, Sizes DEF Tables, Parts
<1>3. m[k].len > 0 /\ m[k].start > 1
  BY <1>1, <1>2 DEF PlainArray
<1>4. m[k].start <= DiskSize
  BY <1>1 DEF IsLegal, DoTheyFit
<1>5. OnDisk(m[k].start, m[k], m[k].as) \in TableOf(m)
  BY <1>1, <1>3 DEF TableOf
<1>6. OnDisk(m[k].start, m[k], "LOGICAL").as = "LOGICAL"
  BY DEF OnDisk
<1> QED BY <1>1, <1>2, <1>3, <1>4, <1>5, <1>6 DEF LogicalsIn

\* Two partitions of a legal array do not begin in the same sector.
LEMMA LegalApart ==
  ASSUME NEW m \in Tables(Plain), IsLegal(m), NEW k \in Included(m), NEW l \in Included(m), k # l,
         m[k].len > 0, m[l].len > 0
  PROVE  m[k].start # m[l].start
<1>1. /\ k \in Slots /\ l \in Slots /\ k \in Nat /\ l \in Nat
      /\ m[k].as # "NONE" /\ m[l].as # "NONE"
  BY Sizes DEF Included, Including
<1>2. ~Overlap(m[k], m[l]) \/ ~Overlap(m[l], m[k])
  <2>1. k < l \/ l < k
    BY <1>1
  <2> QED BY <1>1, <2>1 DEF IsLegal, NoOverlaps
<1>3. m[k].start \in Nat /\ m[k].len \in Nat /\ m[l].start \in Nat /\ m[l].len \in Nat
  BY <1>1, Sizes DEF Tables, Parts
<1>4. SUFFICES ASSUME m[k].start = m[l].start PROVE Overlap(m[k], m[l]) /\ Overlap(m[l], m[k])
  BY <1>2
<1>5. LastLBA(m[k]) = m[k].start + m[k].len - 1 /\ LastLBA(m[l]) = m[l].start + m[l].len - 1
  BY DEF LastLBA
<1> QED BY <1>3, <1>4, <1>5 DEF Overlap

LEMMA LinesUp ==
  ASSUME NEW m \in Tables(Plain), PlainArray(m), NEW x \in CreateExtended(m), x.ok
  PROVE  InLine(x.mbr) /\ InEbrs(x.mbr) = LogicalsIn(TableOf(m))
<1> DEFINE moved == MovePrimariesToFirstFour(RemoveLogicalsFromFirstFour(m))
<1>1. CreateExtended(m) = IF ~IsLegal(m) THEN {[mbr |-> m, ok |-> FALSE]}
                          ELSE IF NumLogicals(moved) = 0 THEN {[mbr |-> moved, ok |-> TRUE]}
                          ELSE {WithExtended(sorted) : sorted \in SortMBR(moved, 4)}
  BY DEF CreateExtended
<1>2. IsLegal(m)
  <2>1. ~IsLegal(m) => ~x.ok
    <3> HIDE DEF moved
    <3> QED BY <1>1
  <2> QED BY <2>1
<1>3. /\ moved \in Tables(Plain) /\ Permutes(moved, m) /\ Misplaced(moved) = {}
      /\ \A i \in 4 .. MaxParts - 1 : moved[i].as # "PRIMARY"
  BY <1>2, Moves
<1> HIDE DEF moved
<1>4. PICK p : PermutesBy(moved, m, p)
  BY <1>3 DEF Permutes
<1>5. /\ \A i \in Slots : p[i] \in Slots /\ moved[i] = m[p[i]]
      /\ \A i, j \in Slots : p[i] = p[j] => i = j
      /\ \A k \in Slots : \E i \in Slots : p[i] = k
  BY <1>4 DEF PermutesBy
<1>6. \A k \in Including(m, "LOGICAL") :
        /\ k \in Slots /\ m[k].as = "LOGICAL" /\ m[k].len > 0 /\ m[k].start > 1 /\ m[k].start <= DiskSize
        /\ m[k].start \in Nat /\ m[k].len \in Nat
        /\ OnDisk(m[k].start, m[k], "LOGICAL") \in LogicalsIn(TableOf(m))
  BY <1>2, LegalLogical
\* The logical partitions of the two arrays are the same ones, the moved ones
\* behind the first four entries.
<1>7. ASSUME NEW i \in Including(moved, "LOGICAL")
      PROVE  i \in Slots /\ p[i] \in Including(m, "LOGICAL") /\ moved[i] = m[p[i]] /\ i >= 4
  <2>1. i \in Slots /\ moved[i].as = "LOGICAL"
    BY DEF Including
  <2>2. p[i] \in Including(m, "LOGICAL") /\ moved[i] = m[p[i]]
    BY <1>5, <2>1 DEF Including
  <2>3. moved[i].len > 0
    BY <1>6, <2>2
  <2>4. i \notin 0 .. 3
    BY <1>3, <2>1, <2>3 DEF Misplaced
  <2> QED BY <2>1, <2>2, <2>4, Sizes
<1>8. ASSUME NEW z \in LogicalsIn(TableOf(m))
      PROVE  \E i \in Including(moved, "LOGICAL") : z = OnDisk(moved[i].start, moved[i], "LOGICAL")
  <2>1. PICK k \in Included(m) : z = OnDisk(m[k].start, m[k], m[k].as)
    BY DEF LogicalsIn, TableOf
  <2>2. z.as = "LOGICAL" /\ z.as = m[k].as /\ k \in Slots
    BY <2>1 DEF LogicalsIn, OnDisk, Included, Including
  <2>3. PICK i \in Slots : p[i] = k
    BY <1>5, <2>2
  <2>4. moved[i] = m[k] /\ i \in Including(moved, "LOGICAL")
    BY <1>5, <2>2, <2>3 DEF Including
  <2> QED BY <2>1, <2>2, <2>4
<1>9. CASE NumLogicals(moved) = 0 /\ x = [mbr |-> moved, ok |-> TRUE]
  <2>1. Including(moved, "LOGICAL") = {}
    BY <1>9, NumLogicalsIs
  <2>2. InEbrs(moved) = {} /\ LogicalsIn(TableOf(m)) = {}
    BY <1>8, <2>1 DEF InEbrs
  <2>3. \A i \in 0 .. 3 : moved[i].type # "ext"
    BY <1>3, PlainTables, Sizes
  <2>4. InLine(moved)
    BY <2>1, <2>3 DEF InLine
  <2> QED BY <1>9, <2>2, <2>4
<1>10. ASSUME NEW sorted \in SortMBR(moved, 4), NumLogicals(moved) # 0, x = WithExtended(sorted)
       PROVE  InLine(x.mbr) /\ InEbrs(x.mbr) = LogicalsIn(TableOf(m))
  <2>0. BlankNowhere(moved)
    BY <1>5 DEF PlainArray, BlankNowhere
  <2>1. /\ sorted \in Tables(Plain)
        /\ \A i \in Slots : i < 4 => sorted[i] = moved[i]
        /\ \A i \in Slots : i >= 4 => \E k \in Slots : k >= 4 /\ sorted[i] = moved[k]
    <3>1. 4 \in {0, 4}
      OBVIOUS
    <3> QED BY <1>3, <3>1, SortType
  <2>2. /\ \A i, j \in Slots : 4 <= i /\ i < j /\ sorted[i].len > 0 /\ sorted[j].len > 0 =>
             /\ sorted[i].start <= sorted[j].start
             /\ \E k, l \in Slots : 4 <= k /\ 4 <= l /\ k # l /\ sorted[i] = moved[k] /\ sorted[j] = moved[l]
        /\ \A k \in Slots : 4 <= k => \E i \in Slots : 4 <= i /\ sorted[i] = moved[k]
    <3>1. 4 \in {0, 4}
      OBVIOUS
    <3> QED BY <1>3, <2>0, <3>1, SortOrders
  <2>3. PICK j \in 0 .. 3 : /\ sorted[j].as = "NONE" \/ sorted[j].len = 0
                            /\ x.mbr = [sorted EXCEPT ![j] = ExtendedFor(sorted)]
    <3>1. sorted \in Tables(Types)
      BY <2>1, PlainTables
    <3> QED BY <1>10, <3>1, WithExtendedType, PlainTypes
  <2> DEFINE y == [sorted EXCEPT ![j] = ExtendedFor(sorted)]
  <2>4. j \in Slots /\ y[j] = ExtendedFor(sorted) /\ \A i \in Slots : i # j => y[i] = sorted[i]
    BY <2>1, <2>3, Sizes DEF Tables
  <2>5. ExtendedFor(sorted).as = "PRIMARY" /\ ExtendedFor(sorted).type = "ext"
    BY DEF ExtendedFor, MkPart
  <2> HIDE DEF y
  \* An entry of y is one of m.
  <2>6. ASSUME NEW i \in Including(y, "LOGICAL")
        PROVE  /\ i \in Slots /\ i >= 4 /\ y[i] = sorted[i]
               /\ \E k \in Including(moved, "LOGICAL") : y[i] = moved[k]
    <3>1. i \in Slots /\ y[i].as = "LOGICAL" /\ i # j
      BY <2>4, <2>5 DEF Including
    <3>2. y[i] = sorted[i]
      BY <2>4, <3>1
    <3>3. CASE i >= 4
      <4>1. PICK k \in Slots : k >= 4 /\ sorted[i] = moved[k]
        BY <2>1, <3>1, <3>3
      <4> QED BY <3>1, <3>2, <3>3, <4>1 DEF Including
    <3>4. CASE i < 4
      <4>1. sorted[i] = moved[i] /\ i \in Including(moved, "LOGICAL")
        BY <2>1, <3>1, <3>2, <3>4 DEF Including
      <4>2. i >= 4
        BY <1>7, <4>1
      <4> QED BY <3>1, <3>4, <4>2, Sizes
    <3> QED BY <3>1, <3>3, <3>4, Sizes
  <2>7. ASSUME NEW k \in Including(moved, "LOGICAL")
        PROVE  \E i \in Including(y, "LOGICAL") : y[i] = moved[k]
    <3>1. k \in Slots /\ 4 <= k /\ moved[k].as = "LOGICAL"
      BY <1>7, Sizes DEF Including
    <3>2. PICK i \in Slots : 4 <= i /\ sorted[i] = moved[k]
      BY <2>2, <3>1
    <3>3. i # j
      BY <3>2, Sizes
    <3> QED BY <2>4, <3>1, <3>2, <3>3 DEF Including
  <2>8. ASSUME NEW i \in Including(y, "LOGICAL")
        PROVE  /\ i >= 4 /\ y[i].len > 0 /\ y[i].type # "ext" /\ y[i].start > 1 /\ y[i].start <= DiskSize
               /\ OnDisk(y[i].start, y[i], "LOGICAL") \in LogicalsIn(TableOf(m))
    <3>1. i >= 4 /\ \E k \in Including(moved, "LOGICAL") : y[i] = moved[k]
      BY <2>6
    <3>2. PICK k \in Including(moved, "LOGICAL") : y[i] = moved[k]
      BY <3>1
    <3>3. p[k] \in Including(m, "LOGICAL") /\ moved[k] = m[p[k]]
      BY <1>7
    <3>4. m[p[k]].type # "ext"
      BY <3>3, PlainTables DEF Including
    <3> QED BY <1>6, <3>1, <3>2, <3>3, <3>4
  <2>9. ASSUME NEW a \in Including(y, "LOGICAL"), NEW b \in Including(y, "LOGICAL"), a < b
        PROVE  y[a].start < y[b].start
    <3>1. /\ a \in Slots /\ a >= 4 /\ y[a] = sorted[a] /\ y[a].len > 0
          /\ b \in Slots /\ b >= 4 /\ y[b] = sorted[b] /\ y[b].len > 0
          /\ y[a].as = "LOGICAL" /\ y[b].as = "LOGICAL"
      BY <2>6, <2>8 DEF Including
    <3>2. 4 <= a /\ sorted[a].len > 0 /\ sorted[b].len > 0
      BY <3>1, Sizes
    <3>3. /\ y[a].start <= y[b].start
          /\ \E k, l \in Slots : k # l /\ sorted[a] = moved[k] /\ sorted[b] = moved[l]
      BY <2>2, <2>9, <3>1, <3>2
    <3>4. PICK k \in Slots, l \in Slots : k # l /\ y[a] = moved[k] /\ y[b] = moved[l]
      BY <3>1, <3>3
    <3>5. k \in Including(moved, "LOGICAL") /\ l \in Including(moved, "LOGICAL")
      BY <3>1, <3>4 DEF Including
    <3>6. /\ p[k] # p[l] /\ p[k] \in Including(m, "LOGICAL") /\ p[l] \in Including(m, "LOGICAL")
          /\ y[a] = m[p[k]] /\ y[b] = m[p[l]]
      BY <1>5, <1>7, <3>4, <3>5
    <3>7. p[k] \in Included(m) /\ p[l] \in Included(m)
      BY <3>6 DEF Included
    <3>8. y[a].start # y[b].start
      BY <1>2, <3>1, <3>6, <3>7, LegalApart
    <3>9. y[a].start \in Nat /\ y[b].start \in Nat
      BY <1>6, <3>6
    <3> QED BY <3>3, <3>8, <3>9
  <2>10. \A i \in 0 .. 3 : y[i].type = "ext" => i = j
    <3>1. ASSUME NEW i \in 0 .. 3, i # j PROVE y[i].type # "ext"
      <4>1. i \in Slots /\ y[i] = sorted[i]
        BY <2>4, <3>1, Sizes
      <4> QED BY <2>1, <4>1, PlainTables
    <3> QED BY <3>1
  <2>11. Including(y, "LOGICAL") # {}
    <3>1. Including(moved, "LOGICAL") # {}
      BY <1>10, NumLogicalsIs
    <3> QED BY <2>7, <3>1
  <2>12. InLine(y)
    BY <2>3, <2>4, <2>5, <2>8, <2>9, <2>10, <2>11 DEF InLine
  <2>13. InEbrs(y) \subseteq LogicalsIn(TableOf(m))
    BY <2>8 DEF InEbrs
  <2>14. ASSUME NEW z \in LogicalsIn(TableOf(m)) PROVE z \in InEbrs(y)
    <3>1. PICK k \in Including(moved, "LOGICAL") : z = OnDisk(moved[k].start, moved[k], "LOGICAL")
      BY <1>8
    <3>2. PICK i \in Including(y, "LOGICAL") : y[i] = moved[k]
      BY <2>7
    <3> QED BY <3>1, <3>2 DEF InEbrs
  <2> QED BY <2>3, <2>12, <2>13, <2>14 DEF y
<1>11. \/ NumLogicals(moved) = 0 /\ x = [mbr |-> moved, ok |-> TRUE]
       \/ NumLogicals(moved) # 0 /\ \E sorted \in SortMBR(moved, 4) : x = WithExtended(sorted)
  BY <1>1, <1>2
<1> QED BY <1>9, <1>10, <1>11

-----------------------------------------------------------------------------
(***************************************************************************)
(* Reading back a chain that has been written.                             *)
(***************************************************************************)
\* The EBR that the writer puts in front of a logical partition.
EbrOf(m, ext, i) ==
  LET next == FindNextInUse(m, i + 1)
  IN  Ebr(FromItsEbr(m[i]), IF next > 0 /\ m[next].start > 0
                            THEN Entry(Low32(Minus64(m[next].start, ext + 1)), Low32(m[next].len + 1), "ext")
                            ELSE NoEntry)

LEMMA LineType ==
  ASSUME NEW m \in Tables(Types), InLine(m), NEW i \in Including(m, "LOGICAL")
  PROVE  /\ i \in Slots /\ i \in Nat /\ i >= 4 /\ m[i].as = "LOGICAL"
         /\ m[i].start \in 0 .. Max32 /\ m[i].len \in 0 .. Max32 /\ m[i].len > 0 /\ m[i].type # "ext"
         /\ m[i].start - 1 \in Sectors /\ m[i].start - 1 > 0
<1>1. i \in Slots /\ i \in Nat /\ m[i].as = "LOGICAL"
  BY Sizes DEF Including
<1>2. m[i].start \in 0 .. Max32 /\ m[i].len \in 0 .. Max32
  BY <1>1 DEF Tables, Parts
<1>3. i >= 4 /\ m[i].len > 0 /\ m[i].type # "ext" /\ m[i].start > 1 /\ m[i].start <= DiskSize
  BY DEF InLine
<1>4. m[i].start - 1 \in Sectors /\ m[i].start - 1 > 0
  BY <1>2, <1>3, Sizes DEF Sectors
<1> QED BY <1>1, <1>2, <1>3, <1>4

\* The next entry in use is the next logical partition.
LEMMA NextInLine ==
  ASSUME NEW m \in Tables(Types), Arranged(m), NEW from \in Nat, from >= 4
  PROVE  \/ /\ FindNextInUse(m, from) = -1
            /\ \A i \in Including(m, "LOGICAL") : i < from
         \/ /\ FindNextInUse(m, from) \in Including(m, "LOGICAL") /\ FindNextInUse(m, from) >= from
            /\ \A i \in Including(m, "LOGICAL") : i >= from => FindNextInUse(m, from) <= i
<1> DEFINE inUse == {i \in Slots : i >= from /\ m[i].as # "NONE"}
<1>1. FindNextInUse(m, from) = IF inUse = {} THEN -1 ELSE LeastOf(inUse)
  BY DEF FindNextInUse
<1>2. \A i \in Including(m, "LOGICAL") : i \in Slots /\ i \in Nat /\ (i >= from => i \in inUse)
  BY Sizes DEF Including
<1>3. \A i \in inUse : i \in Including(m, "LOGICAL") /\ i >= from
  <2>1. ASSUME NEW i \in inUse PROVE i \in Slots /\ i >= 4 /\ m[i].as # "NONE" /\ i >= from
    BY Sizes
  <2> QED BY <2>1, LogicalsBehind
<1>4. inUse \subseteq Nat
  BY Sizes
<1>5. inUse # {} => LeastOf(inUse) \in inUse /\ \A y \in inUse : LeastOf(inUse) <= y
  <2> HIDE DEF inUse
  <2> QED BY <1>4, LeastIn
<1> HIDE DEF inUse
<1>6. CASE inUse = {}
  BY <1>1, <1>2, <1>6
<1>7. CASE inUse # {}
  BY <1>1, <1>2, <1>3, <1>5, <1>7
<1> QED BY <1>6, <1>7

\* The chain of a table whose EBRs are all written, from that of its first
\* logical partition on.
Written(m, d, ext) ==
  /\ m \in Tables(Types) /\ Arranged(m) /\ InLine(m)
  /\ \E first \in Including(m, "LOGICAL") :
       /\ \A i \in Including(m, "LOGICAL") : first <= i
       /\ ext = m[first].start - 1
  /\ \A i \in Including(m, "LOGICAL") : d[m[i].start - 1] = EbrOf(m, ext, i)

LEMMA EbrFields ==
  ASSUME NEW x, NEW y
  PROVE  Ebr(x, y).holds = "record" /\ Ebr(x, y).entries[1] = x /\ Ebr(x, y).entries[2] = y
BY DEF Ebr, Record

\* Each EBR shows its partition and leads to the EBR of the next one.
LEMMA WrittenLinks ==
  ASSUME NEW m, NEW d, NEW ext, Written(m, d, ext), NEW i \in Including(m, "LOGICAL")
  PROVE  /\ d[m[i].start - 1].holds = "record"
         /\ d[m[i].start - 1].entries[1] = Entry(1, m[i].len, m[i].type)
         /\ \/ /\ \A k \in Including(m, "LOGICAL") : k <= i
               /\ Links(d, ext, m[i].start - 1) = {}
            \/ \E n \in Including(m, "LOGICAL") :
                 /\ i < n /\ \A k \in Including(m, "LOGICAL") : i < k => n <= k
                 /\ Links(d, ext, m[i].start - 1) = {m[n].start - 1}
<1>0. m \in Tables(Types) /\ Arranged(m) /\ InLine(m)
  BY DEF Written
<1>1. \A k \in Including(m, "LOGICAL") :
        /\ k \in Slots /\ k \in Nat /\ k >= 4
        /\ m[k].start \in 0 .. Max32 /\ m[k].type # "ext"
        /\ m[k].start - 1 \in Sectors /\ m[k].start - 1 > 0
  BY <1>0, LineType
<1> DEFINE s == m[i].start - 1
           from == i + 1
           next == FindNextInUse(m, from)
           link == IF next > 0 /\ m[next].start > 0
                   THEN Entry(Low32(Minus64(m[next].start, ext + 1)), Low32(m[next].len + 1), "ext")
                   ELSE NoEntry
<1>2. d[s] = Ebr(FromItsEbr(m[i]), link)
  BY DEF Written, EbrOf
<1>3. from \in Nat /\ from >= 4
  BY <1>1
<1> HIDE DEF link
<1>4. /\ d[s].holds = "record" /\ d[s].entries[1] = Entry(1, m[i].len, m[i].type) /\ d[s].entries[2] = link
      /\ s \in Sectors
  <2> HIDE DEF s
  <2>1. d[s].holds = "record" /\ d[s].entries[1] = FromItsEbr(m[i]) /\ d[s].entries[2] = link
    BY <1>2, EbrFields
  <2> QED BY <1>1, <2>1 DEF FromItsEbr, s
<1>5. ~IsExtended(d[s].entries[1])
  BY <1>1, <1>4 DEF IsExtended, Entry
<1>6. Links(d, ext, s) = IF link.start # 0 THEN {ext + link.start} ELSE {}
  <2> HIDE DEF s
  <2> QED BY <1>4, <1>5 DEF Links
<1>7. CASE next = -1 /\ \A k \in Including(m, "LOGICAL") : k < from
  <2>1. link = NoEntry
    BY <1>7 DEF link
  <2>2. link.start = 0
    BY <2>1 DEF NoEntry, Entry
  <2>3. \A k \in Including(m, "LOGICAL") : k <= i
    BY <1>1, <1>7
  <2> QED BY <1>4, <1>6, <2>2, <2>3
<1>8. CASE /\ next \in Including(m, "LOGICAL") /\ next >= from
           /\ \A k \in Including(m, "LOGICAL") : k >= from => next <= k
  <2>1. PICK first \in Including(m, "LOGICAL") : first <= i /\ ext = m[first].start - 1
    BY DEF Written
  <2>2. first < next /\ i < next /\ next > 0
    BY <1>1, <1>3, <1>8, <2>1
  <2>3. m[first].start < m[next].start
    BY <1>0, <1>8, <2>1, <2>2 DEF InLine
  <2> DEFINE start == m[next].start
  <2>4. start \in 0 .. Max32 /\ ext \in Nat /\ ext < start /\ ext + 1 < start /\ start > 0
    <3>1. m[first].start \in 0 .. Max32 /\ start \in 0 .. Max32 /\ m[first].start - 1 > 0
      BY <1>1, <1>8, <2>1
    <3> QED BY <2>1, <2>3, <3>1, Sizes
  <2>5. link = Entry(Low32(Minus64(start, ext + 1)), Low32(m[next].len + 1), "ext")
    BY <2>2, <2>4 DEF link
  <2>6. link.start = Low32(Minus64(start, ext + 1))
    BY <2>5 DEF Entry
  <2> HIDE DEF start
  <2>7. link.start + ext = start - 1
    BY <2>4, <2>6, LinkLeads
  <2>8. link.start \in Int
    <3>1. Minus64(start, ext + 1) \in Int
      BY <2>4, Minus64Type, Sizes
    <3> QED BY <2>6, <3>1, Low32Type, Sizes
  <2>9. link.start # 0 /\ ext + link.start = start - 1
    BY <2>4, <2>7, <2>8, Sizes
  <2>10. Links(d, ext, s) = {m[next].start - 1}
    BY <1>6, <2>9 DEF start
  <2>11. \A k \in Including(m, "LOGICAL") : i < k => next <= k
    BY <1>1, <1>8
  <2> HIDE DEF next, s
  <2> QED BY <1>4, <1>8, <2>2, <2>10, <2>11 DEF s
<1>9. \/ /\ next = -1
         /\ \A k \in Including(m, "LOGICAL") : k < from
      \/ /\ next \in Including(m, "LOGICAL") /\ next >= from
         /\ \A k \in Including(m, "LOGICAL") : k >= from => next <= k
  <2> HIDE DEF from
  <2> QED BY <1>0, <1>3, NextInLine
<1> QED BY <1>7, <1>8, <1>9

\* A reader who follows the links reaches every EBR of the chain and no other
\* sector; one more sector is within reach with every link.
LEMMA WrittenChain ==
  ASSUME NEW m, NEW d, NEW ext, Written(m, d, ext)
  PROVE  Chain(d, ext) = {m[i].start - 1 : i \in Including(m, "LOGICAL")}
<1> DEFINE L == Including(m, "LOGICAL")
           U == {m[i].start - 1 : i \in L}
<1>0. m \in Tables(Types) /\ Arranged(m) /\ InLine(m)
  BY DEF Written
<1>1. PICK first \in L : (\A i \in L : first <= i) /\ ext = m[first].start - 1
  BY DEF Written
<1>2. \A i \in L : /\ i \in Nat /\ m[i].start \in 0 .. Max32
                   /\ m[i].start - 1 \in Sectors /\ m[i].start - 1 > 0
  BY <1>0, LineType
<1>3. ASSUME NEW i \in L
      PROVE  /\ d[m[i].start - 1].holds = "record"
             /\ \/ /\ \A k \in L : k <= i
                   /\ Links(d, ext, m[i].start - 1) = {}
                \/ \E n \in L : /\ i < n /\ \A k \in L : i < k => n <= k
                                /\ Links(d, ext, m[i].start - 1) = {m[n].start - 1}
  BY WrittenLinks
<1>4. \A i, j \in L : i < j => m[i].start < m[j].start
  BY <1>0 DEF InLine
<1> HIDE DEF L
<1>5. ext \in U
  BY <1>1
<1>6. \A s \in U : Links(d, ext, s) \subseteq U
  <2>1. ASSUME NEW i \in L PROVE Links(d, ext, m[i].start - 1) \subseteq U
    BY <1>3
  <2> QED BY <2>1
<1>7. PICK r : r \in [0 .. DiskSize -> SUBSET U] /\ Reaches(d, ext, r)
  <2> HIDE DEF U
  <2> QED BY <1>5, <1>6, ChainReaches
<1>8. /\ r[0] = {ext}
      /\ \A k \in 1 .. DiskSize : r[k] = r[k - 1] \union UNION {Links(d, ext, s) : s \in r[k - 1]}
      /\ Chain(d, ext) = {s \in r[DiskSize] : s \in Sectors /\ d[s].holds = "record"}
  BY <1>7 DEF Reaches
\* After n links every EBR up to n sectors behind the first one is reached.
<1> DEFINE S == {n \in 0 .. DiskSize : \A i \in L : m[i].start - 1 <= ext + n => m[i].start - 1 \in r[n]}
<1>9. 0 \in S
  <2>1. ASSUME NEW i \in L, m[i].start - 1 <= ext + 0 PROVE m[i].start - 1 = ext
    <3>1. i # first => m[first].start < m[i].start
      BY <1>1, <1>2, <1>4
    <3> QED BY <1>1, <1>2, <2>1, <3>1, Sizes
  <2> QED BY <1>8, <2>1, Sizes
<1>10. ASSUME NEW n \in 0 .. DiskSize - 1, n \in S PROVE n + 1 \in S
  <2>1. n + 1 \in 1 .. DiskSize /\ n + 1 \in 0 .. DiskSize /\ (n + 1) - 1 = n /\ n \in Nat
    BY Sizes
  <2>2. r[n + 1] = r[n] \union UNION {Links(d, ext, s) : s \in r[n]}
    BY <1>8, <2>1
  <2>3. ASSUME NEW i \in L, m[i].start - 1 <= ext + (n + 1) PROVE m[i].start - 1 \in r[n + 1]
    <3>1. CASE m[i].start - 1 <= ext + n
      BY <1>10, <2>2, <3>1
    <3>2. CASE ~(m[i].start - 1 <= ext + n)
      <4> DEFINE P == {k \in L : k < i}
      <4>1. first \in P
        <5>1. first # i
          BY <1>1, <1>2, <2>1, <3>2, Sizes
        <5> QED BY <1>1, <1>2, <5>1
      <4>2. PICK p \in P : \A k \in P : p >= k
        <5>1. P \subseteq 0 .. i /\ i \in Nat
          BY <1>2
        <5> HIDE DEF P
        <5> QED BY <4>1, <5>1, GreatestIn
      <4>3. p \in L /\ p < i /\ \A k \in L : p < k => i <= k
        BY <1>2, <4>2
      <4>4. m[p].start - 1 <= ext + n
        <5>1. m[p].start < m[i].start
          BY <1>4, <4>3
        <5>2. m[p].start \in Nat /\ m[i].start \in Nat /\ ext \in Int
          BY <1>1, <1>2, <4>3, Sizes
        <5> QED BY <2>1, <2>3, <5>1, <5>2
      <4>5. m[p].start - 1 \in r[n]
        BY <1>10, <4>3, <4>4
      <4>6. Links(d, ext, m[p].start - 1) = {m[i].start - 1}
        <5>1. ~(\A k \in L : k <= p)
          BY <1>2, <4>3
        <5>2. PICK q \in L : /\ p < q /\ \A k \in L : p < k => q <= k
                             /\ Links(d, ext, m[p].start - 1) = {m[q].start - 1}
          BY <1>3, <4>3, <5>1
        <5>3. q = i
          BY <1>2, <4>3, <5>2
        <5> QED BY <5>2, <5>3
      <4> QED BY <2>2, <4>5, <4>6
    <3> QED BY <3>1, <3>2
  <2> QED BY <2>1, <2>3
<1>11. DiskSize \in S
  <2>1. DiskSize \in Nat
    BY Sizes
  <2> HIDE DEF S
  <2>2. 0 .. DiskSize \subseteq S
    BY <1>9, <1>10, <2>1, BoundedInduction
  <2> QED BY <2>1, <2>2
<1>12. ASSUME NEW i \in L PROVE m[i].start - 1 \in Chain(d, ext)
  <2>1. m[i].start - 1 <= ext + DiskSize
    BY <1>1, <1>2, Sizes DEF Sectors
  <2>2. m[i].start - 1 \in r[DiskSize]
    BY <1>11, <2>1
  <2> QED BY <1>2, <1>3, <1>8, <2>2
<1>13. Chain(d, ext) \subseteq U
  <2> HIDE DEF U
  <2>1. DiskSize \in 0 .. DiskSize
    BY Sizes
  <2> QED BY <1>7, <1>8, <2>1
<1> QED BY <1>12, <1>13 DEF L

\* ... and finds the logical partitions of the table.
LEMMA WrittenLogicals ==
  ASSUME NEW m, NEW d, NEW ext, Written(m, d, ext)
  PROVE  LogicalsOn(d, ext) = InEbrs(m)
<1> DEFINE L == Including(m, "LOGICAL")
           C == Chain(d, ext)
           Shows(t) == d[t].entries[1].len > 0 /\ ~IsExtended(d[t].entries[1])
           At(s) == OnDisk(s + d[s].entries[1].start, d[s].entries[1], "LOGICAL")
<1>1. C = {m[i].start - 1 : i \in L}
  BY WrittenChain
<1>2. ASSUME NEW i \in L
      PROVE  Shows(m[i].start - 1) /\ At(m[i].start - 1) = OnDisk(m[i].start, m[i], "LOGICAL")
  <2>1. m[i].start \in Nat /\ m[i].len > 0 /\ m[i].type # "ext"
    BY LineType, Sizes DEF Written
  <2> DEFINE s == m[i].start - 1
             e == Entry(1, m[i].len, m[i].type)
  <2>2. d[s].entries[1] = e
    BY WrittenLinks
  <2>3. e.start = 1 /\ e.len = m[i].len /\ e.type = m[i].type
    BY DEF Entry
  <2>4. s + 1 = m[i].start
    BY <2>1
  <2> HIDE DEF s, e
  <2>5. Shows(s)
    BY <2>1, <2>2, <2>3 DEF IsExtended
  <2>6. At(s) = OnDisk(m[i].start, m[i], "LOGICAL")
    BY <2>2, <2>3, <2>4 DEF OnDisk
  <2> QED BY <2>5, <2>6 DEF s
<1>3. LogicalsOn(d, ext) = {At(s) : s \in {t \in C : Shows(t)}}
  BY DEF LogicalsOn
<1>4. InEbrs(m) = {OnDisk(m[i].start, m[i], "LOGICAL") : i \in L}
  BY DEF InEbrs
<1> HIDE DEF L, C, Shows, At
<1>5. \A s \in C : Shows(s)
  BY <1>1, <1>2
<1>6. {t \in C : Shows(t)} = {m[i].start - 1 : i \in L}
  BY <1>1, <1>5
<1>7. ASSUME NEW z \in LogicalsOn(d, ext) PROVE z \in InEbrs(m)
  <2>1. PICK s \in {m[i].start - 1 : i \in L} : z = At(s)
    BY <1>3, <1>6
  <2>2. PICK i \in L : s = m[i].start - 1
    BY <2>1
  <2> QED BY <1>2, <1>4, <2>1, <2>2
<1>8. ASSUME NEW z \in InEbrs(m) PROVE z \in LogicalsOn(d, ext)
  <2>1. PICK i \in L : z = OnDisk(m[i].start, m[i], "LOGICAL")
    BY <1>4
  <2>2. z = At(m[i].start - 1) /\ m[i].start - 1 \in {m[k].start - 1 : k \in L}
    BY <1>2, <2>1
  <2> QED BY <1>3, <1>6, <2>2
<1> QED BY <1>7, <1>8

-----------------------------------------------------------------------------
(***************************************************************************)
(* A save that is done is read back.  While the chain is written, the EBRs *)
(* of the partitions in front of the next one are on the disk.             *)
(***************************************************************************)
ReadBackInv ==
  /\ pc = "off" => SavedTableIsReadBack
  /\ pc \in {"writeMBR", "writeEBR"} => auxSave.kind = "begun"
  /\ pc \in {"writeMBR", "writeEBR"} /\ auxSave.plain =>
       /\ InLine(mbr) /\ InEbrs(mbr) = LogicalsIn(auxSave.table)
       /\ auxSave.table = PrimariesIn(auxSave.table) \union LogicalsIn(auxSave.table)
  /\ pc = "writeEBR" /\ auxSave.plain =>
       /\ disk[0] = MBRRecord
       /\ ebr.part \in Including(mbr, "LOGICAL") /\ ebr.to = mbr[ebr.part].start - 1
       /\ \E i \in 0 .. 3 : mbr[i].type = "ext" /\ mbr[i].start = ebr.ext
       /\ \E first \in Including(mbr, "LOGICAL") :
            /\ \A i \in Including(mbr, "LOGICAL") : first <= i
            /\ ebr.ext = mbr[first].start - 1
       /\ \A i \in Including(mbr, "LOGICAL") :
            i < ebr.part => disk[mbr[i].start - 1] = EbrOf(mbr, ebr.ext, i)

LEMMA TableParts ==
  ASSUME NEW m
  PROVE  TableOf(m) = PrimariesIn(TableOf(m)) \union LogicalsIn(TableOf(m))
<1>1. ASSUME NEW z \in TableOf(m) PROVE z.as \in {"PRIMARY", "LOGICAL"}
  <2>1. PICK i \in Included(m) : z = OnDisk(m[i].start, m[i], m[i].as)
    BY DEF TableOf
  <2>2. m[i].as \in {"PRIMARY", "LOGICAL"}
    BY DEF Included, Including
  <2> QED BY <2>1, <2>2 DEF OnDisk
<1> QED BY <1>1 DEF PrimariesIn, LogicalsIn

\* The MBR shows its own partitions and those of the chain of each extended one.
LEMMA TableOfRecord ==
  ASSUME TypeInv, NEW d, d[0] = MBRRecord
  PROVE  /\ \A k \in ExtendedOn(d) : k - 1 \in 0 .. 3 /\ mbr[k - 1].type = "ext" /\ d[0].entries[k].start = mbr[k - 1].start
         /\ \A i \in 0 .. 3 : mbr[i].type = "ext" => i + 1 \in ExtendedOn(d) /\ d[0].entries[i + 1].start = mbr[i].start
         /\ TableOn(d) = InFirst(mbr) \union UNION {LogicalsOn(d, d[0].entries[k].start) : k \in ExtendedOn(d)}
<1>1. ASSUME NEW k \in 1 .. 4
      PROVE  /\ d[0].entries[k].start = mbr[k - 1].start
             /\ k \in ExtendedOn(d) <=> mbr[k - 1].type = "ext"
  <2> DEFINE i == k - 1
             e == d[0].entries[k]
  <2>1. e = ToEntry(mbr[i])
    BY MBRRecordType
  <2> HIDE DEF i, e
  <2>2. e.start = mbr[i].start /\ e.type = mbr[i].type
    BY <2>1, OnDiskEntry
  <2> QED BY <2>2 DEF i, e, ExtendedOn, IsExtended
<1>2. ExtendedOn(d) \subseteq 1 .. 4
  BY DEF ExtendedOn
<1>3. \A k \in 1 .. 4 : k - 1 \in 0 .. 3
  OBVIOUS
<1>4. \A i \in 0 .. 3 : i + 1 \in 1 .. 4 /\ (i + 1) - 1 = i
  OBVIOUS
<1>5. PrimariesOn(d) = InFirst(mbr)
  BY PrimariesOfMBR
<1> QED BY <1>1, <1>2, <1>3, <1>4, <1>5 DEF TableOn

\* The disk when all of the table is written.
LEMMA WrittenTable ==
  ASSUME TypeInv, NEW d, d[0] = MBRRecord, Arranged(mbr), InLine(mbr),
         Including(mbr, "LOGICAL") # {} =>
           \E i \in 0 .. 3 : mbr[i].type = "ext" /\ Written(mbr, d, mbr[i].start)
  PROVE  TableOn(d) = InFirst(mbr) \union InEbrs(mbr)
<1>1. /\ \A k \in ExtendedOn(d) : k - 1 \in 0 .. 3 /\ mbr[k - 1].type = "ext" /\ d[0].entries[k].start = mbr[k - 1].start
      /\ \A i \in 0 .. 3 : mbr[i].type = "ext" => i + 1 \in ExtendedOn(d) /\ d[0].entries[i + 1].start = mbr[i].start
      /\ TableOn(d) = InFirst(mbr) \union UNION {LogicalsOn(d, d[0].entries[k].start) : k \in ExtendedOn(d)}
  BY TableOfRecord
<1>2. CASE Including(mbr, "LOGICAL") = {}
  <2>1. ExtendedOn(d) = {}
    BY <1>1, <1>2 DEF InLine
  <2>2. InEbrs(mbr) = {}
    BY <1>2 DEF InEbrs
  <2> QED BY <1>1, <2>1, <2>2
<1>3. CASE Including(mbr, "LOGICAL") # {}
  <2>1. PICK i \in 0 .. 3 : mbr[i].type = "ext" /\ Written(mbr, d, mbr[i].start)
    BY <1>3
  <2>2. LogicalsOn(d, mbr[i].start) = InEbrs(mbr)
    BY <2>1, WrittenLogicals
  <2>3. \A k \in ExtendedOn(d) : d[0].entries[k].start = mbr[i].start
    BY <1>1, <2>1 DEF InLine
  <2>4. i + 1 \in ExtendedOn(d)
    BY <1>1, <2>1
  <2>5. UNION {LogicalsOn(d, d[0].entries[k].start) : k \in ExtendedOn(d)} = InEbrs(mbr)
    BY <2>2, <2>3, <2>4
  <2> QED BY <1>1, <2>5
<1> QED BY <1>2, <1>3

LEMMA BeginWriteReads == ASSUME TypeInv, LoadInv, KindInv, BeginWrite PROVE ReadBackInv'
<1>0. pc = "menu" /\ mbr \in Tables(Plain)
  BY DEF BeginWrite, LoadInv
<1>1. PICK arranged \in CreateExtended(mbr) :
        \/ /\ arranged.ok /\ pc' = "writeMBR" /\ mbr' = arranged.mbr
           /\ auxSave' = [table |-> TableOf(mbr), before |-> TableOn(disk), plain |-> PlainTable,
                          stale |-> StaleEbrs # {}, kind |-> "begun"]
        \/ pc' = "off" /\ auxSave' = [NothingSaved EXCEPT !.kind = "refused"]
  BY DEF BeginWrite, Stop
<1>2. CASE pc' = "off" /\ auxSave' = [NothingSaved EXCEPT !.kind = "refused"]
  BY <1>2, NothingIsSaved DEF ReadBackInv, SavedTableIsReadBack
<1>3. CASE /\ arranged.ok /\ pc' = "writeMBR" /\ mbr' = arranged.mbr
           /\ auxSave' = [table |-> TableOf(mbr), before |-> TableOn(disk), plain |-> PlainTable,
                          stale |-> StaleEbrs # {}, kind |-> "begun"]
  <2>1. auxSave'.table = TableOf(mbr) /\ (auxSave'.plain <=> PlainTable) /\ auxSave'.kind = "begun"
    BY <1>3, Zenon
  <2>2. ASSUME auxSave'.plain PROVE InLine(mbr') /\ InEbrs(mbr') = LogicalsIn(auxSave'.table)
    <3>1. PlainArray(mbr)
      BY <2>1, <2>2, PlainTableIs
    <3>2. InLine(arranged.mbr) /\ InEbrs(arranged.mbr) = LogicalsIn(TableOf(mbr))
      BY <1>0, <1>3, <3>1, LinesUp
    <3> QED BY <1>3, <2>1, <3>2
  <2>3. auxSave'.table = PrimariesIn(auxSave'.table) \union LogicalsIn(auxSave'.table)
    BY <2>1, TableParts
  <2> QED BY <1>3, <2>1, <2>2, <2>3 DEF ReadBackInv
<1> QED BY <1>1, <1>2, <1>3

LEMMA WriteFailsReads == ASSUME KindInv, WriteFails PROVE ReadBackInv'
<1>1. pc' = "off" /\ auxSave' = [auxSave EXCEPT !.kind = "failed"]
  BY DEF WriteFails, EndWrite, Stop
<1>2. auxSave'.kind = "failed"
  BY <1>1, SaveFields DEF KindInv
<1> QED BY <1>1, <1>2 DEF ReadBackInv, SavedTableIsReadBack

\* The last write of a save.
LEMMA DoneReads ==
  ASSUME KindInv, EndWrite("done"), auxSave.plain => TableOn(disk') = auxSave.table
  PROVE  ReadBackInv'
<1>1. pc' = "off" /\ auxSave'.plain = auxSave.plain /\ auxSave'.table = auxSave.table
  BY SaveFields DEF EndWrite, Stop, KindInv
<1>2. SavedTableIsReadBack'
  BY <1>1 DEF SavedTableIsReadBack
<1> QED BY <1>1, <1>2 DEF ReadBackInv

\* The first logical partition in the array is the first on the disk.
LEMMA FirstOfLine ==
  ASSUME NEW m \in Tables(Types), Arranged(m), InLine(m), NEW at \in 0 .. 3, m[at].type = "ext",
         NEW first \in Including(m, "LOGICAL"), \A i \in Including(m, "LOGICAL") : first <= i
  PROVE  m[at].start = m[first].start - 1
<1>1. PICK j \in Including(m, "LOGICAL") : m[at].start = m[j].start - 1
  BY DEF Arranged
<1>2. m[at].start < m[first].start
  BY DEF Arranged
<1>3. j \in Nat /\ first \in Nat /\ m[j].start \in Nat /\ m[first].start \in Nat
  BY LineType, Sizes
<1>4. j = first
  <2>1. first < j => m[first].start < m[j].start
    BY DEF InLine
  <2> QED BY <1>1, <1>2, <1>3, <2>1
<1> QED BY <1>1, <1>4

LEMMA WriteMBRReads == ASSUME TypeInv, KindInv, SaveInv, ReadBackInv, WriteMBR PROVE ReadBackInv'
<1>0. pc = "writeMBR"
  BY DEF WriteMBR
<1>1. CASE WriteFails
  BY <1>1, WriteFailsReads
<1>a. ASSUME auxSave.plain
      PROVE  /\ InLine(mbr) /\ InEbrs(mbr) = LogicalsIn(auxSave.table)
             /\ auxSave.table = PrimariesIn(auxSave.table) \union LogicalsIn(auxSave.table)
             /\ Arranged(mbr) /\ InFirst(mbr) = PrimariesIn(auxSave.table)
  BY <1>0, <1>a DEF ReadBackInv, SaveInv
<1>b. \/ /\ FindNextInUse(mbr, 4) = -1
         /\ \A i \in Including(mbr, "LOGICAL") : i < 4
      \/ /\ FindNextInUse(mbr, 4) \in Including(mbr, "LOGICAL") /\ FindNextInUse(mbr, 4) >= 4
         /\ \A i \in Including(mbr, "LOGICAL") : i >= 4 => FindNextInUse(mbr, 4) <= i
      \/ ~auxSave.plain
  <2>1. 4 \in Nat /\ 4 >= 4 /\ mbr \in Tables(Types)
    BY DEF TypeInv
  <2> QED BY <1>a, <2>1, NextInLine
<1>c. 0 \in Sectors
  BY Sizes DEF Sectors
<1>2. CASE ~WriteFails /\ ~(ExtendedSlots # {} /\ FindNextInUse(mbr, 4) >= 0)
  <2>1. EndWrite("done") /\ disk' = [disk EXCEPT ![0] = MBRRecord]
    BY <1>2 DEF WriteMBR, Store
  <2>2. SUFFICES ASSUME auxSave.plain PROVE TableOn(disk') = auxSave.table
    BY <2>1, DoneReads
  <2>3. disk'[0] = MBRRecord
    BY <1>c, <2>1 DEF TypeInv
  <2>4. Including(mbr, "LOGICAL") = {}
    <3>1. SUFFICES ASSUME NEW i \in Including(mbr, "LOGICAL") PROVE FALSE
      OBVIOUS
    <3>2. ExtendedSlots # {}
      BY <1>a, <2>2, <3>1 DEF InLine, ExtendedSlots
    <3>3. ~(FindNextInUse(mbr, 4) >= 0)
      BY <1>2, <3>2
    <3>4. i >= 4 /\ i \in Nat
      BY <1>a, <2>2, LineType DEF TypeInv
    <3> DEFINE first == FindNextInUse(mbr, 4)
    <3>5. \/ first = -1 /\ i < 4
          \/ first \in Including(mbr, "LOGICAL") /\ first >= 4
      BY <1>b, <2>2, <3>1
    <3>6. ~(first >= 0)
      BY <3>3
    <3>7. first \in Including(mbr, "LOGICAL") => first \in Nat
      BY <1>a, <2>2, LineType DEF TypeInv
    <3> HIDE DEF first
    <3> QED BY <3>4, <3>5, <3>6, <3>7
  <2>5. TableOn(disk') = InFirst(mbr) \union InEbrs(mbr)
    BY <1>a, <2>2, <2>3, <2>4, WrittenTable
  <2> QED BY <1>a, <2>2, <2>5
<1>3. CASE ~WriteFails /\ ExtendedSlots # {} /\ FindNextInUse(mbr, 4) >= 0
  <2> DEFINE first == FindNextInUse(mbr, 4)
             at == GreatestOf(ExtendedSlots)
             ext == mbr[at].start
  <2>1. /\ ebr' = [part |-> first, to |-> ext, ext |-> ext] /\ pc' = "writeEBR" /\ UNCHANGED <<mbr, auxSave>>
        /\ disk' = [disk EXCEPT ![0] = MBRRecord]
    BY <1>3 DEF WriteMBR, Store
  <2>2. ebr'.part = first /\ ebr'.to = ext /\ ebr'.ext = ext
    <3> HIDE DEF first, ext
    <3> QED BY <2>1
  <2>3. at \in 0 .. 3 /\ mbr[at].type = "ext"
    BY <1>3, FirstEbr DEF ExtendedSlots
  <2>4. disk'[0] = MBRRecord /\ MBRRecord' = MBRRecord
    BY <1>c, <2>1 DEF TypeInv, MBRRecord
  <2>5. auxSave'.kind = "begun"
    BY <1>0, <2>1 DEF ReadBackInv
  <2>6. CASE ~auxSave.plain
    BY <2>1, <2>5, <2>6 DEF ReadBackInv
  <2>7. CASE auxSave.plain
    <3>1. first \in Including(mbr, "LOGICAL") /\ \A i \in Including(mbr, "LOGICAL") : first <= i
      <4>1. \A i \in Including(mbr, "LOGICAL") : i >= 4
        BY <1>a, <2>7 DEF InLine
      <4> QED BY <1>3, <1>b, <2>7, <4>1
    <3>2. ext = mbr[first].start - 1
      <4> HIDE DEF first, at
      <4> QED BY <1>a, <2>3, <2>7, <3>1, FirstOfLine DEF TypeInv
    <3>3. \A i \in Including(mbr, "LOGICAL") : ~(i < first)
      <4>1. \A i \in Including(mbr, "LOGICAL") : i \in Nat
        BY Sizes DEF Including
      <4> HIDE DEF first
      <4> QED BY <3>1, <4>1
    <3> HIDE DEF first, ext
    <3> QED BY <1>a, <2>1, <2>2, <2>3, <2>4, <2>5, <2>7, <3>1, <3>2, <3>3 DEF ReadBackInv, ext
  <2> QED BY <2>6, <2>7
<1> QED BY <1>1, <1>2, <1>3

\* The EBR that is written is that of the partition in hand, and no other one.
LEMMA EbrWritten ==
  ASSUME TypeInv, ReadBackInv, WriteEBR, ~WriteFails, auxSave.plain
  PROVE  /\ disk'[0] = MBRRecord
         /\ \A i \in Including(mbr, "LOGICAL") : i <= ebr.part => disk'[mbr[i].start - 1] = EbrOf(mbr, ebr.ext, i)
<1>0. pc = "writeEBR"
  BY DEF WriteEBR
<1> DEFINE link == IF HasNext THEN LinkTo(mbr[NextLogical]) ELSE NoEntry
           written == Ebr(FromItsEbr(mbr[ebr.part]), link)
<1>1. disk' = [disk EXCEPT ![ebr.to] = written] /\ ebr.to \in Sectors
  BY DEF WriteEBR, Store
<1>2. written = EbrOf(mbr, ebr.ext, ebr.part)
  BY DEF EbrOf, HasNext, NextLogical, LinkTo
<1> HIDE DEF written
<1>3. /\ InLine(mbr) /\ disk[0] = MBRRecord
      /\ ebr.part \in Including(mbr, "LOGICAL") /\ ebr.to = mbr[ebr.part].start - 1
      /\ \A i \in Including(mbr, "LOGICAL") : i < ebr.part => disk[mbr[i].start - 1] = EbrOf(mbr, ebr.ext, i)
  BY <1>0 DEF ReadBackInv
<1>4. \A i \in Including(mbr, "LOGICAL") :
        /\ i \in Nat /\ mbr[i].start \in 0 .. Max32 /\ mbr[i].start - 1 \in Sectors /\ mbr[i].start - 1 > 0
  BY <1>3, LineType DEF TypeInv
<1>5. \A s \in Sectors : disk'[s] = IF s = ebr.to THEN written ELSE disk[s]
  BY <1>1 DEF TypeInv
<1>6. disk'[0] = MBRRecord
  <2>1. 0 \in Sectors /\ ebr.to # 0
    BY <1>3, <1>4, Sizes DEF Sectors
  <2> QED BY <1>3, <1>5, <2>1
<1>7. ASSUME NEW i \in Including(mbr, "LOGICAL"), i <= ebr.part
      PROVE  disk'[mbr[i].start - 1] = EbrOf(mbr, ebr.ext, i)
  <2>1. CASE i = ebr.part
    BY <1>1, <1>2, <1>3, <1>5, <2>1
  <2>2. CASE i # ebr.part
    <3>1. i < ebr.part
      BY <1>3, <1>4, <1>7, <2>2
    <3>2. mbr[i].start < mbr[ebr.part].start
      BY <1>3, <3>1 DEF InLine
    <3>3. mbr[i].start - 1 # ebr.to
      BY <1>3, <1>4, <3>2, Sizes
    <3> QED BY <1>3, <1>4, <1>5, <3>1, <3>3
  <2> QED BY <2>1, <2>2
<1> QED BY <1>6, <1>7

LEMMA WriteEBRReads == ASSUME TypeInv, KindInv, SaveInv, ReadBackInv, WriteEBR PROVE ReadBackInv'
<1>0. pc = "writeEBR"
  BY DEF WriteEBR
<1>1. CASE WriteFails
  BY <1>1, WriteFailsReads
<1>a. ASSUME auxSave.plain
      PROVE  /\ InLine(mbr) /\ InEbrs(mbr) = LogicalsIn(auxSave.table)
             /\ auxSave.table = PrimariesIn(auxSave.table) \union LogicalsIn(auxSave.table)
             /\ Arranged(mbr) /\ PrimariesOn(disk) = PrimariesIn(auxSave.table)
             /\ disk[0] = MBRRecord /\ ebr.part \in Including(mbr, "LOGICAL")
             /\ \E i \in 0 .. 3 : mbr[i].type = "ext" /\ mbr[i].start = ebr.ext
             /\ \E first \in Including(mbr, "LOGICAL") :
                  /\ \A i \in Including(mbr, "LOGICAL") : first <= i
                  /\ ebr.ext = mbr[first].start - 1
  BY <1>0, <1>a DEF ReadBackInv, SaveInv
<1>b. ASSUME auxSave.plain, ~WriteFails
      PROVE  /\ disk'[0] = MBRRecord
             /\ \A i \in Including(mbr, "LOGICAL") : i <= ebr.part => disk'[mbr[i].start - 1] = EbrOf(mbr, ebr.ext, i)
  BY <1>b, EbrWritten
<1>c. ASSUME auxSave.plain
      PROVE  \/ /\ NextLogical = -1
                /\ \A i \in Including(mbr, "LOGICAL") : i <= ebr.part
             \/ /\ NextLogical \in Including(mbr, "LOGICAL") /\ NextLogical > ebr.part
                /\ \A i \in Including(mbr, "LOGICAL") : i < NextLogical => i <= ebr.part
  <2> DEFINE from == ebr.part + 1
  <2>1. \A i \in Including(mbr, "LOGICAL") : i \in Nat /\ i >= 4
    BY <1>a, <1>c, LineType DEF TypeInv
  <2>2. from \in Nat /\ from >= 4 /\ ebr.part \in Nat
    BY <1>a, <1>c, <2>1
  <2>3. NextLogical = FindNextInUse(mbr, from) /\ mbr \in Tables(Types) /\ Arranged(mbr)
    BY <1>a, <1>c DEF NextLogical, TypeInv
  <2> HIDE DEF from
  <2>4. \/ /\ NextLogical = -1
           /\ \A i \in Including(mbr, "LOGICAL") : i < from
        \/ /\ NextLogical \in Including(mbr, "LOGICAL") /\ NextLogical >= from
           /\ \A i \in Including(mbr, "LOGICAL") : i >= from => NextLogical <= i
    BY <2>2, <2>3, NextInLine
  <2> DEFINE next == NextLogical
  <2>5. \/ next = -1 /\ \A i \in Including(mbr, "LOGICAL") : i < from
        \/ /\ next \in Including(mbr, "LOGICAL") /\ next >= from
           /\ \A i \in Including(mbr, "LOGICAL") : i >= from => next <= i
    BY <2>4
  <2> HIDE DEF next
  <2>6. CASE next = -1 /\ \A i \in Including(mbr, "LOGICAL") : i < from
    <3>1. \A i \in Including(mbr, "LOGICAL") : i <= ebr.part
      BY <2>1, <2>2, <2>6 DEF from
    <3> QED BY <2>6, <3>1 DEF next
  <2>7. CASE /\ next \in Including(mbr, "LOGICAL") /\ next >= from
             /\ \A i \in Including(mbr, "LOGICAL") : i >= from => next <= i
    <3>1. next > ebr.part /\ \A i \in Including(mbr, "LOGICAL") : i < next => i <= ebr.part
      BY <2>1, <2>2, <2>7 DEF from
    <3> QED BY <2>7, <3>1 DEF next
  <2> QED BY <2>5, <2>6, <2>7
<1>2. CASE ~WriteFails /\ ~HasNext
  <2>1. EndWrite("done")
    BY <1>2 DEF WriteEBR
  <2>2. SUFFICES ASSUME auxSave.plain PROVE TableOn(disk') = auxSave.table
    BY <2>1, DoneReads
  <2>3. \A i \in Including(mbr, "LOGICAL") : i <= ebr.part
    <3>1. \A i \in Including(mbr, "LOGICAL") : i \in Nat /\ i >= 4 /\ mbr[i].start \in 0 .. Max32 /\ mbr[i].start - 1 > 0
      BY <1>a, <2>2, LineType DEF TypeInv
    <3> DEFINE next == NextLogical
    <3>2. ~(next \in Including(mbr, "LOGICAL"))
      <4>1. SUFFICES ASSUME next \in Including(mbr, "LOGICAL") PROVE FALSE
        OBVIOUS
      <4>2. ~(next > 0 /\ mbr[next].start > 0)
        BY <1>2 DEF HasNext
      <4> HIDE DEF next
      <4>3. next \in Nat /\ next >= 4 /\ mbr[next].start \in 0 .. Max32 /\ mbr[next].start - 1 > 0
        BY <3>1, <4>1
      <4> QED BY <4>2, <4>3, Sizes
    <3> QED BY <1>c, <2>2, <3>2
  <2>4. Written(mbr, disk', ebr.ext)
    <3>1. \A i \in Including(mbr, "LOGICAL") : disk'[mbr[i].start - 1] = EbrOf(mbr, ebr.ext, i)
      BY <1>2, <1>b, <2>2, <2>3
    <3> QED BY <1>a, <2>2, <3>1 DEF Written, TypeInv
  <2>5. \E i \in 0 .. 3 : mbr[i].type = "ext" /\ Written(mbr, disk', mbr[i].start)
    BY <1>a, <2>2, <2>4
  <2>6. TableOn(disk') = InFirst(mbr) \union InEbrs(mbr)
    BY <1>2, <1>a, <1>b, <2>2, <2>5, WrittenTable
  <2>7. InFirst(mbr) = PrimariesIn(auxSave.table)
    BY <1>a, <2>2, PrimariesOfMBR
  <2> QED BY <1>a, <2>2, <2>6, <2>7
<1>3. CASE ~WriteFails /\ HasNext
  <2> DEFINE start == mbr[NextLogical].start
             link == LinkTo(mbr[NextLogical])
             to == link.start + ebr.ext
  <2>1. ebr' = [ebr EXCEPT !.part = NextLogical, !.to = to] /\ UNCHANGED <<pc, mbr, auxSave>>
    BY <1>3 DEF WriteEBR
  <2>2. NextLogical \in Slots /\ link \in Entries /\ link.start = Low32(Minus64(start, ebr.ext + 1))
    BY <1>3, LinkType
  <2>3. ebr.ext \in Nat /\ ebr \in Ebrs /\ to \in Nat
    <3>1. ebr.ext \in Nat /\ ebr \in Ebrs /\ link.start \in Nat
      BY <2>2, Sizes DEF TypeInv, Ebrs, Entries
    <3> HIDE DEF link
    <3> QED BY <3>1
  <2> HIDE DEF start, link, to
  <2>4. ebr'.part = NextLogical /\ ebr'.to = to /\ ebr'.ext = ebr.ext
    <3>1. ebr' = [ebr EXCEPT !.part = NextLogical, !.to = to]
      BY <2>1
    <3> QED BY ONLY <2>3, <3>1 DEF Ebrs
  <2>5. auxSave'.kind = "begun" /\ pc' = "writeEBR"
    BY <1>0, <2>1 DEF ReadBackInv
  <2>6. CASE ~auxSave.plain
    BY <2>1, <2>5, <2>6 DEF ReadBackInv
  <2>7. CASE auxSave.plain
    <3>1. /\ NextLogical \in Including(mbr, "LOGICAL")
          /\ \A i \in Including(mbr, "LOGICAL") : i < NextLogical => i <= ebr.part
      BY <1>3, <1>c, <2>7 DEF HasNext
    <3>2. to = start - 1
      <4>1. ebr.ext < start
        BY <1>0, <2>7, <3>1 DEF SaveInv, start
      <4>2. start \in 0 .. Max32
        BY <2>2, SlotType DEF start
      <4> QED BY <2>2, <2>3, <4>1, <4>2, LinkLeads DEF to
    <3>3. MBRRecord' = MBRRecord
      BY <2>1 DEF MBRRecord
    <3>4. /\ disk'[0] = MBRRecord
          /\ \A i \in Including(mbr, "LOGICAL") : i < NextLogical => disk'[mbr[i].start - 1] = EbrOf(mbr, ebr.ext, i)
      BY <1>3, <1>b, <2>7, <3>1
    <3>5. /\ InLine(mbr') /\ InEbrs(mbr') = LogicalsIn(auxSave'.table)
          /\ auxSave'.table = PrimariesIn(auxSave'.table) \union LogicalsIn(auxSave'.table)
      BY <1>a, <2>1, <2>7
    <3>6. ebr'.part \in Including(mbr', "LOGICAL") /\ ebr'.to = mbr'[ebr'.part].start - 1
      BY <2>1, <2>4, <3>1, <3>2 DEF start
    <3>7. /\ \E i \in 0 .. 3 : mbr'[i].type = "ext" /\ mbr'[i].start = ebr'.ext
          /\ \E first \in Including(mbr', "LOGICAL") :
               /\ \A i \in Including(mbr', "LOGICAL") : first <= i
               /\ ebr'.ext = mbr'[first].start - 1
      BY <1>a, <2>1, <2>4, <2>7
    <3>8. \A i \in Including(mbr', "LOGICAL") :
            i < ebr'.part => disk'[mbr'[i].start - 1] = EbrOf(mbr', ebr'.ext, i)
      BY <2>1, <2>4, <3>4
    <3> QED BY <2>5, <3>3, <3>4, <3>5, <3>6, <3>7, <3>8 DEF ReadBackInv
  <2> QED BY <2>6, <2>7
<1> QED BY <1>1, <1>2, <1>3

LEMMA StepReads == TypeInv /\ LoadInv /\ KindInv /\ SaveInv /\ ReadBackInv /\ [Next]_vars => ReadBackInv'
<1> SUFFICES ASSUME TypeInv, LoadInv, KindInv, SaveInv, ReadBackInv, [Next]_vars PROVE ReadBackInv'
  OBVIOUS
<1>1. CASE (\E p \in {"fixparts", "scripted"} : ReadMBR(p)) \/ XFormToMBR
  <2>1. auxSave' = NothingSaved /\ pc' \in {"off", "scan", "menu"}
    BY <1>1, XFormFrame DEF ReadMBR
  <2> QED BY <2>1, NothingIsSaved DEF ReadBackInv, SavedTableIsReadBack
<1>2. CASE ReadChains \/ EndLoad \/ DoMBR
  <2>1. pc \in {"scan", "walking", "erase"} /\ pc' \in {"scan", "walking", "erase", "menu", "off"} /\ UNCHANGED auxSave
    BY <1>2 DEF ReadChains, BeginChain, ReadEbr, EndChain, EndLoad, Stop, DoMBR
  <2>2. auxSave'.kind = "none"
    BY <2>1 DEF KindInv
  <2> QED BY <2>1, <2>2 DEF ReadBackInv, SavedTableIsReadBack
<1>3. CASE Menu
  BY <1>3, MenuFrame DEF ReadBackInv
<1>4. CASE BeginWrite
  BY <1>4, BeginWriteReads
<1>5. CASE WriteMBR
  BY <1>5, WriteMBRReads
<1>6. CASE WriteEBR
  BY <1>6, WriteEBRReads
<1>7. CASE Quit
  <2>1. pc # "off" /\ pc' = "off" /\ UNCHANGED <<disk, auxSave>>
    BY <1>7 DEF Quit, Stop
  <2>2. auxSave'.kind \in {"none", "begun"}
    BY <2>1 DEF ReadBackInv, KindInv, TypeInv
  <2> QED BY <2>1, <2>2 DEF ReadBackInv, SavedTableIsReadBack
<1>8. CASE UNCHANGED vars
  <2>1. UNCHANGED <<disk, pc, mbr, ebr, auxSave>>
    BY <1>8 DEF vars
  <2>2. UNCHANGED MBRRecord
    BY <2>1 DEF MBRRecord
  <2> QED BY <2>1, <2>2 DEF ReadBackInv, SavedTableIsReadBack
<1> QED BY <1>1, <1>2, <1>3, <1>4, <1>5, <1>6, <1>7, <1>8 DEF Next, Read, Write

LEMMA InitReads == Init => ReadBackInv
<1> SUFFICES ASSUME Init PROVE ReadBackInv
  OBVIOUS
<1>1. pc = "off" /\ auxSave = NothingSaved
  BY DEF Init
<1> QED BY <1>1, NothingIsSaved DEF ReadBackInv, SavedTableIsReadBack

LEMMA AlwaysReads == Spec => [](TypeInv /\ KindInv /\ ReadBackInv)
<1>1. Init => ReadBackInv
  BY InitReads
<1>2. TypeInv /\ LoadInv /\ KindInv /\ SaveInv /\ ReadBackInv /\ [Next]_vars => ReadBackInv'
  BY StepReads
<1> QED BY <1>1, <1>2, AlwaysSave, PTL DEF Spec

LEMMA ReadsSuffice == TypeInv /\ KindInv /\ ReadBackInv => SavedTableIsReadBack
BY DEF TypeInv, KindInv, ReadBackInv, SavedTableIsReadBack

\* However many partitions there are and wherever they lie, a save of a plain
\* table that reports no failure leaves a disk on which a reader who follows the
\* links of the EBRs finds each included partition and nothing else
\* (CreateExtended(), WriteMBRData()).
THEOREM SavedTablesAreReadBack == Spec => []SavedTableIsReadBack
BY AlwaysReads, ReadsSuffice, PTL

-----------------------------------------------------------------------------
(***************************************************************************)
(* A save that stops halfway invents no partition.  Each record behind the *)
(* MBR shows a logical partition that the old or the new table has, so it  *)
(* does not matter to which of them a chain leads.                         *)
(***************************************************************************)
Shown(d, known) ==
  \A s \in Sectors \ {0} :
    d[s].holds = "record" /\ d[s].entries[1].len > 0 /\ ~IsExtended(d[s].entries[1]) =>
      OnDisk(s + d[s].entries[1].start, d[s].entries[1], "LOGICAL") \in known

InventInv ==
  /\ pc = "off" => InterruptedSaveInventsNothing
  /\ pc = "writeMBR" /\ auxSave.plain /\ ~auxSave.stale =>
       TableOn(disk) = auxSave.before /\ Shown(disk, auxSave.before \union auxSave.table)
  /\ pc = "writeEBR" /\ auxSave.plain /\ ~auxSave.stale =>
       Shown(disk, auxSave.before \union auxSave.table)

LEMMA FromShown ==
  ASSUME NEW d \in [Sectors -> Contents], NEW known, Shown(d, known), PrimariesOn(d) \subseteq known,
         \A k \in ExtendedOn(d) : d[0].entries[k].start > 0
  PROVE  TableOn(d) \subseteq known
<1>1. ASSUME NEW k \in ExtendedOn(d) PROVE LogicalsOn(d, d[0].entries[k].start) \subseteq known
  <2> DEFINE ext == d[0].entries[k].start
  <2>1. ext \in Nat /\ ext > 0
    <3>1. k \in 1 .. 4 /\ 0 \in Sectors
      BY Sizes DEF ExtendedOn, Sectors
    <3>2. d[0].entries[k].start \in 0 .. Max32
      BY <3>1, ContentsAre DEF Entries
    <3> QED BY <3>2, Sizes
  <2> HIDE DEF ext
  <2>2. 0 \notin Chain(d, ext)
    BY <2>1, ChainLeavesMBR
  <2>3. \A s \in Chain(d, ext) : s \in Sectors /\ d[s].holds = "record"
    BY DEF Chain
  <2>4. ASSUME NEW z \in LogicalsOn(d, ext) PROVE z \in known
    <3>1. PICK s \in {t \in Chain(d, ext) : d[t].entries[1].len > 0 /\ ~IsExtended(d[t].entries[1])} :
            z = OnDisk(s + d[s].entries[1].start, d[s].entries[1], "LOGICAL")
      BY DEF LogicalsOn
    <3>2. s \in Sectors \ {0} /\ d[s].holds = "record" /\ d[s].entries[1].len > 0 /\ ~IsExtended(d[s].entries[1])
      BY <2>2, <2>3, <3>1
    <3> QED BY <3>1, <3>2 DEF Shown
  <2> QED BY <2>4 DEF ext
<1> QED BY <1>1 DEF TableOn

\* Without EBRs of former tables, each record belongs to a chain.
LEMMA NoneIsStale ==
  ASSUME StaleEbrs = {}
  PROVE  Shown(disk, TableOn(disk))
<1>1. ASSUME NEW s \in Sectors \ {0},
             disk[s].holds = "record", disk[s].entries[1].len > 0, ~IsExtended(disk[s].entries[1])
      PROVE  OnDisk(s + disk[s].entries[1].start, disk[s].entries[1], "LOGICAL") \in TableOn(disk)
  <2>1. PICK i \in ExtendedOn(disk) : s \in Chain(disk, disk[0].entries[i].start)
    BY <1>1 DEF StaleEbrs
  <2>2. OnDisk(s + disk[s].entries[1].start, disk[s].entries[1], "LOGICAL")
          \in LogicalsOn(disk, disk[0].entries[i].start)
    BY <1>1, <2>1 DEF LogicalsOn
  <2> QED BY <2>2 DEF TableOn
<1> QED BY <1>1 DEF Shown

LEMMA BeginWriteInvents == ASSUME BeginWrite PROVE InventInv'
<1>1. PICK arranged \in CreateExtended(mbr) :
        \/ /\ pc' = "writeMBR" /\ UNCHANGED disk
           /\ auxSave' = [table |-> TableOf(mbr), before |-> TableOn(disk), plain |-> PlainTable,
                          stale |-> StaleEbrs # {}, kind |-> "begun"]
        \/ pc' = "off" /\ auxSave' = [NothingSaved EXCEPT !.kind = "refused"]
  BY DEF BeginWrite, Stop
<1>2. CASE pc' = "off" /\ auxSave' = [NothingSaved EXCEPT !.kind = "refused"]
  BY <1>2, NothingIsSaved DEF InventInv, InterruptedSaveInventsNothing
<1>3. CASE /\ pc' = "writeMBR" /\ UNCHANGED disk
           /\ auxSave' = [table |-> TableOf(mbr), before |-> TableOn(disk), plain |-> PlainTable,
                          stale |-> StaleEbrs # {}, kind |-> "begun"]
  <2>1. auxSave'.before = TableOn(disk) /\ (auxSave'.stale <=> StaleEbrs # {})
    BY <1>3, Zenon
  <2>2. ~auxSave'.stale => Shown(disk, auxSave'.before)
    BY <2>1, NoneIsStale
  <2>3. \A a, b : Shown(disk, a) => Shown(disk, a \union b)
    BY DEF Shown
  <2>4. ~auxSave'.stale => TableOn(disk') = auxSave'.before /\ Shown(disk', auxSave'.before \union auxSave'.table)
    BY <1>3, <2>1, <2>2, <2>3
  <2> QED BY <1>3, <2>4 DEF InventInv
<1> QED BY <1>1, <1>2, <1>3

\* While the chain is written, a reader finds nothing but known partitions.
LEMMA KnownWhileWriting ==
  ASSUME TypeInv, SaveInv, ReadBackInv, InventInv, pc \in {"writeMBR", "writeEBR"}, auxSave.plain, ~auxSave.stale
  PROVE  TableOn(disk) \subseteq auxSave.before \union auxSave.table
<1>1. CASE pc = "writeMBR"
  BY <1>1 DEF InventInv
<1>2. CASE pc = "writeEBR"
  <2> DEFINE known == auxSave.before \union auxSave.table
  <2>1. Shown(disk, known) /\ disk[0] = MBRRecord /\ Arranged(mbr)
    BY <1>2 DEF InventInv, SaveInv, ReadBackInv
  <2>2. PrimariesOn(disk) \subseteq known
    <3>1. PrimariesOn(disk) = PrimariesIn(auxSave.table)
      BY <1>2 DEF SaveInv
    <3> QED BY <3>1 DEF PrimariesIn
  <2>3. \A k \in ExtendedOn(disk) : disk[0].entries[k].start > 0
    <3>1. \A k \in ExtendedOn(disk) :
            k - 1 \in 0 .. 3 /\ mbr[k - 1].type = "ext" /\ disk[0].entries[k].start = mbr[k - 1].start
      BY <2>1, TableOfRecord
    <3> QED BY <2>1, <3>1 DEF Arranged
  <2> HIDE DEF known
  <2>4. TableOn(disk) \subseteq known
    BY <2>1, <2>2, <2>3, FromShown DEF TypeInv
  <2> QED BY <2>4 DEF known
<1> QED BY <1>1, <1>2

LEMMA WriteFailsInvents ==
  ASSUME TypeInv, KindInv, SaveInv, ReadBackInv, InventInv, pc \in {"writeMBR", "writeEBR"}, WriteFails
  PROVE  InventInv'
<1>1. pc' = "off" /\ auxSave' = [auxSave EXCEPT !.kind = "failed"] /\ UNCHANGED disk
  BY DEF WriteFails, EndWrite, Stop
<1>2. /\ auxSave'.plain = auxSave.plain /\ auxSave'.stale = auxSave.stale
      /\ auxSave'.table = auxSave.table /\ auxSave'.before = auxSave.before
  BY <1>1, SaveFields DEF KindInv
<1>3. auxSave.plain /\ ~auxSave.stale => TableOn(disk) \subseteq auxSave.before \union auxSave.table
  BY KnownWhileWriting
<1>4. auxSave'.plain /\ ~auxSave'.stale => TableOn(disk') \subseteq auxSave'.before \union auxSave'.table
  BY <1>1, <1>2, <1>3
<1> QED BY <1>1, <1>4 DEF InventInv, InterruptedSaveInventsNothing

LEMMA DoneInvents == ASSUME KindInv, EndWrite("done") PROVE InventInv'
<1>1. pc' = "off" /\ auxSave'.kind = "done"
  BY SaveFields DEF EndWrite, Stop, KindInv
<1> QED BY <1>1 DEF InventInv, InterruptedSaveInventsNothing

LEMMA WriteMBRInvents == ASSUME TypeInv, KindInv, SaveInv, ReadBackInv, InventInv, WriteMBR PROVE InventInv'
<1>0. pc = "writeMBR"
  BY DEF WriteMBR
<1>1. CASE WriteFails
  BY <1>0, <1>1, WriteFailsInvents
<1>2. CASE ~WriteFails /\ ~(ExtendedSlots # {} /\ FindNextInUse(mbr, 4) >= 0)
  BY <1>2, DoneInvents DEF WriteMBR
<1>3. CASE ~WriteFails /\ ExtendedSlots # {} /\ FindNextInUse(mbr, 4) >= 0
  <2>1. pc' = "writeEBR" /\ UNCHANGED auxSave /\ disk' = [disk EXCEPT ![0] = MBRRecord]
    BY <1>3 DEF WriteMBR, Store
  <2>2. \A s \in Sectors \ {0} : disk'[s] = disk[s]
    BY <2>1 DEF TypeInv
  <2>3. \A known : Shown(disk, known) => Shown(disk', known)
    BY <2>2 DEF Shown
  <2> QED BY <1>0, <2>1, <2>3 DEF InventInv
<1> QED BY <1>1, <1>2, <1>3

LEMMA WriteEBRInvents == ASSUME TypeInv, KindInv, SaveInv, ReadBackInv, InventInv, WriteEBR PROVE InventInv'
<1>0. pc = "writeEBR"
  BY DEF WriteEBR
<1>1. CASE WriteFails
  BY <1>0, <1>1, WriteFailsInvents
<1>2. CASE ~WriteFails /\ ~HasNext
  BY <1>2, DoneInvents DEF WriteEBR
<1>3. CASE ~WriteFails /\ HasNext
  <2> DEFINE written == Ebr(FromItsEbr(mbr[ebr.part]), LinkTo(mbr[NextLogical]))
             e == Entry(1, mbr[ebr.part].len, mbr[ebr.part].type)
  <2>1. UNCHANGED <<pc, auxSave>> /\ disk' = [disk EXCEPT ![ebr.to] = written]
    BY <1>3 DEF WriteEBR, Store
  <2>2. SUFFICES ASSUME auxSave.plain, ~auxSave.stale
                 PROVE  Shown(disk', auxSave.before \union auxSave.table)
    BY <1>0, <2>1 DEF InventInv
  <2>3. /\ Shown(disk, auxSave.before \union auxSave.table)
        /\ InLine(mbr) /\ InEbrs(mbr) = LogicalsIn(auxSave.table)
        /\ ebr.part \in Including(mbr, "LOGICAL") /\ ebr.to = mbr[ebr.part].start - 1
    BY <1>0, <2>2 DEF InventInv, ReadBackInv
  <2>4. written.entries[1] = e
    BY EbrFields DEF FromItsEbr
  <2> HIDE DEF written
  <2>5. \A s \in Sectors : disk'[s] = IF s = ebr.to THEN written ELSE disk[s]
    BY <2>1 DEF TypeInv
  <2>6. ebr.to + 1 = mbr[ebr.part].start
    <3>1. mbr[ebr.part].start \in 0 .. Max32
      BY <2>3, LineType DEF TypeInv
    <3> QED BY <2>3, <3>1, Sizes
  <2>7. OnDisk(ebr.to + e.start, e, "LOGICAL") \in auxSave.table
    <3>1. e.start = 1 /\ e.len = mbr[ebr.part].len /\ e.type = mbr[ebr.part].type
      BY DEF Entry
    <3> HIDE DEF e
    <3>2. OnDisk(ebr.to + e.start, e, "LOGICAL") = OnDisk(mbr[ebr.part].start, mbr[ebr.part], "LOGICAL")
      BY <2>6, <3>1 DEF OnDisk
    <3>3. OnDisk(mbr[ebr.part].start, mbr[ebr.part], "LOGICAL") \in InEbrs(mbr)
      BY <2>3 DEF InEbrs
    <3> QED BY <2>3, <3>2, <3>3 DEF LogicalsIn
  <2> HIDE DEF e
  <2> QED BY <2>3, <2>4, <2>5, <2>7 DEF Shown
<1> QED BY <1>1, <1>2, <1>3

LEMMA StepInvents ==
  TypeInv /\ LoadInv /\ KindInv /\ SaveInv /\ ReadBackInv /\ InventInv /\ [Next]_vars => InventInv'
<1> SUFFICES ASSUME TypeInv, LoadInv, KindInv, SaveInv, ReadBackInv, InventInv, [Next]_vars PROVE InventInv'
  OBVIOUS
<1>1. CASE (\E p \in {"fixparts", "scripted"} : ReadMBR(p)) \/ XFormToMBR
  <2>1. auxSave' = NothingSaved /\ pc' \in {"off", "scan", "menu"}
    BY <1>1, XFormFrame DEF ReadMBR
  <2> QED BY <2>1, NothingIsSaved DEF InventInv, InterruptedSaveInventsNothing
<1>2. CASE ReadChains \/ EndLoad \/ DoMBR
  <2>1. pc \in {"scan", "walking", "erase"} /\ pc' \in {"scan", "walking", "erase", "menu", "off"} /\ UNCHANGED auxSave
    BY <1>2 DEF ReadChains, BeginChain, ReadEbr, EndChain, EndLoad, Stop, DoMBR
  <2>2. auxSave'.kind = "none"
    BY <2>1 DEF KindInv
  <2> QED BY <2>1, <2>2 DEF InventInv, InterruptedSaveInventsNothing
<1>3. CASE Menu
  BY <1>3, MenuFrame DEF InventInv
<1>4. CASE BeginWrite
  BY <1>4, BeginWriteInvents
<1>5. CASE WriteMBR
  BY <1>5, WriteMBRInvents
<1>6. CASE WriteEBR
  BY <1>6, WriteEBRInvents
<1>7. CASE Quit
  <2>1. pc # "off" /\ pc' = "off" /\ UNCHANGED <<disk, auxSave>>
    BY <1>7 DEF Quit, Stop
  <2>2. pc \in {"scan", "walking", "erase", "menu"} => auxSave.kind = "none"
    BY DEF KindInv
  <2>3. pc \in {"writeMBR", "writeEBR"} /\ auxSave.plain /\ ~auxSave.stale =>
          TableOn(disk) \subseteq auxSave.before \union auxSave.table
    BY KnownWhileWriting
  <2>4. InterruptedSaveInventsNothing'
    BY <2>1, <2>2, <2>3 DEF InterruptedSaveInventsNothing, TypeInv
  <2> QED BY <2>1, <2>4 DEF InventInv
<1>8. CASE UNCHANGED vars
  <2>1. UNCHANGED <<disk, pc, auxSave>>
    BY <1>8 DEF vars
  <2> QED BY <2>1 DEF InventInv, InterruptedSaveInventsNothing
<1> QED BY <1>1, <1>2, <1>3, <1>4, <1>5, <1>6, <1>7, <1>8 DEF Next, Read, Write

LEMMA InitInvents == Init => InventInv
<1> SUFFICES ASSUME Init PROVE InventInv
  OBVIOUS
<1>1. pc = "off" /\ auxSave = NothingSaved
  BY DEF Init
<1> QED BY <1>1, NothingIsSaved DEF InventInv, InterruptedSaveInventsNothing

LEMMA InventSuffices ==
  TypeInv /\ KindInv /\ SaveInv /\ ReadBackInv /\ InventInv => InterruptedSaveInventsNothing
BY KnownWhileWriting DEF TypeInv, KindInv, InventInv, InterruptedSaveInventsNothing

\* However many partitions there are and wherever they lie, a save of a plain
\* table that fails or is killed leaves no partition on the disk that neither the
\* table before nor the new one has, whichever of its EBRs are written, unless
\* there are EBRs of former tables (WriteMBRData()).
THEOREM InterruptedSavesInventNothing == Spec => []InterruptedSaveInventsNothing
<1>1. Init => InventInv
  BY InitInvents
<1>2. TypeInv /\ LoadInv /\ KindInv /\ SaveInv /\ ReadBackInv /\ InventInv /\ [Next]_vars => InventInv'
  BY StepInvents
<1>3. TypeInv /\ KindInv /\ SaveInv /\ ReadBackInv /\ InventInv => InterruptedSaveInventsNothing
  BY InventSuffices
<1> QED BY <1>1, <1>2, <1>3, AlwaysSave, AlwaysReads, PTL DEF Spec
-----------------------------------------------------------------------------
(***************************************************************************)
(* The array in the menu.  Every way into the menu ends with MakeItLegal(), *)
(* so that the array is repaired; each command keeps it so, and keeps a    *)
(* legal one legal.                                                        *)
(***************************************************************************)

MenuInv == pc = "menu" => Repaired(mbr)

MenuStep ==
  pc' = "menu" =>
    /\ Repaired(mbr')
    /\ pc = "menu" /\ IsLegal(mbr) /\ (\A i \in Slots : mbr[i].len = 0 => mbr[i].start = 0) => IsLegal(mbr')

LEMMA OnlyTheseEnterMenu ==
  ASSUME Next, pc' = "menu" PROVE EndLoad \/ DoMBR \/ XFormToMBR \/ Menu
<1>1. ASSUME Stop PROVE FALSE
  BY <1>1 DEF Stop
<1>2. ASSUME NEW p \in {"fixparts", "scripted"}, ReadMBR(p) PROVE FALSE
  BY <1>1, <1>2 DEF ReadMBR
<1>3. ASSUME ReadChains PROVE FALSE
  <2>1. CASE BeginChain
    BY <2>1 DEF BeginChain
  <2>2. CASE ReadEbr
    BY <2>2 DEF ReadEbr
  <2>3. CASE EndChain
    BY <2>3 DEF EndChain
  <2> QED BY <1>3, <2>1, <2>2, <2>3 DEF ReadChains
<1>4. ASSUME Write PROVE FALSE
  <2>1. CASE BeginWrite
    BY <1>1, <2>1 DEF BeginWrite
  <2>2. CASE WriteMBR
    BY <1>1, <2>2 DEF WriteMBR, WriteFails, EndWrite
  <2>3. CASE WriteEBR
    BY <1>1, <2>3 DEF WriteEBR, WriteFails, EndWrite
  <2> QED BY <1>4, <2>1, <2>2, <2>3 DEF Write
<1>5. ~Quit
  BY <1>1 DEF Quit
<1> QED BY <1>2, <1>3, <1>4, <1>5 DEF Next, Read

LEMMA EntersRepaired ==
  ASSUME TypeInv, EndLoad \/ DoMBR \/ XFormToMBR, pc' = "menu"
  PROVE  Repaired(mbr') /\ pc # "menu"
<1>1. mbr \in Tables(Types) /\ "none" \in Types
  BY PlainTypes DEF TypeInv
<1>2. CASE EndLoad
  <2>1. ~Refused
    BY <1>2 DEF EndLoad, Stop
  <2>2. program # "fixparts" /\ mbr' = MakeItLegal(mbr) /\ pc = "scan"
    BY <1>2, <2>1 DEF EndLoad
  <2> QED BY <1>1, <2>2, MakeItLegalRepairs
<1>3. CASE DoMBR
  <2>1. mbr' = MakeItLegal(mbr) /\ pc = "erase"
    BY <1>3 DEF DoMBR
  <2> QED BY <1>1, <2>1, MakeItLegalRepairs
<1>4. CASE XFormToMBR
  <2>1. PICK gpt \in GptTables : mbr' = MakeItLegal(MadeFrom(gpt))
    BY <1>4, Zenon DEF XFormToMBR, MadeFrom
  <2>2. gpt \in [Slots -> [start : Nat, len : Nat]]
    BY DiskAssumption
  <2>3. MadeFrom(gpt) \in Tables(Plain)
    BY <2>2, MadeType, PlainTypes
  <2>4. Repaired(mbr')
    BY <2>1, <2>3, MakeItLegalRepairs, PlainTypes
  <2>5. pc = "off"
    BY <1>4, XFormFrame
  <2> QED BY <2>4, <2>5
<1> QED BY <1>2, <1>3, <1>4

LEMMA CommandsKeepLegal ==
  ASSUME TypeInv, MenuInv, Menu
  PROVE  MenuStep
<1>1. mbr \in Tables(Types) /\ pc = "menu" /\ Repaired(mbr)
  BY MenuFrame DEF TypeInv, MenuInv
<1>2. CASE SetInclusion
  <2>1. PICK num \in Slots, as \in {"PRIMARY", "LOGICAL", "NONE"} : mbr' = SetInclusionwChecks(mbr, num, as)
    BY <1>2 DEF SetInclusion
  <2>2. mbr' = mbr \/ IsLegal(mbr')
    BY <2>1 DEF SetInclusionwChecks
  <2>3. IsLegal(mbr') => Repaired(mbr')
    BY DEF IsLegal, Repaired
  <2> QED BY <1>1, <2>2, <2>3 DEF MenuStep
<1>3. CASE Sort
  <2>1. mbr' \in SortMBR(mbr, 0)
    BY <1>3 DEF Sort
  <2>2. Repaired(mbr')
    BY <1>1, <2>1, SortRepaired
  <2>3. IsLegal(mbr) /\ BlankNowhere(mbr) => IsLegal(mbr')
    BY <1>1, <2>1, SortLegal
  <2> QED BY <2>2, <2>3 DEF MenuStep, BlankNowhere
<1>4. CASE ChangeType
  <2>1. PICK num \in Slots, type \in {"data", "ext", "ee"} : mbr' = SetType(mbr, num, type)
    BY <1>4 DEF ChangeType
  <2>2. type # "ext" => type \in Types
    BY DEF Types
  <2>3. (IsLegal(mbr) => IsLegal(mbr')) /\ (Repaired(mbr) => Repaired(mbr'))
    BY <1>1, <2>1, <2>2, SetTypeKeeps
  <2> QED BY <1>1, <2>3 DEF MenuStep
<1> QED BY <1>2, <1>3, <1>4 DEF Menu

LEMMA StepMenu == TypeInv /\ MenuInv /\ [Next]_vars => MenuInv' /\ [MenuStep]_vars
<1> SUFFICES ASSUME TypeInv, MenuInv, [Next]_vars PROVE MenuInv' /\ [MenuStep]_vars
  OBVIOUS
<1>1. CASE UNCHANGED vars
  BY <1>1 DEF vars, MenuInv
<1>2. CASE Next
  <2>1. pc' = "menu" => EndLoad \/ DoMBR \/ XFormToMBR \/ Menu
    BY <1>2, OnlyTheseEnterMenu
  <2>2. MenuStep
    BY <2>1, EntersRepaired, CommandsKeepLegal DEF MenuStep
  <2>3. MenuInv'
    BY <2>2 DEF MenuStep, MenuInv
  <2> QED BY <2>2, <2>3
<1> QED BY <1>1, <1>2

\* Whatever is on the disk or in the GPT that is converted, the included partitions
\* in the menu do not overlap, need at most four entries of the MBR and end on the
\* disk; and no command makes a legal array illegal (MakeItLegal(),
\* SetInclusionwChecks(), SortMBR()).
THEOREM TheMenuKeepsTablesLegal == Spec => MenuKeepsTableLegal
<1>1. MenuKeepsTableLegal <=> [][MenuStep]_vars
  BY DEF MenuKeepsTableLegal, MenuStep
<1>2. Init => MenuInv
  BY DEF Init, MenuInv
<1>3. TypeInv /\ MenuInv /\ [Next]_vars => MenuInv'
  BY StepMenu
<1>4. TypeInv /\ MenuInv /\ [Next]_vars => [MenuStep]_vars
  BY StepMenu
<1> QED BY <1>1, <1>2, <1>3, <1>4, AlwaysTypes, PTL DEF Spec


=============================================================================
