------------------------------ MODULE MbrLayout ------------------------------
(***************************************************************************)
(* The rules that BasicMBRData keeps for its array of partitions: which of *)
(* them are primary, logical or omitted, whether the array is legal, how   *)
(* MakeItLegal() repairs it and how CreateExtended() arranges it for the   *)
(* disk.  An array mbr is a function from Slots to partitions              *)
(*   start, len   firstLBA and lengthLBA                                   *)
(*   as           includeAs                                                *)
(*   type         "none" (00), "ee" (EE), "ext" (05, 0F, 85) or "data"     *)
(* Numbers keep their two widths: LBA fields have 32 bits, sector numbers  *)
(* computed from them have 64.                                             *)
(***************************************************************************)
EXTENDS Integers, Sequences, FiniteSets, SequencesExt

CONSTANTS MaxParts,   \* MAX_MBR_PARTS
          DiskSize,   \* diskSize, in sectors
          Max32,      \* UINT32_MAX
          Max64       \* UINT64_MAX

ASSUME LayoutAssumption ==
  /\ MaxParts \in Nat /\ MaxParts > 4
  /\ Max32 \in Nat /\ Max64 \in Nat /\ Max64 > 2 * Max32 + 2
  /\ DiskSize \in 2 .. Max32

Slots == 0 .. MaxParts - 1
Upward == [k \in 1 .. MaxParts |-> k - 1]      \* for (i = 0; i < MAX_MBR_PARTS; i++)
Downward == [k \in 1 .. MaxParts |-> MaxParts - k]

\* A loop over entries in this order.  (The singletons make TLC compute the
\* state of one step before it begins the next.)
Loop(Step(_, _), state, order) ==
  LET after[k \in 0 .. Len(order)] ==
        IF k = 0 THEN state ELSE CHOOSE y \in {Step(v, order[k]) : v \in {after[k - 1]}} : TRUE
  IN  after[Len(order)]

EmptyPart == [start |-> 0, len |-> 0, as |-> "NONE", type |-> "none"]
EmptyMBR == [i \in Slots |-> EmptyPart]
MkPart(start, len, as, type) == [start |-> start, len |-> len, as |-> as, type |-> type]

Minus64(a, b) == IF a >= b THEN a - b ELSE (a - b) + Max64 + 1
Low32(n) == n % (Max32 + 1)

LastLBA(p) == IF p.len > 0 THEN p.start + p.len - 1 ELSE 0
Overlap(p, q) ==
  /\ p.len > 0 /\ q.len > 0
  /\ (p.start <= LastLBA(q)) # (LastLBA(p) < q.start)
Covers(p, sector) == p.start <= sector /\ sector <= LastLBA(p)

Including(mbr, as) == {i \in Slots : mbr[i].as = as}
Included(mbr) == Including(mbr, "PRIMARY") \union Including(mbr, "LOGICAL")
SetAs(mbr, i, as) == [mbr EXCEPT ![i].as = as]
Swapped(mbr, i, j) == [mbr EXCEPT ![i] = mbr[j], ![j] = mbr[i]]

LeastOf(S) == CHOOSE x \in S : \A y \in S : x <= y
GreatestOf(S) == CHOOSE x \in S : \A y \in S : x >= y

-----------------------------------------------------------------------------
(***************************************************************************)
(* Questions about the array                                               *)
(***************************************************************************)
NumLogicals(mbr) == Cardinality(Including(mbr, "LOGICAL"))
NumPrimaries(mbr) ==
  LET Sized(as) == {i \in Including(mbr, as) : mbr[i].len > 0}
  IN  Cardinality(Sized("PRIMARY")) + (IF Sized("LOGICAL") # {} THEN 1 ELSE 0)
CountParts(mbr) == Cardinality(Included(mbr))

FirstLogicalLBA(mbr) ==
  LeastOf({mbr[i].start : i \in Including(mbr, "LOGICAL")} \union {Max32})
LastLogicalLBA(mbr) ==
  GreatestOf({LastLBA(mbr[i]) : i \in Including(mbr, "LOGICAL")} \union {0})

\* SectorUsedAs(): the loop ends at the first 'top' entries or when a sector
\* is found in use; an EBR found may still be overridden by a later entry.
SectorUsedAs(mbr, sector, top) ==
  LET Look(was, i) ==
        IF was \notin {"NONE", "EBR"} THEN was
        ELSE IF sector >= DiskSize THEN "INVALID"
        ELSE IF sector = 0 \/ (mbr[i].start = sector + 1 /\ mbr[i].as = "LOGICAL") THEN "EBR"
        ELSE IF Covers(mbr[i], sector) THEN mbr[i].as
        ELSE was
  IN  FoldLeft(Look, "NONE", SubSeq(Upward, 1, top))
UsedAs(mbr, sector) == SectorUsedAs(mbr, sector, MaxParts)

FindNextInUse(mbr, start) ==
  LET inUse == {i \in Slots : i >= start /\ mbr[i].as # "NONE"}
  IN  IF inUse = {} THEN -1 ELSE LeastOf(inUse)

-----------------------------------------------------------------------------
(***************************************************************************)
(* IsLegal()                                                               *)
(***************************************************************************)
NoOverlaps(mbr) ==
  \A i, j \in Slots : /\ i < j
                      /\ mbr[i].as # "NONE" /\ mbr[j].as # "NONE"
                      => ~Overlap(mbr[i], mbr[j])
AreLogicalsContiguous(mbr) ==
  LastLogicalLBA(mbr) > 0 =>
    \A i \in Including(mbr, "PRIMARY") :
      ~(Minus64(FirstLogicalLBA(mbr), 1) <= mbr[i].start /\ mbr[i].start <= LastLogicalLBA(mbr))
DoTheyFit(mbr) == \A i \in Slots : mbr[i].start <= DiskSize /\ LastLBA(mbr[i]) <= DiskSize
SpaceBeforeAllLogicals(mbr) ==
  \A i \in Including(mbr, "LOGICAL") :
    mbr[i].start > 0 => UsedAs(mbr, mbr[i].start - 1) = "EBR"

IsLegal(mbr) ==
  /\ NoOverlaps(mbr)
  /\ NumPrimaries(mbr) <= 4
  /\ AreLogicalsContiguous(mbr)
  /\ DoTheyFit(mbr)
  /\ SpaceBeforeAllLogicals(mbr)

\* The rules that MakeItLegal() restores in every array.  The other two, on the
\* places of the logical partitions, it may leave broken.
Repaired(mbr) == NoOverlaps(mbr) /\ NumPrimaries(mbr) <= 4 /\ DoTheyFit(mbr)

-----------------------------------------------------------------------------
(***************************************************************************)
(* UpdateCanBeLogical(): the flags canBeLogical and canBePrimary, as the   *)
(* sets of entries that have them.  An empty entry ends in sector 0, which *)
(* counts as an EBR: it has neither.                                       *)
(***************************************************************************)
UsedAsEBR(mbr, i) == UsedAs(mbr, LastLBA(mbr[i])) = "EBR"

\* A primary between this partition and the logicals keeps it from joining them.
PrimaryInTheWay(mbr, i) ==
  LET first == Minus64(FirstLogicalLBA(mbr), 1)
  IN  \E j \in Including(mbr, "PRIMARY") \ {i} :
        \/ mbr[j].start < mbr[i].start /\ first < mbr[j].start
        \/ mbr[j].start > mbr[i].start /\ first > mbr[j].start

MayBeLogical(mbr, i) ==
  /\ ~UsedAsEBR(mbr, i) /\ mbr[i].len > 0
  /\ UsedAs(mbr, Minus64(mbr[i].start, 1)) \in {"EBR", "NONE"}
  /\ LastLogicalLBA(mbr) > 0 => ~PrimaryInTheWay(mbr, i)

AmongLogicals(mbr, i) ==
  /\ mbr[i].start > FirstLogicalLBA(mbr)
  /\ LastLBA(mbr[i]) < LastLogicalLBA(mbr)

MayBePrimary(mbr, i) ==
  /\ ~UsedAsEBR(mbr, i) /\ mbr[i].len > 0
  /\ \/ NumPrimaries(mbr) < 4
     \/ mbr[i].as = "PRIMARY"
     \/ mbr[i].as = "LOGICAL" /\ NumLogicals(mbr) = 1 /\ NumPrimaries(mbr) = 4
  /\ ~AmongLogicals(mbr, i)

UpdateCanBeLogical(mbr) ==
  [logical |-> {i \in Slots : MayBeLogical(mbr, i)},
   primary |-> {i \in Slots : MayBePrimary(mbr, i)}]

-----------------------------------------------------------------------------
(***************************************************************************)
(* MakeItLegal() and its passes.  A pass is a loop over the array, upward  *)
(* or downward, each step of which reads what the steps before it left.    *)
(***************************************************************************)
Oversized(p) == p.start > DiskSize \/ LastLBA(p) > DiskSize
DeleteOversizedParts(mbr) == [i \in Slots |-> IF Oversized(mbr[i]) THEN EmptyPart ELSE mbr[i]]

\* Returns the array and the flags as of the last UpdateCanBeLogical(), which
\* ran before the array's first entry was decided.
MaximizeLogicals(mbr) ==
  LET Decide(x, i) ==
        LET can == UpdateCanBeLogical(x.mbr)
            as == IF i \in can.logical THEN "LOGICAL"
                  ELSE IF i \in can.primary THEN "PRIMARY" ELSE "NONE"
        IN  [mbr |-> SetAs(x.mbr, i, as), can |-> can]
      x == Loop(Decide, [mbr |-> mbr, can |-> UpdateCanBeLogical(mbr)], Downward)
  IN  IF NumPrimaries(x.mbr) < 4 /\ x.mbr[0].as = "LOGICAL"
      THEN [x EXCEPT !.mbr = SetAs(x.mbr, 0, "NONE")]
      ELSE x

MaximizePrimaries(x) ==
  LET Add(y, i) ==
        IF y.num < 4 /\ y.mbr[i].as = "NONE" /\ i \in y.can.primary
        THEN LET added == SetAs(y.mbr, i, "PRIMARY")
             IN  [mbr |-> added, can |-> UpdateCanBeLogical(added), num |-> y.num + 1]
        ELSE y
  IN  Loop(Add, [mbr |-> x.mbr, can |-> x.can, num |-> NumPrimaries(x.mbr)], Upward).mbr

\* The range of the logicals is computed once, before the first change.
MakeLogicalsContiguous(mbr) ==
  LET first == FirstLogicalLBA(mbr)
      last == LastLogicalLBA(mbr)
      Convert(m, i) ==
        IF m[i].as = "PRIMARY" /\ first <= m[i].start /\ LastLBA(m[i]) <= last
        THEN SetAs(m, i, IF UsedAs(m, Minus64(m[i].start, 1)) = "NONE" THEN "LOGICAL" ELSE "NONE")
        ELSE m
  IN  Loop(Convert, mbr, Upward)

\* Omits primaries beyond the fourth, the last ones in the array first.
TrimPrimaries(mbr) ==
  LET Trim(x, i) == IF x.left > 0 /\ x.mbr[i].as = "PRIMARY"
                    THEN [mbr |-> SetAs(x.mbr, i, "NONE"), left |-> x.left - 1]
                    ELSE x
  IN  Loop(Trim, [mbr |-> mbr, left |-> NumPrimaries(mbr) - 4], Downward).mbr

\* The inner loop goes on with entry i after it was omitted, but its test fails.
OmitOverlaps(mbr) ==
  LET Against(i, m, j) ==
        IF j <= i \/ m[i].as = "NONE" \/ ~Overlap(m[i], m[j]) THEN m
        ELSE SetAs(m, IF m[i].len < m[j].len THEN i ELSE j, "NONE")
      Omit(m, i) == Loop(LAMBDA n, j : Against(i, n, j), m, Upward)
  IN  Loop(Omit, mbr, Upward)

MakeItLegal(mbr) ==
  IF IsLegal(mbr) THEN mbr
  ELSE LET fitting == DeleteOversizedParts(mbr)
           maximal == MaximizePrimaries(MaximizeLogicals(fitting))
           joined == IF AreLogicalsContiguous(maximal) THEN maximal ELSE MakeLogicalsContiguous(maximal)
       IN  OmitOverlaps(IF NumPrimaries(joined) > 4 THEN TrimPrimaries(joined) ELSE joined)

-----------------------------------------------------------------------------
(***************************************************************************)
(* SetInclusionwChecks(): a change that would make a legal array illegal   *)
(* is taken back, and an illegal array is not changed at all.              *)
(***************************************************************************)
SetInclusionwChecks_Unchecked(mbr, num, as) ==
  IF IsLegal(mbr) THEN SetAs(mbr, num, as) ELSE mbr

SetInclusionwChecks(mbr, num, as) ==
  IF IsLegal(mbr) /\ IsLegal(SetAs(mbr, num, as)) THEN SetAs(mbr, num, as) ELSE mbr

\* MBRPart::SetType() refuses the codes of extended partitions.
SetType(mbr, num, type) == IF type = "ext" THEN mbr ELSE [mbr EXCEPT ![num].type = type]

\* MBRPart::operator<() turns the comparison around for unused entries.
Before(p, q) == IF p.len > 0 /\ q.len > 0 THEN p.start < q.start ELSE q.start < p.start

\* SortMBR(): the arrays that std::sort() may leave: no entry directly behind
\* one that it belongs before.  Blank entries end up last, in any order (with one
\* exception: they equal a partition that begins in sector 0, which is sorted here
\* by its start).
SortMBR(mbr, from) ==
  LET all == from .. MaxParts - 1
      filled == {i \in all : mbr[i].len > 0 \/ mbr[i].start > 0}
      n == Cardinality(filled)
      Orders == {f \in [1 .. n -> filled] : /\ \A k \in 1 .. n - 1 : ~Before(mbr[f[k + 1]], mbr[f[k]])
                                            /\ \A k, l \in 1 .. n : k # l => f[k] # f[l]}
      blank == {mbr[i] : i \in all \ filled}
      Rests == {g \in [from + n .. MaxParts - 1 -> blank] :
                  \A p \in blank : Cardinality({i \in DOMAIN g : g[i] = p}) = Cardinality({i \in all : mbr[i] = p})}
  IN  {[i \in Slots |-> IF i < from THEN mbr[i]
                        ELSE IF i - from < n THEN mbr[f[i - from + 1]] ELSE g[i]] : f \in Orders, g \in Rests}

-----------------------------------------------------------------------------
(***************************************************************************)
(* CreateExtended(): primaries into the first four entries, the others     *)
(* behind them, the logicals sorted, and an entry for the extended         *)
(* partition that holds them with their EBRs.                              *)
(***************************************************************************)
FirstFour == <<0, 1, 2, 3>>
Behind == [k \in 1 .. MaxParts - 4 |-> k + 3]

RemoveLogicalsFromFirstFour(mbr) ==
  LET Move(m, i) ==
        LET room == {j \in 4 .. MaxParts - 1 : m[j].as = "NONE" /\ m[j].len = 0}
        IN  IF m[i].as = "PRIMARY" \/ m[i].len = 0 \/ room = {} THEN m ELSE Swapped(m, i, LeastOf(room))
  IN  Loop(Move, mbr, FirstFour)

MovePrimariesToFirstFour_One(mbr) ==
  LET Move(m, i) ==
        LET room == {j \in 0 .. 0 : m[j].as # "PRIMARY"}
        IN  IF m[i].as # "PRIMARY" \/ room = {} THEN m ELSE Swapped(m, i, LeastOf(room))
  IN  Loop(Move, mbr, Behind)

MovePrimariesToFirstFour(mbr) ==
  LET Move(m, i) ==
        LET room == {j \in 0 .. 3 : m[j].as # "PRIMARY"}
        IN  IF m[i].as # "PRIMARY" \/ room = {} THEN m ELSE Swapped(m, i, LeastOf(room))
  IN  Loop(Move, mbr, Behind)

ExtendedFor_WithoutEBR(mbr) ==
  MkPart(FirstLogicalLBA(mbr), LastLogicalLBA(mbr) - FirstLogicalLBA(mbr) + 1, "PRIMARY", "ext")

\* SetStartLBA() and SetLengthLBA() keep the lower 32 bits.
ExtendedFor(mbr) ==
  MkPart(Low32(Minus64(FirstLogicalLBA(mbr), 1)),
         Low32(Minus64(LastLogicalLBA(mbr) + 2, FirstLogicalLBA(mbr))), "PRIMARY", "ext")

WithExtended(sorted) ==
  LET room == {i \in 0 .. 3 : sorted[i].as = "NONE" \/ sorted[i].len = 0}
      placed == [sorted EXCEPT ![LeastOf(room)] = ExtendedFor(sorted)]
  IN  IF room = {} THEN [mbr |-> sorted, ok |-> FALSE]
      ELSE [mbr |-> placed, ok |-> \A i \in Slots : placed[i].type # "ee"]

\* The arrays it may leave, each with what it returns.
CreateExtended(mbr) ==
  LET moved == MovePrimariesToFirstFour(RemoveLogicalsFromFirstFour(mbr))
  IN  IF ~IsLegal(mbr) THEN {[mbr |-> mbr, ok |-> FALSE]}
      ELSE IF NumLogicals(moved) = 0 THEN {[mbr |-> moved, ok |-> TRUE]}
      ELSE {WithExtended(sorted) : sorted \in SortMBR(moved, 4)}

-----------------------------------------------------------------------------
(***************************************************************************)
(* Free space, as the builders of hybrid MBRs see it: only the first four  *)
(* entries are looked at.                                                  *)
(***************************************************************************)
FindFirstAvailable(mbr, start) ==
  LET Pass(x) == FoldLeft(LAMBDA y, i : IF mbr[i].start <= y /\ y < mbr[i].start + mbr[i].len
                                        THEN mbr[i].start + mbr[i].len ELSE y, x, FirstFour)
      settled[x \in Nat] == LET y == Pass(x) IN IF y = x THEN x ELSE settled[y]
      first == settled[start]
  IN  IF start >= Max32 - 1 \/ start >= DiskSize - 1 \/ first >= DiskSize \/ first > Max32
      THEN 0 ELSE first

FindLastInFree(mbr, start) ==
  FoldLeft(LAMBDA nearest, i : IF nearest > mbr[i].start /\ mbr[i].start > start
                               THEN mbr[i].start - 1 ELSE nearest,
           DiskSize - 1, FirstFour)

FindFirstInFree(mbr, start) ==
  FoldLeft(LAMBDA best, i : IF LastLBA(mbr[i]) > best /\ LastLBA(mbr[i]) < start
                            THEN LastLBA(mbr[i]) + 1 ELSE best,
           1, FirstFour)

\* MakePart(): numbers from 4 on are logical.
MakePart(mbr, num, start, len, type) ==
  IF num \notin Slots \/ start > Max32 \/ len > Max32 THEN mbr
  ELSE [mbr EXCEPT ![num] = MkPart(start, len, IF num < 4 THEN "PRIMARY" ELSE "LOGICAL", type)]

\* The free segments of the search in MakeBiggestPart(), first to last.
FreeSegments(mbr) ==
  LET from[start \in Nat] ==
        LET first == FindFirstAvailable(mbr, start)
            last == FindLastInFree(mbr, first)
        IN  IF first = 0 THEN <<>> ELSE <<[start |-> first, len |-> last - first + 1]>> \o from[last + 1]
  IN  from[1]

MakeBiggestPart(mbr, num, type) ==
  LET Larger(best, s) == IF s.len > best.len THEN s ELSE best
      biggest == FoldLeft(Larger, [start |-> 0, len |-> 0], FreeSegments(mbr))
  IN  IF biggest.len > 0 /\ biggest.len < DiskSize
      THEN MakePart(mbr, num, biggest.start, biggest.len, type) ELSE mbr

\* MBRData::MakeProtectiveMBR()
ProtectiveMBR == [EmptyMBR EXCEPT ![0] = MkPart(1, DiskSize - 1, "PRIMARY", "ee")]
=============================================================================
