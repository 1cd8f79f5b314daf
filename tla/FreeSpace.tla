------------------------------ MODULE FreeSpace ------------------------------
(***************************************************************************)
(* Where GPTData finds free sectors for a partition.  A space s is the     *)
(* part of a GPTData that these functions read:                            *)
(*   s.parts   the partition array, entry n of the code at index n + 1     *)
(*   s.first   mainHeader.firstUsableLBA                                   *)
(*   s.last    mainHeader.lastUsableLBA                                    *)
(*   s.align   sectorAlignment                                             *)
(* An unused entry has both of its sectors 0, as BlankPartition() and the  *)
(* constructor leave it, and no used entry begins at sector 0.             *)
(***************************************************************************)
EXTENDS Integers, Sequences, SequencesExt

CONSTANT Word   \* a sector number is at most Word - 1 (2^64 in the code)

ASSUME WordAssumption == Word \in Nat \ {0}

\* uint64_t subtraction.
Minus(a, b) == IF a >= b THEN a - b ELSE (a - b) + Word

Unused == [first |-> 0, last |-> 0]
IsUsed(p) == p # Unused
Holds(p, sector) == p.first <= sector /\ sector <= p.last

UsedParts(parts) == {parts[i] : i \in {j \in DOMAIN parts : IsUsed(parts[j])}}

\* GPTPart::DoTheyOverlap()
Overlap(p, q) == (p.first <= q.last) # (p.last < q.first)

-----------------------------------------------------------------------------
\* GPTData::IsFree()
IsFree(s, sector) ==
  /\ \A i \in DOMAIN s.parts : ~Holds(s.parts[i], sector)
  /\ s.first <= sector /\ sector <= s.last

\* One pass over the array from 'first': past each partition that holds it.
PassForward(s, first) ==
  FoldLeft(LAMBDA x, p : IF IsUsed(p) /\ Holds(p, x) THEN p.last + 1 ELSE x,
           first, s.parts)

FindFirstAvailable_OnePass(s, start) ==
  LET first == PassForward(s, IF start < s.first THEN s.first ELSE start)
  IN  IF first > s.last THEN 0 ELSE first

\* GPTData::FindFirstAvailable()
FindFirstAvailable(s, start) ==
  LET settled[x \in Nat] == LET y == PassForward(s, x)
                            IN  IF y = x THEN x ELSE settled[y]
      first == settled[IF start < s.first THEN s.first ELSE start]
  IN  IF first > s.last THEN 0 ELSE first

PassBackward(s, last) ==
  FoldLeft(LAMBDA x, p : IF Holds(p, x) THEN Minus(p.first, 1) ELSE x, last, s.parts)

\* GPTData::FindLastAvailable()
FindLastAvailable(s) ==
  LET settled[x \in Nat] == LET y == PassBackward(s, x)
                            IN  IF y = x THEN x ELSE settled[y]
      last == settled[s.last]
  IN  IF last < s.first THEN 0 ELSE last

Align_UpUnchecked(s, sector) ==
  LET earlier == (sector \div s.align) * s.align
      later == earlier + s.align
  IN  IF sector % s.align = 0 THEN sector
      ELSE IF earlier >= s.first /\ \A x \in earlier..(sector - 1) : IsFree(s, x)
           THEN earlier
      ELSE IF later <= s.last THEN later ELSE sector

\* GPTData::Align(): down if every sector on the way is free, otherwise up.
Align(s, sector) ==
  LET earlier == (sector \div s.align) * s.align
      later == earlier + s.align
  IN  IF sector % s.align = 0 THEN sector
      ELSE IF earlier >= s.first /\ \A x \in earlier..(sector - 1) : IsFree(s, x)
           THEN earlier
      ELSE IF later <= s.last /\ \A x \in (sector + 1)..later : IsFree(s, x)
           THEN later
      ELSE sector

FindLastInFree_LastListed(s, start) ==
  FoldLeft(LAMBDA x, p : IF p.first > start THEN p.first - 1 ELSE x, s.last, s.parts)

\* GPTData::FindLastInFree(), without and with alignment.
FindLastInFree(s, start) ==
  FoldLeft(LAMBDA x, p : IF x > p.first /\ p.first > start THEN p.first - 1 ELSE x,
           s.last, s.parts)

FindLastAligned(s, start) ==
  LET last == FindLastInFree(s, start)
      endPlus == Align(s, last + 1)
  IN  IF endPlus # last + 1 /\ IsFree(s, endPlus - 1) /\ endPlus > start
      THEN endPlus - 1 ELSE last

\* The free segments in the order in which FindFirstInLargest() and
\* FindFreeBlocks() meet them.
Segments(s) ==
  LET from[start \in Nat] ==
        LET first == FindFirstAvailable(s, start)
            last == FindLastInFree(s, first)
        IN  IF first = 0 THEN <<>>
            ELSE <<[first |-> first, last |-> last]>> \o from[last + 1]
  IN  from[0]

Size_OffByOne(segment) == segment.last - segment.first

Size(segment) == segment.last - segment.first + 1

\* GPTData::FindFirstInLargest(): of equal segments, the first.
FindFirstInLargest(s) ==
  FoldLeft(LAMBDA x, seg : IF Size(seg) > Size(x) THEN seg ELSE x,
           [first |-> 0, last |-> -1], Segments(s)).first

\* GPTData::FindFreeBlocks()
FindFreeBlocks(s) == FoldLeft(LAMBDA x, seg : x + Size(seg), 0, Segments(s))

\* GPTData::FindFirstUsedLBA() and FindLastUsedLBA()
FindFirstUsedLBA(parts) ==
  FoldLeft(LAMBDA x, p : IF IsUsed(p) /\ p.first < x THEN p.first ELSE x, Word - 1, parts)
FindLastUsedLBA(parts) ==
  FoldLeft(LAMBDA x, p : IF IsUsed(p) /\ p.first > x THEN p.last ELSE x, 0, parts)

\* a, halved until x is a multiple of it.
Halved(a, x) == LET h[n \in 1..a] == IF x % n = 0 THEN n ELSE h[n \div 2] IN h[a]

ComputeAlignment_LastOnly(parts, default) ==
  FoldLeft(LAMBDA a, p : IF IsUsed(p) THEN Halved(default, p.first) ELSE a, default, parts)

\* GPTData::ComputeAlignment(), without the minimum for large disks.
ComputeAlignment(parts, default) ==
  FoldLeft(LAMBDA a, p : IF IsUsed(p) THEN Halved(a, p.first) ELSE a, default, parts)

\* The entry that cgdisk and sgdisk give to a new partition, 0 if there is none.
FindFirstFreePart(parts) ==
  LET free == {n \in DOMAIN parts : ~IsUsed(parts[n])}
  IN  IF free = {} THEN 0 ELSE CHOOSE n \in free : \A k \in free : n <= k

-----------------------------------------------------------------------------
(* The list of spaces that cgdisk shows: num is the partition's entry, or 0 *)
(* in a space that is free.                                                *)

SpaceOf(first, last, num) == [first |-> first, last |-> last, num |-> num]
EmptySpace(first, last) == IF first <= last THEN <<SpaceOf(first, last, 0)>> ELSE <<>>

\* MakeSpacesFromParts() and SortSpaces(): the space at i has i - 1 others in
\* front of it.
SpacesFromParts(s) ==
  LET used == {n \in DOMAIN s.parts : IsUsed(s.parts[n])}
      spaces == {SpaceOf(s.parts[n].first, s.parts[n].last, n) : n \in used}
      Before(p, q) == p.first < q.first \/ (p.first = q.first /\ p.num < q.num)
  IN  [i \in 1..Cardinality(spaces) |->
         CHOOSE p \in spaces : Cardinality({q \in spaces : Before(q, p)}) = i - 1]

\* The space in front of the first partition forgotten.
IdentifySpaces_FromFirst(s) ==
  LET After(list) == list[Len(list)].last + 1
      Add(list, p) == (IF list = <<>> THEN list ELSE list \o EmptySpace(After(list), p.first - 1)) \o <<p>>
      filled == FoldLeft(Add, <<>>, SpacesFromParts(s))
  IN  IF filled = <<>> THEN <<SpaceOf(s.first, s.last, 0)>>
      ELSE filled \o EmptySpace(After(filled), s.last)

\* IdentifySpaces(): each gap that AddEmptySpaces() finds behind a space and in
\* front of the next one becomes a space between them.
IdentifySpaces(s) ==
  LET After(list) == IF list = <<>> THEN s.first ELSE list[Len(list)].last + 1
      Add(list, p) == list \o EmptySpace(After(list), p.first - 1) \o <<p>>
      filled == FoldLeft(Add, <<>>, SpacesFromParts(s))
  IN  IF filled = <<>> THEN <<SpaceOf(s.first, s.last, 0)>>
      ELSE filled \o EmptySpace(After(filled), s.last)

\* The end that MakeNewPart() offers for a partition from 'first' in a space.
DefaultEnd(s, space, first) ==
  LET aligned == Align(s, space.last + 1) - 1
  IN  IF IsFree(s, aligned) /\ first <= aligned THEN aligned ELSE space.last

=============================================================================
