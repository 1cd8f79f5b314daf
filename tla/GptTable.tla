------------------------------ MODULE GptTable ------------------------------
(***************************************************************************)
(* The geometry of one GPT: where its headers and tables lie, which        *)
(* sectors partitions may use, and how gdisk, sgdisk and cgdisk edit it    *)
(* between a load and a save, from one session to the next.                *)
(*                                                                         *)
(* Abstractions.                                                           *)
(*  - A save is one step here; GptStore splits it into its writes.  While  *)
(*    pc = "stored" the variables hold what is on the disk, and a session  *)
(*    that ends without a save leads back to such a state.  A save that    *)
(*    fails half-way is left to GptStore.                                  *)
(*  - The main header is always at sector 1, so that currentLBA of one     *)
(*    header and backupLBA of the other are one field.                     *)
(*  - A save ends the session.  cgdisk's menu goes on after one: that is a  *)
(*    new session whose alignment the user sets.                           *)
(*  - A partition is its two sectors.  MBRs, GUIDs and names are left out. *)
(***************************************************************************)
EXTENDS FreeSpace

CONSTANTS
  Sizes,             \* the sizes a disk may have, in sectors
  Paddings,          \* sectors other programs leave free after the main table
  TableSizes,        \* what may be asked for as the number of entries
  EntriesPerSector,  \* blockSize / GPT_SIZE
  NumGptEntries,     \* NUM_GPT_ENTRIES
  DefaultAlignment,  \* DEFAULT_ALIGNMENT, a power of two
  Sectors            \* the sector numbers that may be asked for

\* GetTableSizeInSectors() for n entries.
SectorsFor(n) == (n + EntriesPerSector - 1) \div EntriesPerSector

\* The last two conjuncts: 64 bits hold every sector that a table may reach.
ASSUME TableAssumption ==
  /\ Sizes \subseteq 1..(Word - 1) /\ Paddings \subseteq Nat
  /\ TableSizes \subseteq Nat \ {0}
  /\ EntriesPerSector \in Nat \ {0} /\ NumGptEntries \in Nat \ {0}
  /\ DefaultAlignment \in Nat \ {0}
  /\ Sectors \subseteq Nat
  /\ \A x \in Sectors \cup {2}, n \in TableSizes \cup {NumGptEntries} : x + SectorsFor(n) < Word
  /\ \A k \in Paddings : 2 + SectorsFor(NumGptEntries) + k < Word

VARIABLES
  size,       \* diskSize
  pc,         \* the program that runs, or "stored" if none does
  parts,      \* the partition array; its length is numParts
  main,       \* mainHeader
  second,     \* secondHeader
  align,      \* sectorAlignment
  neverSave   \* sgdisk's neverSaveData: an option failed

vars == <<size, pc, parts, main, second, align, neverSave>>

-----------------------------------------------------------------------------
Running == pc \in {"gdisk", "sgdisk", "cgdisk"}
Interactive == pc \in {"gdisk", "cgdisk"}

\* cgdisk's menu has no command that sorts or moves anything.
FullMenu == pc \in {"gdisk", "sgdisk"}

Space == [parts |-> parts, first |-> main.first, last |-> main.last, align |-> align]

TableSize == SectorsFor(Len(parts))

\* pte is partitionEntriesLBA, first and last are firstUsableLBA and
\* lastUsableLBA, backup is the sector of the backup header.
Header == [pte: Nat, first: Nat, last: Nat, backup: Nat]

\* MoveSecondHeaderToEnd() and RebuildSecondHeader().
Moved(m) == [m EXCEPT !.backup = size - 1, !.last = Minus(size, m.first)]
Mirror(m) == [m EXCEPT !.pte = m.last + 1]

Filled_Unrounded(n) == n

\* The number of entries that fills the table's sectors.
Filled(n) == SectorsFor(n) * EntriesPerSector

BlankParts(n) == [i \in 1..n |-> Unused]

\* The array with n entries: the first ones kept, new ones blank.
Resized(n) == [i \in 1..n |-> IF i <= Len(parts) THEN parts[i] ELSE Unused]

\* Is there a used entry that n entries have no place for?
TooHigh(n) == \E i \in DOMAIN parts : i > n /\ IsUsed(parts[i])

\* ClearGPTData() on a disk of n sectors.
ClearedHeader(n) ==
  LET first == 2 + SectorsFor(NumGptEntries)
  IN  [pte |-> 2, first |-> first, last |-> Minus(n, first), backup |-> n - 1]

-----------------------------------------------------------------------------
(* Between sessions.                                                       *)

ResizeDisk ==
  /\ pc = "stored"
  /\ \E n \in Sizes : n # size /\ size' = n
  /\ UNCHANGED <<pc, parts, main, second, align, neverSave>>

TableRegion(h) == h.pte..(h.pte + TableSize - 1)
Apart(A, B) == A \cap B = {}

\* No write of a save overwrote another: the MBR, two headers, two tables.
CopiesApart ==
  /\ Apart(TableRegion(main), TableRegion(second))
  /\ Apart({0, 1, main.backup}, TableRegion(main) \cup TableRegion(second))
  /\ main.backup > 1

\* LoadPartitions() of a disk whose main copy is good.  If the disk no longer
\* has the backup header, it is rebuilt; what an older backup at the end of a
\* smaller disk would do is left out.  A disk that is too small is refused.
\* Disks whose copies overwrote each other are not followed any further.
\* (That the alignment is in 1..DefaultAlignment excludes nothing: it is halved
\* until it divides, at the latest by 1.)
Load ==
  /\ pc = "stored"
  /\ CopiesApart
  /\ main.pte + TableSize <= size
  /\ size > 2 * TableSize + 3
  /\ second' = IF main.backup < size THEN second ELSE Mirror(main)
  /\ \E a \in 1..DefaultAlignment :
       a = ComputeAlignment(parts, DefaultAlignment) /\ align' = a
  /\ neverSave' = FALSE
  /\ pc' \in {"gdisk", "sgdisk", "cgdisk"}
  /\ UNCHANGED <<size, parts, main>>

-----------------------------------------------------------------------------
(* Editing.                                                                *)

\* An operation that fails leaves sgdisk with neverSaveData set; gdisk and
\* cgdisk only report it.
Failed ==
  /\ ~Interactive
  /\ neverSave' = TRUE
  /\ UNCHANGED <<size, pc, parts, main, second, align>>

\* What sgdisk takes for a sector, and what gdisk's prompts take: GetNumber().
Asked(low, high) == IF Interactive THEN {x \in Sectors : low <= x /\ x <= high} ELSE Sectors

\* The checks of GPTData::CreatePartition(), given the aligned start.
MayCreate(n, start, end) ==
  /\ n \in DOMAIN parts /\ ~IsUsed(parts[n])
  /\ IsFree(Space, start)
  /\ start <= end
  /\ FindLastInFree(Space, start) >= end

\* GPTData::CreatePartition()
CreatePartition(n, start, end) ==
  LET first == Align(Space, start)
  IN  IF MayCreate(n, first, end)
      THEN /\ parts' = [parts EXCEPT ![n] = [first |-> first, last |-> end]]
           /\ UNCHANGED <<size, pc, main, second, align, neverSave>>
      ELSE Failed

\* sgdisk -n and -N; the computed defaults are among the sectors asked for.
NewFromOption ==
  /\ ~Interactive
  /\ \E n \in 1..(Len(parts) + 1), start, end \in Sectors : CreatePartition(n, start, end)

\* GPTDataTextUI::CreatePartition(): both ends must be free sectors.
NewFromPrompts ==
  /\ pc = "gdisk"
  /\ FindFirstAvailable(Space, 0) # 0
  /\ \E n \in DOMAIN parts, start \in Asked(FindFirstAvailable(Space, 0), FindLastAvailable(Space)) :
       /\ ~IsUsed(parts[n])
       /\ IsFree(Space, start)
       /\ LET first == Align(Space, start)
          IN  \E end \in Asked(first, FindLastInFree(Space, first)) :
                IsFree(Space, end) /\ CreatePartition(n, first, end)

\* MakeNewPart(): cgdisk's user chooses a free space, a start that is in it once
\* aligned, and an end behind that start; the entry is the first free one.
NewFromSpace ==
  /\ pc = "cgdisk"
  /\ \E space \in ToSet(IdentifySpaces(Space)), start, end \in Sectors :
       LET first == Align(Space, start)
       IN  /\ space.num = 0
           /\ space.first <= first /\ first <= end /\ end <= space.last
           /\ CreatePartition(FindFirstFreePart(parts), first, end)

New == Running /\ (NewFromOption \/ NewFromPrompts \/ NewFromSpace)

\* DeletePartition(): the entry must lie between used ones.
Delete ==
  /\ Running
  /\ \E n \in 1..(Len(parts) + 1) :
       IF /\ \E i \in DOMAIN parts : i <= n /\ IsUsed(parts[i])
          /\ \E i \in DOMAIN parts : i >= n /\ IsUsed(parts[i])
       THEN /\ parts' = [parts EXCEPT ![n] = Unused]
            /\ UNCHANGED <<size, pc, main, second, align, neverSave>>
       ELSE Failed

\* SwapPartitions()
Swap ==
  /\ FullMenu
  /\ \E n, k \in 1..(Len(parts) + 1) :
       IF n \in DOMAIN parts /\ k \in DOMAIN parts
       THEN /\ parts' = [parts EXCEPT ![n] = parts[k], ![k] = parts[n]]
            /\ UNCHANGED <<size, pc, main, second, align, neverSave>>
       ELSE Failed

\* GPTPart::operator<
Before(p, q) == IF p.first # 0 /\ q.first # 0 THEN p.first < q.first ELSE q.first < p.first

\* SortGPT(): std::sort() may leave equal entries in any order.
Sort ==
  /\ FullMenu
  /\ \E order \in Bijection(DOMAIN parts, DOMAIN parts) :
       /\ \A i, k \in DOMAIN parts : i < k => ~Before(parts[order[k]], parts[order[i]])
       /\ parts' = [i \in DOMAIN parts |-> parts[order[i]]]
  /\ UNCHANGED <<size, pc, main, second, align, neverSave>>

SetAlignment ==
  /\ Running
  /\ align' \in 1..DefaultAlignment
  /\ UNCHANGED <<size, pc, parts, main, second, neverSave>>

-----------------------------------------------------------------------------
(* Layout.                                                                 *)

\* Command 'o': the table is emptied and put where it is by default.
ClearGPTData ==
  /\ FullMenu
  /\ parts' = BlankParts(NumGptEntries)
  /\ main' = ClearedHeader(size)
  /\ second' = Mirror(main')
  /\ align' = DefaultAlignment
  /\ UNCHANGED <<size, pc, neverSave>>

SetGPTSize_KeepsUsable ==
  /\ FullMenu
  /\ \E n \in TableSizes :
       /\ Filled(n) # Len(parts)
       /\ parts' = Resized(Filled(n))
       /\ main' = Moved(main)
       /\ second' = Mirror(main')
       /\ neverSave' = (neverSave \/ (TooHigh(Filled(n)) /\ ~Interactive))
  /\ UNCHANGED <<size, pc, align>>

\* SetGPTSize(): sgdisk -S and command 's' of gdisk's experts' menu.  If there
\* are partitions that do not fit, it reports that it cannot resize, but the
\* number of entries and both headers change all the same.
SetGPTSize ==
  /\ FullMenu
  /\ \E n \in TableSizes :
       /\ Filled(n) # Len(parts)
       /\ parts' = Resized(Filled(n))
       /\ main' = Moved([main EXCEPT !.first = main.pte + SectorsFor(Filled(n))])
       /\ second' = Mirror(main')
       /\ neverSave' = (neverSave \/ (TooHigh(Filled(n)) /\ ~Interactive))
  /\ UNCHANGED <<size, pc, align>>

\* GPTData::MoveMainTable(); gdisk limits the answer to its prompt.
HighestMainTable ==
  IF \A i \in DOMAIN parts : ~IsUsed(parts[i])
  THEN Minus(FindLastAvailable(Space), TableSize)
  ELSE Minus(FindFirstUsedLBA(parts), TableSize)

MoveMainTable_NoRebuild ==
  /\ FullMenu
  /\ \E x \in Asked(2, HighestMainTable) :
       /\ x >= 2 /\ x + TableSize <= FindFirstUsedLBA(parts)
       /\ main' = [main EXCEPT !.pte = x, !.first = x + TableSize]
       /\ UNCHANGED <<size, pc, parts, second, align, neverSave>>

MoveMainTable ==
  /\ FullMenu
  /\ \E x \in Asked(2, HighestMainTable) :
       IF x >= 2 /\ x + TableSize <= FindFirstUsedLBA(parts)
       THEN /\ main' = [main EXCEPT !.pte = x, !.first = x + TableSize]
            /\ second' = Mirror(main')
            /\ UNCHANGED <<size, pc, parts, align, neverSave>>
       ELSE Failed

\* GPTData::MoveSecondTable()
MoveSecondTable ==
  /\ FullMenu
  /\ \E x \in Asked(FindLastUsedLBA(parts) + 1, Minus(size - 1, TableSize)) :
       IF x > FindLastUsedLBA(parts) /\ x + TableSize < size
       THEN /\ Interactive => x # second.pte
            /\ main' = [main EXCEPT !.last = x - 1]
            /\ second' = Mirror(main')
            /\ UNCHANGED <<size, pc, parts, align, neverSave>>
       ELSE Failed

MoveSecondHeaderToEnd ==
  /\ FullMenu
  /\ main' = Moved(main)
  /\ second' = Mirror(main')
  /\ UNCHANGED <<size, pc, parts, align, neverSave>>

-----------------------------------------------------------------------------
(* Saving.                                                                 *)

CheckGPTSize_OffByOne(m) ==
  \A p \in UsedParts(parts) : m.first <= p.first + 1 /\ p.last <= m.last + 1
NoOverlaps_SkipsNeighbours ==
  \A i, k \in DOMAIN parts :
    k + 1 < i /\ IsUsed(parts[i]) /\ IsUsed(parts[k]) => ~Overlap(parts[i], parts[k])

\* CheckGPTSize(), FindOverlaps() and FindInsanePartitions() find nothing.
CheckGPTSize(m) == \A p \in UsedParts(parts) : m.first <= p.first /\ p.last <= m.last
NoOverlaps ==
  \A i, k \in DOMAIN parts :
    k < i /\ IsUsed(parts[i]) /\ IsUsed(parts[k]) => ~Overlap(parts[i], parts[k])
NoInsanePartitions ==
  \A p \in UsedParts(parts) : p.first <= p.last /\ p.last < size

\* gdisk asks before it corrects something, the others do not.
Corrected(m) == IF pc = "gdisk" THEN {m, Moved(m)} ELSE {Moved(m)}

\* SaveGPTData(): the backup header is moved if it lies beyond the disk, or
\* (if the user agrees) before its end, or if the last usable sector is
\* beyond the disk or the backup header.
SaveGPTData ==
  /\ Running
  /\ ~neverSave
  /\ LET inDisk == IF main.backup >= size THEN Moved(main) ELSE main
     IN  /\ CheckGPTSize(inDisk)
         /\ \E atEnd \in IF inDisk.backup < size - 1 THEN Corrected(inDisk) ELSE {inDisk} :
            \E final \in IF atEnd.last >= size \/ atEnd.last > atEnd.backup
                         THEN Corrected(atEnd) ELSE {atEnd} :
              /\ main' = final
              /\ second' = IF final = main THEN second ELSE Mirror(final)
  /\ NoOverlaps
  /\ NoInsanePartitions
  \* Both tables are written within the disk.
  /\ main'.pte + TableSize <= size
  /\ second'.pte + TableSize <= size
  /\ pc' = "stored"
  /\ UNCHANGED <<size, parts, align, neverSave>>

-----------------------------------------------------------------------------
\* An empty GPT as this program or another one lays it out.
Init ==
  /\ size \in Sizes
  /\ pc = "stored"
  /\ parts = BlankParts(NumGptEntries)
  /\ \E k \in Paddings :
       main = [ClearedHeader(size) EXCEPT !.first = @ + k]
  /\ second = Mirror(main)
  /\ align = DefaultAlignment
  /\ neverSave = FALSE

Next ==
  \/ ResizeDisk \/ Load \/ New \/ Delete \/ Swap \/ Sort \/ SetAlignment
  \/ ClearGPTData \/ SetGPTSize \/ MoveMainTable \/ MoveSecondTable
  \/ MoveSecondHeaderToEnd \/ SaveGPTData

Spec == Init /\ [][Next]_vars

-----------------------------------------------------------------------------
(* Properties.                                                             *)

Partition == [first: Nat, last: Nat]

\* Every variable stays in its range; a table is never longer or shorter
\* than the sectors it was given.
TypeOK ==
  /\ size \in Sizes
  /\ pc \in {"stored", "gdisk", "sgdisk", "cgdisk"}
  /\ parts \in Seq(Partition)
  /\ Len(parts) % EntriesPerSector = 0 \/ Len(parts) = NumGptEntries
  /\ main \in Header /\ second \in Header
  /\ align \in 1..DefaultAlignment
  /\ neverSave \in BOOLEAN

\* Five functions update the two headers field by field; whatever the order
\* of commands, the headers agree on the usable sectors and on the place of
\* the backup header.
HeadersMirror == second = [main EXCEPT !.pte = second.pte]

\* The main table ends before the first usable sector, and the backup table
\* lies between the last usable sector and the backup header at the end of
\* the disk, unless the user put the usable sectors' end behind that header.
TablesInPlace ==
  Running =>
  /\ main.pte + TableSize <= main.first
  /\ second.last < second.pte
  /\ main.backup = size - 1 /\ main.last < main.backup =>
       second.pte + TableSize <= main.backup

Stores == Running /\ pc' = "stored"
Sound(p) == p.first <= p.last /\ p.last < size /\ main.pte + TableSize <= p.first

\* "Check for overlapping or insane partitions": what a save writes has
\* partitions that overlap neither one another nor the main table, and that
\* end on the disk, although partitions may overlap in memory before it.
SavedTableIsSound ==
  [][Stores => /\ \A p \in UsedParts(parts)' : Sound(p)'
               /\ \A i, k \in DOMAIN parts' :
                    i # k /\ IsUsed(parts'[i]) /\ IsUsed(parts'[k]) =>
                      Apart(parts'[i].first..parts'[i].last, parts'[k].first..parts'[k].last)]_vars

\* The sectors that a save writes to.
Metadata == {0, 1, main.backup} \cup TableRegion(main) \cup TableRegion(second)
PartitionsAreSafe ==
  \A p \in UsedParts(parts) : Apart(p.first..p.last, Metadata)

\* "Is there enough space to hold the GPT headers and partition tables, given
\* the partition sizes?": a save that moves nothing writes to no partition.
UnmovedSaveIsSafe ==
  [][Stores /\ main' = main /\ main.last < main.backup => PartitionsAreSafe']_vars

\* No save writes to a sector of a partition.
SaveIsSafe == [][Stores => PartitionsAreSafe']_vars

FreeSectors == {x \in main.first..main.last : \A p \in UsedParts(parts) : ~Holds(p, x)}

\* A partition that gdisk's or cgdisk's user creates takes sectors that were free.  (sgdisk
\* leaves the last word to the checks of the save.)
NewPartitionIsFree ==
  [][Interactive => \A p \in UsedParts(parts)' :
       p \in UsedParts(parts) \/ p.first..p.last \subseteq FreeSectors]_vars

\* "Find the first available block", "the last available block": the searches
\* that the prompts' ranges and defaults come from agree with the set of free
\* sectors, in any order of the array, as long as there are usable sectors.
FreeSpaceIsFound ==
  Running /\ main.first <= main.last =>
    /\ \A x \in Sectors :
         LET free == {y \in FreeSectors : y >= x}
         IN  FindFirstAvailable(Space, x) = IF free = {} THEN 0 ELSE Min(free)
    /\ FindLastAvailable(Space) = IF FreeSectors = {} THEN 0 ELSE Max(FreeSectors)

\* "Finds the first available sector in the largest block", "the total number
\* of free blocks": the defaults offered for a new partition span the largest
\* free block, or what alignment leaves of it, and every free sector is counted
\* once, in a table that can be saved.  (Partitions of a single sector spoil
\* this: FindLastInFree() passes over one right behind its start.)
LargestBlockIsFound ==
  /\ Running /\ main.first <= main.last
  /\ NoOverlaps /\ CheckGPTSize(main)
  /\ \A p \in UsedParts(parts) : p.first < p.last
  =>
  /\ FindFreeBlocks(Space) = Cardinality(FreeSectors)
  /\ LET start == FindFirstInLargest(Space)
         last == FindLastInFree(Space, start)
     IN  IF FreeSectors = {} THEN start = 0
         ELSE /\ start \in FreeSectors /\ start..last \subseteq FreeSectors
              /\ \A x, y \in FreeSectors : x..y \subseteq FreeSectors => y - x <= last - start
              /\ FindLastAligned(Space, start) \in start..last

\* Align() moves a free sector only within its free block.
AlignStaysInBlock ==
  Running => \A x \in FreeSectors :
    LET y == Align(Space, x) IN x..y \cup y..x \subseteq FreeSectors

\* "each partition's starting LBA is examined": the one exponent that a load
\* lowers over the array ends at the largest power of two that divides every
\* partition's first sector, whatever the array's order.
LoadedAlignmentFits ==
  [][pc = "stored" /\ Running' =>
       LET powers == {a \in 1..DefaultAlignment : \E k \in 0..DefaultAlignment : a = 2^k}
       IN  align' = Max({a \in powers : \A p \in UsedParts(parts) : p.first % a = 0})]_vars

\* "the spaces on the disk, a space being defined as a partition or an empty gap
\* between, before, or after partitions": in a table that can be saved, cgdisk's
\* list has every usable sector in one space; the free spaces are those whose
\* sectors are free; and the default end of a new partition is in its space.
\* (The end is aligned over a partition of one sector that follows the space.)
SpacesTileTheTable ==
  /\ pc = "cgdisk" /\ main.first <= main.last
  /\ NoOverlaps /\ CheckGPTSize(main)
  =>
  \A x \in main.first..main.last :
    \E space \in ToSet(IdentifySpaces(Space)) :
      /\ \A other \in ToSet(IdentifySpaces(Space)) : Holds(other, x) <=> other = space
      /\ space.num = 0 <=> x \in FreeSectors
      /\ space.num = 0 /\ (\A p \in UsedParts(parts) : p.first < p.last) =>
           DefaultEnd(Space, space, x) \in x..space.last

\* "cannot resize. Perhaps sorting will help": no partition is lost in a
\* resize after which the table may be saved.
ResizeKeepsPartitions ==
  [][Len(parts') # Len(parts) /\ parts' # BlankParts(NumGptEntries) /\ ~neverSave' =>
       UsedParts(parts)' = UsedParts(parts)]_vars

=============================================================================
