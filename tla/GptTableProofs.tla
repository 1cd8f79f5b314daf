--------------------------- MODULE GptTableProofs ---------------------------
(***************************************************************************)
(* GptTable for every size of disk, table and sector number: the headers   *)
(* agree, the tables are in place, what a save writes is sound and apart   *)
(* from the partitions, and the searches find the free sectors.            *)
(***************************************************************************)
EXTENDS GptTable, FreeSpaceProofs

SessionOK ==
  /\ size \in Sizes
  /\ pc \in {"stored", "gdisk", "sgdisk", "cgdisk"}
  /\ align \in 1..DefaultAlignment
  /\ neverSave \in BOOLEAN

\* A used entry begins behind the headers and does not end before it begins.
Placed(p) == 2 <= p.first /\ p.first <= p.last

\* The array has a length that the user asked for.
ArrayOK ==
  /\ parts \in Seq(Partition)
  /\ Len(parts) = NumGptEntries \/ \E n \in TableSizes : Len(parts) = Filled(n)
  /\ \A i \in DOMAIN parts : IsUsed(parts[i]) => Placed(parts[i])

\* The first usable sector lies behind the main table.
MainOK ==
  /\ main \in Header
  /\ main.pte \in {2} \cup Sectors /\ 2 <= main.pte
  /\ main.pte + TableSize <= main.first /\ main.first < Word

BackupFits ==
  main.backup = size - 1 /\ main.last < main.backup =>
    main.last + 1 + TableSize <= main.backup

\* The inductive invariant: the second header is always the one that
\* RebuildSecondHeader() makes of the first, also between the sessions, where
\* TablesInPlace says nothing, since the disk may have changed its size.
Inv ==
  /\ SessionOK /\ ArrayOK /\ MainOK
  /\ second = Mirror(main)
  /\ Running => BackupFits

-----------------------------------------------------------------------------
(* Headers.                                                                 *)

LEMMA SectorsForType ==
  ASSUME NEW n \in Nat
  PROVE  SectorsFor(n) \in Nat
BY TableAssumption DEF SectorsFor

LEMMA FilledType ==
  ASSUME NEW n \in Nat
  PROVE  Filled(n) \in Nat /\ Filled(n) % EntriesPerSector = 0
<1> DEFINE k == SectorsFor(n)
<1>1. k \in Nat
  BY SectorsForType
<1>2. Filled(n) = k * EntriesPerSector
  BY DEF Filled
<1> HIDE DEF k
<1> QED BY <1>1, <1>2, TableAssumption

\* A table filled to its last sector needs no other sector.
LEMMA FilledSectors ==
  ASSUME NEW n \in Nat
  PROVE  SectorsFor(Filled(n)) = SectorsFor(n)
<1> DEFINE k == SectorsFor(n)
           e == EntriesPerSector
<1>1. k \in Nat /\ e \in Nat /\ 1 <= e
  BY SectorsForType, TableAssumption
<1>2. SectorsFor(Filled(n)) = (k * e + e - 1) \div e
  BY DEF SectorsFor, Filled
<1> HIDE DEF k, e
<1>3. (k * e + e - 1) \div e = k
  <2> DEFINE d == (k * e + e - 1) \div e
             r == (k * e + e - 1) % e
  <2>1. k * e \in Nat
    BY <1>1
  <2>2. k * e + e - 1 = d * e + r /\ d \in Int /\ r \in 0..e - 1
    BY <1>1, <2>1
  <2> HIDE DEF d, r
  <2>3. (k - d) * e = r - (e - 1)
    BY <1>1, <2>2
  <2>4. ~(k < d)
    <3>1. SUFFICES ASSUME k < d PROVE FALSE
      OBVIOUS
    <3>2. (k - d) * e <= -e
      BY <1>1, <2>2, <3>1
    <3> QED BY <1>1, <2>2, <2>3, <3>2
  <2>5. ~(k > d)
    <3>1. SUFFICES ASSUME k > d PROVE FALSE
      OBVIOUS
    <3>2. (k - d) * e >= e
      BY <1>1, <2>2, <3>1
    <3> QED BY <1>1, <2>2, <2>3, <3>2
  <2> QED BY <1>1, <2>2, <2>4, <2>5 DEF d
<1> QED BY <1>2, <1>3 DEF k

LEMMA TableSizeType == ArrayOK => TableSize \in Nat
BY SectorsForType DEF ArrayOK, TableSize

\* uint64_t subtraction stays within the type.
LEMMA MinusType ==
  ASSUME NEW a \in Nat, NEW b \in 0..(Word - 1)
  PROVE  /\ Minus(a, b) \in Nat
         /\ b <= a => Minus(a, b) = a - b
         /\ b > a => Minus(a, b) > a
BY WordAssumption DEF Minus

LEMMA MirrorType ==
  ASSUME NEW m \in Header
  PROVE  /\ Mirror(m) \in Header
         /\ Mirror(m) = [m EXCEPT !.pte = Mirror(m).pte]
         /\ Mirror(m).pte = m.last + 1
         /\ Mirror(m).last = m.last /\ Mirror(m).backup = m.backup
BY DEF Mirror, Header

LEMMA SizeType ==
  ASSUME NEW n \in Sizes
  PROVE  n \in Nat /\ 1 <= n /\ n < Word
BY TableAssumption, WordAssumption

\* MoveSecondHeaderToEnd() leaves the last sectors of the disk, as many as the
\* main copy takes at its front, behind the last usable one.
LEMMA MovedType ==
  ASSUME NEW m \in Header, m.first < Word, size \in Sizes
  PROVE  /\ Moved(m) \in Header
         /\ Moved(m).pte = m.pte /\ Moved(m).first = m.first
         /\ Moved(m).backup = size - 1
         /\ Moved(m).last = Minus(size, m.first)
<1>0. size \in Nat /\ 1 <= size /\ m.first \in Nat
  BY SizeType DEF Header
<1>1. Minus(size, m.first) \in Nat
  BY <1>0, MinusType, WordAssumption
<1> DEFINE b == size - 1
           l == Minus(size, m.first)
           h == [m EXCEPT !.backup = b, !.last = l]
<1>3. h = Moved(m)
  BY Zenon DEF Moved
<1>4. /\ h \in Header
      /\ h.pte = m.pte /\ h.first = m.first
      /\ h.backup = b /\ h.last = l
  <2>1. b \in Nat /\ l \in Nat
    BY <1>0, <1>1
  <2> HIDE DEF b, l
  <2>2. h \in Header
    BY <2>1 DEF Header
  <2>3. h.pte = m.pte
    BY <2>1 DEF Header
  <2>4. h.first = m.first
    BY <2>1 DEF Header
  <2>5. h.backup = b
    BY <2>1 DEF Header
  <2>6. h.last = l
    BY <2>1 DEF Header
  <2> QED BY <2>2, <2>3, <2>4, <2>5, <2>6
<1> QED BY <1>3, <1>4, Zenon

\* Room for the backup table, from what the main table takes in front.
LEMMA RoomBehind ==
  ASSUME NEW n \in Sizes, NEW pte \in Nat, 2 <= pte, NEW table \in Nat,
         NEW first \in Nat, pte + table <= first, first < Word
  PROVE  Minus(n, first) < n - 1 => Minus(n, first) + 1 + table <= n - 1
<1>1. n \in Nat
  BY SizeType
<1>2. first \in 0..(Word - 1)
  BY WordAssumption
<1>3. /\ first <= n => Minus(n, first) = n - first
      /\ first > n => Minus(n, first) > n
  BY <1>1, <1>2, MinusType
<1>4. Minus(n, first) \in Nat
  BY <1>1, <1>2, MinusType
<1> QED BY <1>1, <1>3, <1>4

LEMMA ClearedType ==
  ASSUME NEW n \in Sizes
  PROVE  /\ ClearedHeader(n) \in Header
         /\ ClearedHeader(n).pte = 2
         /\ ClearedHeader(n).first = 2 + SectorsFor(NumGptEntries)
         /\ ClearedHeader(n).first < Word
         /\ ClearedHeader(n).last = Minus(n, ClearedHeader(n).first)
         /\ ClearedHeader(n).backup = n - 1
<1> DEFINE f == 2 + SectorsFor(NumGptEntries)
<1>1. f \in Nat /\ f < Word
  BY SectorsForType, TableAssumption
<1>2. n - 1 \in Nat
  BY SizeType
<1>3. Minus(n, f) \in Nat
  <2>1. f \in 0..(Word - 1) /\ n \in Nat
    BY <1>1, SizeType, WordAssumption
  <2> HIDE DEF f
  <2> QED BY <2>1, MinusType
<1>4. ClearedHeader(n) = [pte |-> 2, first |-> f, last |-> Minus(n, f), backup |-> n - 1]
  BY DEF ClearedHeader
<1> HIDE DEF f
<1>5. [pte |-> 2, first |-> f, last |-> Minus(n, f), backup |-> n - 1] \in Header
  BY <1>1, <1>2, <1>3 DEF Header
<1> QED BY <1>1, <1>4, <1>5 DEF f

-----------------------------------------------------------------------------
(* The array.                                                               *)

LEMMA PartitionIsAnyPart == Partition = AnyPart
BY DEF Partition, AnyPart

LEMMA PartType ==
  ASSUME ArrayOK, NEW i \in DOMAIN parts
  PROVE  parts[i] \in Partition /\ parts[i].first \in Nat /\ parts[i].last \in Nat
<1>1. parts[i] \in Partition
  BY DEF ArrayOK
<1> QED BY <1>1 DEF Partition

LEMMA SpaceType ==
  ASSUME Inv
  PROVE  /\ Space.parts \in Seq(AnyPart) /\ BehindHeaders(Space)
         /\ Space.parts = parts /\ Space.align = align
         /\ Space.first = main.first /\ Space.last = main.last
         /\ Space.first \in Nat /\ 2 <= Space.first /\ Space.last \in Nat
         /\ Space.align \in Nat \ {0}
<1>1. /\ Space.parts = parts /\ Space.align = align
      /\ Space.first = main.first /\ Space.last = main.last
  BY DEF Space
<1>2. main.first \in Nat /\ main.last \in Nat /\ main.pte \in Nat
  BY DEF Inv, MainOK, Header
<1>3. 2 <= main.first
  BY <1>2, TableSizeType DEF Inv, MainOK
<1>4. align \in Nat \ {0}
  BY TableAssumption DEF Inv, SessionOK
<1>5. parts \in Seq(AnyPart)
  BY PartitionIsAnyPart DEF Inv, ArrayOK
<1>6. BehindHeaders(Space)
  BY <1>1, PartType DEF BehindHeaders, Inv, ArrayOK, Placed
<1> QED BY <1>1, <1>2, <1>3, <1>4, <1>5, <1>6

LEMMA ResizedType ==
  ASSUME ArrayOK, NEW n \in TableSizes, parts' = Resized(Filled(n))
  PROVE  ArrayOK' /\ Len(parts') = Filled(n)
<1>0. Filled(n) \in Nat
  BY FilledType, TableAssumption
<1>1. ASSUME NEW i \in 1..Filled(n)
      PROVE  LET p == IF i <= Len(parts) THEN parts[i] ELSE Unused
             IN  p \in Partition /\ (IsUsed(p) => Placed(p))
  <2>1. CASE i <= Len(parts)
    <3>1. i \in DOMAIN parts
      BY <1>0, <2>1 DEF ArrayOK
    <3> QED BY <2>1, <3>1, PartType DEF ArrayOK
  <2>2. CASE ~(i <= Len(parts))
    BY <2>2 DEF Unused, IsUsed, Partition
  <2> QED BY <2>1, <2>2
<1>2. parts' \in [1..Filled(n) -> Partition]
  BY <1>1 DEF Resized
<1>3. parts' \in Seq(Partition) /\ Len(parts') = Filled(n) /\ DOMAIN parts' = 1..Filled(n)
  BY <1>0, <1>2
<1>4. \A i \in DOMAIN parts' : IsUsed(parts'[i]) => Placed(parts'[i])
  BY <1>1, <1>3 DEF Resized
<1> QED BY <1>3, <1>4 DEF ArrayOK

LEMMA BlankType == 
  /\ BlankParts(NumGptEntries) \in Seq(Partition)
  /\ Len(BlankParts(NumGptEntries)) = NumGptEntries
  /\ \A i \in DOMAIN BlankParts(NumGptEntries) : ~IsUsed(BlankParts(NumGptEntries)[i])
<1>1. BlankParts(NumGptEntries) \in [1..NumGptEntries -> Partition]
  BY DEF BlankParts, Unused, Partition
<1> QED BY <1>1, TableAssumption DEF BlankParts, IsUsed

\* An entry that is unused or placed may be written anywhere.
LEMMA EntriesExcept ==
  ASSUME ArrayOK, NEW n \in DOMAIN parts, NEW e \in Partition, IsUsed(e) => Placed(e),
         parts' = [parts EXCEPT ![n] = e]
  PROVE  ArrayOK' /\ Len(parts') = Len(parts)
<1>1. parts' \in Seq(Partition) /\ Len(parts') = Len(parts) /\ DOMAIN parts' = DOMAIN parts
  BY DEF ArrayOK
<1>2. ASSUME NEW i \in DOMAIN parts', IsUsed(parts'[i]) PROVE Placed(parts'[i])
  BY <1>1, <1>2 DEF ArrayOK
<1> QED BY <1>1, <1>2 DEF ArrayOK

LEMMA EntriesMoved ==
  ASSUME ArrayOK, NEW order \in [DOMAIN parts -> DOMAIN parts],
         parts' = [i \in DOMAIN parts |-> parts[order[i]]]
  PROVE  ArrayOK' /\ Len(parts') = Len(parts)
<1>1. parts' \in Seq(Partition) /\ Len(parts') = Len(parts) /\ DOMAIN parts' = DOMAIN parts
  BY DEF ArrayOK
<1>2. ASSUME NEW i \in DOMAIN parts', IsUsed(parts'[i]) PROVE Placed(parts'[i])
  BY <1>1, <1>2 DEF ArrayOK
<1> QED BY <1>1, <1>2 DEF ArrayOK

-----------------------------------------------------------------------------
(* An action either leaves the headers alone, or gives both a new place. *)

LEMMA HeadersKept ==
  ASSUME Inv, SessionOK', size' = size, Running' => Running,
         ArrayOK', Len(parts') = Len(parts), UNCHANGED <<main, second>>
  PROVE  Inv'
BY DEF Inv, MainOK, BackupFits, TableSize, Mirror

LEMMA HeadersRebuilt ==
  ASSUME NEW h \in Header, main' = h, second' = Mirror(h),
         h.pte \in {2} \cup Sectors, 2 <= h.pte,
         h.pte + SectorsFor(Len(parts')) <= h.first, h.first < Word,
         SessionOK', ArrayOK',
         Running' /\ h.backup = size' - 1 /\ h.last < h.backup =>
           h.last + 1 + SectorsFor(Len(parts')) <= h.backup
  PROVE  Inv'
BY DEF Inv, MainOK, BackupFits, TableSize, Mirror

\* The backup fits wherever MoveSecondHeaderToEnd() and ClearGPTData() put it.
LEMMA HeadersAtEnd ==
  ASSUME NEW h \in Header, main' = h, second' = Mirror(h), size' = size,
         h.pte \in {2} \cup Sectors, 2 <= h.pte,
         h.pte + SectorsFor(Len(parts')) <= h.first, h.first < Word,
         h.last = Minus(size, h.first), h.backup = size - 1,
         SessionOK', ArrayOK'
  PROVE  Inv'
<1>1. SectorsFor(Len(parts')) \in Nat
  BY SectorsForType DEF ArrayOK
<1>2. size \in Sizes
  BY DEF SessionOK
<1>3. h.pte \in Nat /\ h.first \in Nat
  BY DEF Header
<1>4. h.last < h.backup => h.last + 1 + SectorsFor(Len(parts')) <= h.backup
  BY <1>1, <1>2, <1>3, RoomBehind
<1> QED BY <1>4, HeadersRebuilt

LEMMA InitInv == Init => Inv
<1> SUFFICES ASSUME Init PROVE Inv
  OBVIOUS
<1>0. DefaultAlignment \in 1..DefaultAlignment
  BY TableAssumption
<1>1. SessionOK
  BY <1>0 DEF Init, SessionOK
<1>2. ArrayOK /\ Len(parts) = NumGptEntries
  BY BlankType DEF Init, ArrayOK
<1> DEFINE m == ClearedHeader(size)
<1>3. PICK k \in Paddings : main = [m EXCEPT !.first = @ + k]
  BY DEF Init
<1>4. /\ m \in Header /\ m.pte = 2 /\ m.first = 2 + SectorsFor(NumGptEntries)
  BY <1>1, ClearedType DEF SessionOK
<1>5. k \in Nat /\ 2 + SectorsFor(NumGptEntries) + k < Word
      /\ SectorsFor(NumGptEntries) \in Nat
  BY SectorsForType, TableAssumption
<1>6. /\ main \in Header /\ main.pte = 2
      /\ main.first = 2 + SectorsFor(NumGptEntries) + k
  <2> DEFINE f == m.first + k
  <2>1. f \in Nat /\ f = 2 + SectorsFor(NumGptEntries) + k
    BY <1>4, <1>5
  <2>2. main = [m EXCEPT !.first = f]
    BY <1>3
  <2> HIDE DEF m, f
  <2> QED BY <1>4, <2>1, <2>2 DEF Header
<1>7. MainOK
  BY <1>2, <1>5, <1>6 DEF MainOK, TableSize
<1> QED BY <1>1, <1>2, <1>7 DEF Init, Inv, Running

-----------------------------------------------------------------------------
\* A disk whose copies lie apart has room for its backup table.
LEMMA LoadInv == Inv /\ Load => Inv'
<1> SUFFICES ASSUME Inv, Load PROVE Inv'
  OBVIOUS
<1>1. SessionOK' /\ ArrayOK'
  BY DEF Load, Inv, SessionOK, ArrayOK
<1>2. second' = Mirror(main) /\ UNCHANGED <<size, parts, main>>
  BY DEF Load, Inv
<1>3. ASSUME main.backup = size - 1, main.last < main.backup
      PROVE  main.last + 1 + TableSize <= main.backup
  <2>1. TableSize \in Nat /\ main.last \in Nat /\ main.backup \in Nat
    BY TableSizeType DEF Inv, MainOK, Header
  <2>2. second.pte = main.last + 1
    BY MirrorType DEF Inv, MainOK
  <2>3. main.backup \notin second.pte..(second.pte + TableSize - 1)
    BY DEF Load, CopiesApart, Apart, TableRegion
  <2> QED BY <1>3, <2>1, <2>2, <2>3
<1>4. MainOK'
  BY <1>2 DEF Inv, MainOK, TableSize
<1>5. BackupFits'
  BY <1>2, <1>3 DEF BackupFits, TableSize
<1>6. second' = Mirror(main')
  BY <1>2
<1> QED BY <1>1, <1>4, <1>5, <1>6 DEF Inv, Mirror

LEMMA CreateInv ==
  ASSUME Inv, Running, NEW n, NEW start \in Nat, NEW end \in Nat, CreatePartition(n, start, end)
  PROVE  Inv'
<1> DEFINE first == Align(Space, start)
<1>2. CASE MayCreate(n, first, end)
  <2>1. /\ parts' = [parts EXCEPT ![n] = [first |-> first, last |-> end]]
        /\ UNCHANGED <<size, pc, main, second, align, neverSave>>
    BY <1>2 DEF CreatePartition
  <2>2. n \in DOMAIN parts /\ IsFree(Space, first)
    BY <1>2 DEF MayCreate
  <2>3. first \in Nat
    BY SpaceType, AlignType
  <2>4. 2 <= first
    BY <2>2, <2>3, SpaceType DEF IsFree
  <2> DEFINE e == [first |-> first, last |-> end]
  <2>5. e \in Partition /\ e.first = first /\ e.last = end /\ first <= end
    BY <1>2, <2>3 DEF Partition, MayCreate
  <2> HIDE DEF first
  <2>6. ArrayOK' /\ Len(parts') = Len(parts)
    <3>1. e \in Partition /\ Placed(e) /\ parts' = [parts EXCEPT ![n] = e]
      BY <2>1, <2>4, <2>5 DEF Placed
    <3>2. ArrayOK
      BY DEF Inv
    <3> HIDE DEF e
    <3> QED BY <2>2, <3>1, <3>2, EntriesExcept
  <2> QED BY <2>1, <2>6, HeadersKept DEF Inv, SessionOK, Running
<1>3. CASE ~MayCreate(n, first, end)
  BY <1>3, HeadersKept DEF CreatePartition, Failed, Inv, SessionOK, ArrayOK, Running
<1> QED BY <1>2, <1>3

LEMMA NewInv == Inv /\ New => Inv'
<1> SUFFICES ASSUME Inv, New PROVE Inv'
  OBVIOUS
<1>0. Running /\ Sectors \subseteq Nat
  BY TableAssumption DEF New
<1>1. CASE NewFromOption
  <2>1. PICK n \in 1..(Len(parts) + 1), start \in Sectors, end \in Sectors :
          CreatePartition(n, start, end)
    BY <1>1 DEF NewFromOption
  <2> QED BY <1>0, <2>1, CreateInv
<1>2. CASE NewFromPrompts
  <2>1. PICK n \in DOMAIN parts, start \in Sectors, end \in Sectors :
          CreatePartition(n, Align(Space, start), end)
    BY <1>2 DEF NewFromPrompts, Asked
  <2>2. Align(Space, start) \in Nat
    BY <1>0, SpaceType, AlignType
  <2> QED BY <1>0, <2>1, <2>2, CreateInv
<1>3. CASE NewFromSpace
  <2>1. PICK start \in Sectors, end \in Sectors :
          CreatePartition(FindFirstFreePart(parts), Align(Space, start), end)
    BY <1>3 DEF NewFromSpace
  <2>2. Align(Space, start) \in Nat
    BY <1>0, SpaceType, AlignType
  <2> QED BY <1>0, <2>1, <2>2, CreateInv
<1> QED BY <1>1, <1>2, <1>3 DEF New

LEMMA ArrayInv == Inv /\ (Delete \/ Swap \/ Sort \/ SetAlignment) => Inv'
<1> SUFFICES ASSUME Inv, Delete \/ Swap \/ Sort \/ SetAlignment PROVE Inv'
  OBVIOUS
<1> USE DEF Inv, SessionOK
<1>1. CASE Failed
  BY <1>1, HeadersKept DEF Failed, ArrayOK, Running
<1>2. CASE Delete /\ ~Failed
  <2>1. PICK n \in 1..(Len(parts) + 1) :
          /\ \E i \in DOMAIN parts : i >= n
          /\ parts' = [parts EXCEPT ![n] = Unused]
    BY <1>2 DEF Delete
  <2>2. n \in DOMAIN parts
    BY <2>1 DEF ArrayOK
  <2>3. Unused \in Partition /\ ~IsUsed(Unused)
    BY DEF Unused, Partition, IsUsed
  <2>4. ArrayOK' /\ Len(parts') = Len(parts)
    BY <2>1, <2>2, <2>3, EntriesExcept
  <2> QED BY <1>2, <2>4, HeadersKept DEF Delete, Running
<1>3. CASE Swap /\ ~Failed
  <2>1. PICK n \in DOMAIN parts, k \in DOMAIN parts :
          parts' = [parts EXCEPT ![n] = parts[k], ![k] = parts[n]]
    BY <1>3 DEF Swap
  <2> DEFINE order == [i \in DOMAIN parts |-> IF i = k THEN n ELSE IF i = n THEN k ELSE i]
  <2>2. parts' = [i \in DOMAIN parts |-> parts[order[i]]]
    BY <2>1 DEF ArrayOK
  <2>3. order \in [DOMAIN parts -> DOMAIN parts]
    OBVIOUS
  <2> HIDE DEF order
  <2>4. ArrayOK' /\ Len(parts') = Len(parts)
    BY <2>2, <2>3, EntriesMoved
  <2> QED BY <1>3, <2>4, HeadersKept DEF Swap, Running
<1>4. CASE Sort
  <2>1. PICK order \in [DOMAIN parts -> DOMAIN parts] :
          parts' = [i \in DOMAIN parts |-> parts[order[i]]]
    BY <1>4 DEF Sort, Bijection, Injection
  <2>2. ArrayOK' /\ Len(parts') = Len(parts)
    BY <2>1, EntriesMoved
  <2> QED BY <1>4, <2>2, HeadersKept DEF Sort, Running
<1>5. CASE SetAlignment
  BY <1>5, HeadersKept DEF SetAlignment, ArrayOK, Running
<1> QED BY <1>1, <1>2, <1>3, <1>4, <1>5

LEMMA ClearInv == Inv /\ ClearGPTData => Inv'
<1> SUFFICES ASSUME Inv, ClearGPTData PROVE Inv'
  OBVIOUS
<1>1. ArrayOK' /\ Len(parts') = NumGptEntries
  BY BlankType DEF ClearGPTData, ArrayOK
<1> DEFINE m == ClearedHeader(size)
<1>2. /\ m \in Header /\ m.pte = 2 /\ m.first = 2 + SectorsFor(NumGptEntries)
      /\ m.first < Word /\ m.last = Minus(size, m.first) /\ m.backup = size - 1
  BY ClearedType DEF Inv, SessionOK
<1>3. /\ main' = m /\ second' = Mirror(m) /\ SessionOK' /\ size' = size
  BY TableAssumption DEF ClearGPTData, Inv, SessionOK, Mirror
<1>4. m.pte + SectorsFor(Len(parts')) <= m.first
  BY <1>1, <1>2, SectorsForType, TableAssumption
<1> HIDE DEF m
<1> QED BY <1>1, <1>2, <1>3, <1>4, HeadersAtEnd

LEMMA SetGPTSizeInv == Inv /\ SetGPTSize => Inv'
<1> SUFFICES ASSUME Inv, SetGPTSize PROVE Inv'
  OBVIOUS
<1>1. PICK n \in TableSizes :
        /\ parts' = Resized(Filled(n))
        /\ main' = Moved([main EXCEPT !.first = main.pte + SectorsFor(Filled(n))])
        /\ neverSave' = (neverSave \/ (TooHigh(Filled(n)) /\ ~Interactive))
  BY DEF SetGPTSize
<1> DEFINE t == SectorsFor(Filled(n))
           f == main.pte + t
           m == [main EXCEPT !.first = f]
<1>2. ArrayOK' /\ Len(parts') = Filled(n)
  BY <1>1, ResizedType DEF Inv
<1>3. t = SectorsFor(n) /\ t \in Nat
  BY FilledSectors, SectorsForType, TableAssumption
<1>4. /\ main.pte \in Nat /\ main \in Header
      /\ main.pte \in {2} \cup Sectors /\ 2 <= main.pte
  BY DEF Inv, MainOK, Header
<1>5. main.pte + SectorsFor(n) < Word
  BY <1>4, TableAssumption
<1>6. f \in Nat /\ f < Word
  BY <1>3, <1>4, <1>5
<1>7. m \in Header /\ m.pte = main.pte /\ m.first = f
  <2> HIDE DEF f
  <2> QED BY <1>4, <1>6 DEF Header
<1>8. /\ main' = Moved(m) /\ second' = Mirror(main') /\ size' = size /\ size \in Sizes
  BY <1>1 DEF SetGPTSize, Inv, SessionOK
<1> DEFINE h == Moved(m)
<1>9. /\ h \in Header /\ h.pte = main.pte /\ h.first = f
      /\ h.last = Minus(size, f) /\ h.backup = size - 1
  <2> HIDE DEF m, f
  <2> QED BY <1>6, <1>7, <1>8, MovedType
<1>10. SessionOK'
  <2>1. neverSave' \in BOOLEAN
    BY <1>1 DEF Inv, SessionOK
  <2> QED BY <2>1 DEF SetGPTSize, Inv, SessionOK
<1>11. f = h.pte + SectorsFor(Len(parts'))
  BY <1>2, <1>9
<1>12. main' = h /\ second' = Mirror(h)
  BY <1>8 DEF Mirror
<1> HIDE DEF h, m, f, t
<1>13. h.pte + SectorsFor(Len(parts')) <= h.first /\ h.first < Word
  BY <1>6, <1>9, <1>11
<1> QED BY <1>2, <1>4, <1>8, <1>9, <1>10, <1>12, <1>13, HeadersAtEnd

LEMMA MoveMainTableInv == Inv /\ MoveMainTable => Inv'
<1> SUFFICES ASSUME Inv, MoveMainTable PROVE Inv'
  OBVIOUS
<1>1. CASE Failed
  BY <1>1, HeadersKept DEF Failed, Inv, SessionOK, ArrayOK, Running
<1>2. CASE ~Failed
  <2>1. PICK x \in Sectors :
          /\ x >= 2
          /\ main' = [main EXCEPT !.pte = x, !.first = x + TableSize]
    BY <1>2 DEF MoveMainTable, Asked
  <2>2. x \in Nat /\ TableSize \in Nat /\ main \in Header
    BY TableSizeType, TableAssumption DEF Inv, MainOK
  <2> DEFINE f == x + TableSize
  <2>3. f \in Nat /\ f < Word
    <3>1. PICK n \in TableSizes \cup {NumGptEntries} : TableSize = SectorsFor(n)
      <4>1. CASE Len(parts) = NumGptEntries
        BY <4>1 DEF TableSize
      <4>2. ASSUME NEW n \in TableSizes, Len(parts) = Filled(n) PROVE TableSize = SectorsFor(n)
        BY <4>2, FilledSectors, TableAssumption DEF TableSize
      <4> QED BY <4>1, <4>2 DEF Inv, ArrayOK
    <3> QED BY <2>2, <3>1, TableAssumption
  <2>4. main' = [main EXCEPT !.pte = x, !.first = f]
    BY <2>1
  <2> HIDE DEF f
  <2>5. main' \in Header
    BY <2>2, <2>3, <2>4 DEF Header
  <2>6. main'.pte = x /\ main'.first = f
    BY <2>2, <2>3, <2>4 DEF Header
  <2>7. main'.last = main.last /\ main'.backup = main.backup
    BY <2>2, <2>3, <2>4 DEF Header
  <2>8. /\ second' = Mirror(main') /\ SessionOK' /\ ArrayOK'
        /\ size' = size /\ pc' = pc /\ parts' = parts
    BY <1>2 DEF MoveMainTable, Inv, SessionOK, ArrayOK
  <2>9. main'.pte + SectorsFor(Len(parts')) <= main'.first
    BY <2>2, <2>6, <2>8 DEF f, TableSize
  <2>10. Running' /\ main'.backup = size' - 1 /\ main'.last < main'.backup =>
           main'.last + 1 + SectorsFor(Len(parts')) <= main'.backup
    BY <2>7, <2>8 DEF Inv, BackupFits, TableSize, Running
  <2>11. main'.pte \in {2} \cup Sectors /\ 2 <= main'.pte /\ main'.first < Word
    BY <2>1, <2>3, <2>6
  <2> QED BY <2>5, <2>8, <2>9, <2>10, <2>11, HeadersRebuilt DEF Mirror
<1> QED BY <1>1, <1>2

LEMMA MoveSecondTableInv == Inv /\ MoveSecondTable => Inv'
<1> SUFFICES ASSUME Inv, MoveSecondTable PROVE Inv'
  OBVIOUS
<1>1. CASE Failed
  BY <1>1, HeadersKept DEF Failed, Inv, SessionOK, ArrayOK, Running
<1>2. CASE ~Failed
  <2>1. PICK x \in Sectors :
          /\ main' = [main EXCEPT !.last = x - 1]
          /\ x > FindLastUsedLBA(parts) /\ x + TableSize < size
    BY <1>2 DEF MoveSecondTable, Asked
  <2>2. x \in Nat /\ 1 <= x
    <3>1. FindLastUsedLBA(parts) \in Nat
      BY LastUsedType, PartitionIsAnyPart DEF Inv, ArrayOK
    <3> QED BY <2>1, <3>1, TableAssumption
  <2> DEFINE l == x - 1
  <2>3. l \in Nat /\ main \in Header /\ main' = [main EXCEPT !.last = l]
    BY <2>1, <2>2 DEF Inv, MainOK
  <2>4. main' \in Header
    <3> HIDE DEF l
    <3> QED BY <2>3 DEF Header
  <2>5. main'.pte = main.pte /\ main'.first = main.first
    <3> HIDE DEF l
    <3> QED BY <2>3 DEF Header
  <2>6. main'.last = l /\ main'.backup = main.backup
    <3> HIDE DEF l
    <3> QED BY <2>3 DEF Header
  <2>7. /\ second' = Mirror(main') /\ SessionOK' /\ ArrayOK'
        /\ size' = size /\ parts' = parts
    BY <1>2 DEF MoveSecondTable, Inv, SessionOK, ArrayOK
  <2>8. main'.backup = size' - 1 =>
           main'.last + 1 + SectorsFor(Len(parts')) <= main'.backup
    <3>1. TableSize \in Nat /\ size \in Nat
      BY TableSizeType, SizeType DEF Inv, SessionOK
    <3> QED BY <2>1, <2>2, <2>6, <2>7, <3>1 DEF TableSize
  <2>9. /\ main'.pte \in {2} \cup Sectors /\ 2 <= main'.pte
        /\ main'.pte + SectorsFor(Len(parts')) <= main'.first
        /\ main'.first < Word
    BY <2>5, <2>7 DEF Inv, MainOK, TableSize
  <2> QED BY <2>4, <2>7, <2>8, <2>9, HeadersRebuilt DEF Mirror
<1> QED BY <1>1, <1>2

LEMMA MoveHeaderInv == Inv /\ MoveSecondHeaderToEnd => Inv'
<1> SUFFICES ASSUME Inv, MoveSecondHeaderToEnd PROVE Inv'
  OBVIOUS
<1>1. /\ main \in Header /\ main.first < Word /\ size \in Sizes
      /\ main.pte \in {2} \cup Sectors /\ 2 <= main.pte
      /\ main.pte + SectorsFor(Len(parts)) <= main.first
  BY DEF Inv, MainOK, SessionOK, TableSize
<1> DEFINE h == Moved(main)
<1>2. /\ h \in Header /\ h.pte = main.pte /\ h.first = main.first
      /\ h.backup = size - 1 /\ h.last = Minus(size, main.first)
  BY <1>1, MovedType
<1>3. /\ main' = h /\ second' = Mirror(h) /\ size' = size /\ parts' = parts
      /\ SessionOK' /\ ArrayOK'
  BY DEF MoveSecondHeaderToEnd, Inv, SessionOK, ArrayOK, Mirror
<1> HIDE DEF h
<1> QED BY <1>1, <1>2, <1>3, HeadersAtEnd

-----------------------------------------------------------------------------
(* A save checks the partitions against a header whose first usable sector  *)
(* it never changes, and against main itself unless it moves something.     *)

LEMMA SaveHeader ==
  ASSUME Inv, SaveGPTData
  PROVE  /\ main' \in Header
         /\ main'.pte = main.pte /\ main'.first = main.first
         /\ \A p \in UsedParts(parts) : main.first <= p.first
         /\ main' = main => CheckGPTSize(main)
<1>1. PICK inDisk, atEnd, final :
        /\ inDisk \in {main, Moved(main)}
        /\ inDisk = main \/ main.backup >= size
        /\ CheckGPTSize(inDisk)
        /\ atEnd \in {inDisk, Moved(inDisk)}
        /\ final \in {atEnd, Moved(atEnd)}
        /\ main' = final
  <2> DEFINE d == IF main.backup >= size THEN Moved(main) ELSE main
  <2>1. /\ d \in {main, Moved(main)} /\ (d = main \/ main.backup >= size)
        /\ CheckGPTSize(d)
    BY DEF SaveGPTData
  <2>2. PICK atEnd \in {d, Moved(d)} :
          main' \in {atEnd, Moved(atEnd)}
    BY DEF SaveGPTData, Corrected
  <2> QED BY <2>1, <2>2
<1>2. size \in Sizes /\ size \in Nat /\ main \in Header /\ main.first < Word
  BY SizeType DEF Inv, SessionOK, MainOK
<1>3. inDisk \in Header /\ inDisk.pte = main.pte /\ inDisk.first = main.first
  BY <1>1, <1>2, MovedType
<1>4. atEnd \in Header /\ atEnd.pte = main.pte /\ atEnd.first = main.first
  BY <1>1, <1>2, <1>3, MovedType
<1>5. final \in Header /\ final.pte = main.pte /\ final.first = main.first
  BY <1>1, <1>2, <1>4, MovedType
<1>6. \A p \in UsedParts(parts) : main.first <= p.first
  BY <1>1, <1>3 DEF CheckGPTSize
<1>7. ASSUME main' = main PROVE inDisk = main
  <2>1. SUFFICES ASSUME main.backup >= size, inDisk = Moved(main) PROVE FALSE
    BY <1>1
  <2>2. inDisk.backup = size - 1
    BY <1>2, <2>1, MovedType
  <2>3. atEnd.backup = size - 1
    BY <1>1, <1>2, <1>3, <2>2, MovedType
  <2>4. final.backup = size - 1
    BY <1>1, <1>2, <1>4, <2>3, MovedType
  <2> QED BY <1>1, <1>2, <1>7, <2>1, <2>4 DEF Header
<1> QED BY <1>1, <1>5, <1>6, <1>7

LEMMA SaveInv == Inv /\ SaveGPTData => Inv'
<1> SUFFICES ASSUME Inv, SaveGPTData PROVE Inv'
  OBVIOUS
<1>1. /\ SessionOK' /\ ArrayOK' /\ ~Running'
      /\ Len(parts') = Len(parts) /\ (main' = main => second' = Mirror(main))
      /\ main' # main => second' = Mirror(main')
  BY DEF SaveGPTData, Inv, SessionOK, ArrayOK, Running
<1>2. second' = Mirror(main')
  BY <1>1
<1>3. MainOK'
  BY <1>1, SaveHeader DEF Inv, MainOK, TableSize
<1> QED BY <1>1, <1>2, <1>3 DEF Inv, Mirror

LEMMA NextInv == Inv /\ [Next]_vars => Inv'
<1> SUFFICES ASSUME Inv, [Next]_vars PROVE Inv'
  OBVIOUS
<1>1. CASE UNCHANGED vars
  BY <1>1, HeadersKept DEF vars, Inv, SessionOK, ArrayOK, Running
<1>2. CASE ResizeDisk
  <2>1. ~Running' /\ SessionOK' /\ ArrayOK'
    BY <1>2 DEF ResizeDisk, Inv, SessionOK, ArrayOK, Running
  <2>2. MainOK' /\ second' = Mirror(main')
    BY <1>2 DEF ResizeDisk, Inv, MainOK, TableSize
  <2> QED BY <2>1, <2>2 DEF Inv, Mirror
<1> QED BY <1>1, <1>2, LoadInv, NewInv, ArrayInv, ClearInv, SetGPTSizeInv,
           MoveMainTableInv, MoveSecondTableInv, MoveHeaderInv, SaveInv DEF Next

LEMMA InvHolds == Spec => []Inv
BY InitInv, NextInv, PTL DEF Spec

\* No command, in any order, makes a sector number negative or a table a
\* fraction of its sectors.
THEOREM TypeCorrect == Spec => []TypeOK
<1>1. Inv => TypeOK
  <2> SUFFICES ASSUME Inv PROVE TypeOK
    OBVIOUS
  <2>1. second \in Header /\ main \in Header
    BY MirrorType DEF Inv, MainOK
  <2>2. Len(parts) % EntriesPerSector = 0 \/ Len(parts) = NumGptEntries
    BY FilledType, TableAssumption DEF Inv, ArrayOK
  <2> QED BY <2>1, <2>2 DEF Inv, SessionOK, ArrayOK, TypeOK
<1> QED BY <1>1, InvHolds, PTL

LEMMA InvMirrors == Inv => HeadersMirror
BY MirrorType DEF Inv, MainOK, HeadersMirror

\* Whatever is moved, resized, cleared or rebuilt in whatever order, the two
\* headers agree on the usable sectors and on the backup header's place.
THEOREM HeadersAgree == Spec => []HeadersMirror
BY InvMirrors, InvHolds, PTL

\* Whatever the user resizes or moves, the main table ends in front of the
\* usable sectors, and the backup table fits between them and the backup
\* header, in every session that begins with two copies apart.
THEOREM TablesStayInPlace == Spec => []TablesInPlace
<1>1. Inv => TablesInPlace
  <2> SUFFICES ASSUME Inv PROVE TablesInPlace
    OBVIOUS
  <2>1. second.pte = main.last + 1 /\ second.last = main.last
    BY MirrorType DEF Inv, MainOK
  <2>2. main.last \in Nat
    BY DEF Inv, MainOK, Header
  <2>3. second.last < second.pte
    BY <2>1, <2>2
  <2> QED BY <2>1, <2>3 DEF Inv, MainOK, BackupFits, TablesInPlace
<1> QED BY <1>1, InvHolds, PTL

-----------------------------------------------------------------------------
LEMMA StoresIsSave == [Next]_vars /\ Stores => SaveGPTData
BY DEF Next, vars, Stores, Running, FullMenu, ResizeDisk, Load, New, NewFromOption,
       NewFromPrompts, NewFromSpace, CreatePartition, Failed, Delete, Swap, Sort, SetAlignment, ClearGPTData,
       SetGPTSize, MoveMainTable, MoveSecondTable, MoveSecondHeaderToEnd

LEMMA ApartFromOverlap ==
  ASSUME NEW p \in Partition, NEW q \in Partition,
         p.first <= p.last, q.first <= q.last, ~Overlap(p, q)
  PROVE  Apart(p.first..p.last, q.first..q.last)
<1>1. p.last < q.first \/ q.last < p.first
  BY DEF Overlap, Partition
<1> QED BY <1>1 DEF Apart, Partition

LEMMA SavedSound ==
  ASSUME Inv, SaveGPTData
  PROVE  /\ \A p \in UsedParts(parts)' : Sound(p)'
         /\ \A i, k \in DOMAIN parts' :
              i # k /\ IsUsed(parts'[i]) /\ IsUsed(parts'[k]) =>
                Apart(parts'[i].first..parts'[i].last, parts'[k].first..parts'[k].last)
<1>1. parts' = parts /\ size' = size /\ NoOverlaps /\ NoInsanePartitions
  BY DEF SaveGPTData
<1>2. UsedParts(parts) \subseteq Partition /\ \A i \in DOMAIN parts : parts[i] \in Partition
  BY DEF UsedParts, Inv, ArrayOK
<1>3. ASSUME NEW p \in UsedParts(parts) PROVE Sound(p)'
  <2>1. p.first <= p.last /\ p.last < size
    BY <1>1 DEF NoInsanePartitions
  <2>2. main.first <= p.first
    BY SaveHeader
  <2>3. TableSize \in Nat
    BY TableSizeType DEF Inv
  <2>4. main.pte + TableSize <= p.first
    BY <1>2, <2>2, <2>3 DEF Inv, MainOK, Header, Partition
  <2>5. main'.pte + TableSize' <= p.first
    BY <1>1, <2>4, SaveHeader DEF TableSize
  <2> QED BY <1>1, <2>1, <2>5 DEF Sound
<1>4. ASSUME NEW i \in DOMAIN parts, NEW k \in DOMAIN parts,
             i # k, IsUsed(parts[i]), IsUsed(parts[k])
      PROVE  Apart(parts[i].first..parts[i].last, parts[k].first..parts[k].last)
  <2>1. parts[i].first <= parts[i].last /\ parts[k].first <= parts[k].last
    BY <1>1, <1>4 DEF NoInsanePartitions, UsedParts
  <2>2. k < i \/ i < k
    BY <1>4 DEF Inv, ArrayOK
  <2>3. CASE k < i
    BY <1>1, <1>2, <1>4, <2>1, <2>3, ApartFromOverlap DEF NoOverlaps
  <2>4. CASE i < k
    <3>1. Apart(parts[k].first..parts[k].last, parts[i].first..parts[i].last)
      BY <1>1, <1>2, <1>4, <2>1, <2>4, ApartFromOverlap DEF NoOverlaps
    <3> QED BY <3>1 DEF Apart
  <2> QED BY <2>2, <2>3, <2>4
<1>5. UsedParts(parts)' = UsedParts(parts)
  BY <1>1 DEF UsedParts
<1> QED BY <1>1, <1>3, <1>4, <1>5

\* Whatever the user did to the array in memory, a table that reaches the disk
\* has partitions that lie on the disk, behind the main table and apart from
\* one another.
THEOREM SavedTablesAreSound == Spec => SavedTableIsSound
<1>1. Inv /\ [Next]_vars => [Stores => /\ \A p \in UsedParts(parts)' : Sound(p)'
               /\ \A i, k \in DOMAIN parts' :
                    i # k /\ IsUsed(parts'[i]) /\ IsUsed(parts'[k]) =>
                      Apart(parts'[i].first..parts'[i].last, parts'[k].first..parts'[k].last)]_vars
  BY StoresIsSave, SavedSound
<1> QED BY <1>1, InvHolds, PTL DEF Spec, SavedTableIsSound

LEMMA UnmovedSafe ==
  ASSUME Inv, SaveGPTData, main' = main, main.last < main.backup
  PROVE  PartitionsAreSafe'
<1>1. parts' = parts /\ NoInsanePartitions /\ second' = second /\ CheckGPTSize(main)
  BY SaveHeader DEF SaveGPTData
<1>2. TableSize \in Nat
  BY TableSizeType DEF Inv
<1>3. second.pte = main.last + 1 /\ main \in Header /\ 2 <= main.pte
      /\ main.pte + TableSize <= main.first
  BY MirrorType DEF Inv, MainOK
<1>4. ASSUME NEW p \in UsedParts(parts)
      PROVE  Apart(p.first..p.last, Metadata)
  <2>1. p \in Partition
    BY DEF UsedParts, Inv, ArrayOK
  <2>2. p.first >= main.pte + TableSize /\ p.first >= 2
    BY <1>1, <1>2, <1>3, <2>1 DEF CheckGPTSize, Header, Partition
  <2>3. p.last < main.backup /\ p.last < second.pte
    BY <1>1, <1>3, <2>1 DEF CheckGPTSize, Header, Partition
  <2>4. ASSUME NEW x \in p.first..p.last PROVE x \notin Metadata
    <3>1. x \in Int /\ p.first <= x /\ x <= p.last
      BY <2>1 DEF Partition
    <3>2. x \notin TableRegion(main)
      BY <1>2, <1>3, <2>1, <2>2, <3>1 DEF TableRegion, Header, Partition
    <3>3. x \notin TableRegion(second)
      BY <1>2, <1>3, <2>1, <2>3, <3>1 DEF TableRegion, Header, Partition
    <3>4. x \notin {0, 1, main.backup}
      BY <1>3, <2>1, <2>2, <2>3, <3>1 DEF Header, Partition
    <3> QED BY <3>2, <3>3, <3>4 DEF Metadata
  <2> QED BY <2>4 DEF Apart
<1>5. /\ UsedParts(parts)' = UsedParts(parts)
      /\ Metadata' = Metadata
  BY <1>1 DEF UsedParts, Metadata, TableRegion, TableSize
<1> QED BY <1>4, <1>5 DEF PartitionsAreSafe

\* A save that finds both copies of the GPT where they belong writes to no
\* sector of a partition.
THEOREM UnmovedSavesAreSafe == Spec => UnmovedSaveIsSafe
<1>1. Inv /\ [Next]_vars =>
        [Stores /\ main' = main /\ main.last < main.backup => PartitionsAreSafe']_vars
  BY StoresIsSave, UnmovedSafe
<1> QED BY <1>1, InvHolds, PTL DEF Spec, UnmovedSaveIsSafe

-----------------------------------------------------------------------------
(* Free sectors.                                                            *)

LEMMA FreeIs ==
  ASSUME Inv, NEW x \in Nat
  PROVE  x \in FreeSectors <=> main.first <= x /\ x <= main.last /\ Clear(Space, x)
<1>1. main.first \in Nat /\ main.last \in Nat /\ Space.parts = parts
  BY SpaceType
<1>2. Clear(Space, x) <=> \A p \in UsedParts(parts) : ~Holds(p, x)
  BY <1>1 DEF Clear, UsedParts
<1> QED BY <1>1, <1>2 DEF FreeSectors

LEMMA FreeIsFree ==
  ASSUME Inv, NEW x
  PROVE  x \in FreeSectors <=> x \in Nat /\ IsFree(Space, x)
<1>1. main.first \in Nat /\ 2 <= main.first /\ main.last \in Nat /\ Space.parts = parts
      /\ Space.first = main.first /\ Space.last = main.last
  BY SpaceType
<1>2. x \in FreeSectors => x \in Nat
  BY <1>1 DEF FreeSectors
<1>3. ASSUME x \in Nat PROVE x \in FreeSectors <=> IsFree(Space, x)
  <2>1. ASSUME NEW i \in DOMAIN parts, ~IsUsed(parts[i]), 2 <= x
        PROVE  ~Holds(parts[i], x)
    BY <1>3, <2>1 DEF IsUsed, Unused, Holds
  <2>2. 2 <= x /\ Clear(Space, x) => \A i \in DOMAIN parts : ~Holds(parts[i], x)
    BY <1>1, <2>1 DEF Clear
  <2>3. (\A i \in DOMAIN parts : ~Holds(parts[i], x)) => Clear(Space, x)
    BY <1>1 DEF Clear
  <2> QED BY <1>1, <1>3, <2>2, <2>3, FreeIs DEF IsFree
<1> QED BY <1>2, <1>3

\* Align() moves a free sector only over free sectors.
THEOREM AlignedStaysInBlock == Spec => []AlignStaysInBlock
<1>1. Inv => AlignStaysInBlock
  <2> SUFFICES ASSUME Inv, NEW x \in FreeSectors
               PROVE  x..Align(Space, x) \cup Align(Space, x)..x \subseteq FreeSectors
    BY DEF AlignStaysInBlock
  <2>1. x \in Nat /\ IsFree(Space, x)
    BY FreeIsFree
  <2> DEFINE y == Align(Space, x)
  <2>2. /\ y \in Nat
        /\ \A z \in x..y : IsFree(Space, z)
        /\ \A z \in y..x : IsFree(Space, z)
    BY <2>1, SpaceType, AlignIs
  <2> HIDE DEF y
  <2>3. ASSUME NEW z \in x..y \cup y..x PROVE z \in FreeSectors
    <3>1. z \in Nat /\ IsFree(Space, z)
      BY <2>1, <2>2, <2>3
    <3> QED BY <3>1, FreeIsFree
  <2> QED BY <2>3 DEF y
<1> QED BY <1>1, InvHolds, PTL

LEMMA MinIs ==
  ASSUME NEW s, NEW m \in s, m \in Int, \A y \in s : y \in Int /\ m <= y
  PROVE  Min(s) = m
<1>1. \E x \in s : \A y \in s : x <= y
  OBVIOUS
<1>2. Min(s) \in s /\ \A y \in s : Min(s) <= y
  BY <1>1 DEF Min
<1>3. Min(s) \in Int /\ Min(s) >= m /\ Min(s) <= m
  BY <1>2
<1> QED BY <1>3

LEMMA FirstFound ==
  ASSUME Inv, NEW x \in Nat
  PROVE  LET free == {y \in FreeSectors : y >= x}
         IN  FindFirstAvailable(Space, x) = IF free = {} THEN 0 ELSE Min(free)
<1> DEFINE free == {y \in FreeSectors : y >= x}
           from == IF x < Space.first THEN Space.first ELSE x
           m == NextClear(Space, from)
<1>1. /\ main.first \in Nat /\ main.last \in Nat
      /\ Space.first = main.first /\ Space.last = main.last
      /\ Space.parts \in Seq(AnyPart)
  BY SpaceType
<1>2. from \in Nat /\ x <= from /\ main.first <= from
      /\ \A y \in Nat : x <= y /\ main.first <= y => from <= y
  BY <1>1
<1>3. FindFirstAvailable(Space, x) = IF m > main.last THEN 0 ELSE m
  BY <1>1, FirstAvailableIs
<1> HIDE DEF from
<1>4. m \in Nat /\ from <= m /\ Clear(Space, m) /\ \A y \in from..m - 1 : ~Clear(Space, y)
  BY <1>1, <1>2, NextClearIs
<1> HIDE DEF m
<1>5. ASSUME NEW y \in free PROVE y \in Nat /\ m <= y /\ y <= main.last
  <2>1. y \in Nat /\ y \in FreeSectors /\ x <= y
    BY FreeIsFree
  <2>2. main.first <= y /\ y <= main.last /\ Clear(Space, y)
    BY <2>1, FreeIs
  <2>3. from <= y
    BY <1>2, <2>1, <2>2
  <2>4. ~(y < m)
    BY <1>2, <1>4, <2>1, <2>2, <2>3
  <2> QED BY <1>4, <2>1, <2>2, <2>4
<1>6. m <= main.last => m \in free
  <2>1. SUFFICES ASSUME m <= main.last PROVE m \in FreeSectors /\ m >= x
    OBVIOUS
  <2>2. main.first <= m /\ x <= m
    BY <1>1, <1>2, <1>4
  <2> QED BY <1>4, <2>1, <2>2, FreeIs
<1> HIDE DEF free
<1>7. CASE m <= main.last
  <2>1. Min(free) = m
    BY <1>4, <1>5, <1>6, <1>7, MinIs
  <2> QED BY <1>1, <1>3, <1>4, <1>6, <1>7, <2>1 DEF free
<1>8. CASE m > main.last
  <2>1. free = {}
    BY <1>1, <1>4, <1>5, <1>8
  <2> QED BY <1>3, <1>8, <2>1 DEF free
<1> QED BY <1>1, <1>4, <1>7, <1>8

LEMMA LastFound ==
  ASSUME Inv, main.first <= main.last
  PROVE  FindLastAvailable(Space) = IF FreeSectors = {} THEN 0 ELSE Max(FreeSectors)
<1> DEFINE m == LastClear(Space, main.last)
<1>1. /\ main.first \in Nat /\ main.last \in Nat /\ 2 <= main.first
      /\ Space.first = main.first /\ Space.last = main.last
      /\ Space.parts \in Seq(AnyPart) /\ BehindHeaders(Space)
  BY SpaceType
<1>2. main.last >= 1
  BY <1>1
<1>3. FindLastAvailable(Space) = IF m < main.first THEN 0 ELSE m
  BY <1>1, <1>2, LastAvailableIs
<1>4. /\ m \in Nat /\ m <= main.last /\ Clear(Space, m)
      /\ \A y \in m + 1..main.last : ~Clear(Space, y)
  BY <1>1, <1>2, LastClearIs
<1> HIDE DEF m
<1>5. ASSUME NEW y \in FreeSectors PROVE y \in Nat /\ y <= m /\ main.first <= y
  <2>1. y \in Nat
    BY FreeIsFree
  <2>2. main.first <= y /\ y <= main.last /\ Clear(Space, y)
    BY <2>1, FreeIs
  <2> QED BY <1>1, <1>4, <2>1, <2>2
<1>6. main.first <= m => m \in FreeSectors
  BY <1>4, FreeIs
<1>7. CASE main.first <= m
  <2>1. Max(FreeSectors) = m
    BY <1>4, <1>5, <1>6, <1>7, MaxIs
  <2> QED BY <1>1, <1>3, <1>4, <1>6, <1>7, <2>1
<1>8. CASE m < main.first
  <2>1. FreeSectors = {}
    BY <1>1, <1>4, <1>5, <1>8
  <2> QED BY <1>3, <1>8, <2>1
<1> QED BY <1>1, <1>4, <1>7, <1>8

\* The one-directional passes over an unordered array end at the first free
\* sector behind any start, and at the last one of the disk.
THEOREM SearchesFindFreeSpace == Spec => []FreeSpaceIsFound
<1>1. Inv => FreeSpaceIsFound
  BY FirstFound, LastFound, TableAssumption DEF FreeSpaceIsFound
<1> QED BY <1>1, InvHolds, PTL

-----------------------------------------------------------------------------
(* New partitions.                                                          *)

\* The checks of CreatePartition() leave one sector open: the last one may be
\* where a partition begins.
LEMMA CreatedIsFree ==
  ASSUME Inv, NEW n, NEW first \in Nat, NEW end \in Nat, MayCreate(n, first, end),
         \A i \in DOMAIN parts : IsUsed(parts[i]) => parts[i].first # end
  PROVE  first..end \subseteq FreeSectors
<1>1. /\ Space.parts = parts /\ Space.parts \in Seq(AnyPart)
      /\ Space.first = main.first /\ Space.last = main.last
      /\ main.first \in Nat /\ main.last \in Nat
  BY SpaceType
<1>2. /\ IsFree(Space, first) /\ first <= end
      /\ end <= FindLastInFree(Space, first)
      /\ FindLastInFree(Space, first) \in Nat
      /\ FindLastInFree(Space, first) <= main.last
      /\ \A i \in DOMAIN parts :
           parts[i].first > first => FindLastInFree(Space, first) <= parts[i].first
  BY <1>1, LastInFreeIs DEF MayCreate
<1>3. first \in FreeSectors
  BY <1>2, FreeIsFree
<1>4. main.first <= first /\ Clear(Space, first)
  BY <1>3, FreeIs
<1>5. ASSUME NEW x \in first..end PROVE x \in FreeSectors
  <2>1. x \in Nat /\ main.first <= x /\ x <= main.last
    BY <1>1, <1>2, <1>4
  <2>2. ASSUME NEW i \in DOMAIN parts, IsUsed(parts[i]), Holds(parts[i], x) PROVE FALSE
    <3>1. parts[i].first \in Nat /\ parts[i].last \in Nat
      BY PartType DEF Inv
    <3>2. parts[i].first <= x /\ x <= parts[i].last
      BY <2>2 DEF Holds
    <3>3. CASE parts[i].first <= first
      <4>1. Holds(parts[i], first)
        BY <2>1, <3>1, <3>2, <3>3 DEF Holds
      <4> QED BY <1>1, <1>4, <2>2, <4>1 DEF Clear
    <3>4. CASE parts[i].first > first
      <4>1. end <= parts[i].first
        BY <1>2, <3>1, <3>4
      <4> QED BY <2>1, <2>2, <3>1, <3>2, <4>1
    <3> QED BY <3>1, <3>3, <3>4
  <2>3. Clear(Space, x)
    BY <1>1, <2>2 DEF Clear
  <2> QED BY <2>1, <2>3, FreeIs
<1> QED BY <1>5

NewPartsAreFree ==
  \A p \in UsedParts(parts)' : p \in UsedParts(parts) \/ p.first..p.last \subseteq FreeSectors

LEMMA KeptParts ==
  ASSUME \A i \in DOMAIN parts' :
           IsUsed(parts'[i]) => \E k \in DOMAIN parts : parts'[i] = parts[k]
  PROVE  NewPartsAreFree
BY DEF NewPartsAreFree, UsedParts

LEMMA CreatedPart ==
  ASSUME Inv, NEW n, NEW start \in Nat, NEW end \in Nat, CreatePartition(n, start, end),
         \A i \in DOMAIN parts : IsUsed(parts[i]) => parts[i].first # end
  PROVE  NewPartsAreFree
<1> DEFINE first == Align(Space, start)
<1>1. first \in Nat
  BY SpaceType, AlignType
<1>2. CASE MayCreate(n, first, end)
  <2> DEFINE e == [first |-> first, last |-> end]
  <2>1. parts' = [parts EXCEPT ![n] = e]
    BY <1>2 DEF CreatePartition
  <2>2. e.first..e.last \subseteq FreeSectors
    BY <1>1, <1>2, CreatedIsFree
  <2> HIDE DEF first, e
  <2>3. ASSUME NEW i \in DOMAIN parts' PROVE i \in DOMAIN parts /\ parts'[i] \in {e, parts[i]}
    BY <2>1, <2>3
  <2> QED BY <2>2, <2>3 DEF NewPartsAreFree, UsedParts
<1>3. CASE ~MayCreate(n, first, end)
  BY <1>3, KeptParts DEF CreatePartition, Failed
<1> QED BY <1>2, <1>3

LEMMA PromptedPart == Inv /\ NewFromPrompts => NewPartsAreFree
<1> SUFFICES ASSUME Inv, NewFromPrompts PROVE NewPartsAreFree
  OBVIOUS
<1>1. PICK n \in DOMAIN parts, start \in Sectors, end \in Sectors :
        IsFree(Space, end) /\ CreatePartition(n, Align(Space, start), end)
  BY DEF NewFromPrompts, Asked
<1>2. start \in Nat /\ end \in Nat /\ Align(Space, start) \in Nat
  BY SpaceType, AlignType, TableAssumption
<1>3. ASSUME NEW i \in DOMAIN parts, IsUsed(parts[i]) PROVE parts[i].first # end
  <2>1. parts[i].first <= parts[i].last
    BY <1>3 DEF Inv, ArrayOK, Placed
  <2>2. ~Holds(parts[i], end)
    BY <1>1, SpaceType DEF IsFree
  <2> QED BY <1>2, <2>1, <2>2, PartType DEF Holds, Inv
<1> QED BY <1>1, <1>2, <1>3, CreatedPart

LEMMA SpacedPart == Inv /\ NewFromSpace => NewPartsAreFree
<1> SUFFICES ASSUME Inv, NewFromSpace PROVE NewPartsAreFree
  OBVIOUS
<1>1. PICK e \in ToSet(IdentifySpaces(Space)), start \in Sectors, end \in Sectors :
        /\ e.num = 0
        /\ e.first <= Align(Space, start) /\ Align(Space, start) <= end /\ end <= e.last
        /\ CreatePartition(FindFirstFreePart(parts), Align(Space, start), end)
  BY DEF NewFromSpace
<1>2. start \in Nat /\ end \in Nat /\ Align(Space, start) \in Nat
  BY SpaceType, AlignType, TableAssumption
<1>3. \A i \in DOMAIN parts : IsUsed(parts[i]) => parts[i].first <= parts[i].last
  BY DEF Inv, ArrayOK, Placed
<1>4. \A i \in DOMAIN parts :
        IsUsed(parts[i]) => parts[i].first < e.first \/ e.last < parts[i].first
  BY <1>1, <1>3, SpaceType, FreeSpacesApart
<1>5. e.first \in Int /\ e.last \in Int
  BY <1>1, SpaceType, ListedType
<1>6. ASSUME NEW i \in DOMAIN parts, IsUsed(parts[i]) PROVE parts[i].first # end
  BY <1>1, <1>2, <1>4, <1>5, <1>6, PartType DEF Inv
<1> QED BY <1>1, <1>2, <1>6, CreatedPart

\* What gdisk's prompts and cgdisk's list of spaces let a user create never lies
\* over another partition or outside the usable sectors, in any table, one with
\* overlapping partitions included.
THEOREM NewPartitionsAreFree == Spec => NewPartitionIsFree
<1>1. ASSUME Inv, [Next]_vars, Interactive PROVE NewPartsAreFree
  <2>1. CASE NewFromPrompts \/ NewFromSpace
    BY <1>1, <2>1, PromptedPart, SpacedPart
  <2>2. CASE parts' = parts
    BY <2>2, KeptParts
  <2>3. CASE Delete
    BY <2>3, KeptParts DEF Delete, Failed, Unused, IsUsed, Inv, ArrayOK
  <2>4. CASE Swap
    <3>1. CASE parts' = parts
      BY <3>1, KeptParts
    <3>2. ASSUME NEW n \in DOMAIN parts, NEW k \in DOMAIN parts,
                 parts' = [parts EXCEPT ![n] = parts[k], ![k] = parts[n]]
          PROVE  NewPartsAreFree
      BY <3>2, KeptParts
    <3> QED BY <2>4, <3>1, <3>2 DEF Swap, Failed
  <2>5. CASE Sort
    <3>1. PICK order \in [DOMAIN parts -> DOMAIN parts] :
            parts' = [i \in DOMAIN parts |-> parts[order[i]]]
      BY <2>5 DEF Sort, Bijection, Injection
    <3> QED BY <3>1, KeptParts
  <2>6. CASE ClearGPTData
    BY <2>6, KeptParts, BlankType DEF ClearGPTData
  <2>7. CASE SetGPTSize
    <3>1. PICK n \in Nat : parts' = [i \in 1..n |-> IF i <= Len(parts) THEN parts[i] ELSE Unused]
      BY <2>7, FilledType, TableAssumption DEF SetGPTSize, Resized
    <3>2. ASSUME NEW i \in DOMAIN parts', IsUsed(parts'[i])
          PROVE  \E k \in DOMAIN parts : parts'[i] = parts[k]
      <4>1. i \in 1..n /\ parts'[i] = IF i <= Len(parts) THEN parts[i] ELSE Unused
        BY <3>1
      <4>2. i <= Len(parts) /\ i \in DOMAIN parts
        BY <3>2, <4>1 DEF IsUsed, Inv, ArrayOK
      <4> QED BY <4>1, <4>2
    <3> QED BY <3>2, KeptParts
  <2> QED BY <1>1, <2>1, <2>2, <2>3, <2>4, <2>5, <2>6, <2>7
          DEF Next, vars, New, NewFromOption, Interactive, ResizeDisk, Load, SetAlignment,
              MoveMainTable, MoveSecondTable, MoveSecondHeaderToEnd, Failed, SaveGPTData
<1>2. Inv /\ [Next]_vars => [Interactive => \A p \in UsedParts(parts)' :
        p \in UsedParts(parts) \/ p.first..p.last \subseteq FreeSectors]_vars
  BY <1>1 DEF NewPartsAreFree
<1> QED BY <1>2, InvHolds, PTL DEF Spec, NewPartitionIsFree

-----------------------------------------------------------------------------
(* cgdisk's list of spaces.                                                 *)

LEMMA SavableParts ==
  ASSUME Inv, NoOverlaps, CheckGPTSize(main)
  PROVE  /\ \A i \in DOMAIN parts : IsUsed(parts[i]) =>
              /\ parts[i].first <= parts[i].last
              /\ main.first <= parts[i].first /\ parts[i].last <= main.last
         /\ \A i, k \in DOMAIN parts : i # k /\ IsUsed(parts[i]) /\ IsUsed(parts[k]) =>
              parts[i].last < parts[k].first \/ parts[k].last < parts[i].first
<1>1. ASSUME NEW i \in DOMAIN parts, IsUsed(parts[i])
      PROVE  /\ parts[i].first <= parts[i].last
             /\ main.first <= parts[i].first /\ parts[i].last <= main.last
  BY <1>1 DEF CheckGPTSize, UsedParts, Inv, ArrayOK, Placed
<1>2. ASSUME NEW i \in DOMAIN parts, NEW k \in DOMAIN parts, k < i,
             IsUsed(parts[i]), IsUsed(parts[k])
      PROVE  parts[i].last < parts[k].first \/ parts[k].last < parts[i].first
  <2>1. ~Overlap(parts[i], parts[k])
    BY <1>2 DEF NoOverlaps
  <2>2. /\ parts[i].first \in Nat /\ parts[i].last \in Nat
        /\ parts[k].first \in Nat /\ parts[k].last \in Nat
    BY PartType DEF Inv
  <2> QED BY <2>1, <2>2 DEF Overlap
<1>3. \A i, k \in DOMAIN parts : i # k => k < i \/ i < k
  BY DEF Inv, ArrayOK
<1> QED BY <1>1, <1>2, <1>3

LEMMA SpacesAreTiles ==
  ASSUME Inv, NoOverlaps, CheckGPTSize(main), main.first <= main.last
  PROVE  LET spaces == IdentifySpaces(Space)
         IN  /\ Tiled(spaces, main.first, main.last)
             /\ \A j \in 1..Len(spaces) : spaces[j].num # 0 =>
                  \E i \in DOMAIN parts : /\ IsUsed(parts[i])
                                          /\ parts[i].first = spaces[j].first
                                          /\ parts[i].last = spaces[j].last
             /\ \A i \in DOMAIN parts : IsUsed(parts[i]) =>
                  \E j \in 1..Len(spaces) : /\ spaces[j].num # 0
                                            /\ parts[i].first = spaces[j].first
                                            /\ parts[i].last = spaces[j].last
             /\ \A j \in 1..Len(spaces) :
                  j < Len(spaces) => spaces[j].num # 0 \/ spaces[j + 1].num # 0
<1> DEFINE spaces == IdentifySpaces(Space)
           list == SpacesFromParts(Space)
<1>1. /\ Space.parts \in Seq(AnyPart) /\ Space.parts = parts
      /\ Space.first = main.first /\ Space.last = main.last
      /\ Space.first \in Nat /\ Space.last \in Nat
  BY SpaceType
<1>2. /\ Tiled(spaces, main.first, main.last)
      /\ \A j \in 1..Len(spaces) :
           spaces[j].num # 0 => \E i \in 1..Len(list) : spaces[j] = list[i]
      /\ \A i \in 1..Len(list) : \E j \in 1..Len(spaces) : spaces[j] = list[i]
      /\ \A j \in 1..Len(spaces) :
           j < Len(spaces) => spaces[j].num # 0 \/ spaces[j + 1].num # 0
  BY <1>1, SavableParts, SpacesTile
<1>3. \A i \in 1..Len(list) : /\ list[i].num \in DOMAIN parts /\ list[i].num # 0
                              /\ IsUsed(parts[list[i].num])
                              /\ list[i].first = parts[list[i].num].first
                              /\ list[i].last = parts[list[i].num].last
  BY <1>1, SavableParts, ListedPart
<1>4. \A n \in DOMAIN parts : IsUsed(parts[n]) =>
        \E i \in 1..Len(list) : list[i] = SpaceOf(parts[n].first, parts[n].last, n)
  BY <1>1, PartSpaces
<1>5. \A n \in DOMAIN parts : /\ SpaceOf(parts[n].first, parts[n].last, n).num = n
                              /\ SpaceOf(parts[n].first, parts[n].last, n).first = parts[n].first
                              /\ SpaceOf(parts[n].first, parts[n].last, n).last = parts[n].last
  BY DEF SpaceOf
<1> HIDE DEF spaces, list
<1>6. ASSUME NEW j \in 1..Len(spaces), spaces[j].num # 0
      PROVE  \E i \in DOMAIN parts : /\ IsUsed(parts[i])
                                     /\ parts[i].first = spaces[j].first
                                     /\ parts[i].last = spaces[j].last
  <2>1. PICK i \in 1..Len(list) : spaces[j] = list[i]
    BY <1>2, <1>6
  <2> QED BY <1>3, <2>1
<1>7. ASSUME NEW n \in DOMAIN parts, IsUsed(parts[n])
      PROVE  \E j \in 1..Len(spaces) : /\ spaces[j].num # 0
                                       /\ parts[n].first = spaces[j].first
                                       /\ parts[n].last = spaces[j].last
  <2>1. PICK i \in 1..Len(list) : list[i] = SpaceOf(parts[n].first, parts[n].last, n)
    BY <1>4, <1>7
  <2>2. PICK j \in 1..Len(spaces) : spaces[j] = list[i]
    BY <1>2
  <2> QED BY <1>3, <1>5, <2>1, <2>2
<1> QED BY <1>2, <1>6, <1>7 DEF spaces

\* The end offered for a partition in a free space stays in that space, unless
\* a partition of one sector follows it.
LEMMA DefaultEndStays ==
  ASSUME Inv, NoOverlaps, CheckGPTSize(main), main.first <= main.last,
         NEW j \in 1..Len(IdentifySpaces(Space)), IdentifySpaces(Space)[j].num = 0,
         NEW x \in Nat, Holds(IdentifySpaces(Space)[j], x),
         \A p \in UsedParts(parts) : p.first < p.last
  PROVE  DefaultEnd(Space, IdentifySpaces(Space)[j], x) \in x..IdentifySpaces(Space)[j].last
<1> DEFINE spaces == IdentifySpaces(Space)
           e == spaces[j]
           y == e.last + 1
           end == Align(Space, y)
<1>1. /\ Tiled(spaces, main.first, main.last)
      /\ \A k \in 1..Len(spaces) : spaces[k].num # 0 =>
           \E i \in DOMAIN parts : /\ IsUsed(parts[i])
                                   /\ parts[i].first = spaces[k].first
                                   /\ parts[i].last = spaces[k].last
      /\ \A k \in 1..Len(spaces) : k < Len(spaces) => spaces[k].num # 0 \/ spaces[k + 1].num # 0
  BY SpacesAreTiles
<1>2. /\ Space.parts = parts /\ Space.last = main.last /\ main.last \in Nat
      /\ Space.align \in Nat \ {0}
  BY SpaceType
<1>3. e \in ToSet(spaces)
  BY <1>1 DEF ToSet, Tiled
<1>4. e.first \in Int /\ e.last \in Int
  BY <1>3, SpaceType, ListedType
<1>5. x <= e.last /\ y \in Nat /\ e.num = 0
  BY <1>4 DEF Holds
<1>6. end \in Nat
  BY <1>2, <1>5, AlignType
<1>7. DefaultEnd(Space, e, x) =
        IF IsFree(Space, end - 1) /\ x <= end - 1 THEN end - 1 ELSE e.last
  BY DEF DefaultEnd
<1>8. ~(end > y)
  <2> SUFFICES ASSUME end > y PROVE FALSE
    OBVIOUS
  <2>1. IsFree(Space, y + 1) /\ end <= main.last
    BY <1>2, <1>5, AlignUp
  <2>2. j < Len(spaces)
    <3>1. Len(spaces) \in Nat /\ spaces[Len(spaces)].last = main.last
      BY <1>1 DEF Tiled
    <3>2. e.last < main.last
      BY <1>2, <1>4, <1>6, <2>1
    <3>3. j \in 1..Len(spaces)
      OBVIOUS
    <3> HIDE DEF spaces
    <3> QED BY <1>2, <1>4, <3>1, <3>2, <3>3
  <2>3. spaces[j + 1].first = y
    BY <1>1, <2>2 DEF Tiled
  <2>4. j + 1 \in 1..Len(spaces) /\ spaces[j + 1].num # 0
    <3> HIDE DEF spaces
    <3>1. Len(spaces) \in Nat
      BY <1>1 DEF Tiled
    <3> QED BY <1>1, <1>5, <2>2, <3>1
  <2>5. PICK i \in DOMAIN parts : IsUsed(parts[i]) /\ parts[i].first = y
    BY <1>1, <2>3, <2>4
  <2>6. parts[i].first < parts[i].last
    BY <2>5 DEF UsedParts
  <2>7. Holds(parts[i], y + 1)
    BY <1>5, <2>5, <2>6, PartType DEF Holds, Inv
  <2> QED BY <1>2, <2>1, <2>7 DEF IsFree
<1> HIDE DEF end, e
<1> QED BY <1>4, <1>5, <1>6, <1>7, <1>8 DEF e

\* In a table that can be saved, cgdisk's list has every usable sector in one
\* space, its free spaces are the free sectors, and the end it offers for a new
\* partition does not leave the space the user chose.
THEOREM SpacesTiles == Spec => []SpacesTileTheTable
<1>1. Inv => SpacesTileTheTable
  <2> SUFFICES ASSUME Inv, NoOverlaps, CheckGPTSize(main), main.first <= main.last,
                      NEW x \in main.first..main.last
               PROVE  \E space \in ToSet(IdentifySpaces(Space)) :
                        /\ \A other \in ToSet(IdentifySpaces(Space)) : Holds(other, x) <=> other = space
                        /\ space.num = 0 <=> x \in FreeSectors
                        /\ space.num = 0 /\ (\A p \in UsedParts(parts) : p.first < p.last) =>
                             DefaultEnd(Space, space, x) \in x..space.last
    BY DEF SpacesTileTheTable
  <2> DEFINE spaces == IdentifySpaces(Space)
  <2>1. /\ Tiled(spaces, main.first, main.last)
        /\ \A j \in 1..Len(spaces) : spaces[j].num # 0 =>
             \E i \in DOMAIN parts : /\ IsUsed(parts[i])
                                     /\ parts[i].first = spaces[j].first
                                     /\ parts[i].last = spaces[j].last
        /\ \A i \in DOMAIN parts : IsUsed(parts[i]) =>
             \E j \in 1..Len(spaces) : /\ spaces[j].num # 0
                                       /\ parts[i].first = spaces[j].first
                                       /\ parts[i].last = spaces[j].last
    BY SpacesAreTiles
  <2>2. main.first \in Nat /\ main.last \in Nat /\ x \in Nat /\ Space.parts = parts
    BY SpaceType
  <2>3. PICK j \in 1..Len(spaces) : /\ Holds(spaces[j], x)
                                    /\ \A i \in 1..Len(spaces) : Holds(spaces[i], x) => i = j
    BY <2>1, <2>2, TiledHolds
  <2>4. \A k \in 1..Len(spaces) : spaces[k] \in ToSet(spaces)
    BY <2>1 DEF Tiled, ToSet
  <2>5. \A other \in ToSet(spaces) : \E k \in 1..Len(spaces) : other = spaces[k]
    BY <2>1 DEF Tiled, ToSet
  <2>6. \A other \in ToSet(spaces) : Holds(other, x) <=> other = spaces[j]
    <3> HIDE DEF spaces
    <3> QED BY <2>3, <2>5
  <2>7. ASSUME spaces[j].num # 0 PROVE x \notin FreeSectors
    <3> HIDE DEF spaces
    <3>1. PICK i \in DOMAIN parts : /\ IsUsed(parts[i])
                                    /\ parts[i].first = spaces[j].first
                                    /\ parts[i].last = spaces[j].last
      BY <2>1, <2>7
    <3>2. Holds(parts[i], x)
      BY <2>3, <3>1 DEF Holds
    <3> QED BY <3>1, <3>2 DEF FreeSectors, UsedParts
  <2>8. ASSUME x \notin FreeSectors PROVE spaces[j].num # 0
    <3> HIDE DEF spaces
    <3>1. PICK i \in DOMAIN parts : IsUsed(parts[i]) /\ Holds(parts[i], x)
      BY <2>2, <2>8 DEF FreeSectors, UsedParts
    <3>2. PICK k \in 1..Len(spaces) : /\ spaces[k].num # 0
                                      /\ parts[i].first = spaces[k].first
                                      /\ parts[i].last = spaces[k].last
      BY <2>1, <3>1
    <3>3. Holds(spaces[k], x)
      BY <3>1, <3>2 DEF Holds
    <3> QED BY <2>3, <3>2, <3>3
  <2>9. ASSUME spaces[j].num = 0, \A p \in UsedParts(parts) : p.first < p.last
        PROVE  DefaultEnd(Space, spaces[j], x) \in x..spaces[j].last
    BY <2>2, <2>3, <2>9, DefaultEndStays
  <2> HIDE DEF spaces
  <2>10. spaces[j].num = 0 <=> x \in FreeSectors
    BY <2>7, <2>8
  <2> QED BY <2>4, <2>6, <2>9, <2>10 DEF spaces
<1> QED BY <1>1, InvHolds, PTL

-----------------------------------------------------------------------------
(* The largest free block.                                                  *)

LEMMA SavedTablesArePacked ==
  ASSUME Inv, NoOverlaps, CheckGPTSize(main), \A p \in UsedParts(parts) : p.first < p.last
  PROVE  Packed(Space) /\ FreeIn(Space) = FreeSectors
<1>1. /\ Space.parts \in Seq(AnyPart) /\ Space.parts = parts
      /\ Space.first = main.first /\ Space.last = main.last
      /\ main.first \in Nat /\ 2 <= main.first /\ main.last \in Nat
  BY SpaceType
<1>2. Roomy(Space)
  BY <1>1 DEF Roomy
<1>3. ASSUME NEW i \in DOMAIN parts, IsUsed(parts[i])
      PROVE  main.first <= parts[i].first /\ parts[i].first < parts[i].last /\ parts[i].last <= main.last
  <2>1. parts[i] \in UsedParts(parts)
    BY <1>3 DEF UsedParts
  <2> QED BY <2>1 DEF CheckGPTSize
<1>4. ASSUME NEW i \in DOMAIN parts, NEW k \in DOMAIN parts, k < i,
             IsUsed(parts[i]), IsUsed(parts[k])
      PROVE  parts[i].last < parts[k].first \/ parts[k].last < parts[i].first
  <2>1. ~Overlap(parts[i], parts[k])
    BY <1>4 DEF NoOverlaps
  <2>2. /\ parts[i].first \in Nat /\ parts[i].last \in Nat
        /\ parts[k].first \in Nat /\ parts[k].last \in Nat
    BY PartType DEF Inv
  <2> QED BY <2>1, <2>2 DEF Overlap
<1>5. ASSUME NEW i \in DOMAIN parts, NEW k \in DOMAIN parts, i # k,
             IsUsed(parts[i]), IsUsed(parts[k])
      PROVE  parts[i].last < parts[k].first \/ parts[k].last < parts[i].first
  <2>1. i \in Int /\ k \in Int
    BY DEF Inv, ArrayOK
  <2>2. i < k \/ k < i
    BY <1>5, <2>1
  <2> QED BY <1>4, <1>5, <2>2
<1>6. Packed(Space)
  BY <1>1, <1>2, <1>3, <1>5 DEF Packed
<1>7. FreeIn(Space) = FreeSectors
  <2>1. ASSUME NEW x \in main.first..main.last PROVE x \in FreeSectors <=> Clear(Space, x)
    <3>1. x \in Nat /\ main.first <= x /\ x <= main.last
      BY <1>1
    <3> QED BY <3>1, FreeIs
  <2>2. FreeSectors \subseteq main.first..main.last
    BY DEF FreeSectors
  <2> QED BY <1>1, <2>1, <2>2 DEF FreeIn
<1> QED BY <1>6, <1>7

\* The defaults for a new partition span the largest free block of a table that
\* can be saved, and each of its free sectors is counted once.
THEOREM LargestBlocksAreFound == Spec => []LargestBlockIsFound
<1>1. ASSUME Inv PROVE LargestBlockIsFound
  <2>1. SUFFICES ASSUME NoOverlaps, CheckGPTSize(main), \A p \in UsedParts(parts) : p.first < p.last
                 PROVE  /\ FindFreeBlocks(Space) = Cardinality(FreeSectors)
                        /\ LET start == FindFirstInLargest(Space)
                               last == FindLastInFree(Space, start)
                           IN  IF FreeSectors = {} THEN start = 0
                               ELSE /\ start \in FreeSectors /\ start..last \subseteq FreeSectors
                                    /\ \A x, y \in FreeSectors :
                                         x..y \subseteq FreeSectors => y - x <= last - start
                                    /\ FindLastAligned(Space, start) \in start..last
    BY DEF LargestBlockIsFound
  <2>2. Packed(Space) /\ FreeIn(Space) = FreeSectors /\ Space.align \in Nat \ {0}
    BY <1>1, <2>1, SavedTablesArePacked, SpaceType
  <2>3. FindFreeBlocks(Space) = Cardinality(FreeSectors)
    BY <2>2, FreeBlocksCount
  <2> DEFINE start == FindFirstInLargest(Space)
             last == FindLastInFree(Space, start)
  <2>4. IF FreeSectors = {} THEN start = 0
        ELSE /\ start \in FreeSectors
             /\ \A x, y \in FreeSectors : x..y \subseteq FreeSectors => y - x <= last - start
    BY <2>2, LargestIs
  <2>5. start \in FreeSectors =>
          start..last \subseteq FreeSectors /\ FindLastAligned(Space, start) \in start..last
    BY <2>2, BlockEnd, AlignedEnd
  <2> HIDE DEF start
  <2> QED BY <2>3, <2>4, <2>5 DEF start
<1> QED BY <1>1, InvHolds, PTL

=============================================================================
