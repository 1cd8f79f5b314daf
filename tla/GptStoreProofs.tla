--------------------------- MODULE GptStoreProofs ---------------------------
(***************************************************************************)
(* What holds of GptStore for every set of tables, every choice of disk    *)
(* sizes and of the length of a table, both programs and any number of     *)
(* torn writes.                                                            *)
(*   Saving: the headers agree, the MBR is written last, a reported        *)
(* success is durable, and a save that starts from a sound disk is an      *)
(* atomic update whatever stops it.                                        *)
(*   Loading: it finds the partitions of a disk that lost one header or    *)
(* table, no GPT on a disk whose GPT was destroyed, and the old or the new *)
(* partitions after a save that was stopped.                               *)
(***************************************************************************)
EXTENDS GptStore, TLAPS

-----------------------------------------------------------------------------
(* Types.                                                                  *)

\* The constants' assumption, with its consequences for the derived sets.
LEMMA Constants ==
  /\ Blank \in Content /\ MbrTable \in Content /\ TableSectors \in Nat \ {0}
  /\ 0 \in Loc /\ Sizes \subseteq Loc /\ Loc \subseteq Nat /\ 0 \notin Sizes
  /\ Loc = {0} \cup Sizes
  /\ Tables \subseteq Content /\ FreshTears \subseteq Content
  BY StoreAssumption DEF Content, Loc, FreshTears

\* A load of any disk returns headers, a table and a verdict of the types
\* the rest of the program expects.
LEMMA ForceLoadType ==
  ASSUME NEW h \in [Loc -> Header], NEW t \in [Loc -> Content], NEW n \in Sizes
  PROVE  LET found == ForceLoadGPTData(h, t, n)
         IN  /\ found.main \in Header
             /\ found.second \in Header
             /\ found.parts \in Content
             /\ found.state \in GPTValidity
<1>1. SecondLoc(h, n) \in Loc
  BY Constants DEF SecondLoc, Header
<1>2. \A s \in Header : RebuiltMain(s) \in Header /\ RebuiltSecond(s) \in Header
  BY DEF RebuiltMain, RebuiltSecond, GoodHeader, Header
<1> QED
  BY <1>1, <1>2, Constants DEF ForceLoadGPTData, GPTValidity, Header

\* An empty or converted table laid out on the disk is a well-formed memory.
LEMMA ClearType ==
  ASSUME NEW n \in Sizes, NEW p \in Content, NEW k \in MBRValidity
  PROVE  ClearGPTData(n, p, k) \in Memory
  BY Constants DEF ClearGPTData, GoodHeader, Header, Memory

LEMMA HeaderTypes ==
  /\ BadHeader \in Header
  /\ \A m \in Memory, n \in Sizes : n = size =>
       Moved(m) \in Memory /\ RecomputeCRCs(m) \in Memory
<1>1. BadHeader \in Header
  BY Constants DEF BadHeader, Header
<1>2. ASSUME NEW m \in Memory, NEW n \in Sizes, n = size
      PROVE  Moved(m) \in Memory /\ RecomputeCRCs(m) \in Memory
  <2>1. size \in Loc
    BY <1>2, Constants
  <2>2. Moved(m) \in Memory
    BY <2>1 DEF Header, Memory, Moved
  <2>3. RecomputeCRCs(m) \in Memory
    BY DEF Header, Memory, RecomputeCRCs
  <2> QED
    BY <2>2, <2>3
<1> QED
  BY <1>1, <1>2

\* The main copy overlaps no backup; two backups overlap if their places are
\* no further apart than a table is long.
LEMMA Geometry ==
  /\ Under(0) = {} /\ Meets(0) = {} /\ Over(0) = {}
  /\ \A l \in Sizes : Under(l) \cup Meets(l) \cup Over(l) \subseteq Sizes \ {l}
  /\ \A l, k \in Sizes :
       /\ k \in Under(l) <=> k < l /\ l <= k + TableSectors
       /\ k \in Meets(l) <=> k # l /\ k < l + TableSectors /\ l < k + TableSectors
       /\ k \in Over(l) <=> l < k /\ k <= l + TableSectors
<1>1. /\ TableSectors \in Nat \ {0}
      /\ \A n \in Sizes : n \in Nat /\ n > 2 * TableSectors + 3
  BY StoreAssumption
<1>2. /\ HeaderSector(0) = 1 /\ TableRange(0) = 2..(TableSectors + 1)
      /\ \A n \in Sizes : /\ HeaderSector(n) = n - 1
                          /\ TableRange(n) = (n - 1 - TableSectors)..(n - 2)
  BY <1>1 DEF HeaderSector, TableRange
<1>3. \A l, k \in Sizes :
        TableRange(k) \cap TableRange(l) # {} <=>
          k < l + TableSectors /\ l < k + TableSectors
  <2> SUFFICES ASSUME NEW l \in Sizes, NEW k \in Sizes
               PROVE  TableRange(k) \cap TableRange(l) # {} <=>
                        k < l + TableSectors /\ l < k + TableSectors
    OBVIOUS
  <2>1. ASSUME k < l + TableSectors, l < k + TableSectors
        PROVE  TableRange(k) \cap TableRange(l) # {}
    <3>1. CASE k <= l
      <4>1. k - 2 \in TableRange(k) \cap TableRange(l)
        BY <1>1, <1>2, <2>1, <3>1
      <4> QED
        BY <4>1
    <3>2. CASE ~(k <= l)
      <4>1. l - 2 \in TableRange(k) \cap TableRange(l)
        BY <1>1, <1>2, <2>1, <3>2
      <4> QED
        BY <4>1
    <3> QED
      BY <3>1, <3>2
  <2>2. ASSUME NEW c \in TableRange(k) \cap TableRange(l)
        PROVE  k < l + TableSectors /\ l < k + TableSectors
    BY <1>1, <1>2, <2>2
  <2> QED
    BY <2>1, <2>2
<1>4. \A k \in Sizes : /\ TableRange(k) \cap TableRange(0) = {}
                       /\ HeaderSector(k) \notin TableRange(0)
                       /\ HeaderSector(0) \notin TableRange(k)
  BY <1>1, <1>2
<1>5. HeaderSector(0) \notin TableRange(0)
  BY <1>1, <1>2
<1>6. \A l, k \in Sizes :
        HeaderSector(k) \in TableRange(l) <=> k < l /\ l <= k + TableSectors
  BY <1>1, <1>2
<1> QED
  BY <1>1, <1>3, <1>4, <1>5, <1>6 DEF Under, Meets, Over, Loc

\* What a table write of new to l, complete or cut short, changes.
LEMMA TableStored ==
  ASSUME TypeOK, NEW l \in Loc, NEW new \in Content,
         PutTable(l, new) \/ CutTable(l, new)
  PROVE  /\ hdr' \in [Loc -> Header] /\ tab' \in [Loc -> Content]
         /\ tab'[l] \in {tab[l], new} \cup FreshTears
         /\ \A k \in Loc : k # l /\ k \notin Meets(l) => tab'[k] = tab[k]
         /\ \A k \in Loc : hdr'[k] \in {hdr[k], BadHeader}
         /\ \A k \in Loc : k \notin Under(l) => hdr'[k] = hdr[k]
         /\ ~ShortWrites /\ PutTable(l, new) =>
              tab'[l] = new /\ \A k \in Under(l) : hdr'[k] = BadHeader
<1> USE DEF TypeOK
<1>1. ASSUME NEW x \in Content, NEW lost \in SUBSET Under(l), StoreTable(l, x, lost)
      PROVE  /\ hdr' \in [Loc -> Header] /\ tab' \in [Loc -> Content]
             /\ tab'[l] = x
             /\ \A k \in Loc : k # l /\ k \notin Meets(l) => tab'[k] = tab[k]
             /\ \A k \in Loc : hdr'[k] = IF k \in lost THEN BadHeader ELSE hdr[k]
  <2>1. PICK t \in Hit(Meets(l), x) :
          tab' = [k \in Loc |-> IF k = l THEN x
                                ELSE IF k \in Meets(l) THEN t[k] ELSE tab[k]]
    BY <1>1 DEF StoreTable
  <2>2. t \in [Meets(l) -> Content]
    BY DEF Hit
  <2>3. hdr' = [k \in Loc |-> IF k \in lost THEN BadHeader ELSE hdr[k]]
    BY <1>1 DEF StoreTable
  <2> QED
    BY <2>1, <2>2, <2>3, HeaderTypes
<1>2. ASSUME StoreTable(l, new, Under(l))
      PROVE  /\ tab'[l] = new /\ \A k \in Under(l) : hdr'[k] = BadHeader
             /\ hdr' \in [Loc -> Header] /\ tab' \in [Loc -> Content]
             /\ \A k \in Loc : k # l /\ k \notin Meets(l) => tab'[k] = tab[k]
             /\ \A k \in Loc : hdr'[k] = IF k \in Under(l) THEN BadHeader ELSE hdr[k]
  <2>1. Under(l) \subseteq Loc
    BY DEF Under
  <2> QED
    BY <1>1, <1>2, <2>1
<1>3. ASSUME CutTable(l, new)
      PROVE  /\ hdr' \in [Loc -> Header] /\ tab' \in [Loc -> Content]
             /\ tab'[l] \in {tab[l]} \cup FreshTears
             /\ \A k \in Loc : k # l /\ k \notin Meets(l) => tab'[k] = tab[k]
             /\ \A k \in Loc : hdr'[k] \in {hdr[k], BadHeader}
             /\ \A k \in Loc : k \notin Under(l) => hdr'[k] = hdr[k]
  <2>1. PICK x \in {tab[l]} \cup (IF tab[l] = new THEN {} ELSE FreshTears),
             lost \in SUBSET Under(l) : StoreTable(l, x, lost)
    BY <1>3 DEF CutTable
  <2>2. x \in Content /\ x \in {tab[l]} \cup FreshTears
    BY <2>1, Constants
  <2> QED
    BY <1>1, <2>1, <2>2
<1> QED
  BY <1>2, <1>3 DEF PutTable

\* What a header write to l changes.
LEMMA HeaderStored ==
  ASSUME TypeOK, NEW l \in Loc, NEW x \in Header, PutHeader(l, x)
  PROVE  /\ hdr' \in [Loc -> Header] /\ tab' \in [Loc -> Content]
         /\ hdr'[l] = x
         /\ \A k \in Loc : k # l => hdr'[k] = hdr[k]
         /\ \A k \in Loc : k \notin Over(l) => tab'[k] = tab[k]
<1>1. PICK t \in Hit(Over(l), Blank) :
        tab' = [k \in Loc |-> IF k \in Over(l) THEN t[k] ELSE tab[k]]
  BY DEF PutHeader
<1>2. t \in [Over(l) -> Content]
  BY DEF Hit
<1> QED
  BY <1>1, <1>2 DEF PutHeader, TypeOK

\* The main copy overlaps nothing: a write to it changes it alone.
LEMMA MainStored ==
  ASSUME TypeOK
  PROVE  /\ \A new \in Content : PutTable(0, new) \/ CutTable(0, new) =>
              /\ hdr' = hdr
              /\ \A k \in Sizes : tab'[k] = tab[k]
              /\ tab'[0] \in {tab[0], new} \cup FreshTears
              /\ ~ShortWrites /\ PutTable(0, new) => tab'[0] = new
         /\ \A x \in Header : PutHeader(0, x) =>
              /\ tab' = tab
              /\ hdr'[0] = x
              /\ \A k \in Sizes : hdr'[k] = hdr[k]
<1> USE DEF TypeOK
<1>1. ASSUME NEW new \in Content, PutTable(0, new) \/ CutTable(0, new)
      PROVE  /\ hdr' = hdr
             /\ \A k \in Sizes : tab'[k] = tab[k]
             /\ tab'[0] \in {tab[0], new} \cup FreshTears
             /\ ~ShortWrites /\ PutTable(0, new) => tab'[0] = new
  <2>1. /\ hdr' \in [Loc -> Header]
        /\ \A k \in Loc : k \notin Under(0) => hdr'[k] = hdr[k]
        /\ \A k \in Loc : k # 0 /\ k \notin Meets(0) => tab'[k] = tab[k]
        /\ tab'[0] \in {tab[0], new} \cup FreshTears
        /\ ~ShortWrites /\ PutTable(0, new) => tab'[0] = new
    BY <1>1, TableStored, Constants
  <2>2. \A k \in Loc : hdr'[k] = hdr[k]
    BY <2>1, Geometry
  <2>3. hdr' = hdr
    BY <2>1, <2>2
  <2> QED
    BY <2>1, <2>3, Geometry, Constants
<1>2. ASSUME NEW x \in Header, PutHeader(0, x)
      PROVE  tab' = tab /\ hdr'[0] = x /\ \A k \in Sizes : hdr'[k] = hdr[k]
  <2>1. /\ tab' \in [Loc -> Content]
        /\ hdr'[0] = x
        /\ \A k \in Loc : k # 0 => hdr'[k] = hdr[k]
        /\ \A k \in Loc : k \notin Over(0) => tab'[k] = tab[k]
    BY <1>2, HeaderStored, Constants
  <2>2. \A k \in Loc : tab'[k] = tab[k]
    BY <2>1, Geometry
  <2>3. tab' = tab
    BY <2>1, <2>2
  <2>4. \A k \in Sizes : k \in Loc /\ k # 0
    BY Constants
  <2> QED
    BY <2>1, <2>3, <2>4
<1> QED
  BY <1>1, <1>2

LEMMA DestroyType ==
  ASSUME TypeOK, NEW then \in Jobs, NEW kind \in MBRValidity, DestroyGPT(then, kind)
  PROVE  /\ mem' \in Memory /\ allOK' \in BOOLEAN
         /\ pc' \in Phases /\ job' \in Jobs
<1>1. mem' \in Memory
  BY ClearType, Constants DEF DestroyGPT, TypeOK
<1> QED
  BY <1>1 DEF DestroyGPT, Phases, DestroyPhases

\* Where the program is after a destruction.
LEMMA AfterDestroyType ==
  /\ AfterDestroy(allOK) \in {"idle", "loaded", "aborted"}
  /\ AfterDestroy(TRUE) \in {"idle", "loaded", "aborted"}
  BY DEF AfterDestroy, AfterOperation

\* A torn or rejected write leaves the disk well typed and makes no header good.
LEMMA InterruptedType ==
  ASSUME TypeOK, Interrupted
  PROVE  /\ hdr' \in [Loc -> Header] /\ tab' \in [Loc -> Content]
         /\ mbr' = mbr /\ size' = size
         /\ \A l \in Loc : hdr'[l] \in {hdr[l], BadHeader}
<1>1. TableTarget \in Loc /\ HeaderTarget \in Loc
  BY Constants DEF TypeOK, TableTarget, HeaderTarget, Memory, Header
<1>2. NewTableContents \in Content /\ BadHeader \in Header
  BY Constants, HeaderTypes DEF TypeOK, NewTableContents, Memory
<1>3. ASSUME CutTable(TableTarget, NewTableContents)
      PROVE  /\ hdr' \in [Loc -> Header] /\ tab' \in [Loc -> Content]
             /\ \A l \in Loc : hdr'[l] \in {hdr[l], BadHeader}
  BY <1>1, <1>2, <1>3, TableStored
<1>4. ASSUME PutHeader(HeaderTarget, BadHeader)
      PROVE  /\ hdr' \in [Loc -> Header] /\ tab' \in [Loc -> Content]
             /\ \A l \in Loc : hdr'[l] \in {hdr[l], BadHeader}
  BY <1>1, <1>2, <1>4, HeaderStored
<1> QED
  BY <1>3, <1>4 DEF Interrupted, TypeOK

LEMMA TypeInit == Init => TypeOK
<1> SUFFICES ASSUME Init PROVE TypeOK
  OBVIOUS
<1>1. hdr \in [Loc -> Header] /\ tab \in [Loc -> Content] /\ mbr \in MBRValidity
  <2>1. \A c \in Content, at \in Loc, alt \in Loc : GoodHeader(c, at, alt) \in Header
    BY DEF GoodHeader, Header
  <2>2. BadHeader \in Header
    BY HeaderTypes
  <2>3. Tears \subseteq Content /\ size \in Loc /\ 0 \in Loc
    BY Constants DEF Init, Content
  <2>4. CASE hdr = [l \in Loc |-> BadHeader]
             /\ tab = [l \in Loc |-> Blank] /\ mbr \in {"invalid", "mbr"}
    BY <2>2, <2>4, Constants DEF MBRValidity
  <2>5. CASE ~(hdr = [l \in Loc |-> BadHeader]
               /\ tab = [l \in Loc |-> Blank] /\ mbr \in {"invalid", "mbr"})
    <3>1. PICK t \in Tables, x \in {Blank} \cup Tears :
            /\ hdr = [l \in Loc |-> IF l = 0 THEN GoodHeader(t, 0, size)
                                   ELSE IF l = size THEN GoodHeader(t, size, 0)
                                   ELSE BadHeader]
            /\ tab = [l \in Loc |-> IF l \in {0, size} THEN t
                                   ELSE IF l \in Meets(size) THEN x ELSE Blank]
            /\ mbr \in {"gpt", "hybrid"}
      BY <2>5 DEF Init
    <3>2. t \in Content /\ x \in Content
      BY <2>3, Constants
    <3>3. hdr \in [Loc -> Header]
      BY <2>1, <2>2, <2>3, <3>1, <3>2
    <3>4. tab \in [Loc -> Content]
      BY <3>1, <3>2, Constants
    <3> QED
      BY <3>1, <3>3, <3>4 DEF MBRValidity
  <2> QED
    BY <2>4, <2>5
<1>2. mem \in Memory
  BY ClearType, Constants DEF Init, MBRValidity
<1> QED
  BY <1>1, <1>2, Constants
  DEF Init, TypeOK, Phases, Jobs, NoReport, NotBegun

LEMMA TypeStep == TypeOK /\ [Next]_vars => TypeOK'
<1> SUFFICES ASSUME TypeOK, [Next]_vars PROVE TypeOK'
  OBVIOUS
<1> USE DEF TypeOK
<1>1. CASE LoadPartitions
  <2> DEFINE found == ForceLoadGPTData(hdr, tab, size)
  <2>1. /\ found.main \in Header /\ found.second \in Header
        /\ found.parts \in Content
    BY ForceLoadType
  <2>2. \A w : LoadedMemory(w, found) \in Memory
    <3>1. "gpt" \in MBRValidity
      BY DEF MBRValidity
    <3> QED
      BY <2>1, <3>1, ClearType, Constants DEF LoadedMemory, XFormPartitions, Memory
  <2> QED
    BY <1>1, <2>2, Constants
    DEF LoadPartitions, disk, Phases, NotBegun
<1>2. CASE Edit
  BY <1>2, Constants DEF Edit, disk, history, Memory
<1>3. CASE MoveSecondHeaderToEnd
  BY <1>3, HeaderTypes DEF MoveSecondHeaderToEnd, disk, history
<1>4. CASE NewTable
  <2>1. mem' \in Memory
    BY <1>4, ClearType, Constants DEF NewTable, Memory, MBRValidity
  <2> QED
    BY <1>4, <2>1 DEF NewTable, disk, history, Phases
<1>5. CASE Recover
  <2>1. \A s \in Header : RebuiltMain(s) \in Header /\ RebuiltSecond(s) \in Header
    BY DEF RebuiltMain, RebuiltSecond, GoodHeader, Header
  <2>2. mem.second.at \in Loc /\ tab[0] \in Content
    BY Constants DEF Memory, Header
  <2>3. mem' \in Memory
    BY <1>5, <2>1, <2>2 DEF Recover, Memory
  <2> QED
    BY <1>5, <2>3 DEF Recover, disk, history
<1>6. CASE LoadMBR
  <2>1. mem' \in Memory
    <3>1. "gpt" \in MBRValidity
      BY DEF MBRValidity
    <3> QED
      BY <1>6, <3>1, ClearType, Constants DEF LoadMBR, XFormPartitions, Memory
  <2> QED
    BY <1>6, <2>1 DEF LoadMBR, disk, history
<1>7. CASE Quit
  BY <1>7, Constants DEF Quit, disk, Phases, NotBegun
<1>8. CASE SaveGPTData
  <2>1. mem' \in Memory
    BY <1>8, HeaderTypes DEF SaveGPTData
  <2>2. \A alt : SoundStart(alt) \subseteq Content
    BY Constants DEF SoundStart
  <2>3. begun' \in [old: SUBSET Content, from: Loc]
    <3>1. CASE begun' = [old |-> SoundStart(mem'.main.alt),
                         from |-> SecondLoc(hdr, size)]
      <4>1. SecondLoc(hdr, size) \in Loc
        BY Constants DEF SecondLoc, Header
      <4> QED
        BY <2>2, <3>1, <4>1
    <3>2. CASE begun' = begun
      BY <3>2
    <3> QED
      BY <1>8, <3>1, <3>2 DEF SaveGPTData, history
  <2>4. pc' \in Phases /\ job' \in Jobs /\ allOK' \in BOOLEAN
    BY <1>8 DEF SaveGPTData, Phases, SavePhases, Jobs, AfterOperation
  <2> QED
    <3>1. report' \in [kind: {"none", "saved", "shrunk", "gone", "converted"},
                       table: Content]
      <4>1. report' = NoReport \/ report' = report
        BY <1>8 DEF SaveGPTData, history
      <4> QED
        BY <4>1, Constants DEF NoReport
    <3>2. hdr' = hdr /\ tab' = tab /\ mbr' = mbr /\ size' = size
      BY <1>8 DEF SaveGPTData, disk
    <3> QED
      BY <2>1, <2>3, <2>4, <3>1, <3>2
<1>9. CASE Zap
  <2>1. PICK then \in {"destroy", "zapAll", "destroyAborted", "zapAborted"} :
          DestroyGPT(then, mem.mbr)
    BY <1>9 DEF Zap
  <2>2. then \in Jobs /\ mem.mbr \in MBRValidity
    BY DEF Jobs, Memory
  <2> QED
    BY <1>9, <2>1, <2>2, DestroyType, Constants DEF Zap, disk, NoReport, NotBegun
<1>10. CASE ConvertToMBR
  <2>1. {"gpt", "mbr"} \subseteq MBRValidity /\ "toMbr" \in Jobs /\ "mo" \in Phases
    BY DEF MBRValidity, Jobs, Phases
  <2>2. /\ mem' \in Memory /\ allOK' \in BOOLEAN
        /\ pc' \in Phases /\ job' \in Jobs
    BY <1>10, <2>1, DestroyType DEF ConvertToMBR, Memory
  <2> QED
    BY <1>10, <2>2, Constants DEF ConvertToMBR, disk, NoReport, NotBegun
<1>11. CASE Write
  <2>1. /\ mem.second.at \in Loc /\ mem.main.alt \in Loc /\ 0 \in Loc
        /\ mem.main \in Header /\ mem.second \in Header /\ BadHeader \in Header
        /\ mem.parts \in Content /\ mem.mbr \in MBRValidity /\ Blank \in Content
    BY Constants, HeaderTypes DEF Memory, Header
  <2>3. CASE WriteBackupTable \/ WriteMainTable \/ BlankMainTable \/ BlankBackupTable
    <3>1. hdr' \in [Loc -> Header] /\ tab' \in [Loc -> Content]
      BY <2>1, <2>3, TableStored
      DEF WriteBackupTable, WriteMainTable, BlankMainTable, BlankBackupTable
    <3> QED
      BY <2>3, <3>1 DEF WriteBackupTable, WriteMainTable, BlankMainTable,
           BlankBackupTable, history, Phases, SavePhases, DestroyPhases
  <2>4. CASE WriteBackupHeader \/ WriteMainHeader \/ BlankMainHeader \/ BlankBackupHeader
    <3>1. hdr' \in [Loc -> Header] /\ tab' \in [Loc -> Content]
      BY <2>1, <2>4, HeaderStored
      DEF WriteBackupHeader, WriteMainHeader, BlankMainHeader, BlankBackupHeader
    <3> QED
      BY <2>4, <3>1 DEF WriteBackupHeader, WriteMainHeader, BlankMainHeader,
           BlankBackupHeader, history, Phases, SavePhases, DestroyPhases
  <2>5. CASE WriteMBR
    BY <2>1, <2>5 DEF WriteMBR, history, Phases, SavePhases
  <2>6. CASE FinishSave
    BY <2>1, <2>6, Constants
    DEF FinishSave, disk, AfterOperation, Phases, Jobs, NoReport, NotBegun
  <2>7. CASE FinishDestroy
    BY <2>7, AfterDestroyType, Constants DEF FinishDestroy, disk, Phases, Jobs, NoReport
  <2>8. CASE WriteMBROnly
    <3>1. "toMbr" \in Jobs /\ "none" \in Jobs /\ "invalid" \in MBRValidity
      BY DEF Jobs, MBRValidity
    <3>2. mbr' \in MBRValidity
      BY <2>1, <2>8, <3>1 DEF WriteMBROnly
    <3>3. /\ mem' \in Memory /\ allOK' \in BOOLEAN
          /\ pc' \in Phases /\ job' \in Jobs
      BY <2>1, <2>8, <3>1, DestroyType, AfterDestroyType DEF WriteMBROnly, Phases
    <3>4. \/ report' = report \/ report' = NoReport
          \/ \E k \in {"gone", "converted"} : report' = [kind |-> k, table |-> Blank]
      BY <2>8 DEF WriteMBROnly
    <3>5. report' \in [kind: {"none", "saved", "shrunk", "gone", "converted"},
                       table: Content]
      BY <3>4, Constants DEF NoReport
    <3>6. hdr' = hdr /\ tab' = tab /\ size' = size /\ begun' = begun
      BY <2>8 DEF WriteMBROnly
    <3> QED
      BY <3>2, <3>3, <3>5, <3>6
  <2> QED
    BY <1>11, <2>3, <2>4, <2>5, <2>6, <2>7, <2>8 DEF Write
<1>12. CASE FailWrite
  <2>1. pc' \in Phases /\ job' \in Jobs
    BY <1>12, AfterDestroyType
    DEF FailWrite, AfterOperation, Phases, SavePhases, DestroyPhases, Jobs
  <2>2. report' \in [kind: {"none", "saved", "shrunk", "gone", "converted"},
                     table: Content]
    <3>1. \/ report' = report \/ report' = NoReport
          \/ report' = [kind |-> "gone", table |-> Blank]
      BY <1>12 DEF FailWrite
    <3> QED
      BY <3>1, Constants DEF NoReport
  <2>3. /\ hdr' \in [Loc -> Header] /\ tab' \in [Loc -> Content]
        /\ mbr' = mbr /\ size' = size
    BY <1>12, InterruptedType DEF FailWrite
  <2> QED
    <3>1. allOK' \in BOOLEAN /\ mem' = mem /\ begun' = begun
      BY <1>12 DEF FailWrite
    <3> QED
      BY <2>1, <2>2, <2>3, <3>1
<1>13. CASE Kill
  BY <1>13, InterruptedType, Constants DEF Kill, disk, history, Phases, Jobs
<1>14. CASE ResizeDisk
  <2>0. PICK n \in Sizes \ {size} :
          /\ size' = n
          /\ hdr' = [l \in Loc |-> IF l <= n THEN hdr[l] ELSE BadHeader]
          /\ \E t \in Hit(Over(n), Blank) :
               tab' = [l \in Loc |-> IF l <= n THEN tab[l]
                                     ELSE IF l \in Over(n) THEN t[l] ELSE Blank]
    BY <1>14 DEF ResizeDisk
  <2>1. PICK t \in Hit(Over(n), Blank) :
          tab' = [l \in Loc |-> IF l <= n THEN tab[l]
                                ELSE IF l \in Over(n) THEN t[l] ELSE Blank]
    BY <2>0
  <2>2. t \in [Over(n) -> Content]
    BY DEF Hit
  <2>3. hdr' \in [Loc -> Header] /\ tab' \in [Loc -> Content] /\ size' \in Sizes
    BY <2>0, <2>1, <2>2, HeaderTypes, Constants
  <2> QED
    BY <1>14, <2>3, Constants DEF ResizeDisk, NoReport, NotBegun
<1>15. CASE Damage
  <2>1. PICK l \in {0, hdr[0].alt} :
          \/ hdr' = DamagedHeader(l) /\ UNCHANGED tab
          \/ (\E x \in FreshTears : tab' = [tab EXCEPT ![l] = x]) /\ UNCHANGED hdr
    BY <1>15 DEF Damage
  <2>2. l \in Loc
    BY <2>1, Constants DEF Header
  <2>3. hdr' \in [Loc -> Header] /\ tab' \in [Loc -> Content]
    BY <2>1, <2>2, HeaderTypes, Constants DEF DamagedHeader
  <2> QED
    BY <1>15, <2>3, Constants DEF Damage, NoReport, NotBegun
<1>16. CASE SetProtectiveMBR
  BY <1>16 DEF SetProtectiveMBR, disk, history, Memory, MBRValidity
<1>17. CASE UNCHANGED vars
  BY <1>17 DEF vars
<1> QED
  BY <1>1, <1>2, <1>3, <1>4, <1>5, <1>6, <1>7, <1>8, <1>9, <1>10, <1>11,
     <1>12, <1>13, <1>14, <1>15, <1>16, <1>17 DEF Next, Command, Fault

\* Every variable keeps its type: a header, in memory or on the disk, places
\* both copies where they lie on a disk of a possible size.
THEOREM TypeCorrect == Spec => []TypeOK
  BY TypeInit, TypeStep, PTL DEF Spec

-----------------------------------------------------------------------------
(* Headers.                                                                *)

\* A good header on the disk names its own sector and the other copy's.
OnDisk ==
  \A l \in Loc : hdr[l].ok => /\ hdr[l].at = l
                              /\ l = 0 => hdr[l].alt # 0
                              /\ l # 0 => hdr[l].alt = 0

\* GPTData's two headers point at each other, but for a backup that the
\* main header places past the end of the disk.
PointAtEachOther(m) ==
  /\ m.main.ok /\ m.main.at = 0 /\ m.main.alt # 0
  /\ m.second.ok /\ m.second.at # 0 /\ m.second.alt = 0
  /\ m.main.alt <= size => m.second.at = m.main.alt
LaidOut == pc \notin {"idle", "aborted"} => PointAtEachOther(mem)

\* During a save the backup fits the disk and both headers have the CRC.
ReadyToSave ==
  pc \in SavePhases => /\ mem.main.alt <= size
                       /\ mem.main.crc = mem.parts
                       /\ mem.second.crc = mem.parts

HeadersInv == TypeOK /\ OnDisk /\ LaidOut /\ ReadyToSave

\* Where the backup is looked for is a location of the disk, never the main copy.
LEMMA SecondLocType ==
  ASSUME TypeOK
  PROVE  /\ size \in Nat /\ size # 0 /\ size \in Loc
         /\ \A l \in Loc : hdr[l] \in Header
         /\ SecondLoc(hdr, size) \in Loc
<1>1. size \in Nat /\ size # 0 /\ size \in Loc
  BY StoreAssumption, Constants DEF TypeOK
<1>2. \A l \in Loc : hdr[l] \in Header
  BY DEF TypeOK
<1>3. hdr[0].alt \in Loc
  BY <1>2, Constants DEF Header
<1> QED
  BY <1>1, <1>2, <1>3 DEF SecondLoc

\* A disk that only loses headers still has none that names another place.
LEMMA HeadersLost ==
  ASSUME OnDisk, \A l \in Loc : hdr'[l] \in {hdr[l], BadHeader}
  PROVE  OnDisk'
  BY DEF OnDisk, BadHeader

LEMMA SecondLocInDisk ==
  ASSUME TypeOK, OnDisk
  PROVE  SecondLoc(hdr, size) # 0 /\ SecondLoc(hdr, size) <= size
  BY SecondLocType, Constants DEF SecondLoc, OnDisk

LEMMA ClearLaidOut ==
  ASSUME TypeOK, NEW p \in Content, NEW k \in MBRValidity
  PROVE  PointAtEachOther(ClearGPTData(size, p, k))
  BY StoreAssumption DEF TypeOK, ClearGPTData, GoodHeader, PointAtEachOther

\* A load that the program accepts gives it two headers that agree.
LEMMA LoadLaidOut ==
  ASSUME HeadersInv, LoadPartitions, pc' = "loaded"
  PROVE  PointAtEachOther(mem')
<1> DEFINE found == ForceLoadGPTData(hdr, tab, size)
           onDisk == hdr[SecondLoc(hdr, size)]
<1>1. PICK which \in UseWhichPartitions(found.state, mbr) :
        /\ mem' = LoadedMemory(which, found)
        /\ pc' = IF which # "use_abort" THEN "loaded"
                 ELSE IF Interactive THEN "idle" ELSE "aborted"
  BY DEF LoadPartitions
<1>2. which # "use_abort"
  BY <1>1
<1>3. CASE which \in {"use_mbr", "use_new"}
  <2>1. "gpt" \in MBRValidity
    BY DEF MBRValidity
  <2> QED
    BY <1>1, <1>3, <2>1, ClearLaidOut, Constants
    DEF LoadedMemory, XFormPartitions, HeadersInv
<1>4. CASE which \notin {"use_mbr", "use_new"}
  <2>1. found.state # "gpt_invalid"
    BY <1>1, <1>2, <1>4 DEF UseWhichPartitions, GPTDataChoice
  <2>2. hdr[0].ok \/ onDisk.ok
    BY <2>1 DEF ForceLoadGPTData
  <2>3. mem'.main = found.main /\ mem'.second = found.second
    BY <1>1, <1>2, <1>4 DEF LoadedMemory
  <2>4. /\ SecondLoc(hdr, size) \in Loc /\ size \in Nat /\ size # 0
        /\ hdr[0].ok => hdr[0].at = 0 /\ hdr[0].alt # 0
        /\ hdr[0] \in Header /\ onDisk \in Header
    BY Constants, SecondLocType DEF HeadersInv, OnDisk
  <2>5. SecondLoc(hdr, size) = (IF hdr[0].ok /\ hdr[0].alt <= size THEN hdr[0].alt ELSE size)
    BY DEF SecondLoc
  <2>6. onDisk.ok => onDisk.at = SecondLoc(hdr, size) /\ onDisk.alt = 0
    BY <2>4, <2>5 DEF HeadersInv, OnDisk
  <2>7. /\ found.main = IF hdr[0].ok THEN hdr[0] ELSE RebuiltMain(onDisk)
        /\ found.second = IF onDisk.ok THEN onDisk ELSE RebuiltSecond(hdr[0])
    BY DEF ForceLoadGPTData
  <2>8. /\ found.main.ok /\ found.main.at = 0 /\ found.main.alt # 0
        /\ found.second.ok /\ found.second.at # 0 /\ found.second.alt = 0
    BY <2>2, <2>4, <2>5, <2>6, <2>7 DEF RebuiltMain, RebuiltSecond, GoodHeader
  <2>9. found.main.alt <= size => found.second.at = found.main.alt
    BY <2>2, <2>4, <2>5, <2>6, <2>7 DEF RebuiltMain, RebuiltSecond, GoodHeader
  <2>10. size' = size
    BY DEF LoadPartitions
  <2> QED
    BY <2>3, <2>8, <2>9, <2>10 DEF PointAtEachOther
<1> QED
  BY <1>3, <1>4

LEMMA MovedLaidOut ==
  ASSUME TypeOK, PointAtEachOther(mem)
  PROVE  /\ PointAtEachOther(Moved(mem))
         /\ Moved(mem).main.alt = size /\ Moved(mem).parts = mem.parts
  BY SecondLocType DEF TypeOK, Memory, Header, Moved, PointAtEachOther

\* The steps of a save and of a destruction leave the headers in memory as
\* they are, and write them where they say they are.
LEMMA HeadersStep == HeadersInv /\ [Next]_vars => HeadersInv'
<1> SUFFICES ASSUME HeadersInv, [Next]_vars PROVE HeadersInv'
  OBVIOUS
<1> USE DEF HeadersInv
<1>0. TypeOK'
  BY TypeStep
<1>1. CASE LoadPartitions
  <2>1. pc' \in {"loaded", "idle", "aborted"} /\ hdr' = hdr /\ size' = size
    BY <1>1 DEF LoadPartitions, disk
  <2>2. OnDisk'
    BY <2>1 DEF OnDisk
  <2>3. LaidOut'
    <3>1. CASE pc' = "loaded"
      BY <1>1, <2>1, <3>1, LoadLaidOut DEF LaidOut, PointAtEachOther
    <3> QED
      BY <2>1, <3>1 DEF LaidOut
  <2>4. ReadyToSave'
    BY <2>1 DEF ReadyToSave, SavePhases
  <2> QED
    BY <1>0, <2>2, <2>3, <2>4
<1>2. CASE \/ Edit \/ MoveSecondHeaderToEnd \/ NewTable \/ Recover \/ LoadMBR
           \/ SetProtectiveMBR
  <2>1. /\ hdr' = hdr /\ size' = size
        /\ pc' \in {"loaded", "cleared"}
        /\ pc' = "loaded" => pc = "loaded"
    BY <1>2 DEF Edit, MoveSecondHeaderToEnd, NewTable, Recover, LoadMBR,
        SetProtectiveMBR, disk
  <2>2. ASSUME pc = "loaded" PROVE PointAtEachOther(mem)
    BY <2>2 DEF LaidOut
  <2>3. PointAtEachOther(mem')
    <3>1. CASE Edit
      BY <2>2, <3>1 DEF Edit, PointAtEachOther, TypeOK, Memory
    <3>2. CASE MoveSecondHeaderToEnd
      BY <2>2, <3>2, MovedLaidOut DEF MoveSecondHeaderToEnd
    <3>3. CASE NewTable
      <4>1. (IF Interactive THEN "gpt" ELSE mem.mbr) \in MBRValidity
        BY DEF TypeOK, Memory, MBRValidity
      <4> QED
        BY <3>3, <4>1, ClearLaidOut, Constants DEF NewTable
    <3>4. CASE Recover
      BY <2>2, <3>4
      DEF Recover, PointAtEachOther, RebuiltMain, RebuiltSecond, GoodHeader, TypeOK, Memory
    <3>5. CASE LoadMBR
      <4>1. "gpt" \in MBRValidity
        BY DEF MBRValidity
      <4>2. CASE mbr = "invalid"
        BY <2>2, <3>5, <4>2 DEF LoadMBR, PointAtEachOther, TypeOK, Memory
      <4> QED
        BY <3>5, <4>1, <4>2, ClearLaidOut, Constants DEF LoadMBR, XFormPartitions
    <3>6. CASE SetProtectiveMBR
      BY <2>2, <3>6 DEF SetProtectiveMBR, PointAtEachOther, TypeOK, Memory
    <3> QED
      BY <1>2, <3>1, <3>2, <3>3, <3>4, <3>5, <3>6
  <2> QED
    BY <1>0, <2>1, <2>3 DEF OnDisk, LaidOut, ReadyToSave, SavePhases, PointAtEachOther
<1>3. CASE SaveGPTData
  <2>1. hdr' = hdr /\ size' = size /\ pc' \in {"bt", "loaded", "idle"}
    BY <1>3 DEF SaveGPTData, disk, AfterOperation
  <2>2. PointAtEachOther(mem)
    BY <1>3 DEF SaveGPTData, LaidOut
  <2>3. PICK m \in {mem, Moved(mem)} :
          mem' = RecomputeCRCs(m) /\ m.main.alt <= size
    <3>1. mem.main.alt \in Nat /\ size \in Nat
      BY SecondLocType, Constants DEF TypeOK, Memory, Header
    <3>2. CASE mem.main.alt > size
      <4>1. mem' = RecomputeCRCs(Moved(mem))
        BY <1>3, <3>2 DEF SaveGPTData
      <4> QED
        BY <2>2, <3>1, <4>1, MovedLaidOut
    <3>3. CASE ~(mem.main.alt > size)
      <4>1. mem' \in {RecomputeCRCs(Moved(mem)), RecomputeCRCs(mem)}
        BY <1>3 DEF SaveGPTData
      <4> QED
        BY <2>2, <3>1, <3>3, <4>1, MovedLaidOut
    <3> QED
      BY <3>2, <3>3
  <2>4. PointAtEachOther(m) /\ m \in Memory
    BY <2>2, <2>3, MovedLaidOut, HeaderTypes DEF TypeOK
  <2>5. /\ PointAtEachOther(mem') /\ mem'.main.alt <= size
        /\ mem'.main.crc = mem'.parts /\ mem'.second.crc = mem'.parts
    BY <2>3, <2>4 DEF RecomputeCRCs, PointAtEachOther, Memory, Header
  <2> QED
    BY <1>0, <2>1, <2>5 DEF OnDisk, LaidOut, ReadyToSave, PointAtEachOther
<1>4. CASE Zap \/ ConvertToMBR \/ WriteMBROnly
  <2>1. hdr' = hdr /\ size' = size
    BY <1>4 DEF Zap, ConvertToMBR, WriteMBROnly, disk
  <2>2. \A k \in MBRValidity, j \in Jobs : DestroyGPT(j, k) =>
          PointAtEachOther(mem') /\ pc' \in DestroyPhases
    BY ClearLaidOut, Constants DEF DestroyGPT, DestroyPhases
  <2>3. {"gpt", "mbr"} \subseteq MBRValidity /\ "toMbr" \in Jobs
        /\ {"destroy", "zapAll", "destroyAborted", "zapAborted"} \subseteq Jobs
    BY DEF MBRValidity, Jobs
  <2>4. mem.mbr \in MBRValidity
    BY DEF TypeOK, Memory
  <2>5. \/ PointAtEachOther(mem') /\ pc' \in DestroyPhases
        \/ PointAtEachOther(mem') /\ pc' \in {"mo", "loaded", "idle", "aborted"}
    <3>1. CASE Zap
      BY <2>2, <2>3, <2>4, <3>1 DEF Zap
    <3>2. CASE WriteMBROnly
      <4>1. PointAtEachOther(mem)
        BY <3>2 DEF WriteMBROnly, LaidOut
      <4> QED
        BY <2>2, <2>3, <2>4, <3>2, <4>1, AfterDestroyType DEF WriteMBROnly
    <3>3. CASE ConvertToMBR
      <4>1. PointAtEachOther(mem)
        BY <3>3 DEF ConvertToMBR, LaidOut
      <4> QED
        BY <2>2, <2>3, <3>3, <4>1 DEF ConvertToMBR, PointAtEachOther, TypeOK, Memory
    <3> QED
      BY <1>4, <3>1, <3>2, <3>3
  <2> QED
    BY <1>0, <2>1, <2>5
    DEF OnDisk, LaidOut, ReadyToSave, SavePhases, DestroyPhases, PointAtEachOther
<1>5. CASE \/ WriteBackupTable \/ WriteMainTable \/ WriteMBR
           \/ BlankMainTable \/ BlankBackupTable \/ FinishSave \/ FinishDestroy
           \/ Quit
  <2>1. /\ size' = size /\ mem' = mem
        /\ pc' \in SavePhases => pc \in SavePhases
        /\ pc = "idle" => pc' = "idle"
        /\ pc = "aborted" => pc' = "idle"
    BY <1>5, AfterDestroyType
    DEF WriteBackupTable, WriteMainTable, WriteMBR, BlankMainTable, BlankBackupTable,
        FinishSave, FinishDestroy, Quit, SavePhases, AfterOperation, disk
  <2>2. OnDisk'
    <3>1. CASE WriteMBR \/ FinishSave \/ FinishDestroy \/ Quit
      BY <3>1, HeadersLost DEF WriteMBR, FinishSave, FinishDestroy, Quit, disk
    <3>2. CASE WriteBackupTable \/ WriteMainTable \/ BlankMainTable \/ BlankBackupTable
      <4>1. /\ mem.second.at \in Loc /\ 0 \in Loc
            /\ mem.parts \in Content /\ Blank \in Content
        BY Constants DEF TypeOK, Memory, Header
      <4>2. \A l \in Loc : hdr'[l] \in {hdr[l], BadHeader}
        BY <3>2, <4>1, TableStored
        DEF WriteBackupTable, WriteMainTable, BlankMainTable, BlankBackupTable
      <4> QED
        BY <4>2, HeadersLost
    <3> QED
      BY <1>5, <3>1, <3>2
  <2> QED
    BY <1>0, <2>1, <2>2 DEF LaidOut, ReadyToSave, PointAtEachOther
<1>6. CASE WriteBackupHeader \/ WriteMainHeader \/ BlankMainHeader \/ BlankBackupHeader
  <2>1. /\ size' = size /\ mem' = mem /\ PointAtEachOther(mem)
        /\ pc' \in SavePhases => pc \in SavePhases
    BY <1>6
    DEF WriteBackupHeader, WriteMainHeader, BlankMainHeader, BlankBackupHeader,
        SavePhases, LaidOut
  <2>2. \/ pc = "bh" /\ PutHeader(mem.main.alt, mem.second)
        \/ PutHeader(0, mem.main)
        \/ PutHeader(0, BadHeader)
        \/ PutHeader(mem.second.at, BadHeader)
    BY <1>6 DEF WriteBackupHeader, WriteMainHeader, BlankMainHeader, BlankBackupHeader
  <2>3. OnDisk'
    <3>1. PICK l \in Loc, x \in Header :
            /\ PutHeader(l, x)
            /\ x.ok => x.at = l /\ (l = 0 => x.alt # 0) /\ (l # 0 => x.alt = 0)
      <4>1. /\ mem.main.alt \in Loc /\ mem.second.at \in Loc /\ 0 \in Loc
            /\ mem.main \in Header /\ mem.second \in Header /\ BadHeader \in Header
        BY HeaderTypes, Constants DEF TypeOK, Memory, Header
      <4> QED
        BY <2>1, <2>2, <4>1 DEF BadHeader, PointAtEachOther, ReadyToSave, SavePhases
    <3> QED
      BY <3>1, HeaderStored DEF OnDisk
  <2> QED
    BY <1>0, <2>1, <2>3 DEF LaidOut, ReadyToSave, PointAtEachOther
<1>7. CASE FailWrite \/ Kill
  <2>1. OnDisk'
    BY <1>7, InterruptedType, HeadersLost DEF FailWrite, Kill, disk
  <2>2. size' = size /\ mem' = mem
    BY <1>7 DEF FailWrite, Kill, Interrupted
  <2>3. LaidOut' /\ ReadyToSave'
    <3>1. /\ pc \notin {"idle", "aborted"}
          /\ pc' \in SavePhases => pc \in SavePhases
      BY <1>7, AfterDestroyType
      DEF FailWrite, Kill, AfterOperation, SavePhases, DestroyPhases
    <3> QED
      BY <2>2, <3>1 DEF LaidOut, ReadyToSave, PointAtEachOther
  <2> QED
    BY <1>0, <2>1, <2>3
<1>8. CASE ResizeDisk \/ Damage
  <2>1. pc' = "idle"
    BY <1>8 DEF ResizeDisk, Damage
  <2>2. \A l \in Loc : hdr'[l] \in {hdr[l], BadHeader}
    BY <1>8 DEF ResizeDisk, Damage, DamagedHeader, TypeOK
  <2>3. OnDisk'
    BY <2>2 DEF OnDisk, BadHeader
  <2> QED
    BY <1>0, <2>1, <2>3 DEF LaidOut, ReadyToSave, SavePhases
<1>9. CASE UNCHANGED vars
  BY <1>0, <1>9 DEF vars, OnDisk, LaidOut, ReadyToSave, PointAtEachOther
<1> QED
  BY <1>1, <1>2, <1>3, <1>4, <1>5, <1>6, <1>7, <1>8, <1>9 DEF Next, Command, Write, Fault

LEMMA HeadersInit == Init => HeadersInv
<1> SUFFICES ASSUME Init PROVE HeadersInv
  OBVIOUS
<1>1. TypeOK
  BY TypeInit
<1>2. OnDisk
  BY SecondLocType, <1>1 DEF Init, OnDisk, BadHeader, GoodHeader
<1> QED
  BY <1>1, <1>2 DEF Init, HeadersInv, LaidOut, ReadyToSave, SavePhases

\* The locations that a save writes to.
LEMMA Targets ==
  ASSUME HeadersInv, pc \in SavePhases
  PROVE  /\ mem.second.at = mem.main.alt /\ mem.main.alt \in Sizes
         /\ mem.main.alt \in Loc /\ mem.main.alt # 0
         /\ mem.main \in Header /\ mem.second \in Header /\ mem.parts \in Content
         /\ mem.main.ok /\ mem.main.at = 0
         /\ mem.second.ok /\ mem.second.alt = 0
         /\ mem.main.crc = mem.parts /\ mem.second.crc = mem.parts
         /\ mem.main.alt <= size
<1>1. /\ mem.main.alt \in Loc
      /\ mem.main \in Header /\ mem.second \in Header /\ mem.parts \in Content
  BY DEF HeadersInv, TypeOK, Memory, Header
<1> QED
  BY <1>1, Constants DEF HeadersInv, LaidOut, ReadyToSave, PointAtEachOther, SavePhases

\* A backup is written where both headers say it is and within the disk; so
\* every good header on the disk names its own sector.
THEOREM HeadersAlwaysAgree == Spec => []HeadersAgree
<1>1. HeadersInv => HeadersAgree
  <2> SUFFICES ASSUME HeadersInv PROVE HeadersAgree
    OBVIOUS
  <2>1. pc \in SavePhases => /\ mem.second.at = mem.main.alt
                             /\ mem.main.alt \in Sizes /\ mem.main.alt <= size
    BY Targets
  <2> QED
    BY <2>1 DEF HeadersInv, HeadersAgree, OnDisk
<1> QED
  BY <1>1, HeadersInit, HeadersStep, PTL DEF Spec

-----------------------------------------------------------------------------
(* What a save has written at each of its steps, if a write that reports   *)
(* no error is complete.                                                   *)

Written ==
  pc \in SavePhases =>
    /\ pc \in {"bh", "mt", "mh", "mb"} \/ (pc = "sync" /\ allOK) =>
         tab[mem.main.alt] = mem.parts
    /\ pc \in {"mt", "mh", "mb"} \/ (pc = "sync" /\ allOK) =>
         hdr[mem.main.alt] = mem.second
    /\ pc \in {"mh", "mb"} \/ (pc = "sync" /\ allOK) => tab[0] = mem.parts
    /\ pc = "mb" \/ (pc = "sync" /\ allOK) => hdr[0] = mem.main

LEMMA WrittenStep ==
  ASSUME ~ShortWrites, HeadersInv, Written, [Next]_vars
  PROVE  Written'
<1> USE DEF Written
<1>1. CASE pc' \notin SavePhases
  BY <1>1
<1>2. CASE SaveGPTData
  BY <1>2 DEF SaveGPTData, SavePhases, AfterOperation
<1>3. CASE WriteBackupTable
  <2>1. tab'[mem.main.alt] = mem.parts /\ mem' = mem /\ pc' = "bh"
    BY <1>3, Targets, TableStored DEF WriteBackupTable, SavePhases, HeadersInv
  <2> QED
    BY <2>1 DEF SavePhases
<1>4. CASE WriteBackupHeader
  <2>1. pc = "bh" /\ PutHeader(mem.main.alt, mem.second) /\ mem' = mem /\ pc' = "mt"
    BY <1>4 DEF WriteBackupHeader
  <2>2. /\ hdr'[mem.main.alt] = mem.second
        /\ tab'[mem.main.alt] = tab[mem.main.alt]
    BY <2>1, Targets, HeaderStored, Geometry DEF SavePhases, HeadersInv
  <2> QED
    BY <2>1, <2>2 DEF SavePhases
<1>5. CASE WriteMainTable
  <2>1. PutTable(0, mem.parts) /\ mem' = mem /\ pc' = "mh" /\ pc = "mt"
    BY <1>5 DEF WriteMainTable
  <2>2. /\ tab'[0] = mem.parts /\ hdr' = hdr
        /\ tab'[mem.main.alt] = tab[mem.main.alt]
    BY <2>1, Targets, MainStored DEF SavePhases, HeadersInv
  <2> QED
    BY <2>1, <2>2 DEF SavePhases
<1>6. CASE WriteMainHeader
  <2>1. PutHeader(0, mem.main) /\ mem' = mem /\ pc' = "mb" /\ pc = "mh"
    BY <1>6 DEF WriteMainHeader
  <2>2. /\ hdr'[0] = mem.main /\ tab' = tab
        /\ hdr'[mem.main.alt] = hdr[mem.main.alt]
    BY <2>1, Targets, MainStored DEF SavePhases, HeadersInv
  <2> QED
    BY <2>1, <2>2 DEF SavePhases
<1>7. CASE WriteMBR
  BY <1>7 DEF WriteMBR, SavePhases
<1>8. CASE FailWrite
  BY <1>8, AfterDestroyType DEF FailWrite, SavePhases, AfterOperation
<1>9. CASE UNCHANGED vars
  BY <1>9 DEF vars
<1>10. CASE \/ LoadPartitions \/ Edit \/ MoveSecondHeaderToEnd \/ NewTable \/ Recover
            \/ LoadMBR \/ SetProtectiveMBR \/ Quit \/ Zap \/ ConvertToMBR \/ FinishSave
            \/ BlankMainHeader \/ BlankMainTable \/ BlankBackupTable
            \/ BlankBackupHeader \/ FinishDestroy \/ WriteMBROnly
            \/ Kill \/ ResizeDisk \/ Damage
  <2>1. pc' \notin SavePhases
    BY <1>10, AfterDestroyType
    DEF LoadPartitions, Edit, MoveSecondHeaderToEnd, NewTable, Recover, LoadMBR,
        SetProtectiveMBR, Quit,
        Zap, ConvertToMBR, FinishSave, BlankMainHeader, BlankMainTable,
        BlankBackupTable, BlankBackupHeader, FinishDestroy, WriteMBROnly, Kill,
        ResizeDisk, Damage, DestroyGPT, AfterOperation, SavePhases
  <2> QED
    BY <1>1, <2>1
<1> QED
  BY <1>2, <1>3, <1>4, <1>5, <1>6, <1>7, <1>8, <1>9, <1>10
  DEF Next, Command, Write, Fault

\* The MBR is the last thing a save writes: when it changes, both copies of
\* the new table are in place.
THEOREM MbrAlwaysLast == ASSUME ~ShortWrites PROVE Spec => MbrIsWrittenLast
<1>1. Init => Written
  BY DEF Init, Written, SavePhases
<1>2. HeadersInv /\ Written /\ [Next]_vars
        => [mbr' # mbr /\ pc \in SavePhases =>
              Consistent(0) /\ tab[0] = mem.parts /\ AgreesWithMain(mem.main.alt)]_vars
  <2> SUFFICES ASSUME HeadersInv, Written, [Next]_vars, mbr' # mbr, pc \in SavePhases
               PROVE  Consistent(0) /\ tab[0] = mem.parts /\ AgreesWithMain(mem.main.alt)
    OBVIOUS
  <2>1. pc = "mb"
    <3>1. \/ WriteMBR \/ WriteMBROnly
      BY DEF vars, Next, Command, Write, Fault, LoadPartitions, Edit,
        MoveSecondHeaderToEnd, NewTable, Recover, LoadMBR,
        SetProtectiveMBR, Quit, SaveGPTData, Zap,
        ConvertToMBR, WriteBackupTable, WriteBackupHeader, WriteMainTable,
        WriteMainHeader, FinishSave, BlankMainHeader, BlankMainTable,
        BlankBackupTable, BlankBackupHeader, FinishDestroy, FailWrite, Kill,
        Interrupted, ResizeDisk, Damage, disk
    <3> QED
      BY <3>1 DEF WriteMBR, WriteMBROnly, SavePhases
  <2> QED
    BY <2>1, Targets DEF Written, Consistent, ConsistentIn, AgreesWithMain
<1> QED
  BY <1>1, <1>2, HeadersInit, HeadersStep, WrittenStep, PTL DEF Spec, MbrIsWrittenLast

-----------------------------------------------------------------------------
(* A save that starts from a sound disk keeps one good copy.               *)

\* The old table is in the main copy until the new one is in the backup; if
\* the backup moves, the old table is also where the backup was, unless the
\* header there is lost under the new backup table.
KeepsOld ==
  begun.old # {} =>
    /\ pc \in {"bt", "bh", "mt", "mh"} =>
         /\ mem.main.alt = size
         /\ hdr[0].ok
         /\ SecondLoc(hdr, size) # size /\ hdr[SecondLoc(hdr, size)].ok =>
              /\ Consistent(SecondLoc(hdr, size))
              /\ begun.old = {tab[SecondLoc(hdr, size)]}
    /\ pc \in {"bt", "bh", "mt"} => Consistent(0) /\ begun.old = {tab[0]}
    /\ pc \in {"sync", "idle"} => Recoverable \in {begun.old, {mem.parts}}

SaveInv == HeadersInv /\ Written /\ KeepsOld

\* The invariant gives the property at every step of the save.
LEMMA OneCopy ==
  ASSUME SaveInv, begun.old # {}, pc \in SavePhases \cup {"idle"}
  PROVE  Recoverable \in {begun.old, {mem.parts}}
<1>1. CASE pc \in {"sync", "idle"}
  BY <1>1 DEF SaveInv, KeepsOld
<1>2. CASE pc \in {"bt", "bh", "mt"}
  BY <1>2 DEF SaveInv, KeepsOld, Recoverable
<1>3. CASE pc = "mh"
  <2>1. /\ hdr[size] = mem.second /\ tab[size] = mem.parts /\ tab[0] = mem.parts
        /\ mem.second.ok /\ mem.second.crc = mem.parts
    BY <1>3, Targets DEF SaveInv, KeepsOld, Written, SavePhases
  <2>2. CASE SecondLoc(hdr, size) = size
    BY <2>1, <2>2 DEF Recoverable, Consistent, ConsistentIn
  <2>3. CASE SecondLoc(hdr, size) # size
    BY <1>3, <2>1, <2>3 DEF Recoverable, SaveInv, KeepsOld, Consistent, ConsistentIn
  <2> QED
    BY <2>2, <2>3
<1>4. CASE pc = "mb"
  BY <1>4, Targets DEF SaveInv, Written, SavePhases, Recoverable, Consistent, ConsistentIn
<1> QED
  BY <1>1, <1>2, <1>3, <1>4 DEF SavePhases

\* A write of a save, complete or cut short, keeps the recoverable table or
\* replaces it by the new one.
LEMMA TableWrite ==
  ASSUME SaveInv, begun.old # {}, size' = size,
         \/ pc = "bt" /\ (PutTable(mem.main.alt, mem.parts) \/ CutTable(mem.main.alt, mem.parts))
         \/ pc = "mt" /\ (PutTable(0, mem.parts) \/ CutTable(0, mem.parts))
  PROVE  Recoverable' \in {Recoverable, {mem.parts}}
<1> USE DEF SaveInv, HeadersInv
<1>0. PICK s \in Sizes : s = SecondLoc(hdr, size)
  BY SecondLocType, SecondLocInDisk, Constants
<1>1. /\ mem.main.alt \in Sizes /\ mem.main.alt = size /\ mem.parts \in Content
      /\ mem.second.ok /\ mem.second.crc = mem.parts
      /\ Consistent(0) /\ begun.old = {tab[0]}
      /\ 0 \in Loc /\ 0 \notin Sizes /\ Sizes \subseteq Loc
  BY Targets, Constants DEF KeepsOld, SavePhases
<1>2. Recoverable = {tab[0]}
  BY <1>1 DEF Recoverable
<1>3. CASE pc = "bt"
  <2>1. hdr'[0] = hdr[0] /\ tab'[0] = tab[0]
    BY <1>1, <1>3, TableStored, Geometry
  <2> QED
    BY <1>1, <1>2, <2>1 DEF Recoverable, Consistent, ConsistentIn
<1>4. CASE pc = "mt"
  <2>1. /\ hdr' = hdr /\ SecondLoc(hdr, size)' = s
        /\ \A k \in Sizes : tab'[k] = tab[k]
    BY <1>0, <1>1, <1>4, MainStored DEF SecondLoc
  <2>2. hdr[size] = mem.second /\ tab[size] = mem.parts
    BY <1>1, <1>4 DEF Written, SavePhases
  <2>3. CASE tab'[0] = hdr[0].crc
    BY <1>1, <1>2, <2>1, <2>3 DEF Recoverable, Consistent, ConsistentIn
  <2>4. CASE tab'[0] # hdr[0].crc
    <3>1. ~Consistent(0)'
      BY <2>1, <2>4 DEF Consistent, ConsistentIn
    <3>2. Consistent(size)' /\ tab'[size] = mem.parts
      BY <1>1, <2>1, <2>2 DEF Consistent, ConsistentIn
    <3>3. /\ Consistent(s)' <=> Consistent(s)
          /\ tab'[s] = tab[s]
      BY <1>1, <2>1 DEF Consistent, ConsistentIn
    <3>4. Consistent(s) /\ s # size => tab[s] = tab[0]
      BY <1>0, <1>1, <1>4 DEF KeepsOld, Consistent, ConsistentIn
    <3>5. Recoverable' = IF Consistent(s)' THEN {tab'[s]} ELSE {tab'[size]}
      BY <2>1, <3>1, <3>2 DEF Recoverable, Consistent, ConsistentIn
    <3>6. CASE s = size
      BY <2>2, <3>2, <3>3, <3>5, <3>6
    <3> QED
      BY <1>2, <3>2, <3>3, <3>4, <3>5, <3>6
  <2> QED
    BY <2>3, <2>4
<1> QED
  BY <1>3, <1>4

LEMMA HeaderWrite ==
  ASSUME SaveInv, begun.old # {}, size' = size,
         \/ pc = "bh" /\ \E x \in {mem.second, BadHeader} : PutHeader(mem.main.alt, x)
         \/ pc = "mh" /\ \E x \in {mem.main, BadHeader} : PutHeader(0, x)
  PROVE  Recoverable' \in {Recoverable, {mem.parts}}
<1> USE DEF SaveInv, HeadersInv
<1>1. /\ mem.main.alt \in Sizes /\ mem.main.alt = size
      /\ mem.second.ok /\ mem.second.crc = mem.parts /\ mem.second \in Header
      /\ mem.main.ok /\ mem.main.crc = mem.parts /\ mem.main \in Header
      /\ BadHeader \in Header
      /\ 0 \in Loc /\ 0 \notin Sizes /\ Sizes \subseteq Loc
  BY Targets, HeaderTypes, Constants DEF KeepsOld, SavePhases
<1>2. CASE pc = "bh"
  <2>1. Consistent(0)
    BY <1>2 DEF KeepsOld
  <2>2. hdr'[0] = hdr[0] /\ tab'[0] = tab[0]
    BY <1>1, <1>2, HeaderStored, Geometry
  <2> QED
    BY <2>1, <2>2 DEF Recoverable, Consistent, ConsistentIn
<1>3. CASE pc = "mh"
  <2>1. PICK x \in {mem.main, BadHeader} : PutHeader(0, x)
    BY <1>3
  <2>2. hdr'[0] = x /\ hdr'[size] = hdr[size] /\ tab' = tab
    BY <1>1, <2>1, MainStored
  <2>3. tab[0] = mem.parts /\ hdr[size] = mem.second /\ tab[size] = mem.parts
    BY <1>1, <1>3 DEF Written, SavePhases
  <2>4. CASE x = mem.main
    BY <1>1, <2>2, <2>3, <2>4 DEF Recoverable, Consistent, ConsistentIn
  <2>5. CASE x = BadHeader
    <3>1. ~Consistent(0)' /\ SecondLoc(hdr, size)' = size
      BY <2>2, <2>5 DEF Consistent, ConsistentIn, SecondLoc, BadHeader
    <3>2. Consistent(size)' /\ tab'[size] = mem.parts
      BY <1>1, <2>2, <2>3 DEF Consistent, ConsistentIn
    <3> QED
      BY <3>1, <3>2 DEF Recoverable, Consistent, ConsistentIn
  <2> QED
    BY <2>4, <2>5
<1> QED
  BY <1>2, <1>3

\* The five writes of a save, and a write of it that is cut short.
LEMMA SaveStepKeeps ==
  ASSUME ~ShortWrites, SaveInv, begun.old # {}, pc \in SavePhases,
         \/ WriteBackupTable \/ WriteBackupHeader \/ WriteMainTable
         \/ WriteMainHeader \/ WriteMBR \/ FinishSave \/ FailWrite \/ Kill
  PROVE  Recoverable' \in {Recoverable, {mem.parts}}
<1>1. CASE hdr' = hdr /\ tab' = tab /\ size' = size
  BY <1>1 DEF Recoverable, Consistent, ConsistentIn, SecondLoc
<1>2. CASE WriteBackupTable \/ WriteMainTable
  <2>1. mem.second.at = mem.main.alt
    BY Targets DEF SaveInv
  <2> QED
    BY <1>2, <2>1, TableWrite DEF WriteBackupTable, WriteMainTable
<1>3. CASE WriteBackupHeader \/ WriteMainHeader
  BY <1>3, HeaderWrite DEF WriteBackupHeader, WriteMainHeader
<1>4. CASE WriteMBR \/ FinishSave
  BY <1>1, <1>4 DEF WriteMBR, FinishSave, disk
<1>5. CASE Interrupted
  <2>1. mem.second.at = mem.main.alt /\ size' = size
    BY <1>5, Targets DEF SaveInv, Interrupted
  <2>2. CASE pc \in {"bt", "mt"} /\ CutTable(TableTarget, NewTableContents)
    <3>1. NewTableContents = mem.parts
      BY <2>2 DEF NewTableContents, DestroyPhases
    <3> QED
      BY <2>1, <2>2, <3>1, TableWrite DEF TableTarget
  <2>3. CASE pc \in {"bh", "mh"} /\ PutHeader(HeaderTarget, BadHeader)
    BY <2>1, <2>3, HeaderWrite DEF HeaderTarget
  <2>4. CASE UNCHANGED <<hdr, tab>>
    BY <1>1, <2>1, <2>4
  <2> QED
    BY <1>5, <2>2, <2>3, <2>4 DEF Interrupted, SavePhases
<1>6. CASE FailWrite \/ Kill
  BY <1>1, <1>5, <1>6 DEF FailWrite, Kill, disk
<1> QED
  BY <1>2, <1>3, <1>4, <1>6

\* Outside a save that began from a sound disk, nothing is promised.
NothingPromised ==
  /\ ~Interactive /\ pc \in {"loaded", "aborted", "cleared"} => begun.old = {}
  /\ pc \in DestroyPhases \cup {"mo"} => begun.old = {}

LEMMA NothingPromisedStep ==
  ASSUME NothingPromised, [Next]_vars
  PROVE  NothingPromised'
<1> USE DEF NothingPromised
<1>1. CASE begun'.old = {}
  BY <1>1
<1>2. CASE LoadPartitions \/ Quit \/ Zap \/ ConvertToMBR \/ FinishSave \/ ResizeDisk \/ Damage
  BY <1>1, <1>2
  DEF LoadPartitions, Quit, Zap, ConvertToMBR, FinishSave, ResizeDisk, Damage, NotBegun
<1>3. CASE \/ WriteBackupTable \/ WriteBackupHeader \/ WriteMainTable
           \/ WriteMainHeader \/ WriteMBR
  BY <1>3
  DEF WriteBackupTable, WriteBackupHeader, WriteMainTable, WriteMainHeader, WriteMBR,
      DestroyPhases
<1>4. CASE \/ Edit \/ MoveSecondHeaderToEnd \/ NewTable \/ Recover \/ LoadMBR
           \/ SetProtectiveMBR
  BY <1>4
  DEF Edit, MoveSecondHeaderToEnd, NewTable, Recover, LoadMBR,
      SetProtectiveMBR, DestroyPhases, history
<1>5. CASE SaveGPTData
  BY <1>5 DEF SaveGPTData, AfterOperation, DestroyPhases, history
<1>6. CASE \/ BlankMainHeader \/ BlankMainTable \/ BlankBackupTable
           \/ BlankBackupHeader \/ FinishDestroy \/ WriteMBROnly
  BY <1>6
  DEF BlankMainHeader, BlankMainTable, BlankBackupTable, BlankBackupHeader,
      FinishDestroy, WriteMBROnly, DestroyPhases, history
<1>7. CASE FailWrite \/ Kill
  BY <1>7 DEF FailWrite, Kill, DestroyPhases, AfterOperation, history
<1>8. CASE UNCHANGED vars
  BY <1>8 DEF vars
<1> QED
  BY <1>2, <1>3, <1>4, <1>5, <1>6, <1>7, <1>8 DEF Next, Command, Write, Fault

LEMMA KeepsOldStep ==
  ASSUME ~ShortWrites, SaveInv, NothingPromised, [Next]_vars
  PROVE  KeepsOld'
<1>1. CASE begun'.old = {}
  BY <1>1 DEF KeepsOld
<1>2. CASE pc' \notin SavePhases \cup {"idle"}
  BY <1>2 DEF KeepsOld, SavePhases
<1>3. CASE SaveGPTData
  <2>1. CASE pc' = "bt"
    <3> SUFFICES ASSUME begun'.old # {} PROVE KeepsOld'
      BY <1>1
    <3>1. /\ hdr' = hdr /\ tab' = tab /\ size' = size
          /\ begun'.old = SoundStart(mem'.main.alt)
      BY <1>3, <2>1 DEF SaveGPTData, disk, AfterOperation
    <3>2. /\ Consistent(0) /\ mem'.main.alt = size /\ begun'.old = {tab[0]}
          /\ SecondLoc(hdr, size) = size \/ AgreesWithMain(SecondLoc(hdr, size))
      BY <3>1 DEF SoundStart
    <3> QED
      BY <2>1, <3>1, <3>2 DEF KeepsOld, Consistent, ConsistentIn, AgreesWithMain, SecondLoc
  <2>2. CASE pc' # "bt"
    <3>1. pc' = AfterOperation(FALSE) /\ begun' = begun
      BY <1>3, <2>2 DEF SaveGPTData, history
    <3>2. CASE Interactive
      BY <1>2, <3>1, <3>2 DEF AfterOperation, SavePhases
    <3>3. CASE ~Interactive
      BY <1>1, <1>3, <3>1, <3>3 DEF NothingPromised, SaveGPTData
    <3> QED
      BY <3>2, <3>3
  <2> QED
    BY <2>1, <2>2
<1>4. CASE WriteBackupTable \/ WriteBackupHeader \/ WriteMainTable \/ WriteMainHeader
  <2> SUFFICES ASSUME begun.old # {} PROVE KeepsOld'
    BY <1>1, <1>4
    DEF WriteBackupTable, WriteBackupHeader, WriteMainTable, WriteMainHeader, history
  <2>1. /\ pc \in {"bt", "bh", "mt", "mh"}
        /\ mem' = mem /\ size' = size /\ begun' = begun
    BY <1>4
    DEF WriteBackupTable, WriteBackupHeader, WriteMainTable, WriteMainHeader, history
  <2>a. PICK s \in Sizes : s = SecondLoc(hdr, size) /\ s <= size
    BY SecondLocType, SecondLocInDisk, Constants DEF SaveInv, HeadersInv
  <2>2. /\ TypeOK /\ mem.second.at = mem.main.alt /\ mem.main.alt = size
        /\ size \in Sizes /\ 0 \in Loc /\ 0 \notin Sizes
        /\ Sizes \subseteq Loc /\ Loc \subseteq Nat /\ TableSectors \in Nat \ {0}
        /\ mem.parts \in Content /\ mem.second \in Header
        /\ s \in Nat /\ size \in Nat
    BY <2>1, Targets, Constants
    DEF SaveInv, HeadersInv, KeepsOld, SavePhases, TypeOK
  <2>3. CASE WriteBackupTable
    <3>1. /\ pc' = "bh" /\ hdr'[0] = hdr[0] /\ tab'[0] = tab[0]
          /\ s # size /\ hdr'[s].ok => hdr'[s] = hdr[s] /\ tab'[s] = tab[s]
      <4>1. PutTable(size, mem.parts) /\ pc' = "bh"
        BY <2>2, <2>3 DEF WriteBackupTable
      <4>2. /\ \A k \in Loc : k # size /\ k \notin Meets(size) => tab'[k] = tab[k]
            /\ \A k \in Loc : k \notin Under(size) => hdr'[k] = hdr[k]
            /\ \A k \in Under(size) : hdr'[k] = BadHeader
        BY <2>2, <4>1, TableStored
      <4>3. s # size /\ s \in Meets(size) => s \in Under(size)
        <5>1. /\ s \in Under(size) <=> s < size /\ size <= s + TableSectors
              /\ s \in Meets(size) <=> s # size /\ s < size + TableSectors
                                        /\ size < s + TableSectors
          BY <2>2, Geometry
        <5> QED
          BY <2>a, <2>2, <5>1
      <4>4. 0 \notin Meets(size) /\ 0 \notin Under(size)
        BY <2>2, Geometry
      <4> QED
        BY <2>2, <4>1, <4>2, <4>3, <4>4 DEF BadHeader
    <3> QED
      BY <2>a, <2>1, <2>2, <2>3, <3>1
      DEF SaveInv, KeepsOld, Consistent, ConsistentIn, SecondLoc, WriteBackupTable
  <2>4. CASE WriteBackupHeader
    <3>1. /\ pc' = "mt" /\ hdr'[0] = hdr[0] /\ tab'[0] = tab[0]
          /\ s # size => hdr'[s] = hdr[s] /\ tab'[s] = tab[s]
      <4>1. PutHeader(size, mem.second) /\ pc' = "mt"
        BY <2>2, <2>4 DEF WriteBackupHeader
      <4>2. /\ \A k \in Loc : k # size => hdr'[k] = hdr[k]
            /\ \A k \in Loc : k \notin Over(size) => tab'[k] = tab[k]
        BY <2>2, <4>1, HeaderStored
      <4>3. 0 \notin Over(size) /\ s \notin Over(size)
        <5>1. /\ Over(size) \subseteq Sizes
              /\ s \in Over(size) => size < s
          BY <2>2, Geometry
        <5> QED
          BY <2>a, <2>2, <5>1
      <4> QED
        BY <2>2, <4>1, <4>2, <4>3
    <3> QED
      BY <2>a, <2>1, <2>2, <2>4, <3>1
      DEF SaveInv, KeepsOld, Consistent, ConsistentIn, SecondLoc, WriteBackupHeader
  <2>5. CASE WriteMainTable
    <3>1. hdr' = hdr /\ pc' = "mh" /\ tab'[s] = tab[s]
      BY <2>2, <2>5, MainStored DEF WriteMainTable
    <3> QED
      BY <2>a, <2>1, <2>2, <2>5, <3>1
      DEF SaveInv, KeepsOld, Consistent, ConsistentIn, SecondLoc, WriteMainTable
  <2>6. CASE WriteMainHeader
    BY <2>6 DEF WriteMainHeader, KeepsOld
  <2> QED
    BY <1>4, <2>3, <2>4, <2>5, <2>6
<1>5. CASE WriteMBR \/ FailWrite \/ Kill
  <2> SUFFICES ASSUME begun.old # {} PROVE KeepsOld'
    BY <1>1, <1>5 DEF WriteMBR, FailWrite, Kill, history
  <2>1. /\ pc \in SavePhases /\ begun' = begun /\ mem' = mem
        /\ pc' \in {"sync", "idle", "loaded"}
    BY <1>5
    DEF WriteMBR, FailWrite, Kill, history, SavePhases, DestroyPhases, AfterOperation,
        NothingPromised
  <2>2. Recoverable' \in {Recoverable, {mem.parts}}
    BY <1>5, <2>1, SaveStepKeeps
  <2>3. Recoverable \in {begun.old, {mem.parts}}
    BY <2>1, OneCopy
  <2> QED
    BY <2>1, <2>2, <2>3 DEF KeepsOld
<1>6. CASE LoadPartitions \/ Quit \/ Zap \/ ConvertToMBR \/ FinishSave \/ ResizeDisk \/ Damage
  BY <1>1, <1>6
  DEF LoadPartitions, Quit, Zap, ConvertToMBR, FinishSave, ResizeDisk, Damage, NotBegun
<1>7. CASE \/ Edit \/ MoveSecondHeaderToEnd \/ NewTable \/ Recover \/ LoadMBR
           \/ SetProtectiveMBR \/ BlankMainHeader \/ BlankMainTable \/ BlankBackupTable
           \/ BlankBackupHeader
  BY <1>2, <1>7
  DEF Edit, MoveSecondHeaderToEnd, NewTable, Recover, LoadMBR,
      SetProtectiveMBR, BlankMainHeader,
      BlankMainTable, BlankBackupTable, BlankBackupHeader, SavePhases
<1>8. CASE FinishDestroy \/ WriteMBROnly
  BY <1>1, <1>8
  DEF FinishDestroy, WriteMBROnly, NothingPromised, DestroyPhases
<1>9. CASE UNCHANGED vars
  BY <1>9 DEF vars, SaveInv, KeepsOld, Recoverable, Consistent, ConsistentIn, SecondLoc
<1> QED
  BY <1>3, <1>4, <1>5, <1>6, <1>7, <1>8, <1>9 DEF Next, Command, Write, Fault

LEMMA SaveInvariant ==
  ASSUME ~ShortWrites
  PROVE  Spec => [](SaveInv /\ NothingPromised)
<1>1. Init => SaveInv /\ NothingPromised
  BY HeadersInit
  DEF Init, SaveInv, Written, KeepsOld, NothingPromised, NotBegun, SavePhases, DestroyPhases
<1>2. SaveInv /\ NothingPromised /\ [Next]_vars => (SaveInv /\ NothingPromised)'
  BY HeadersStep, WrittenStep, KeepsOldStep, NothingPromisedStep DEF SaveInv
<1> QED
  BY <1>1, <1>2, PTL DEF Spec

\* SaveGPTData() writes the backup first: from a sound disk, one copy is
\* good at every moment, the old partitions or the new, whatever stops it.
THEOREM OneCopyStaysGood ==
  ASSUME ~ShortWrites
  PROVE  Spec => []OneCopyAlwaysGood
<1>1. SaveInv => OneCopyAlwaysGood
  BY OneCopy DEF OneCopyAlwaysGood
<1> QED
  BY <1>1, SaveInvariant, PTL

-----------------------------------------------------------------------------
(* A save is an atomic update.                                             *)

LEMMA RecoverableType ==
  ASSUME TypeOK
  PROVE  Recoverable \in Abstract!Some \cup {{}}
  BY SecondLocType, Constants DEF TypeOK, Recoverable, Abstract!Some

\* The steps of a program that is saving.
LEMMA SavingSteps ==
  ASSUME [Next]_vars, pc \in SavePhases
  PROVE  \/ /\ \/ WriteBackupTable \/ WriteBackupHeader \/ WriteMainTable
               \/ WriteMainHeader \/ WriteMBR \/ FinishSave \/ FailWrite \/ Kill
            /\ mem' = mem /\ begun' \in {begun, NotBegun}
         \/ UNCHANGED vars
<1>1. \/ WriteBackupTable \/ WriteBackupHeader \/ WriteMainTable
      \/ WriteMainHeader \/ WriteMBR \/ FinishSave \/ FailWrite \/ Kill
      \/ UNCHANGED vars
  BY DEF Next, Command, Write, Fault, SavePhases, LoadPartitions, Edit,
    MoveSecondHeaderToEnd, NewTable, Recover, LoadMBR,
        SetProtectiveMBR, Quit, SaveGPTData, Zap,
    ConvertToMBR, BlankMainHeader, BlankMainTable, BlankBackupTable,
    BlankBackupHeader, FinishDestroy, WriteMBROnly, ResizeDisk, Damage
<1> QED
  BY <1>1
  DEF WriteBackupTable, WriteBackupHeader, WriteMainTable, WriteMainHeader, WriteMBR,
      FinishSave, FailWrite, Kill, history

LEMMA AtomicStep ==
  ASSUME ~ShortWrites, SaveInv, NothingPromised, [Next]_vars
  PROVE  [Abstract!Next]_<<Recoverable, wanted>>
<1>0. TypeOK /\ TypeOK'
  BY TypeStep DEF SaveInv, HeadersInv
<1>1. CASE wanted = {} /\ wanted' = {}
  <2>1. Recoverable' \in Abstract!Some \cup {{}}
    <3>1. hdr' \in [Loc -> Header] /\ tab' \in [Loc -> Content] /\ size' \in Sizes
      BY <1>0 DEF TypeOK
    <3>2. 0 \in Loc /\ size' \in Loc /\ SecondLoc(hdr', size') \in Loc
      BY <3>1, Constants DEF SecondLoc, Header, Loc
    <3>3. /\ tab'[0] \in Content /\ tab'[size'] \in Content
          /\ tab'[SecondLoc(hdr', size')] \in Content
      BY <3>1, <3>2
    <3> QED
      BY <3>3 DEF Recoverable, Abstract!Some
  <2> QED
    BY <1>1, <2>1 DEF Abstract!Next, Abstract!Outside
<1>2. CASE wanted = {} /\ wanted' # {}
  <2>1. pc' \in SavePhases /\ begun'.old # {} /\ wanted' = {mem'.parts}
    BY <1>2 DEF wanted
  <2>2. pc \notin SavePhases
    <3> SUFFICES ASSUME pc \in SavePhases PROVE FALSE
      OBVIOUS
    <3>1. begun.old = {}
      BY <1>2 DEF wanted
    <3> QED
      BY <2>1, <3>1, SavingSteps DEF NotBegun, vars
  <2>3. SaveGPTData /\ pc' = "bt"
    BY <2>1, <2>2, AfterDestroyType
    DEF Next, Command, Write, Fault, SavePhases, LoadPartitions, Edit,
      MoveSecondHeaderToEnd, NewTable, Recover, LoadMBR,
        SetProtectiveMBR, Quit, SaveGPTData, Zap,
      ConvertToMBR, WriteBackupTable, WriteBackupHeader, WriteMainTable,
      WriteMainHeader, WriteMBR, FinishSave, BlankMainHeader, BlankMainTable,
      BlankBackupTable, BlankBackupHeader, FinishDestroy, WriteMBROnly, FailWrite,
      Kill, ResizeDisk, Damage, DestroyGPT, AfterOperation, vars
  <2>4. hdr' = hdr /\ tab' = tab /\ size' = size /\ begun'.old = SoundStart(mem'.main.alt)
    BY <2>3 DEF SaveGPTData, disk, AfterOperation
  <2>5. Recoverable = {tab[0]} /\ Recoverable' = Recoverable
    BY <2>1, <2>4 DEF SoundStart, Recoverable, Consistent, ConsistentIn, SecondLoc
  <2>6. mem'.parts \in Content
    BY <1>0 DEF TypeOK, Memory
  <2> QED
    BY <1>2, <2>1, <2>5, <2>6 DEF Abstract!Next, Abstract!Begin, Abstract!Some
<1>3. CASE wanted # {}
  <2>1. pc \in SavePhases /\ begun.old # {} /\ wanted = {mem.parts}
    BY <1>3 DEF wanted
  <2>2. CASE UNCHANGED vars
    BY <2>2 DEF vars, wanted, Recoverable, Consistent, ConsistentIn, SecondLoc
  <2>3. CASE ~UNCHANGED vars
    <3>1. /\ \/ WriteBackupTable \/ WriteBackupHeader \/ WriteMainTable
             \/ WriteMainHeader \/ WriteMBR \/ FinishSave \/ FailWrite \/ Kill
          /\ mem' = mem /\ begun' \in {begun, NotBegun}
      BY <2>1, <2>3, SavingSteps
    <3>2. Recoverable' \in {Recoverable, wanted}
      BY <2>1, <3>1, SaveStepKeeps
    <3>3. wanted' \in {wanted, {}}
      BY <2>1, <3>1 DEF wanted, NotBegun
    <3> QED
      BY <1>3, <3>2, <3>3 DEF Abstract!Next, Abstract!Commit, Abstract!End
  <2> QED
    BY <2>2, <2>3
<1> QED
  BY <1>1, <1>2, <1>3

\* A save replaces the recoverable table in one step: GptStore implements
\* AtomicUpdate, whatever write fails and wherever the program is killed.
THEOREM SaveImplementsAtomicUpdate ==
  ASSUME ~ShortWrites
  PROVE  Spec => SaveIsAnAtomicUpdate
<1>1. Init => Abstract!Init
  BY TypeInit, RecoverableType DEF Init, Abstract!Init, wanted, SavePhases
<1>2. SaveInv /\ NothingPromised /\ [Next]_vars => [Abstract!Next]_<<Recoverable, wanted>>
  BY AtomicStep
<1> QED
  BY <1>1, <1>2, SaveInvariant, PTL DEF Spec, SaveIsAnAtomicUpdate, Abstract!Spec

-----------------------------------------------------------------------------
(* A reported success.                                                     *)

\* No success is on record while the disk is being written.
Busy == pc \in SavePhases \cup DestroyPhases \cup {"mo"} => report = NoReport

\* After a reported save the main copy is what was saved, and so is the
\* backup, until a smaller disk loses it.
Durable ==
  report.kind \in {"saved", "shrunk"} =>
    /\ Consistent(0)
    /\ tab[0] = report.table
    /\ report.kind = "saved" => hdr[0].alt <= size /\ AgreesWithMain(hdr[0].alt)

\* A disk like that loads as the property says.
LEMMA DurableLoads ==
  ASSUME HeadersInv, Durable
  PROVE  SuccessIsDurable
<1> SUFFICES ASSUME report.kind \in {"saved", "shrunk"}
             PROVE  /\ Loaded.parts = report.table
                    /\ Loaded.state \in {"gpt_valid", "gpt_corrupt"}
                    /\ report.kind = "saved" => Loaded.state = "gpt_valid"
  BY DEF SuccessIsDurable
<1> DEFINE alt == SecondLoc(hdr, size)
<1>1. hdr[0].ok /\ tab[0] = hdr[0].crc /\ tab[0] = report.table
  BY DEF Durable, Consistent, ConsistentIn
<1>2. Loaded.parts = tab[0] /\ Loaded.state \in {"gpt_valid", "gpt_corrupt"}
  BY <1>1 DEF Loaded, ForceLoadGPTData
<1>3. ASSUME report.kind = "saved" PROVE Loaded.state = "gpt_valid"
  <2>1. /\ hdr[0].alt <= size /\ alt = hdr[0].alt
        /\ hdr[alt].ok /\ tab[alt] = hdr[alt].crc /\ hdr[alt].crc = hdr[0].crc
    BY <1>1, <1>3 DEF Durable, SecondLoc, AgreesWithMain, Consistent, ConsistentIn
  <2>2. hdr[alt].at = alt
    BY <2>1, SecondLocType DEF HeadersInv, OnDisk
  <2> QED
    BY <1>1, <2>1, <2>2 DEF Loaded, ForceLoadGPTData
<1> QED
  BY <1>1, <1>2, <1>3

LEMMA BusyStep == Busy /\ [Next]_vars => Busy'
<1> SUFFICES ASSUME Busy, [Next]_vars, pc' \in SavePhases \cup DestroyPhases \cup {"mo"}
             PROVE  report' = NoReport
  BY DEF Busy
<1> USE DEF Busy, SavePhases, DestroyPhases
<1>1. CASE \/ LoadPartitions \/ Edit \/ MoveSecondHeaderToEnd \/ NewTable
           \/ Recover \/ LoadMBR \/ SetProtectiveMBR \/ Quit \/ FinishSave
           \/ Kill \/ ResizeDisk \/ Damage
  BY <1>1
  DEF LoadPartitions, Edit, MoveSecondHeaderToEnd, NewTable, Recover, LoadMBR,
      SetProtectiveMBR, Quit, FinishSave, Kill, ResizeDisk, Damage, AfterOperation
<1>2. CASE SaveGPTData \/ Zap \/ ConvertToMBR
  BY <1>2 DEF SaveGPTData, Zap, ConvertToMBR, AfterOperation
<1>3. CASE \/ WriteBackupTable \/ WriteBackupHeader \/ WriteMainTable \/ WriteMainHeader
           \/ WriteMBR \/ BlankMainHeader \/ BlankMainTable \/ BlankBackupTable
           \/ BlankBackupHeader
  BY <1>3
  DEF WriteBackupTable, WriteBackupHeader, WriteMainTable, WriteMainHeader, WriteMBR,
      BlankMainHeader, BlankMainTable, BlankBackupTable, BlankBackupHeader, history
<1>4. CASE FinishDestroy \/ WriteMBROnly \/ FailWrite
  BY <1>4, AfterDestroyType
  DEF FinishDestroy, WriteMBROnly, FailWrite, Interrupted, AfterOperation
<1>5. CASE UNCHANGED vars
  BY <1>5 DEF vars
<1> QED
  BY <1>1, <1>2, <1>3, <1>4, <1>5 DEF Next, Command, Write, Fault

LEMMA DurableStep ==
  ASSUME HeadersInv, Written, Busy, Durable, [Next]_vars
  PROVE  Durable'
<1>1. ASSUME report' = NoReport \/ report'.kind \in {"gone", "converted"} PROVE Durable'
  BY <1>1 DEF Durable, NoReport
<1>2. ASSUME hdr' = hdr, tab' = tab, size' = size, report' = report PROVE Durable'
  BY <1>2 DEF Durable, Consistent, ConsistentIn, AgreesWithMain
<1>3. CASE \/ LoadPartitions \/ Edit \/ MoveSecondHeaderToEnd \/ NewTable
           \/ Recover \/ LoadMBR \/ SetProtectiveMBR \/ Quit \/ SaveGPTData
  BY <1>1, <1>2, <1>3
  DEF LoadPartitions, Edit, MoveSecondHeaderToEnd, NewTable, Recover, LoadMBR,
      SetProtectiveMBR, Quit, SaveGPTData, disk, history
<1>4. CASE Zap \/ ConvertToMBR \/ Damage
  BY <1>1, <1>4 DEF Zap, ConvertToMBR, Damage
<1>5. CASE \/ WriteBackupTable \/ WriteBackupHeader \/ WriteMainTable \/ WriteMainHeader
           \/ WriteMBR \/ BlankMainHeader \/ BlankMainTable \/ BlankBackupTable
           \/ BlankBackupHeader \/ Kill
  <2>1. report' = report /\ pc \in SavePhases \cup DestroyPhases \cup {"mo"}
    BY <1>5
    DEF WriteBackupTable, WriteBackupHeader, WriteMainTable, WriteMainHeader, WriteMBR,
        BlankMainHeader, BlankMainTable, BlankBackupTable, BlankBackupHeader, Kill,
        history, SavePhases, DestroyPhases
  <2> QED
    BY <1>1, <2>1 DEF Busy
<1>6. CASE FinishDestroy \/ WriteMBROnly \/ FailWrite
  <2>1. report = NoReport
    BY <1>6
    DEF Busy, FinishDestroy, WriteMBROnly, FailWrite, Interrupted, SavePhases, DestroyPhases
  <2>2. \/ report' = NoReport
        \/ \E k \in {"gone", "converted"} : report' = [kind |-> k, table |-> Blank]
    BY <1>6, <2>1 DEF FinishDestroy, WriteMBROnly, FailWrite
  <2> QED
    BY <1>1, <2>2
<1>7. CASE FinishSave
  <2>1. pc = "sync" /\ hdr' = hdr /\ tab' = tab /\ size' = size
    BY <1>7 DEF FinishSave, disk
  <2>2. CASE allOK
    <3>1. report' = [kind |-> "saved", table |-> mem.parts]
      BY <1>7, <2>2 DEF FinishSave
    <3>2. /\ tab[mem.main.alt] = mem.parts /\ hdr[mem.main.alt] = mem.second
          /\ tab[0] = mem.parts /\ hdr[0] = mem.main
      BY <2>1, <2>2 DEF Written, SavePhases
    <3> QED
      BY <2>1, <3>1, <3>2, Targets
      DEF Durable, SavePhases, Consistent, ConsistentIn, AgreesWithMain
  <2>3. CASE ~allOK
    BY <1>1, <1>7, <2>3 DEF FinishSave
  <2> QED
    BY <2>2, <2>3
<1>8. CASE ResizeDisk
  <2>1. size' \in Sizes
    BY <1>8 DEF ResizeDisk
  <2>2. /\ hdr' = [l \in Loc |-> IF l <= size' THEN hdr[l] ELSE BadHeader]
        /\ \A l \in Loc : l <= size' => tab'[l] = tab[l]
    BY <1>8 DEF ResizeDisk
  <2>3. /\ hdr'[0] = hdr[0] /\ tab'[0] = tab[0]
        /\ hdr[0].alt \in Loc /\ size' \in Nat
        /\ hdr[0].alt <= size' => /\ hdr'[hdr[0].alt] = hdr[hdr[0].alt]
                                  /\ tab'[hdr[0].alt] = tab[hdr[0].alt]
    <3>1. PICK a \in Loc : a = hdr[0].alt
      BY SecondLocType, Constants DEF HeadersInv, Header
    <3>2. PICK n \in Nat : n = size'
      BY <2>1, Constants
    <3>3. 0 \in Loc /\ 0 <= n
      BY <3>2, Constants
    <3> QED
      BY <2>2, <3>1, <3>2, <3>3
  <2>4. /\ report'.kind \in {"saved", "shrunk"} =>
             report.kind \in {"saved", "shrunk"} /\ report'.table = report.table
        /\ report'.kind = "saved" => report.kind = "saved" /\ ~(size' < hdr[0].alt)
    BY <1>8 DEF ResizeDisk, NoReport, HeadersInv, TypeOK
  <2>5. report'.kind = "saved" => hdr[0].alt <= size'
    <3>1. \A a, n \in Nat : ~(n < a) => a <= n
      OBVIOUS
    <3> QED
      BY <2>3, <2>4, <3>1, Constants
  <2> QED
    BY <2>3, <2>4, <2>5 DEF Durable, Consistent, ConsistentIn, AgreesWithMain
<1>9. CASE UNCHANGED vars
  BY <1>2, <1>9 DEF vars
<1> QED
  BY <1>3, <1>4, <1>5, <1>6, <1>7, <1>8, <1>9 DEF Next, Command, Write, Fault

\* "The operation has completed successfully" is true: whatever happens to
\* the disk's size, the next load finds what was saved.
THEOREM ReportedSaveIsDurable ==
  ASSUME ~ShortWrites
  PROVE  Spec => []SuccessIsDurable
<1>1. Init => HeadersInv /\ Written /\ Busy /\ Durable
  BY HeadersInit DEF Init, Written, Busy, Durable, NoReport, SavePhases, DestroyPhases
<1>2. HeadersInv /\ Written /\ Busy /\ Durable /\ [Next]_vars
        => (HeadersInv /\ Written /\ Busy /\ Durable)'
  BY HeadersStep, WrittenStep, BusyStep, DurableStep
<1>3. HeadersInv /\ Durable => SuccessIsDurable
  BY DurableLoads
<1> QED
  BY <1>1, <1>2, <1>3, PTL DEF Spec

-----------------------------------------------------------------------------
(* One fault.                                                              *)

\* Two healthy copies survive the loss of any one header or table.
THEOREM OneFaultIsSurvived == Spec => []SurvivesOneFault
<1>1. HeadersInv => SurvivesOneFault
  <2> SUFFICES ASSUME HeadersInv, Healthy, NEW l \in {0, hdr[0].alt}
               PROVE  /\ \A x \in Content \ {tab[0]} :
                           LET found == ForceLoadGPTData(hdr, [tab EXCEPT ![l] = x], size)
                           IN  found.parts = tab[0] /\ found.state = "gpt_corrupt"
                      /\ (l = 0 => hdr[0].alt = size) =>
                           LET found == ForceLoadGPTData(DamagedHeader(l), tab, size)
                           IN  found.parts = tab[0] /\ found.state = "gpt_corrupt"
    BY DEF SurvivesOneFault
  <2> DEFINE alt == hdr[0].alt
  <2>1. /\ hdr[0].ok /\ tab[0] = hdr[0].crc /\ alt <= size
        /\ hdr[alt].ok /\ hdr[alt].crc = tab[0] /\ tab[alt] = tab[0]
    BY DEF Healthy, AgreesWithMain, Consistent, ConsistentIn
  <2>2. alt \in Loc /\ alt # 0 /\ hdr[alt].at = alt
    BY <2>1, SecondLocType, Constants DEF HeadersInv, OnDisk, Header
  <2>3. 0 \in Loc /\ hdr \in [Loc -> Header] /\ tab \in [Loc -> Content]
    BY Constants DEF HeadersInv, TypeOK
  <2>4. SecondLoc(hdr, size) = alt
    BY <2>1 DEF SecondLoc
  <2>5. ASSUME NEW x \in Content \ {tab[0]}
        PROVE  LET found == ForceLoadGPTData(hdr, [tab EXCEPT ![l] = x], size)
               IN  found.parts = tab[0] /\ found.state = "gpt_corrupt"
    <3> DEFINE t == [tab EXCEPT ![l] = x]
    <3>1. t[0] = (IF l = 0 THEN x ELSE tab[0]) /\ t[alt] = (IF l = 0 THEN tab[0] ELSE x)
      BY <2>1, <2>2, <2>3
    <3> HIDE DEF t
    <3>2. LET found == ForceLoadGPTData(hdr, t, size)
          IN  found.parts = tab[0] /\ found.state = "gpt_corrupt"
      BY <2>1, <2>2, <2>4, <3>1 DEF ForceLoadGPTData
    <3> QED
      BY <3>2 DEF t
  <2>6. ASSUME l = 0 => alt = size
        PROVE  LET found == ForceLoadGPTData(DamagedHeader(l), tab, size)
               IN  found.parts = tab[0] /\ found.state = "gpt_corrupt"
    <3> DEFINE h == DamagedHeader(l)
    <3>1. CASE l = 0
      <4>1. ~h[0].ok /\ h[alt] = hdr[alt] /\ alt = size
        BY <2>2, <2>3, <2>6, <3>1 DEF DamagedHeader, BadHeader
      <4> HIDE DEF h
      <4>2. SecondLoc(h, size) = alt
        BY <4>1 DEF SecondLoc
      <4>3. LET found == ForceLoadGPTData(h, tab, size)
            IN  found.parts = tab[0] /\ found.state = "gpt_corrupt"
        BY <2>1, <2>2, <4>1, <4>2 DEF ForceLoadGPTData
      <4> QED
        BY <4>3 DEF h
    <3>2. CASE l # 0
      <4>1. h[0] = hdr[0] /\ ~h[alt].ok
        BY <2>2, <2>3, <3>2 DEF DamagedHeader, BadHeader
      <4> HIDE DEF h
      <4>2. SecondLoc(h, size) = alt
        BY <2>1, <4>1 DEF SecondLoc
      <4>3. LET found == ForceLoadGPTData(h, tab, size)
            IN  found.parts = tab[0] /\ found.state = "gpt_corrupt"
        BY <2>1, <2>2, <4>1, <4>2 DEF ForceLoadGPTData, RebuiltSecond, GoodHeader
      <4> QED
        BY <4>3 DEF h
    <3> QED
      BY <3>1, <3>2
  <2> QED
    BY <2>5, <2>6
<1> QED
  BY <1>1, HeadersInit, HeadersStep, PTL DEF Spec

-----------------------------------------------------------------------------
(* Conversion and destruction.                                             *)

\* A conversion carries the MBR to write through the destruction; sgdisk has
\* written it when the destruction begins.
Converting ==
  job = "toMbr" =>
    /\ pc \in DestroyPhases \cup {"mo"}
    /\ mem.mbr = "mbr"
    /\ ~Interactive /\ pc \in DestroyPhases => mbr = "mbr"

LEMMA ConvertingStep ==
  ASSUME TypeOK, Converting, [Next]_vars
  PROVE  Converting'
<1> USE DEF Converting
<1>1. CASE job' # "toMbr"
  BY <1>1
<1>2. CASE job' = job /\ mem' = mem /\ mbr' = mbr /\ pc' = pc
  BY <1>2
<1>3. CASE \/ LoadPartitions \/ Edit \/ MoveSecondHeaderToEnd \/ NewTable
           \/ Recover \/ LoadMBR \/ SetProtectiveMBR \/ Quit \/ SaveGPTData
  BY <1>1, <1>3
  DEF LoadPartitions, Edit, MoveSecondHeaderToEnd, NewTable, Recover, LoadMBR,
      SetProtectiveMBR, Quit, SaveGPTData, DestroyPhases
<1>4. CASE Zap
  BY <1>1, <1>4 DEF Zap, DestroyGPT
<1>5. CASE ConvertToMBR
  BY <1>5
  DEF ConvertToMBR, DestroyGPT, ClearGPTData, DestroyPhases, TypeOK, Memory, disk
<1>6. CASE \/ WriteBackupTable \/ WriteBackupHeader \/ WriteMainTable
           \/ WriteMainHeader \/ WriteMBR \/ FinishSave
  BY <1>6
  DEF WriteBackupTable, WriteBackupHeader, WriteMainTable, WriteMainHeader, WriteMBR,
      FinishSave, DestroyPhases
<1>7. CASE BlankMainHeader \/ BlankMainTable \/ BlankBackupTable \/ BlankBackupHeader
  BY <1>7
  DEF BlankMainHeader, BlankMainTable, BlankBackupTable, BlankBackupHeader, DestroyPhases
<1>8. CASE FinishDestroy
  BY <1>1, <1>8 DEF FinishDestroy, disk, MbrFollows, BlanksMBR, DestroyPhases
<1>9. CASE WriteMBROnly
  BY <1>1, <1>9 DEF WriteMBROnly, DestroyGPT, ClearGPTData, DestroyPhases
<1>10. CASE FailWrite
  BY <1>1, <1>10 DEF FailWrite, Interrupted, DestroyPhases
<1>11. CASE Kill \/ ResizeDisk \/ Damage
  BY <1>1, <1>2, <1>11 DEF Kill, ResizeDisk, Damage
<1>12. CASE UNCHANGED vars
  BY <1>2, <1>12 DEF vars
<1> QED
  BY <1>3, <1>4, <1>5, <1>6, <1>7, <1>8, <1>9, <1>10, <1>11, <1>12
  DEF Next, Command, Write, Fault

\* sgdisk -m: no sector of the GPT is blanked before the MBR holds the
\* partitions.
THEOREM MbrComesBeforeBlanking ==
  ASSUME ~Interactive
  PROVE  Spec => MbrBeforeGptIsGone
<1>1. Init => Converting
  BY DEF Init, Converting
<1>2. TypeOK /\ Converting /\ [Next]_vars
        => [job = "toMbr" /\ <<hdr, tab>>' # <<hdr, tab>> => mbr = "mbr"]_vars
  <2> SUFFICES ASSUME Converting, [Next]_vars, job = "toMbr", <<hdr, tab>>' # <<hdr, tab>>
               PROVE  mbr = "mbr"
    OBVIOUS
  <2>1. pc # "mo"
    <3> SUFFICES ASSUME pc = "mo" PROVE hdr' = hdr /\ tab' = tab
      OBVIOUS
    <3>1. \/ WriteMBROnly \/ FailWrite \/ Kill \/ UNCHANGED vars
      BY DEF Next, Command, Write, Fault, LoadPartitions, Edit,
        MoveSecondHeaderToEnd, NewTable, Recover, LoadMBR, SetProtectiveMBR, Quit,
        SaveGPTData, Zap, ConvertToMBR, WriteBackupTable, WriteBackupHeader,
        WriteMainTable, WriteMainHeader, WriteMBR, FinishSave, BlankMainHeader,
        BlankMainTable, BlankBackupTable, BlankBackupHeader, FinishDestroy,
        ResizeDisk, Damage
    <3> QED
      BY <3>1 DEF WriteMBROnly, FailWrite, Kill, Interrupted, disk, vars
  <2> QED
    BY <2>1 DEF Converting
<1> QED
  BY <1>1, <1>2, TypeInit, TypeStep, ConvertingStep, PTL DEF Spec, MbrBeforeGptIsGone

\* No header that a load looks at is good.
Gone == ~hdr[0].ok /\ ~hdr[size].ok

\* What a destruction has blanked at each of its steps, as long as no write
\* failed; and what is left when it was reported.
Blanked ==
  /\ pc \in DestroyPhases => mem.second.at = size
  /\ allOK /\ pc \in {"dmt", "dbt", "dbh"} => ~hdr[0].ok
  /\ allOK /\ pc = "dsync" => Gone
  /\ allOK /\ pc = "mo" /\ (Interactive \/ BlanksMBR) => Gone

Reported ==
  report.kind \in {"gone", "converted"} =>
    /\ Gone
    /\ report.kind = "converted" => mbr = "mbr"

\* A destruction starts by laying out an empty table on the whole disk; it
\* reaches its end without a write only if the disk could not be opened.
LEMMA DestroyBegins ==
  ASSUME ~OpenMayFail, NEW j, NEW k, DestroyGPT(j, k), size' = size
  PROVE  pc' = "dmh" /\ mem'.second.at = size
  BY DEF DestroyGPT, ClearGPTData, GoodHeader

LEMMA BlankedStep ==
  ASSUME ~OpenMayFail, TypeOK, Blanked, [Next]_vars
  PROVE  Blanked'
<1> USE DEF Blanked
<1>1. CASE pc' \notin DestroyPhases \cup {"mo"}
  BY <1>1 DEF DestroyPhases
<1>2. CASE \/ LoadPartitions \/ Edit \/ MoveSecondHeaderToEnd \/ NewTable
           \/ Recover \/ LoadMBR \/ SetProtectiveMBR \/ Quit \/ SaveGPTData
           \/ WriteBackupTable \/ WriteBackupHeader \/ WriteMainTable
           \/ WriteMainHeader \/ WriteMBR \/ FinishSave \/ Kill \/ ResizeDisk \/ Damage
  <2>1. pc' \notin DestroyPhases \cup {"mo"}
    BY <1>2
    DEF LoadPartitions, Edit, MoveSecondHeaderToEnd, NewTable, Recover, LoadMBR,
        SetProtectiveMBR, Quit, SaveGPTData, WriteBackupTable, WriteBackupHeader,
        WriteMainTable, WriteMainHeader, WriteMBR, FinishSave, Kill, ResizeDisk,
        Damage, AfterOperation, DestroyPhases
  <2> QED
    BY <1>1, <2>1
<1>3. CASE Zap
  BY <1>3, DestroyBegins DEF Zap, DestroyPhases
<1>4. CASE ConvertToMBR
  BY <1>1, <1>4, DestroyBegins DEF ConvertToMBR, BlanksMBR, DestroyPhases
<1>5. CASE BlankMainHeader \/ BlankMainTable \/ BlankBackupTable \/ BlankBackupHeader
  <2>1. /\ 0 \in Loc /\ size \in Loc /\ size # 0
        /\ Blank \in Content /\ BadHeader \in Header /\ ~BadHeader.ok
    BY Constants, HeaderTypes DEF TypeOK, BadHeader
  <2>2. /\ mem' = mem /\ size' = size /\ allOK' = allOK /\ pc \in DestroyPhases
        /\ mem.second.at = size
    BY <1>5
    DEF BlankMainHeader, BlankMainTable, BlankBackupTable, BlankBackupHeader, DestroyPhases
  <2>3. CASE BlankMainHeader
    <3>1. ~hdr'[0].ok
      BY <2>1, <2>3, HeaderStored DEF BlankMainHeader
    <3> QED
      BY <2>2, <2>3, <3>1 DEF BlankMainHeader
  <2>4. CASE BlankMainTable \/ BlankBackupTable
    <3>1. hdr'[0] \in {hdr[0], BadHeader}
      BY <2>1, <2>2, <2>4, TableStored DEF BlankMainTable, BlankBackupTable
    <3> QED
      BY <2>1, <2>2, <2>4, <3>1 DEF BlankMainTable, BlankBackupTable
  <2>5. CASE BlankBackupHeader
    <3>1. ~hdr'[size].ok /\ hdr'[0] = hdr[0]
      BY <2>1, <2>2, <2>5, HeaderStored DEF BlankBackupHeader
    <3> QED
      BY <2>2, <2>5, <3>1 DEF BlankBackupHeader, Gone
  <2> QED
    BY <1>5, <2>3, <2>4, <2>5
<1>6. CASE FinishDestroy
  BY <1>1, <1>6, AfterDestroyType DEF FinishDestroy, disk, Gone, DestroyPhases
<1>7. CASE WriteMBROnly
  BY <1>1, <1>7, DestroyBegins, AfterDestroyType DEF WriteMBROnly, DestroyPhases
<1>8. CASE FailWrite
  <2>1. ~allOK' /\ mem' = mem /\ size' = size
    BY <1>8 DEF FailWrite, Interrupted
  <2>2. pc' \in DestroyPhases => pc \in DestroyPhases
    BY <1>8, AfterDestroyType DEF FailWrite, AfterOperation, DestroyPhases
  <2> QED
    BY <2>1, <2>2
<1>9. CASE UNCHANGED vars
  BY <1>9 DEF vars, Gone, BlanksMBR
<1> QED
  BY <1>2, <1>3, <1>4, <1>5, <1>6, <1>7, <1>8, <1>9 DEF Next, Command, Write, Fault

LEMMA ReportedStep ==
  ASSUME ~OpenMayFail, TypeOK, Converting, Blanked, Busy, Reported, [Next]_vars
  PROVE  Reported'
<1> USE DEF Reported
<1>1. CASE report' = NoReport \/ report'.kind \in {"saved", "shrunk"}
  BY <1>1 DEF NoReport
<1>2. CASE hdr' = hdr /\ size' = size /\ mbr' = mbr /\ report' = report
  BY <1>2 DEF Gone
<1>3. CASE \/ LoadPartitions \/ Edit \/ MoveSecondHeaderToEnd \/ NewTable
           \/ Recover \/ LoadMBR \/ SetProtectiveMBR \/ Quit \/ SaveGPTData
           \/ Zap \/ ConvertToMBR \/ Damage
  BY <1>1, <1>2, <1>3
  DEF LoadPartitions, Edit, MoveSecondHeaderToEnd, NewTable, Recover, LoadMBR,
      SetProtectiveMBR, Quit, SaveGPTData, Zap, ConvertToMBR, Damage, disk, history
<1>4. CASE \/ WriteBackupTable \/ WriteBackupHeader \/ WriteMainTable
           \/ WriteMainHeader \/ WriteMBR \/ BlankMainHeader \/ BlankMainTable
           \/ BlankBackupTable \/ BlankBackupHeader \/ Kill
  <2>1. report' = report /\ pc \in SavePhases \cup DestroyPhases \cup {"mo"}
    BY <1>4
    DEF WriteBackupTable, WriteBackupHeader, WriteMainTable, WriteMainHeader, WriteMBR,
        BlankMainHeader, BlankMainTable, BlankBackupTable, BlankBackupHeader, Kill,
        history, SavePhases, DestroyPhases
  <2> QED
    BY <1>1, <2>1 DEF Busy
<1>5. CASE FinishSave
  BY <1>1, <1>5 DEF FinishSave
<1>6. CASE FinishDestroy
  <2>1. pc = "dsync" /\ report = NoReport /\ hdr' = hdr /\ size' = size /\ mbr' = mbr
    BY <1>6 DEF FinishDestroy, Busy, DestroyPhases, disk
  <2> QED
    BY <1>1, <1>6, <2>1
    DEF FinishDestroy, Blanked, Gone, Converting, MbrFollows, DestroyPhases
<1>7. CASE WriteMBROnly
  <2>1. pc = "mo" /\ report = NoReport /\ hdr' = hdr /\ size' = size
    BY <1>7 DEF WriteMBROnly, Busy
  <2>2. CASE report' = report
    BY <1>1, <2>1, <2>2
  <2>3. CASE allOK /\ (BlanksMBR \/ Interactive)
    <3>1. Gone'
      BY <2>1, <2>3 DEF Blanked, Gone
    <3>2. report'.kind = "converted" => mbr' = "mbr"
      <4>1. CASE job = "toMbr"
        BY <1>7, <4>1 DEF WriteMBROnly, Converting
      <4>2. CASE job # "toMbr"
        <5>1. report' = [kind |-> "gone", table |-> Blank]
          BY <1>7, <2>3, <4>2 DEF WriteMBROnly
        <5> QED
          BY <5>1
      <4> QED
        BY <4>1, <4>2
    <3> QED
      BY <3>1, <3>2
  <2> QED
    BY <1>1, <1>7, <2>2, <2>3 DEF WriteMBROnly
<1>8. CASE FailWrite
  <2>1. pc \in SavePhases \cup DestroyPhases \cup {"mo"} /\ report = NoReport
    BY <1>8 DEF FailWrite, Busy, SavePhases, DestroyPhases
  <2>2. CASE report' = [kind |-> "gone", table |-> Blank] /\ pc = "mo" /\ BlanksMBR /\ allOK
    <3>1. hdr' = hdr /\ size' = size
      BY <1>8, <2>2 DEF FailWrite, Interrupted
    <3> QED
      BY <2>2, <3>1 DEF Blanked, Gone
  <2> QED
    BY <1>1, <1>8, <2>1, <2>2 DEF FailWrite
<1>9. CASE ResizeDisk
  BY <1>1, <1>9 DEF ResizeDisk, NoReport, TypeOK
<1>10. CASE UNCHANGED vars
  BY <1>2, <1>10 DEF vars
<1> QED
  BY <1>3, <1>4, <1>5, <1>6, <1>7, <1>8, <1>9, <1>10 DEF Next, Command, Write, Fault

\* The GPT is gone when the program says so: no later load finds one, and
\* after a conversion the MBR is what is loaded.
THEOREM ReportedDestructionIsComplete ==
  ASSUME ~OpenMayFail
  PROVE  Spec => []DestroyedMeansGone
<1> DEFINE Inv == TypeOK /\ Converting /\ Blanked /\ Busy /\ Reported
<1>1. Init => Inv
  BY TypeInit
  DEF Init, Converting, Blanked, Busy, Reported, NoReport, SavePhases, DestroyPhases
<1>2. Inv /\ [Next]_vars => Inv'
  BY TypeStep, ConvertingStep, BlankedStep, BusyStep, ReportedStep
<1>3. Inv => DestroyedMeansGone
  BY DEF Reported, Gone, DestroyedMeansGone, Loaded, ForceLoadGPTData, SecondLoc,
         GPTDataChoice
<1> QED
  BY <1>1, <1>2, <1>3, PTL DEF Spec

-----------------------------------------------------------------------------
(* A save that was stopped.                                                *)

\* A good main header has the CRC of the old table or of the new one.
MainCrcKnown ==
  begun.old # {} /\ pc \in SavePhases \cup {"idle"} /\ hdr[0].ok =>
    hdr[0].crc \in begun.old \cup {mem.parts}

\* The steps that leave a save which began from a sound disk under way, or
\* leave the program idle after it.
LEMMA UnderWay ==
  ASSUME NothingPromised, [Next]_vars, begun'.old # {}, pc' \in SavePhases \cup {"idle"}
  PROVE  \/ SaveGPTData /\ pc' = "bt"
         \/ /\ pc \in SavePhases /\ mem' = mem /\ begun' = begun /\ size' = size
            /\ \/ WriteBackupTable \/ WriteBackupHeader \/ WriteMainTable
               \/ WriteMainHeader \/ WriteMBR \/ FailWrite \/ Kill
         \/ UNCHANGED vars
<1>1. ~\/ LoadPartitions \/ Quit \/ Zap \/ ConvertToMBR \/ FinishSave
       \/ ResizeDisk \/ Damage
  BY DEF LoadPartitions, Quit, Zap, ConvertToMBR, FinishSave, ResizeDisk, Damage, NotBegun
<1>2. ~\/ Edit \/ MoveSecondHeaderToEnd \/ NewTable \/ Recover \/ LoadMBR
       \/ SetProtectiveMBR \/ BlankMainHeader \/ BlankMainTable \/ BlankBackupTable
       \/ BlankBackupHeader
  BY DEF Edit, MoveSecondHeaderToEnd, NewTable, Recover, LoadMBR, SetProtectiveMBR,
         BlankMainHeader, BlankMainTable, BlankBackupTable, BlankBackupHeader, SavePhases
<1>3. ~(FinishDestroy \/ WriteMBROnly)
  BY DEF FinishDestroy, WriteMBROnly, NothingPromised, DestroyPhases
<1>4. ASSUME SaveGPTData PROVE pc' = "bt"
  BY <1>4 DEF SaveGPTData, AfterOperation, NothingPromised, SavePhases, history
<1>5. ASSUME \/ WriteBackupTable \/ WriteBackupHeader \/ WriteMainTable
             \/ WriteMainHeader \/ WriteMBR
      PROVE  pc \in SavePhases /\ mem' = mem /\ begun' = begun /\ size' = size
  BY <1>5
  DEF WriteBackupTable, WriteBackupHeader, WriteMainTable, WriteMainHeader, WriteMBR,
      history, SavePhases
<1>6. ASSUME FailWrite \/ Kill
      PROVE  pc \in SavePhases /\ mem' = mem /\ begun' = begun /\ size' = size
  BY <1>6
  DEF FailWrite, Kill, Interrupted, history, NothingPromised, SavePhases, DestroyPhases
<1> QED
  BY <1>1, <1>2, <1>3, <1>4, <1>5, <1>6 DEF Next, Command, Write, Fault

\* How a step of a save changes the main header.
LEMMA MainHeaderWrites ==
  ASSUME HeadersInv, pc \in SavePhases,
         \/ WriteBackupTable \/ WriteBackupHeader \/ WriteMainTable
         \/ WriteMainHeader \/ WriteMBR \/ FailWrite \/ Kill
  PROVE  hdr'[0] \in {hdr[0], mem.main, BadHeader}
<1>1. /\ TypeOK /\ mem.main.alt \in Loc /\ mem.main.alt # 0 /\ 0 \in Loc
      /\ mem.second.at = mem.main.alt
      /\ mem.main \in Header /\ mem.second \in Header /\ mem.parts \in Content
  BY Targets, Constants DEF HeadersInv
<1>2. CASE WriteBackupTable \/ WriteMainTable
  BY <1>1, <1>2, TableStored DEF WriteBackupTable, WriteMainTable
<1>3. CASE WriteBackupHeader \/ WriteMainHeader
  BY <1>1, <1>3, HeaderStored DEF WriteBackupHeader, WriteMainHeader
<1>4. CASE Interrupted
  BY <1>1, <1>4, InterruptedType
<1> QED
  BY <1>1, <1>2, <1>3, <1>4 DEF WriteMBR, FailWrite, Kill, disk

LEMMA MainCrcStep ==
  ASSUME HeadersInv, NothingPromised, MainCrcKnown, [Next]_vars
  PROVE  MainCrcKnown'
<1> SUFFICES ASSUME begun'.old # {}, pc' \in SavePhases \cup {"idle"}, hdr'[0].ok
             PROVE  hdr'[0].crc \in begun'.old \cup {mem'.parts}
  BY DEF MainCrcKnown
<1>1. CASE SaveGPTData /\ pc' = "bt"
  <2>1. hdr' = hdr /\ begun'.old = SoundStart(mem'.main.alt)
    BY <1>1 DEF SaveGPTData, disk, AfterOperation
  <2> QED
    BY <2>1 DEF SoundStart, Consistent, ConsistentIn
<1>2. CASE /\ pc \in SavePhases /\ mem' = mem /\ begun' = begun
           /\ \/ WriteBackupTable \/ WriteBackupHeader \/ WriteMainTable
              \/ WriteMainHeader \/ WriteMBR \/ FailWrite \/ Kill
  <2>1. hdr'[0] \in {hdr[0], mem.main, BadHeader}
    BY <1>2, MainHeaderWrites
  <2>2. mem.main.crc = mem.parts
    BY <1>2, Targets
  <2> QED
    BY <1>2, <2>1, <2>2 DEF MainCrcKnown, BadHeader
<1>3. CASE UNCHANGED vars
  BY <1>3 DEF vars, MainCrcKnown
<1> QED
  BY <1>1, <1>2, <1>3, UnderWay

\* A save stopped anywhere, even one whose short writes nobody notices,
\* never leaves a GPT that passes every check and holds anything but the
\* old partitions or the new.
THEOREM InterruptionIsNoticed == Spec => []InterruptedSaveIsNoticed
<1> DEFINE Inv == HeadersInv /\ NothingPromised /\ MainCrcKnown
<1>1. Init => Inv
  BY HeadersInit DEF Init, NothingPromised, MainCrcKnown, NotBegun
<1>2. Inv /\ [Next]_vars => Inv'
  BY HeadersStep, NothingPromisedStep, MainCrcStep
<1>3. Inv => InterruptedSaveIsNoticed
  <2>1. Loaded.state = "gpt_valid" => hdr[0].ok /\ Loaded.parts = hdr[0].crc
    BY DEF Loaded, ForceLoadGPTData
  <2> QED
    BY <2>1 DEF MainCrcKnown, InterruptedSaveIsNoticed
<1> QED
  BY <1>1, <1>2, <1>3, PTL DEF Spec

\* A backup table where the main header says it is, under a header that
\* agrees or is lost, makes the main table dispensable.
StandsIn(l) == /\ l = hdr[0].alt
               /\ l <= size
               /\ tab[l] = hdr[0].crc
               /\ hdr[l].ok => hdr[l].crc = hdr[0].crc

\* So does a backup at the end of the disk, if the main header is bad.
LEMMA LoadsFromEither ==
  ASSUME HeadersInv
  PROVE  /\ hdr[0].ok /\ tab[0] = hdr[0].crc =>
              Loaded.parts = tab[0] /\ Loaded.state # "gpt_invalid"
         /\ hdr[0].ok /\ StandsIn(SecondLoc(hdr, size)) =>
              Loaded.parts = hdr[0].crc /\ Loaded.state # "gpt_invalid"
         /\ ~hdr[0].ok /\ Consistent(size) =>
              Loaded.parts = tab[size] /\ Loaded.state # "gpt_invalid"
<1> DEFINE s == SecondLoc(hdr, size)
<1>1. s \in Loc /\ size \in Loc /\ size \in Nat /\ s <= size
  BY SecondLocType, SecondLocInDisk DEF HeadersInv
<1>2. hdr[s].ok => hdr[s].at = s
  BY <1>1 DEF HeadersInv, OnDisk
<1>3. hdr[0].ok /\ tab[0] = hdr[0].crc =>
        Loaded.parts = tab[0] /\ Loaded.state # "gpt_invalid"
  BY DEF Loaded, ForceLoadGPTData
<1>4. ASSUME hdr[0].ok, StandsIn(s)
      PROVE  Loaded.parts = hdr[0].crc /\ Loaded.state # "gpt_invalid"
  <2> DEFINE second == IF hdr[s].ok THEN hdr[s] ELSE RebuiltSecond(hdr[0])
  <2>1. second.at = s /\ second.crc = hdr[0].crc
    BY <1>2, <1>4 DEF StandsIn, RebuiltSecond, GoodHeader
  <2> HIDE DEF s
  <2>2. s <= size /\ tab[s] = hdr[0].crc
    BY <1>4 DEF StandsIn
  <2> QED
    BY <1>4, <2>1, <2>2 DEF s, Loaded, ForceLoadGPTData
<1>5. ~hdr[0].ok /\ Consistent(size) =>
        Loaded.parts = tab[size] /\ Loaded.state # "gpt_invalid"
  <2> SUFFICES ASSUME ~hdr[0].ok, Consistent(size)
               PROVE  Loaded.parts = tab[size] /\ Loaded.state # "gpt_invalid"
    OBVIOUS
  <2>1. s = size
    BY DEF SecondLoc
  <2> QED
    BY <1>2, <2>1 DEF Consistent, ConsistentIn, Loaded, ForceLoadGPTData
<1> QED
  BY <1>3, <1>4, <1>5

\* The next load finds the partitions of before the save or after it.
FindsOldOrNew ==
  /\ Loaded.parts \in begun.old \cup {mem.parts}
  /\ Loaded.state # "gpt_invalid"

\* The backup table that the save began with and the new one are apart.
Apart == begun.old # {} /\ begun.from + TableSectors <= size

\* Until the main header is written, the backup table that it names is
\* neither where the new backup goes nor touched.
KeepsBackup ==
  Apart =>
    /\ pc \in {"bt", "bh", "mt", "mh"} =>
         /\ SecondLoc(hdr, size) = begun.from
         /\ StandsIn(begun.from)
         /\ begun.old = {hdr[0].crc}
    /\ pc \in {"sync", "idle"} => FindsOldOrNew

RelocateInv == SaveInv /\ NothingPromised /\ KeepsBackup

LEMMA RelocatingFinds ==
  ASSUME RelocateInv, Apart, pc \in SavePhases \cup {"idle"}
  PROVE  FindsOldOrNew
<1> USE DEF RelocateInv, SaveInv
<1>1. CASE pc \in {"bt", "bh", "mt", "mh"}
  <2>1. hdr[0].ok
    BY <1>1 DEF KeepsOld, Apart
  <2> QED
    BY <1>1, <2>1, LoadsFromEither DEF KeepsBackup, FindsOldOrNew
<1>2. CASE pc = "mb"
  <2>1. hdr[0] = mem.main /\ tab[0] = mem.parts
    BY <1>2 DEF Written, SavePhases
  <2>2. mem.main.ok /\ mem.main.crc = mem.parts
    BY <1>2, Targets DEF SavePhases
  <2> QED
    BY <2>1, <2>2, LoadsFromEither DEF FindsOldOrNew
<1>3. CASE pc \in {"sync", "idle"}
  BY <1>3 DEF KeepsBackup
<1> QED
  BY <1>1, <1>2, <1>3 DEF SavePhases

\* A step that touches neither the main header nor the old backup table.
LEMMA BackupUntouched ==
  ASSUME HeadersInv, HeadersInv', hdr[0].ok,
         SecondLoc(hdr, size) = begun.from, StandsIn(begun.from),
         begun.old = {hdr[0].crc}, size' = size, begun' = begun, mem' = mem,
         hdr'[0] = hdr[0],
         hdr'[begun.from] \in {hdr[begun.from], BadHeader},
         tab'[begun.from] = tab[begun.from]
  PROVE  /\ SecondLoc(hdr, size)' = begun'.from
         /\ StandsIn(begun.from)'
         /\ begun'.old = {hdr'[0].crc}
         /\ FindsOldOrNew'
<1>1. SecondLoc(hdr, size)' = begun'.from
  BY DEF SecondLoc
<1>2. StandsIn(begun.from)'
  BY DEF StandsIn, BadHeader
<1>3. (hdr[0].ok /\ StandsIn(SecondLoc(hdr, size)))' =>
        (Loaded.parts = hdr[0].crc /\ Loaded.state # "gpt_invalid")'
  BY LoadsFromEither, PTL
<1>4. StandsIn(SecondLoc(hdr, size))'
  BY <1>1, <1>2 DEF StandsIn
<1>5. FindsOldOrNew'
  BY <1>3, <1>4 DEF FindsOldOrNew
<1> QED
  BY <1>1, <1>2, <1>5

\* What the writes of a relocating save change, complete or cut short.
LEMMA RelocatingWrites ==
  ASSUME RelocateInv, Apart, pc \in SavePhases,
         \/ WriteBackupTable \/ WriteBackupHeader \/ WriteMainTable
         \/ WriteMainHeader \/ WriteMBR \/ FailWrite \/ Kill
  PROVE  \/ /\ pc \in {"bt", "bh", "mt", "mh"}
            /\ hdr'[0] = hdr[0]
            /\ hdr'[begun.from] \in {hdr[begun.from], BadHeader}
            /\ tab'[begun.from] = tab[begun.from]
         \/ /\ pc = "mh" /\ pc' \notin {"bt", "bh", "mt", "mh"}
            /\ hdr'[0] \in {mem.main, BadHeader} /\ tab' = tab
            /\ hdr'[size] = hdr[size]
         \/ /\ pc \in {"mb", "sync"} /\ pc' \notin {"bt", "bh", "mt", "mh"}
            /\ hdr' = hdr /\ tab' = tab
<1> DEFINE s == begun.from
<1>1. /\ TypeOK /\ size \in Sizes /\ 0 \in Loc /\ 0 \notin Sizes
      /\ Sizes \subseteq Loc /\ Loc \subseteq Nat /\ TableSectors \in Nat \ {0}
      /\ mem.second.at = mem.main.alt /\ mem.parts \in Content
      /\ mem.main \in Header /\ mem.second \in Header /\ BadHeader \in Header
  BY Targets, HeaderTypes, Constants DEF RelocateInv, SaveInv, HeadersInv, TypeOK
<1>2. ASSUME pc \in {"bt", "bh", "mt", "mh"}
      PROVE  /\ mem.main.alt = size /\ s \in Sizes /\ s # size
             /\ s \notin Meets(size) /\ s \notin Over(size) /\ s \notin Under(0)
             /\ 0 \notin Meets(size) /\ 0 \notin Over(size) /\ 0 \notin Under(size)
  <2>1. mem.main.alt = size /\ SecondLoc(hdr, size) = s
    BY <1>2 DEF RelocateInv, SaveInv, KeepsOld, KeepsBackup, Apart
  <2>2. s \in Sizes
    BY <2>1, SecondLocType, SecondLocInDisk, Constants DEF RelocateInv, SaveInv, HeadersInv
  <2>3. s + TableSectors <= size
    BY DEF Apart
  <2> HIDE DEF s
  <2>4. s \in Nat /\ size \in Nat /\ s # size
    <3>1. s \in Nat /\ size \in Nat /\ TableSectors \in Nat \ {0}
      BY <1>1, <2>2
    <3>2. \A a, b \in Nat, c \in Nat \ {0} : a + c <= b => a # b
      OBVIOUS
    <3> QED
      BY <2>3, <3>1, <3>2
  <2>5. /\ s \in Meets(size) => size < s + TableSectors
        /\ s \in Over(size) => size < s
    BY <1>1, <2>2, Geometry
  <2>6. Meets(size) \cup Over(size) \cup Under(size) \subseteq Sizes /\ Under(0) = {}
    BY <1>1, Geometry
  <2> QED
    BY <1>1, <2>1, <2>2, <2>3, <2>4, <2>5, <2>6
<1> HIDE DEF s
<1>3. ASSUME \/ pc = "bt" /\ (PutTable(size, mem.parts) \/ CutTable(size, mem.parts))
             \/ pc = "mt" /\ (PutTable(0, mem.parts) \/ CutTable(0, mem.parts))
      PROVE  hdr'[0] = hdr[0] /\ hdr'[s] \in {hdr[s], BadHeader} /\ tab'[s] = tab[s]
  <2>1. CASE pc = "bt"
    BY <1>1, <1>2, <1>3, <2>1, TableStored
  <2>2. CASE pc = "mt"
    BY <1>1, <1>2, <1>3, <2>2, MainStored
  <2> QED
    BY <1>3, <2>1, <2>2
<1>4. ASSUME pc = "bh", NEW x \in Header, PutHeader(mem.main.alt, x)
      PROVE  hdr'[0] = hdr[0] /\ hdr'[s] \in {hdr[s], BadHeader} /\ tab'[s] = tab[s]
  <2>1. PutHeader(size, x) /\ size \in Loc /\ s \in Loc
    BY <1>1, <1>2, <1>4
  <2>2. /\ \A k \in Loc : k # size => hdr'[k] = hdr[k]
        /\ \A k \in Loc : k \notin Over(size) => tab'[k] = tab[k]
    BY <1>1, <2>1, HeaderStored
  <2>3. s # size /\ s \notin Over(size) /\ size # 0
    BY <1>1, <1>2, <1>4
  <2> QED
    BY <1>1, <2>1, <2>2, <2>3
<1>5. ASSUME pc = "mh", NEW x \in Header, PutHeader(0, x)
      PROVE  hdr'[0] = x /\ hdr'[size] = hdr[size] /\ tab' = tab
  BY <1>1, <1>5, MainStored
<1>6. CASE WriteBackupTable \/ WriteMainTable
  BY <1>1, <1>2, <1>3, <1>6 DEF WriteBackupTable, WriteMainTable, s
<1>7. CASE WriteBackupHeader
  BY <1>1, <1>4, <1>7 DEF WriteBackupHeader, s
<1>8. CASE WriteMainHeader
  BY <1>1, <1>5, <1>8 DEF WriteMainHeader
<1>9. CASE WriteMBR
  BY <1>9 DEF WriteMBR
<1>10. CASE Interrupted /\ (FailWrite \/ Kill)
  <2>1. pc' \in {"idle", "loaded", "sync"}
    BY <1>10 DEF FailWrite, Kill, AfterOperation, SavePhases, DestroyPhases
  <2>2. CASE pc \in {"bt", "mt"}
    <3>1. CutTable(TableTarget, NewTableContents) /\ NewTableContents = mem.parts
      BY <1>10, <2>2 DEF Interrupted, NewTableContents, DestroyPhases
    <3> QED
      BY <1>1, <1>2, <1>3, <2>2, <3>1 DEF TableTarget, s
  <2>3. CASE pc = "bh"
    <3>1. (hdr' = hdr /\ tab' = tab) \/ PutHeader(mem.main.alt, BadHeader)
      BY <1>10, <2>3 DEF Interrupted, HeaderTarget
    <3> QED
      BY <1>1, <1>4, <2>3, <3>1 DEF s
  <2>4. CASE pc = "mh"
    <3>1. (hdr' = hdr /\ tab' = tab) \/ PutHeader(0, BadHeader)
      BY <1>10, <2>4 DEF Interrupted, HeaderTarget
    <3> QED
      BY <1>1, <1>5, <2>1, <2>4, <3>1 DEF s
  <2>5. CASE pc \in {"mb", "sync"}
    BY <1>10, <2>1, <2>5 DEF Interrupted
  <2> QED
    BY <2>2, <2>3, <2>4, <2>5 DEF SavePhases
<1>11. CASE hdr' = hdr /\ tab' = tab /\ (FailWrite \/ Kill)
  BY <1>11 DEF FailWrite, Kill, AfterOperation, SavePhases, DestroyPhases
<1> QED
  BY <1>6, <1>7, <1>8, <1>9, <1>10, <1>11 DEF FailWrite, Kill, disk

LEMMA KeepsBackupStep ==
  ASSUME ~ShortWrites, RelocateInv, HeadersInv', [Next]_vars
  PROVE  KeepsBackup'
<1> SUFFICES ASSUME Apart', pc' \in SavePhases \cup {"idle"}
             PROVE  KeepsBackup'
  BY DEF KeepsBackup, SavePhases
<1>1. CASE SaveGPTData /\ pc' = "bt"
  <2>1. /\ hdr' = hdr /\ tab' = tab /\ size' = size
        /\ begun'.old = SoundStart(mem'.main.alt)
        /\ begun'.from = SecondLoc(hdr, size)
    BY <1>1 DEF SaveGPTData, disk, AfterOperation
  <2>2. /\ Consistent(0) /\ begun'.old = {hdr[0].crc}
        /\ SecondLoc(hdr, size) = mem'.main.alt \/ AgreesWithMain(SecondLoc(hdr, size))
        /\ mem'.main.alt = size
    BY <2>1 DEF SoundStart, Consistent, ConsistentIn, Apart
  <2>3. SecondLoc(hdr, size) # size
    BY <2>1, SecondLocType, Constants DEF Apart, RelocateInv, SaveInv, HeadersInv
  <2>4. StandsIn(SecondLoc(hdr, size))
    BY <2>2, <2>3 DEF StandsIn, SecondLoc, AgreesWithMain, Consistent, ConsistentIn
  <2> QED
    BY <1>1, <2>1, <2>2, <2>4 DEF KeepsBackup, StandsIn, SecondLoc
<1>2. CASE /\ pc \in SavePhases /\ mem' = mem /\ begun' = begun /\ size' = size
           /\ \/ WriteBackupTable \/ WriteBackupHeader \/ WriteMainTable
              \/ WriteMainHeader \/ WriteMBR \/ FailWrite \/ Kill
  <2>1. Apart /\ HeadersInv
    BY <1>2 DEF RelocateInv, SaveInv, Apart
  <2>2. CASE /\ pc \in {"bt", "bh", "mt", "mh"}
             /\ hdr'[0] = hdr[0]
             /\ hdr'[begun.from] \in {hdr[begun.from], BadHeader}
             /\ tab'[begun.from] = tab[begun.from]
    <3>1. /\ hdr[0].ok /\ SecondLoc(hdr, size) = begun.from
          /\ StandsIn(begun.from) /\ begun.old = {hdr[0].crc}
      BY <2>1, <2>2 DEF RelocateInv, SaveInv, KeepsOld, KeepsBackup, Apart
    <3> QED
      BY <1>2, <2>1, <2>2, <3>1, BackupUntouched DEF KeepsBackup
  <2>3. CASE /\ pc = "mh" /\ pc' \notin {"bt", "bh", "mt", "mh"}
             /\ hdr'[0] \in {mem.main, BadHeader} /\ tab' = tab
             /\ hdr'[size] = hdr[size]
    <3>1. /\ mem.main.alt = size /\ mem.main.ok /\ mem.main.crc = mem.parts
          /\ mem.second.ok /\ mem.second.crc = mem.parts
          /\ tab[0] = mem.parts /\ hdr[size] = mem.second /\ tab[size] = mem.parts
      BY <2>1, <2>3, Targets
      DEF RelocateInv, SaveInv, KeepsOld, Written, SavePhases, Apart
    <3>2. \/ hdr'[0].ok /\ tab'[0] = hdr'[0].crc
          \/ ~hdr'[0].ok /\ Consistent(size)'
      BY <1>2, <2>3, <3>1 DEF BadHeader, Consistent, ConsistentIn
    <3>3. /\ (hdr[0].ok /\ tab[0] = hdr[0].crc)' =>
               (Loaded.parts = tab[0] /\ Loaded.state # "gpt_invalid")'
          /\ (~hdr[0].ok /\ Consistent(size))' =>
               (Loaded.parts = tab[size] /\ Loaded.state # "gpt_invalid")'
      BY LoadsFromEither, PTL
    <3>4. FindsOldOrNew'
      BY <1>2, <2>3, <3>1, <3>2, <3>3 DEF FindsOldOrNew
    <3> QED
      BY <2>3, <3>4 DEF KeepsBackup
  <2>4. CASE /\ pc \in {"mb", "sync"} /\ pc' \notin {"bt", "bh", "mt", "mh"}
             /\ hdr' = hdr /\ tab' = tab
    <3>1. FindsOldOrNew
      BY <2>1, <2>4, RelocatingFinds DEF SavePhases
    <3>2. FindsOldOrNew'
      BY <1>2, <2>4, <3>1 DEF FindsOldOrNew, Loaded
    <3> QED
      BY <2>4, <3>2 DEF KeepsBackup
  <2> QED
    BY <1>2, <2>1, <2>2, <2>3, <2>4, RelocatingWrites
<1>3. CASE UNCHANGED vars
  BY <1>3
  DEF vars, RelocateInv, KeepsBackup, Apart, FindsOldOrNew, Loaded, StandsIn, SecondLoc
<1> QED
  BY <1>1, <1>2, <1>3, UnderWay DEF RelocateInv, Apart

\* A save that moves the backup to the end of a disk that grew by at least a
\* table's length is all or nothing for the program's own load, whatever
\* stops it.
THEOREM RelocationIsAtomic ==
  ASSUME ~ShortWrites
  PROVE  Spec => []RelocatingSaveIsAtomic
<1>1. Init => KeepsBackup
  BY DEF Init, KeepsBackup, Apart, NotBegun
<1>2. SaveInv /\ NothingPromised /\ HeadersInv' /\ KeepsBackup /\ [Next]_vars => KeepsBackup'
  BY KeepsBackupStep DEF RelocateInv
<1>3. SaveInv => HeadersInv
  BY DEF SaveInv
<1>4. SaveInv /\ NothingPromised /\ KeepsBackup => RelocatingSaveIsAtomic
  BY RelocatingFinds DEF RelocateInv, RelocatingSaveIsAtomic, FindsOldOrNew, Apart
<1> QED
  BY <1>1, <1>2, <1>3, <1>4, SaveInvariant, PTL DEF Spec
=============================================================================
