------------------------------ MODULE GptStore ------------------------------
(***************************************************************************)
(* The two on-disk copies of a GUID partition table, and the programs that *)
(* load, edit, save, destroy and convert it: gdisk (Interactive = TRUE)    *)
(* and sgdisk (Interactive = FALSE).  A disk write is one step, so that    *)
(* the program can be killed, or the device can fail, between two writes   *)
(* and in the middle of one.                                               *)
(*                                                                         *)
(* Abstractions.                                                           *)
(*  - A partition array is a member of Tables.  What a write that stopped  *)
(*    half-way leaves behind is a fresh member of Tears: no header holds   *)
(*    its CRC until the program itself adopts it.  A CRC is therefore the  *)
(*    contents it was computed from (no collisions).                       *)
(*  - Location 0 is the main copy: header at LBA 1 and table after it.     *)
(*    Location n > 0 is a backup copy that ends at the last sector of a    *)
(*    disk of n sectors; the backup table adjoins its header, where        *)
(*    MoveSecondHeaderToEnd() puts it.  The disk may be resized while no   *)
(*    program has it open.  Locations of disks that differ by fewer        *)
(*    sectors than a copy has overlap: a write to one of them also hits    *)
(*    the headers and tables of the others.  All tables have one length.   *)
(*  - The MBR is its validity class (enum MBRValidity); a sector write of  *)
(*    the MBR is atomic.  BSD disklabels and APM are left out.             *)
(***************************************************************************)
EXTENDS Naturals

CONSTANTS
  Tables,        \* partition arrays that a user may ask for
  Tears,         \* what interrupted table writes leave (bounds their number)
  Blank,         \* the empty partition array
  MbrTable,      \* the array XFormPartitions() makes of the MBR's partitions
  Sizes,         \* numbers of sectors that the disk may have
  TableSectors,  \* number of sectors of a table
  Interactive,   \* TRUE: gdisk; FALSE: sgdisk
  ShortWrites,   \* may write(2) store a part of a table and report no error?
  OpenMayFail    \* may open(2) for writing fail?

ASSUME StoreAssumption ==
  /\ Blank \in Tables
  /\ MbrTable \in Tables
  /\ Tables \cap Tears = {}
  /\ TableSectors \in Nat \ {0}
  /\ Sizes \subseteq Nat
  /\ Sizes # {}
  \* LoadPartitions() refuses a smaller disk.
  /\ \A n \in Sizes : n > 2 * TableSectors + 3
  /\ Interactive \in BOOLEAN
  /\ ShortWrites \in BOOLEAN
  /\ OpenMayFail \in BOOLEAN

VARIABLES
  hdr,      \* the header sector of each location
  tab,      \* the table region of each location
  mbr,      \* the class of the MBR sector
  size,     \* the location at the end of the disk
  pc,       \* what the program does next
  job,      \* the operation in progress
  mem,      \* GPTData: mainHeader, secondHeader, partitions, protectiveMBR
  allOK,    \* the operation's status so far
  report,   \* history: the last operation reported to the user as a success
  begun     \* history: the table the last save began from, if it was sound,
            \* and where the backup was

disk == <<hdr, tab, mbr>>
history == <<report, begun>>
vars == <<hdr, tab, mbr, size, pc, job, mem, allOK, report, begun>>

-----------------------------------------------------------------------------
Loc == {0} \cup Sizes
Content == Tables \cup Tears

\* The sectors of a location, and the locations whose headers a table at l
\* covers, whose tables it meets, and whose tables cover the header at l.
HeaderSector(l) == IF l = 0 THEN 1 ELSE l - 1
TableRange(l) == IF l = 0 THEN 2..(TableSectors + 1)
                          ELSE (l - 1 - TableSectors)..(l - 2)
Under(l) == {k \in Loc : HeaderSector(k) \in TableRange(l)}
Meets(l) == {k \in Loc \ {l} : TableRange(k) \cap TableRange(l) # {}}
Over(l) == {k \in Loc : HeaderSector(l) \in TableRange(k)}

\* A GPT header: crc is partitionEntriesCRC, at is currentLBA, alt is
\* backupLBA; ok says that signature, revision and headerCRC are right.
Header == [ok: BOOLEAN, crc: Content, at: Loc, alt: Loc]
BadHeader == [ok |-> FALSE, crc |-> Blank, at |-> 0, alt |-> 0]
GoodHeader(crc, at, alt) == [ok |-> TRUE, crc |-> crc, at |-> at, alt |-> alt]

MBRValidity == {"invalid", "gpt", "hybrid", "mbr"}
GPTValidity == {"gpt_valid", "gpt_corrupt", "gpt_invalid"}

Memory == [main: Header, second: Header, parts: Content, mbr: MBRValidity]

SavePhases == {"bt", "bh", "mt", "mh", "mb", "sync"}
DestroyPhases == {"dmh", "dmt", "dbt", "dbh", "dsync"}
Phases == {"idle", "loaded", "aborted", "cleared", "mo"}
            \cup SavePhases \cup DestroyPhases
Jobs == {"none", "save", "destroy", "zapAll", "destroyAborted", "zapAborted", "toMbr"}

\* Nothing reported; no save under way that began from a sound disk.
NoReport == [kind |-> "none", table |-> Blank]
NotBegun == [old |-> {}, from |-> 0]

-----------------------------------------------------------------------------
(* Loading.  The operators take the disk as parameters: the properties     *)
(* below also ask what a load of some other disk would find.               *)

\* ForceLoadGPTData(): where the backup header is looked for.
SecondLoc(h, n) == IF h[0].ok /\ h[0].alt <= n THEN h[0].alt ELSE n

\* RebuildMainHeader() and RebuildSecondHeader().
RebuiltMain(second) == GoodHeader(second.crc, second.alt, second.at)
RebuiltSecond(main) == GoodHeader(main.crc, main.alt, main.at)

\* Slips a later change could make have a name of their own, the operator's
\* with a suffix, and stand before it; the specification uses none of them.
ForceLoadGPTData_NoFallback(h, t, n) ==
  LET onDisk == h[SecondLoc(h, n)]
      main == IF h[0].ok THEN h[0] ELSE RebuiltMain(onDisk)
      second == IF onDisk.ok THEN onDisk ELSE RebuiltSecond(h[0])
  IN  [main |-> main,
       second |-> second,
       parts |-> IF h[0].ok THEN t[0] ELSE t[second.at],
       state |-> IF ~h[0].ok /\ ~onDisk.ok THEN "gpt_invalid"
                 ELSE IF h[0].ok /\ onDisk.ok /\ t[0] = main.crc
                      THEN "gpt_valid" ELSE "gpt_corrupt"]

ForceLoadGPTData_HeadersOnly(h, t, n) ==
  [ForceLoadGPTData_NoFallback(h, t, n) EXCEPT !.state =
     IF h[0].ok /\ h[SecondLoc(h, n)].ok THEN "gpt_valid" ELSE @]

\* ForceLoadGPTData().  secondPartsOk and mainPartsOk are what CheckTable()
\* leaves in secondPartsCrcOk and mainPartsCrcOk: a table passes only if it
\* has the CRC in its own header and the CRC in the other header.
ForceLoadGPTData(h, t, n) ==
  LET onDisk == h[SecondLoc(h, n)]
      main == IF h[0].ok THEN h[0] ELSE RebuiltMain(onDisk)
      second == IF onDisk.ok THEN onDisk ELSE RebuiltSecond(h[0])
      mainPartsOk == t[0] = main.crc
      secondPartsOk == /\ second.at <= n
                       /\ t[second.at] = second.crc
                       /\ h[0].ok => t[second.at] = main.crc
      useSecond == ~h[0].ok \/ (secondPartsOk /\ ~mainPartsOk)
  IN  [main |-> main,
       second |-> second,
       parts |-> IF useSecond THEN t[second.at] ELSE t[0],
       state |-> IF ~h[0].ok /\ ~onDisk.ok THEN "gpt_invalid"
                 ELSE IF h[0].ok /\ onDisk.ok /\ mainPartsOk /\ secondPartsOk
                      THEN "gpt_valid" ELSE "gpt_corrupt"]

\* GPTData::UseWhichPartitions(): the decision without a user.
GPTDataChoice(state, kind) ==
  CASE state = "gpt_invalid" ->
         IF kind \in {"mbr", "hybrid"} THEN "use_mbr" ELSE "use_new"
    [] state = "gpt_valid" /\ kind # "mbr" -> "use_gpt"
    [] state = "gpt_corrupt" /\ kind = "gpt" -> "use_gpt"
    [] OTHER -> "use_abort"

\* GPTDataTextUI::UseWhichPartitions(): gdisk asks its user instead of giving up.
UseWhichPartitions(state, kind) ==
  IF Interactive /\ GPTDataChoice(state, kind) = "use_abort"
  THEN {"use_gpt", "use_new"} \cup (IF kind = "invalid" THEN {} ELSE {"use_mbr"})
  ELSE {GPTDataChoice(state, kind)}

\* ClearGPTData() on a disk of size n, with the array and MBR that follow it.
ClearGPTData(n, parts, kind) ==
  [main |-> GoodHeader(Blank, 0, n), second |-> GoodHeader(Blank, n, 0),
   parts |-> parts, mbr |-> kind]

\* XFormPartitions(): the MBR's partitions become the array.
XFormPartitions(n) == ClearGPTData(n, MbrTable, "gpt")

\* LoadPartitions(), after UseWhichPartitions() made its choice.
LoadedMemory(which, found) ==
  CASE which = "use_mbr" -> XFormPartitions(size)
    [] which = "use_new" -> ClearGPTData(size, Blank, "gpt")
    [] OTHER -> [main |-> found.main, second |-> found.second,
                 parts |-> found.parts,
                 mbr |-> IF which = "use_gpt" /\ mbr # "hybrid" THEN "gpt" ELSE mbr]

LoadPartitions ==
  /\ pc = "idle"
  /\ LET found == ForceLoadGPTData(hdr, tab, size)
     IN  \E which \in UseWhichPartitions(found.state, mbr) :
           /\ mem' = LoadedMemory(which, found)
           /\ pc' = IF which # "use_abort" THEN "loaded"
                    ELSE IF Interactive THEN "idle" ELSE "aborted"
  /\ begun' = NotBegun
  /\ UNCHANGED <<disk, size, job, allOK, report>>

-----------------------------------------------------------------------------
(* Editing in memory.                                                      *)

\* Any command that changes the array (create, delete, sort, ...).
Edit ==
  /\ pc = "loaded"
  /\ \E t \in Tables : mem' = [mem EXCEPT !.parts = t]
  /\ UNCHANGED <<disk, size, pc, job, allOK, history>>

Moved_HeaderOnly(m) == [m EXCEPT !.main.alt = size]
Moved_PastTheEnd(m) == [m EXCEPT !.main.alt = size + 1, !.second.at = size + 1]

\* MoveSecondHeaderToEnd()
Moved(m) == [m EXCEPT !.main.alt = size, !.second.at = size]

\* Command 'e' of gdisk's experts' menu, sgdisk -e.
MoveSecondHeaderToEnd ==
  /\ pc = "loaded"
  /\ mem' = Moved(mem)
  /\ UNCHANGED <<disk, size, pc, job, allOK, history>>

\* Command 'o'.  gdisk also makes a new protective MBR, sgdisk does not;
\* after a failed load sgdisk accepts no other edit.
NewTable ==
  /\ \/ pc = "loaded" /\ pc' = "loaded"
     \/ pc = "aborted" /\ pc' = "cleared"
  /\ mem' = ClearGPTData(size, Blank, IF Interactive THEN "gpt" ELSE mem.mbr)
  /\ UNCHANGED <<disk, size, job, allOK, history>>

\* gdisk's recovery menu, 'b', 'd', 'c' and 'e'.  A table that lies beyond
\* the end of the disk reads as garbage.
Recover ==
  /\ Interactive
  /\ pc = "loaded"
  /\ \/ mem' = [mem EXCEPT !.main = RebuiltMain(mem.second)]
     \/ mem' = [mem EXCEPT !.second = RebuiltSecond(mem.main)]
     \/ \E t \in IF mem.second.at <= size THEN {tab[mem.second.at]} ELSE Content :
          mem' = [mem EXCEPT !.parts = t]
     \/ mem' = [mem EXCEPT !.parts = tab[0]]
  /\ UNCHANGED <<disk, size, pc, job, allOK, history>>

\* gdisk's recovery menu, 'f'.  A protective MBR loads as a valid MBR with
\* nothing to convert.
LoadMBR ==
  /\ Interactive
  /\ pc = "loaded"
  /\ mem' = CASE mbr = "invalid" -> [mem EXCEPT !.mbr = "gpt"]
              [] mbr = "gpt" -> ClearGPTData(size, Blank, "gpt")
              [] OTHER -> XFormPartitions(size)
  /\ UNCHANGED <<disk, size, pc, job, allOK, history>>

\* A hybrid MBR, of at least one partition (MakeHybrid(), sgdisk -h), or
\* command 'n' of gdisk's experts' menu, a new protective MBR.
SetProtectiveMBR ==
  /\ pc = "loaded"
  /\ \/ mem.parts # Blank /\ mem' = [mem EXCEPT !.mbr = "hybrid"]
     \/ Interactive /\ mem' = [mem EXCEPT !.mbr = "gpt"]
  /\ UNCHANGED <<disk, size, pc, job, allOK, history>>

Quit ==
  /\ pc \in {"loaded", "aborted", "cleared"}
  /\ pc' = "idle"
  /\ begun' = NotBegun
  /\ UNCHANGED <<disk, size, job, mem, allOK, report>>

-----------------------------------------------------------------------------
(* Saving.                                                                 *)

\* A location holds a header and the table whose CRC the header has.
ConsistentIn(h, t, l) == h[l].ok /\ t[l] = h[l].crc
Consistent(l) == ConsistentIn(hdr, tab, l)

\* The backup copy is consistent and holds the table the main header means.
AgreesWithMain(l) == Consistent(l) /\ hdr[l].crc = hdr[0].crc
Healthy == /\ Consistent(0)
           /\ hdr[0].alt <= size
           /\ AgreesWithMain(hdr[0].alt)

\* The table a save to a backup at alt starts from, if the main copy is good
\* and the backup at alt replaces the one in use, or leaves a good one alone.
SoundStart(alt) ==
  IF /\ Consistent(0)
     /\ alt = size
     /\ SecondLoc(hdr, size) = alt \/ AgreesWithMain(SecondLoc(hdr, size))
  THEN {tab[0]} ELSE {}

RecomputeCRCs(m) == [m EXCEPT !.main.crc = m.parts, !.second.crc = m.parts]

\* Where the program is after an operation: gdisk stays in its menu unless
\* the operation succeeded, sgdisk always exits.
AfterOperation(ok) == IF Interactive /\ ~ok THEN "loaded" ELSE "idle"

\* SaveGPTData() up to its first write.  A backup header beyond the end of
\* the disk is moved, one before it is moved if the user agrees.  The save
\* is refused if a check fails, the user declines or the open fails.
SaveGPTData ==
  /\ pc \in {"loaded", "cleared"}
  /\ \E move \in IF mem.main.alt > size THEN {TRUE}
                  ELSE IF mem.main.alt = size THEN {FALSE}
                  ELSE IF Interactive THEN BOOLEAN ELSE {TRUE} :
       mem' = RecomputeCRCs(IF move THEN Moved(mem) ELSE mem)
  /\ \/ /\ pc' = "bt"
        /\ job' = "save"
        /\ allOK' = TRUE
        /\ report' = NoReport
        /\ begun' = [old |-> SoundStart(mem'.main.alt),
                     from |-> SecondLoc(hdr, size)]
     \/ /\ pc' = AfterOperation(FALSE)
        /\ UNCHANGED <<job, allOK, history>>
  /\ UNCHANGED <<disk, size>>

\* Tears that nothing on the disk or in memory holds or names.
FreshTears ==
  {x \in Tears : /\ \A l \in Loc : tab[l] # x /\ hdr[l].crc # x
                 /\ mem.parts # x /\ mem.main.crc # x /\ mem.second.crc # x
                 /\ report.table # x /\ x \notin begun.old}

\* What the tables of places may hold after a write of x to a part of their
\* sectors: what they held, if the write changed none of it.
Hit(places, x) ==
  {t \in [places -> Content] :
     \A k \in places : t[k] = tab[k] \/ t[k] \in FreshTears \ {x}}

\* The table of l becomes x; the headers in lost were under what was written.
StoreTable(l, x, lost) ==
  /\ \E t \in Hit(Meets(l), x) :
       tab' = [k \in Loc |-> IF k = l THEN x
                             ELSE IF k \in Meets(l) THEN t[k] ELSE tab[k]]
  /\ hdr' = [k \in Loc |-> IF k \in lost THEN BadHeader ELSE hdr[k]]

\* A table write that stops early.
CutTable(l, new) ==
  \E x \in {tab[l]} \cup (IF tab[l] = new THEN {} ELSE FreshTears) :
    \E lost \in SUBSET Under(l) : StoreTable(l, x, lost)

\* SavePartitionTable() when it reports no error: it does not compare the
\* count it wrote with the count it wanted.
PutTable(l, new) ==
  \/ StoreTable(l, new, Under(l))
  \/ ShortWrites /\ CutTable(l, new)

\* SaveHeader() when it reports no error.
PutHeader(l, x) ==
  /\ hdr' = [hdr EXCEPT ![l] = x]
  /\ \E t \in Hit(Over(l), Blank) :
       tab' = [k \in Loc |-> IF k \in Over(l) THEN t[k] ELSE tab[k]]

WriteBackupTable_MainFirst ==
  /\ pc = "bt"
  /\ PutTable(0, mem.parts)
  /\ pc' = "bh"
  /\ UNCHANGED <<mbr, size, job, mem, allOK, history>>

WriteBackupTable ==
  /\ pc = "bt"
  /\ PutTable(mem.second.at, mem.parts)
  /\ pc' = "bh"
  /\ UNCHANGED <<mbr, size, job, mem, allOK, history>>

WriteBackupHeader_OldPlace ==
  /\ pc = "bh"
  /\ PutHeader(SecondLoc(hdr, size), mem.second)
  /\ pc' = "mt"
  /\ UNCHANGED <<mbr, size, job, mem, allOK, history>>

WriteBackupHeader_ThenMBR ==
  /\ pc = "bh"
  /\ PutHeader(mem.main.alt, mem.second)
  /\ pc' = "mb"
  /\ UNCHANGED <<mbr, size, job, mem, allOK, history>>

WriteBackupHeader ==
  /\ pc = "bh"
  /\ PutHeader(mem.main.alt, mem.second)
  /\ pc' = "mt"
  /\ UNCHANGED <<mbr, size, job, mem, allOK, history>>

WriteMainTable ==
  /\ pc = "mt"
  /\ PutTable(0, mem.parts)
  /\ pc' = "mh"
  /\ UNCHANGED <<mbr, size, job, mem, allOK, history>>

WriteMainHeader ==
  /\ pc = "mh"
  /\ PutHeader(0, mem.main)
  /\ pc' = "mb"
  /\ UNCHANGED <<mbr, size, job, mem, allOK, history>>

WriteMBR ==
  /\ pc = "mb"
  /\ mbr' = mem.mbr
  /\ pc' = "sync"
  /\ UNCHANGED <<hdr, tab, size, job, mem, allOK, history>>

FinishSave_AnyStatus ==
  /\ pc = "sync"
  /\ pc' = AfterOperation(allOK)
  /\ job' = "none"
  /\ report' = [kind |-> "saved", table |-> mem.parts]
  /\ begun' = NotBegun
  /\ UNCHANGED <<disk, size, mem, allOK>>

\* DiskSync(), the message and Close().
FinishSave ==
  /\ pc = "sync"
  /\ pc' = AfterOperation(allOK)
  /\ job' = "none"
  /\ report' = IF allOK THEN [kind |-> "saved", table |-> mem.parts] ELSE NoReport
  /\ begun' = NotBegun
  /\ UNCHANGED <<disk, size, mem, allOK>>

-----------------------------------------------------------------------------
(* Destroying the GPT, with or without the MBR, and converting it to MBR.  *)

\* DestroyGPT() up to its first write: it blanks the two copies of an empty
\* table it lays out first, and returns 1 if the open for writing fails.
DestroyGPT(then, kind) ==
  /\ mem' = ClearGPTData(size, Blank, kind)
  /\ allOK' = TRUE
  /\ pc' \in {"dmh"} \cup (IF OpenMayFail THEN {"dsync"} ELSE {})
  /\ job' = then

\* sgdisk -z and -Z, command 'z' of gdisk's experts' menu.
Zap ==
  /\ \/ /\ pc = "loaded"
        /\ \E then \in {"destroy", "zapAll"} : DestroyGPT(then, mem.mbr)
     \/ /\ pc \in {"aborted", "cleared"}
        /\ \E then \in {"destroyAborted", "zapAborted"} : DestroyGPT(then, mem.mbr)
  /\ report' = NoReport
  /\ begun' = NotBegun
  /\ UNCHANGED <<disk, size>>

ConvertToMBR_DestroyFirst ==
  /\ pc = "loaded"
  /\ mem.parts # Blank
  /\ DestroyGPT("toMbr", "mbr")
  /\ report' = NoReport
  /\ begun' = NotBegun
  /\ UNCHANGED <<disk, size>>

\* sgdisk -m writes the MBR and then destroys the GPT.  Command 'g' of
\* gdisk's recovery menu does the opposite, or, if the user declines, makes
\* a new protective MBR in memory.  Only used partitions can be converted.
ConvertToMBR ==
  /\ pc = "loaded"
  /\ \/ /\ ~Interactive
        /\ mem.parts # Blank
        /\ mem' = [mem EXCEPT !.mbr = "mbr"]
        /\ allOK' = TRUE
        /\ pc' = "mo"
        /\ job' = "toMbr"
     \/ /\ Interactive
        /\ mem.parts # Blank
        /\ DestroyGPT("toMbr", "mbr")
     \/ /\ Interactive
        /\ mem' = [mem EXCEPT !.mbr = "gpt"]
        /\ UNCHANGED <<pc, job, allOK>>
  /\ report' = NoReport
  /\ begun' = NotBegun
  /\ UNCHANGED <<disk, size>>

BlankMainHeader ==
  /\ pc = "dmh"
  /\ PutHeader(0, BadHeader)
  /\ pc' = "dmt"
  /\ UNCHANGED <<mbr, size, job, mem, allOK, history>>

BlankMainTable ==
  /\ pc = "dmt"
  /\ PutTable(0, Blank)
  /\ pc' = "dbt"
  /\ UNCHANGED <<mbr, size, job, mem, allOK, history>>

BlankBackupTable_Last ==
  /\ pc = "dbt"
  /\ PutTable(mem.second.at, Blank)
  /\ pc' = "dsync"
  /\ UNCHANGED <<mbr, size, job, mem, allOK, history>>

BlankBackupTable ==
  /\ pc = "dbt"
  /\ PutTable(mem.second.at, Blank)
  /\ pc' = "dbh"
  /\ UNCHANGED <<mbr, size, job, mem, allOK, history>>

BlankBackupHeader ==
  /\ pc = "dbh"
  /\ PutHeader(mem.second.at, BadHeader)
  /\ pc' = "dsync"
  /\ UNCHANGED <<mbr, size, job, mem, allOK, history>>

\* DestroyGPT()'s callers that write to the MBR after it.
BlanksMBR == job \in {"zapAll", "zapAborted"}
MbrFollows == IF Interactive THEN allOK /\ (BlanksMBR \/ job = "toMbr") ELSE BlanksMBR

\* sgdisk goes on with its next option, but after -m it does nothing more.
AfterDestroy(ok) ==
  IF Interactive \/ job = "toMbr" THEN AfterOperation(ok)
  ELSE IF job \in {"destroy", "zapAll"} THEN "loaded" ELSE "aborted"

\* The end of DestroyGPT() and what its callers do next.
FinishDestroy ==
  /\ pc = "dsync"
  /\ \/ /\ MbrFollows
        /\ pc' = "mo"
        /\ UNCHANGED <<job, report>>
     \/ /\ ~MbrFollows
        /\ pc' = AfterDestroy(allOK)
        /\ job' = "none"
        /\ report' = IF ~allOK THEN NoReport
                     ELSE [kind |-> IF job = "toMbr" THEN "converted" ELSE "gone",
                           table |-> Blank]
  /\ UNCHANGED <<disk, size, mem, allOK, begun>>

\* DestroyMBR(), and SaveMBR() in a conversion.
WriteMBROnly ==
  /\ pc = "mo"
  /\ mbr' = IF job = "toMbr" THEN mem.mbr ELSE "invalid"
  /\ \/ /\ job = "toMbr" /\ ~Interactive
        /\ DestroyGPT("toMbr", mem.mbr)
        /\ UNCHANGED report
     \/ /\ BlanksMBR \/ Interactive
        /\ pc' = AfterDestroy(TRUE)
        /\ job' = "none"
        /\ report' = IF ~allOK THEN NoReport
                     ELSE [kind |-> IF job = "toMbr" THEN "converted" ELSE "gone",
                           table |-> Blank]
        /\ UNCHANGED <<mem, allOK>>
  /\ UNCHANGED <<hdr, tab, size, begun>>

-----------------------------------------------------------------------------
(* Failures.                                                               *)

\* The location of the sectors that the step pc is about to write.
TableTarget == IF pc \in {"mt", "dmt"} THEN 0 ELSE mem.second.at
HeaderTarget == IF pc \in {"mh", "dmh"} THEN 0
                ELSE IF pc = "bh" THEN mem.main.alt ELSE mem.second.at
NewTableContents == IF pc \in DestroyPhases THEN Blank ELSE mem.parts
NewHeaderContents == CASE pc = "bh" -> mem.second
                       [] pc = "mh" -> mem.main
                       [] OTHER -> BadHeader

\* The write that pc is about to do is cut short.
Interrupted ==
  /\ \/ /\ pc \in {"bt", "mt", "dmt", "dbt"}
        /\ CutTable(TableTarget, NewTableContents)
     \/ /\ pc \in {"bh", "mh", "dmh", "dbh"}
        /\ \/ UNCHANGED <<hdr, tab>>
           \/ /\ hdr[HeaderTarget] # NewHeaderContents
              /\ PutHeader(HeaderTarget, BadHeader)
     \/ /\ pc \in {"mb", "mo"}
        /\ UNCHANGED <<hdr, tab>>
  /\ UNCHANGED <<mbr, size>>

\* The device reports an error.  The steps that would follow are skipped,
\* but only a failure of the first write of a save skips DiskSync().
FailWrite ==
  /\ Interrupted
  /\ \/ /\ pc \in {"bh", "mt", "mh", "mb"}
        /\ pc' = "sync"
        /\ UNCHANGED <<job, report>>
     \/ /\ pc \in {"dmh", "dmt", "dbt", "dbh"}
        /\ pc' = "dsync"
        /\ UNCHANGED <<job, report>>
     \/ /\ pc = "bt" \/ (pc = "mo" /\ job = "toMbr")
        /\ pc' = AfterOperation(FALSE)
        /\ job' = "none"
        /\ report' = NoReport
     \/ /\ pc = "mo" /\ BlanksMBR
        /\ pc' = AfterDestroy(TRUE)
        /\ job' = "none"
        /\ report' = IF allOK THEN [kind |-> "gone", table |-> Blank] ELSE NoReport
  /\ allOK' = FALSE
  /\ UNCHANGED <<mem, begun>>

\* The program is killed, or the machine stops with every write done so far
\* on the disk: during a write or between two of them.
Kill ==
  /\ pc \in SavePhases \cup DestroyPhases \cup {"mo"}
  /\ \/ Interrupted
     \/ UNCHANGED <<disk, size>>
  /\ pc' = "idle"
  /\ job' = "none"
  /\ UNCHANGED <<mem, allOK, history>>

\* The disk, an image or an array, is made larger or smaller.  DestroyGPT()
\* blanked the copy at the old end only: no promise is kept past a resize.
ResizeDisk ==
  /\ pc = "idle"
  /\ \E n \in Sizes \ {size} :
       /\ size' = n
       /\ hdr' = [l \in Loc |-> IF l <= n THEN hdr[l] ELSE BadHeader]
       /\ \E t \in Hit(Over(n), Blank) :
            tab' = [l \in Loc |-> IF l <= n THEN tab[l]
                                  ELSE IF l \in Over(n) THEN t[l] ELSE Blank]
  /\ report' = CASE report.kind \in {"saved", "shrunk"} /\ size' < hdr[0].alt ->
                     [report EXCEPT !.kind = "shrunk"]
                 [] report.kind \in {"gone", "converted"} -> NoReport
                 [] OTHER -> report
  /\ begun' = NotBegun
  /\ UNCHANGED <<mbr, pc, job, mem, allOK>>

\* One sector range of a healthy disk is overwritten by something else.
DamagedHeader(l) == [hdr EXCEPT ![l] = BadHeader]
Damage ==
  /\ pc = "idle"
  /\ Healthy
  /\ \E l \in {0, hdr[0].alt} :
       \/ hdr' = DamagedHeader(l) /\ UNCHANGED tab
       \/ (\E x \in FreshTears : tab' = [tab EXCEPT ![l] = x]) /\ UNCHANGED hdr
  /\ report' = NoReport
  /\ begun' = NotBegun
  /\ UNCHANGED <<mbr, size, pc, job, mem, allOK>>

-----------------------------------------------------------------------------
\* A disk without GPT data, or one on which a table was saved before.
Init ==
  /\ size \in Sizes
  /\ \/ /\ hdr = [l \in Loc |-> BadHeader]
        /\ tab = [l \in Loc |-> Blank]
        /\ mbr \in {"invalid", "mbr"}
     \/ \E t \in Tables, x \in {Blank} \cup Tears :
          /\ hdr = [l \in Loc |-> IF l = 0 THEN GoodHeader(t, 0, size)
                                 ELSE IF l = size THEN GoodHeader(t, size, 0)
                                 ELSE BadHeader]
          /\ tab = [l \in Loc |-> IF l \in {0, size} THEN t
                                 ELSE IF l \in Meets(size) THEN x ELSE Blank]
          /\ mbr \in {"gpt", "hybrid"}
  /\ pc = "idle"
  /\ job = "none"
  /\ mem = ClearGPTData(size, Blank, "invalid")
  /\ allOK = TRUE
  /\ report = NoReport
  /\ begun = NotBegun

Command ==
  \/ LoadPartitions \/ Edit \/ MoveSecondHeaderToEnd \/ NewTable \/ Recover
  \/ LoadMBR \/ SetProtectiveMBR \/ Quit \/ SaveGPTData \/ Zap \/ ConvertToMBR

Write ==
  \/ WriteBackupTable \/ WriteBackupHeader \/ WriteMainTable
  \/ WriteMainHeader \/ WriteMBR \/ FinishSave
  \/ BlankMainHeader \/ BlankMainTable \/ BlankBackupTable
  \/ BlankBackupHeader \/ FinishDestroy \/ WriteMBROnly

Fault == FailWrite \/ Kill \/ ResizeDisk \/ Damage

Next == Command \/ Write \/ Fault

Spec == Init /\ [][Next]_vars

-----------------------------------------------------------------------------
(* Properties.                                                             *)

\* Every variable stays in its range: a header, in memory or on the disk,
\* places both copies where they lie on a disk of a possible size.
TypeOK ==
  /\ hdr \in [Loc -> Header]
  /\ tab \in [Loc -> Content]
  /\ mbr \in MBRValidity
  /\ size \in Sizes
  /\ pc \in Phases
  /\ job \in Jobs
  /\ mem \in Memory
  /\ allOK \in BOOLEAN
  /\ report \in [kind: {"none", "saved", "shrunk", "gone", "converted"},
                table: Content]
  /\ begun \in [old: SUBSET Content, from: Loc]

\* What the program finds when it next loads the disk.
Loaded == ForceLoadGPTData(hdr, tab, size)

\* SaveGPTData() writes the backup table where the backup header says it is
\* and the backup header where both headers say it is, within the disk; so
\* a good header on the disk names its own sector.  secondHeader.currentLBA,
\* mainHeader.backupLBA and the LBA written to come from separate fields.
HeadersAgree ==
  /\ \A l \in Loc : hdr[l].ok => hdr[l].at = l /\ (l # 0 => hdr[l].alt = 0)
  /\ pc \in SavePhases => /\ mem.second.at = mem.main.alt
                          /\ mem.main.alt \in Sizes /\ mem.main.alt <= size

\* "The operation has completed successfully": the table is what the next
\* load finds, also after the disk was resized; both copies pass every check
\* unless the disk's new end cut off the backup.
SuccessIsDurable ==
  report.kind \in {"saved", "shrunk"} =>
    /\ Loaded.parts = report.table
    /\ Loaded.state \in {"gpt_valid", "gpt_corrupt"}
    /\ report.kind = "saved" => Loaded.state = "gpt_valid"

\* DestroyGPT() returned 1: no later load finds a GPT, and a conversion
\* leaves the MBR as what is loaded.
DestroyedMeansGone ==
  report.kind \in {"gone", "converted"} =>
    /\ Loaded.state = "gpt_invalid"
    /\ report.kind = "converted" => GPTDataChoice(Loaded.state, mbr) = "use_mbr"

\* "To top it off, write the protective MBR": a disk that was just saved loads
\* again as GPT without a question to the user, because the MBR in front of
\* it is protective or hybrid.
SavedDiskIsAccepted ==
  report.kind = "saved" => GPTDataChoice(Loaded.state, mbr) = "use_gpt"

\* Two healthy copies survive the loss of any one header or table: the load
\* finds the same partitions.  The backup stands in for a lost main header
\* only at the end of the disk.
SurvivesOneFault ==
  pc = "idle" /\ Healthy =>
    \A l \in {0, hdr[0].alt} :
      /\ \A x \in Content \ {tab[0]} :
           LET found == ForceLoadGPTData(hdr, [tab EXCEPT ![l] = x], size)
           IN  found.parts = tab[0] /\ found.state = "gpt_corrupt"
      /\ (l = 0 => hdr[0].alt = size) =>
           LET found == ForceLoadGPTData(DamagedHeader(l), tab, size)
           IN  found.parts = tab[0] /\ found.state = "gpt_corrupt"

\* "Problem with main partition table; if backup is OK, use it instead":
\* a backup table with the CRC in its own header replaces a bad main table.
BackupReplacesBadTable ==
  pc = "idle" /\ hdr[0].ok /\ ~Consistent(0) /\ Consistent(SecondLoc(hdr, size)) =>
    Loaded.parts = tab[SecondLoc(hdr, size)]

\* A save that moves the backup to the end of a disk that grew by at least
\* the sectors of a table, and is stopped anywhere, is all or nothing for the
\* program's own load: it finds the old partitions or the new ones, never a
\* mixture.  On a disk that grew by less the new backup table is written over
\* the old one, which the main header names until it is written itself, and
\* the load may find a main table that was cut short.
RelocatingSaveIsAtomic ==
  begun.old # {} /\ begun.from + TableSectors <= size /\ pc \in SavePhases \cup {"idle"} =>
    /\ Loaded.parts \in begun.old \cup {mem.parts}
    /\ Loaded.state # "gpt_invalid"

\* A save stopped anywhere never leaves a GPT that passes every check and
\* holds anything but the old partitions or the new ones.
InterruptedSaveIsNoticed ==
  begun.old # {} /\ pc \in SavePhases \cup {"idle"} /\ Loaded.state = "gpt_valid" =>
    Loaded.parts \in begun.old \cup {mem.parts}

\* The contents of the first copy whose table has the CRC in its own header:
\* the main copy, the backup where a load looks for it, or a backup at the
\* end of the disk.
Recoverable ==
  IF Consistent(0) THEN {tab[0]}
  ELSE IF Consistent(SecondLoc(hdr, size)) THEN {tab[SecondLoc(hdr, size)]}
  ELSE IF Consistent(size) THEN {tab[size]}
  ELSE {}

\* SaveGPTData() writes the backup first so that, from a sound disk, one copy
\* is good at every moment: the old partitions or the new.  It is not always
\* the copy that a load takes (see RelocatingSaveIsAtomic).
OneCopyAlwaysGood ==
  begun.old # {} /\ pc \in SavePhases \cup {"idle"} =>
    Recoverable \in {begun.old, {mem.parts}}

\* The MBR is written last: when a save changes it, both copies of the new
\* table are already in place.
MbrIsWrittenLast ==
  [][mbr' # mbr /\ pc \in SavePhases =>
       Consistent(0) /\ tab[0] = mem.parts /\ AgreesWithMain(mem.main.alt)]_vars

\* sgdisk -m: the first sector of the GPT is blanked only when the MBR
\* already holds the partitions.
MbrBeforeGptIsGone ==
  [][job = "toMbr" /\ <<hdr, tab>>' # <<hdr, tab>> => mbr = "mbr"]_vars

\* A save replaces the recoverable table in one step (see AtomicUpdate).
wanted == IF pc \in SavePhases /\ begun.old # {} THEN {mem.parts} ELSE {}
Abstract == INSTANCE AtomicUpdate WITH value <- Recoverable
SaveIsAnAtomicUpdate == Abstract!Spec

=============================================================================
