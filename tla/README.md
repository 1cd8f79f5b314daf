# GPT fdisk: TLA+ models and proofs

GPT fdisk (gdisk, sgdisk, cgdisk, fixparts) edits partition tables. It is a
sequential program; what makes it hard to get right is the disk. A GPT exists
twice, each copy in two parts with three checksums, next to an MBR that other
systems read instead. A save is five writes that can fail, be cut short or be
the last thing before a power cut, and the next load has to make sense of
whatever is there, possibly on a disk whose size has changed.

This directory models that in TLA+, checks it with TLC on small disks, and
proves the main results with TLAPS for every size of the model. Paths below
are relative to the repository (`src/`).

## 1. The system

| Component | State | Operations | What makes it correct |
|---|---|---|---|
| **GPT store** `gpt.cc`, with `gpttext.cc` and `gptcl.cc` as its callers | two headers, one partition array, one MBR in memory; the same on disk, the GPT twice | `LoadPartitions`, `ForceLoadGPTData`, `CheckTable`, `UseWhichPartitions`, `Rebuild*Header`, `MoveSecondHeaderToEnd`, `SaveGPTData`, `DestroyGPT`, `DestroyMBR`, `SaveMBR`, `XFormPartitions`, backup files | a save is all or nothing; what was reported as saved or destroyed is; one fault loses nothing; nothing is written past the end |
| **Table geometry** `gpt.cc` | numParts, the LBAs of both tables, first and last usable LBA | `SetGPTSize`, `MoveMainTable`, `MoveSecondTable`, `CheckGPTSize`, `Verify` | the two headers, the two tables and the usable range never overlap, in 64-bit arithmetic; a refused change changes nothing |
| **Partition array and free space** `gpt.cc`, `gptpart.cc` | start, end, type per entry | `CreatePartition`, `DeletePartition`, `SortGPT`, `SwapPartitions`, `IsFree`, `FindFirstAvailable`, `FindLastInFree`, `FindFirstInLargest`, `Align` | partitions stay disjoint and in range; the searches return what their comments say |
| **Backup files** `gpt.cc` | headers, table and MBR in a file | `SaveGPTBackup`, `LoadGPTBackup` | a table from another disk, or from no table at all, is never saved by accident |
| **sgdisk's option loop** `gptcl.cc` | `saveData`, `neverSaveData`, `saveNonGPT`, `pretend`, the exit status | one step per option, one save at the end | an option that failed keeps the disk as it was |
| **OHOS wiper** `ohos/ohos_partition_wiper.cpp` | ranges of new partitions | record, forget, clear, wipe before the save | what the run created is wiped, and nothing else |
| **Hybrid and protective MBRs** `mbr.cc`, `gptcl.cc`, `gpttext.cc` | the MBR's entries and its class | `BuildMBR`, `MakeHybrid`, `OptimizeEESize`, `DeleteByLocation` | every entry of type EE covers the GPT's header and no partition; every other entry is a partition of the GPT |
| **gdisk's menus** `gpttext.cc` | the menu | commands that call the store | no order of commands makes a save inconsistent |
| **cgdisk** `gptcurses.cc` | the list of spaces, the cursor | `IdentifySpaces`, `MakeNewPart`, `DeletePartition`, `SaveDisk` | every sector is in one space; a default stays in its space |
| **MBR on disk** `basicmbr.cc` | 128 entries, the EBR chain | `ReadMBRData`, `ReadLogicalParts`, `WriteMBRData` | what is written is what is read back; a chain that loops is cut off |
| **MBR layout** `basicmbr.cc`, `mbrpart.cc` | primary, logical or omitted, per entry | `MakeItLegal`, `CreateExtended`, `SetInclusionwChecks`, `SortMBR` | at most four entries in the MBR, logicals contiguous, no overlaps; a sound table stays as it is |
| **fixparts** `fixparts.cc`, `ohos/ohos_fixparts.cpp` | the session | `DoMBR`, `BlankGPTData`, `DoMenu`, `OhosMbrHelper` | a session changes only what its user asked for |
| **Disk access** `diskio-unix.cc`, `ohos/src/libpart` | open, open for writing | `OpenForRead`, `OpenForWrite`, `Seek`, `Read`, `Write`, `DiskSync`, `IoctlRetry` | sector-rounded transfers, one flush at the end, bounded retries |
| BSD labels, attributes, types, GUIDs, CRC, input parsing | - | pure functions or static tables | - |

The front ends call `GPTData`, which owns one `DiskIO` and one `BasicMBRData`.
There is one thread, and interaction is by calls; the disk is the only state
that outlives a run, and another program, the kernel's cache or the device may
change it between runs. What is hard: kills between and inside writes, write
errors with the program still in its menu, short writes, power loss with a
cache that reorders, growing and shrinking disks, recovery commands in any
order, headers rebuilt from each other, unsigned LBA arithmetic at the ends of
the disk, MBR entries moved in several passes, chains of links read from the
disk, and options that each change a part of the same state before one save. `PROJECT.json` lists each
hazard at its line.

## 2. The modules

### GptStore

The store, for gdisk (`Interactive = TRUE`) and sgdisk (`FALSE`).

*State.* Location 0 is the main copy, location *n* > 0 a backup copy that ends
at the last sector of a disk of size *n*; `size` is the end of the disk now.
Locations have their sectors (`HeaderSector`, `TableRange`, with tables of
`TableSectors` sectors), and the ends of two disks that differ by fewer sectors
than a copy has overlap: a write to one of them also destroys the headers and
tables of the other that it covers (`Under`, `Meets`, `Over`).
`hdr[l]` is the header sector of location *l* as the fields the code decides
by: validity (signature, revision and CRC of the header together), the CRC of
the table, its own LBA and the other header's. `tab[l]` is the table there and
`mbr` the class of the MBR (`enum MBRValidity`). `mem` holds `mainHeader`,
`secondHeader`, `partitions` and `protectiveMBR`; `pc`, `job` and `allOK` are
where the program is. `report` and `begun` are history variables: the last
operation reported as a success, and the table that the save under way began
from with the place of the backup at that time.

*Data.* A partition array is an element of `Tables`. A write that stops half-way
leaves an element of `Tears` that no header names: a CRC is the contents it was
computed from, so collisions are not modelled. A single sector (a header, the
MBR) is written entirely or not at all, or, for a header, left unreadable.

*Actions.*

| Action | Code |
|---|---|
| `LoadPartitions` | `LoadPartitions()` with `ForceLoadGPTData()`, `CheckTable()`, `UseWhichPartitions()` and, where gdisk asks, the user's answer |
| `Edit` | every command that changes the array only |
| `NewTable`, `MoveSecondHeaderToEnd`, `Recover`, `LoadMBR`, `SetProtectiveMBR` | commands o, e, n of the main and experts' menus; b, c, d, e, f, h of the recovery menu; `sgdisk -o`, `-e`, `-h` |
| `SaveGPTData` | `SaveGPTData()` up to its first write, with the refusals |
| `WriteBackupTable` ... `WriteMBR`, `FinishSave` | its five writes, then `DiskSync()` and the message |
| `Zap`, `ConvertToMBR`, `BlankMainHeader` ... `FinishDestroy`, `WriteMBROnly` | `DestroyGPT()` write by write and its callers: `sgdisk -z`, `-Z`, `-m`, gdisk's z and g, with the order of MBR and GPT that each has |
| `FailWrite`, `Kill` | a device error at any write, with the code's error path; the end of the process in or between writes |
| `ResizeDisk`, `Damage` | between runs: the disk grows or shrinks, one header or table of a healthy disk is overwritten |

sgdisk goes on with its next option after `-z` or `-Z`, in the loop for loaded
disks or in the one for refused disks; after `-m` it does nothing more.

Slips that a later change could make stand beside the definition they vary,
with a suffix (`Moved_HeaderOnly`); the specification does not use them. They
show that each property can fail.

### AtomicUpdate

What a save promises, without the disk: while an update is under way the stored
value is the old one or the wanted one. `GptStore` implements it with the
refinement mapping `value <- Recoverable` (the contents of the first copy that
agrees with its own header) and `wanted` (the array being saved, if the save
began from a sound disk): `SaveIsAnAtomicUpdate`.

A save begins from a *sound* disk if the main copy is good and the backup
either will be overwritten in place or agrees with the main copy
(`SoundStart`). Without that the write order cannot keep a promise: if the main
copy is already bad, the first write destroys the only good one.
A third place counts for `Recoverable`, a backup at the end of the disk that the
main header does not name yet: on a disk that grew by less than a table, the new
backup may have replaced the old one when the main table is cut short.

### GptStorePower

`GptStore` above a page cache. Writes go to the cache, `DiskSync()` copies it to
the medium, and a loss of power keeps or loses each unflushed sector range
independently, or tears a table. A flush also happens before a load: the model
assumes that the kernel has written everything back before the next run.

### FreeSpace

The searches for free sectors as operators on a space (the array, the usable
range, the alignment): the loops of `gpt.cc` over the array as folds, the loops
that repeat until nothing moves as recursive functions. An entry is its two
sectors; unused entries have both 0. `IdentifySpaces` is the list of partitions
and gaps that cgdisk shows, as a sequence in the order of the disk;
`DefaultEnd` is the end that cgdisk offers for a new partition.

### GptTable

The geometry of one GPT, and how gdisk, sgdisk and cgdisk edit it.

*State.* `size` is `diskSize`; `parts` the array; `main` and `second` the
headers with `pte` (`partitionEntriesLBA`), `first` and `last`
(`firstUsableLBA`, `lastUsableLBA`) and `backup` (`mainHeader.backupLBA`,
`secondHeader.currentLBA`); `align` is `sectorAlignment`, `neverSave` sgdisk's
flag. `pc` names the program that runs, `"gdisk"`, `"sgdisk"` or `"cgdisk"`;
each may have any session. While `pc = "stored"` none runs and the variables are the
disk; a session that ends without a save is one that was never begun. A save is one
step: its writes are GptStore's subject. It ends the session; that cgdisk's menu
goes on after it is a new session.

| Action | Code |
|---|---|
| `Load` | `LoadPartitions()` with a good main copy, `ComputeAlignment()` |
| `New` | `sgdisk -n`, `-N` with any sectors; gdisk's prompts with the ranges they accept; cgdisk's `MakeNewPart()`, whose user chooses a space of `IdentifySpaces` (`NewFromSpace`); all through `GPTData::CreatePartition()` |
| `Delete`, `Swap`, `Sort`, `SetAlignment` | commands d, t, s, l; `sgdisk -d`, `-r`, `-s`, `-a`; cgdisk has the first and the last (`FullMenu`) |
| `ClearGPTData`, `SetGPTSize`, `MoveMainTable`, `MoveSecondTable`, `MoveSecondHeaderToEnd` | commands o, s, j, k, e; `sgdisk -o`, `-S`, `-j`, `-k`, `-e` |
| `SaveGPTData` | its corrections in their order (asked for by gdisk, made by sgdisk), its checks and refusals |
| `ResizeDisk` | between sessions |

`Failed` is sgdisk's error path of an option: the state stays, and the session
saves nothing. Subtraction of sector numbers wraps at `Word` where the code
computes a bound or the last usable sector by it.

### MbrLayout

The rules of `BasicMBRData` as operators on its array: `IsLegal`, the passes of
`MakeItLegal`, `UpdateCanBeLogical`, `SetInclusionwChecks`, `SortMBR`,
`CreateExtended`, the searches for free sectors and `MakeBiggestPart`. A
partition is its start, its length, how it is included and its type, of which
four are told apart: none, EE, extended, any other. A pass is a loop (`Loop`, a
recursive function) over the entries in the order of the code's, each step of
which reads what the steps before it left. Fields have 32 bits (`Max32`) and
sector numbers computed from them 64 (`Max64`), and both wrap. `std::sort` may
leave any order that its comparison allows, and blank entries, which the menu may
have marked, in any order behind the others, so `SortMBR` and `CreateExtended`
are sets of results.

### FixParts

fixparts, the scripted fixparts of `ohos_fixparts.cpp` and gdisk's recovery
command g, which reach the MBR menu by three ways, session after session.

*State.* `disk` gives each sector a record (an MBR or an EBR with its four
entries), a GPT header or other data. `mbr` is `partitions[]`; `walk` has the
variables of `ReadLogicalParts()` with its array of EBRs read so far; `ebr`
those of `WriteMBRData()`. `auxLoad` and `auxSave` are history variables: the
table that the load should have found, the table being saved, and what was on
the disk before.

| Action | Code |
|---|---|
| `ReadMBR`, `BeginChain`, `ReadEbr`, `EndChain`, `EndLoad` | `ReadMBRData()`, and `ReadLogicalParts()` one EBR at a time, with the look at the EBRs read before; the refusal of a protective MBR |
| `DoMBR` | `DoMBR()` of `fixparts.cc`: old GPT headers found in sector 1 and the last one (`CheckForGPT`) and erased, each by a write of its own (`BlankGPTData`), then `MakeItLegal()` |
| `XFormToMBR` | gdisk's way in: primaries and logicals made from GPT partitions |
| `SetInclusion`, `Sort`, `ChangeType` | the commands of `DoMenu()`; `OhosMbrHelper` for the scripted program |
| `BeginWrite`, `WriteMBR`, `WriteEBR` | `CreateExtended()`, then `WriteMBRData()`, one sector at a time, with write errors and sectors past the end |
| `Quit` | command q, or a kill, at any moment |

### HybridMbr

Protective and hybrid MBRs as operators over MbrLayout: `BuildMBR` (`sgdisk -h`
and `-m`), `MakeHybrid` (gdisk's command h, with its variables that survive a
number that is no partition), `OptimizeEESize`, `DeleteByLocation`, and
`XFormPartitions` from an MBR to a GPT.

### SgdiskOptions

One run of sgdisk: `DoOptions()` as one action per option that changes state.
It composes HybridMbr (by `INSTANCE`), FreeSpace and the wiper.

*State.* `disk` and `backup` outlive the run; `mem` is the partition array, the
alignment and the MBR with its class; `flags` the four flags and the wipe mode;
`retval` the exit status; `wiper` the list `ranges_`; `zeroed` the sectors that
the run wiped. `left` bounds runs, options and faults. `aux` is what happened
in the run, for the properties.

| Action | Code |
|---|---|
| `Start`, `UnknownWipeMode` | the first pass over the options, `LoadPartitions()` without a user |
| `OptNew` ... `OptAttributes` | the switch for loaded disks: each sets `saveData` or `neverSaveData`, or writes the disk itself (`OptGptToMbr`, `OptZap`), the file (`OptBackup`), or the second disk (`OptReplicate`) |
| `OptClear`, `OptLoadBackup`, `OptZap` | these three also in the loop for refused disks |
| `EndOptions`, `Wipe`, `Save`, `SaveFails`, `Exit` | what follows the loop: `OhosWipePartitions()` write by write, `SaveGPTData()` with its checks, the exit status |
| `GdiskHybrid` | between runs, gdisk's `MakeHybrid` and a save |

Here a save is one step again; GptStore has its writes, GptTable the table's
place.

### Proof modules and MC modules

| Module | About |
|---|---|
| `FoldProofs` | induction, folds, loops and recursive functions, for the other modules |
| `GptStoreProofs`, `GptStorePowerProofs` | GptStore and its refinement of AtomicUpdate; the same with the page cache |
| `FreeSpaceProofs`, `GptTableProofs` | the searches and lists of FreeSpace; GptTable |
| `MbrLayoutProofs`, `FixPartsProofs` | the rules of MbrLayout; FixParts |
| `SgdiskOptionsProofs` | SgdiskOptions, with HybridMbr and the wiper |

`MCGptStore` adds the symmetry of tears for TLC, `MCGptTable` the sectors that
may be asked for, `MCFixParts` and `MCSgdiskOptions` the disks, files and
numbers that a first session may be given.

## 3. Properties

| Property | Says |
|---|---|
| `TypeOK` | types; every place that a header names is a location of a disk of a possible size |
| `HeadersAgree` | `secondHeader.currentLBA`, `mainHeader.backupLBA` and the sector written to agree at every save and lie on the disk, after any sequence of loads, rebuilds, moves and clears |
| `SuccessIsDurable` | after "The operation has completed successfully" the next load finds that table in two good copies, and in one if the disk then shrinks |
| `DestroyedMeansGone` | after a successful destruction no load finds a GPT; after a conversion the MBR is what is loaded |
| `SavedDiskIsAccepted` | a disk just saved loads again as GPT without a question to the user: the MBR is protective or hybrid (the code does not keep this: see `clear_keeps_mbr`) |
| `SurvivesOneFault` | from two good copies, any one lost header or table leaves the same partitions, reported as corrupt |
| `OneCopyAlwaysGood`, `SaveIsAnAtomicUpdate` | a save from a sound disk keeps one good copy at every moment, and replaces the recoverable table in one step. The good copy is not always the one that a load takes |
| `RelocatingSaveIsAtomic` | when the save also moves the backup, by at least the sectors of a table, the program's own load finds the old or the new partitions wherever it is stopped |
| `InterruptedSaveIsNoticed` | no interrupted save passes all checks with a mixture |
| `MbrIsWrittenLast` | the MBR changes only when both copies are in place |
| `MbrBeforeGptIsGone` | `sgdisk -m` blanks the GPT only behind an MBR that has the partitions; gdisk's g does the opposite (section 4), and the property is about sgdisk only |
| `BackupReplacesBadTable` | what a comment in `gpt.cc` says, and the code does not do |

| Property of GptTable | Says |
|---|---|
| `TypeOK` | ranges; a table fills its sectors |
| `HeadersMirror` | five functions set the headers' fields; the headers agree on the usable range and the backup's place at every moment |
| `TablesInPlace` | the main table ends before the usable sectors, the backup table lies between them and the backup header at the end of the disk |
| `SavedTableIsSound` | what a save stores has partitions on the disk, behind the main table, that do not overlap, whatever the array went through |
| `UnmovedSaveIsSafe` | a save that moves nothing writes to no sector of a partition |
| `NewPartitionIsFree` | gdisk: a new partition takes sectors that were free |
| `FreeSpaceIsFound`, `LargestBlockIsFound` | the first and last free sector, the largest block and the number of free sectors are those of the *set* of free sectors, in any order of the array |
| `AlignStaysInBlock` | alignment moves a sector only inside its free block |
| `LoadedAlignmentFits` | the alignment found at a load is the largest power of two that every partition has |
| `SpacesTileTheTable` | cgdisk: every usable sector is in exactly one space of the list, the free spaces are the free sectors, and the default end of a new partition lies in its space |
| `SaveIsSafe`, `ResizeKeepsPartitions` | what comments and messages say, and the code does not do |

| Property of FixParts | Says |
|---|---|
| `TypeOK` | types, field widths, and the number of a logical partition is an index of the array when it is used as one |
| `SoundTableIsKept` | a table that needs no repair passes load and `MakeItLegal()` unchanged |
| `MenuKeepsTableLegal` | whatever was found or converted, no included partitions in the menu overlap, the MBR has room for them and they end on the disk; and no command makes a legal array illegal |
| `SavedTableIsReadBack` | after a save without a failure, who follows the links on the disk finds the partitions of the menu and no others |
| `SavesSparePartitions` | no write of a save hits a sector of a partition in use |
| `InterruptedSaveKeepsPrimaries`, `InterruptedSaveInventsNothing` | a save that fails or is killed leaves old or new primaries, and no partition that neither table has |
| `LogicalsAreNumberedFromFive` | however broken the chains, logicals stay out of the first four entries |
| `ChainReadingEnds` | reading the chains ends (liveness) |
| `EveryLogicalIsWritten` | what a comment says, and the code does not do |

| Property of SgdiskOptions | Says |
|---|---|
| `TypeOK` | types, and the exit statuses that `sgdisk.8` lists |
| `WipeMatchesTable` | when the save begins, the sectors wiped are the ends of the partitions that `-n` and `-N` made and no later option took back |
| `EE_KeepsOff` | after any options, an MBR on a GPT disk has an EE entry over sector 1, and its EE entries overlap no partition and end on the disk |
| `HybridMatchesGpt` | every other entry of that MBR is a partition of the GPT, after deletions and backups too |
| `OnlyWhatWasAskedIsWritten` | nothing is written with `-P`, at the end never after a failed option, nor over an MBR disk without `-g` or `-z` |
| `OtherPartitionsAreNotWiped` | what `sgdisk.8` says, and the code does not do |

Some of these have preconditions, each for a case in which the code does
otherwise (see the observations in section 4). `WipeMatchesTable` asks that no
start had to be aligned; `HybridMatchesGpt` and `EE_KeepsOff` that no `-o` left
a foreign MBR in memory, the latter also that no `-l` brought an MBR without an EE
entry beside a GPT and that `-n` and `-N` made no partition over another, and it is
about entries longer than one sector (the flags of `auxStale` say which happened); the default end in `SpacesTileTheTable` that no partition has one
sector; `ChainReadingEnds` that the disk has no circle of bare links;
the second half of `MenuKeepsTableLegal` that no entry without sectors has a start;
the promises about a save of FixParts that the
table is plain (`PlainTable`: entries without sectors are blank and not included,
no partition covers the MBR's sector, no logical one begins in sector 1, and the
array has room); `InterruptedSaveInventsNothing` also that the disk has no EBRs of
former layouts (`StaleEbrs`).

## 4. Runs

| Run | Configuration | Shows |
|---|---|---|
| `sgdisk` | 2 tables, 1 tear, disks of 10, 11 and 14 sectors, tables of 3 | all of GptStore's properties that hold for sgdisk; about 4.2 million states |
| `gdisk` | 2 tables, 1 tear, disks of 10 and 11 sectors, tables of 3, writes may be short without an error, opening may fail | whatever the user chose at the prompts and in the recovery menu, an interrupted or torn save never passes all checks as a mixture; about 5.6 million states. What a save promises gdisk otherwise is proved (section 5) |
| `power_loss` | 2 tables, 1 tear, disks of 10 and 14 sectors, page cache | reported successes are on the medium; a save lost to a power cut is noticed |
| `torn_load` | as `sgdisk`, disks of 10 and 11 sectors | a save killed while it writes the main table: the good new backup is rejected because its CRC is not the one in the old main header (`gpt.cc:1168`), and the torn table is loaded |
| `clear_keeps_mbr` | as `torn_load` | `sgdisk -o` on a refused disk keeps the foreign MBR, against `sgdisk.8`; the saved disk is refused again |
| `table` | disks of 9 and 11 sectors, tables of 2 and 4 entries (2 per sector), alignments 1 to 4 | all of GptTable's properties that hold, for three programs; 155 thousand states |
| `move_after_check` | disks of 10 and 12 sectors, any sector may be asked for | a disk grows, `sgdisk -n`, `-j`, save: the partitions are checked against the old range, then the backup table is moved over the last one |
| `lost_partition` | disks of 10 and 12 sectors | a resize that "cannot" be done drops the partition that did not fit |
| `fixparts` | disks of 8 sectors, 9 entries, 1 fault, 2 edits, 2 sessions | all of FixParts's properties that hold, with liveness; 397 thousand states |
| `empty_ebr` | as `fixparts` | an EBR without a partition becomes an included entry of length 0, and the save then loses a logical partition (`basicmbr.cc:403`) |
| `options` | a disk of 14 sectors, 3 entries, any three options, 1 fault | all of SgdiskOptions's properties that hold; 3.8 million states |
| `wipe_neighbour` | one option, no fault | `-n` with a start that is moved up: the wiper zeroes the neighbour's last sector |

More disagreements and oddities were met while modelling. They have no run of
their own; the properties' preconditions step around them. In the store and
the table:

- gdisk's recovery command g puts the converted MBR in memory before it destroys
  the GPT (`gpttext.cc:765`); if that fails, a later save of the session writes
  that MBR instead of a protective one. `SavedDiskIsAccepted` fails for gdisk.
- A corrupt GPT behind a hybrid MBR is refused, against the message at
  `gpt.cc:1690` ("protective or hybrid MBR and corrupt GPT. Using GPT").
- On a disk that grew by fewer sectors than a table has, the new backup table is
  written over the old one (`gpt.cc:1275`, at the place from `gpt.cc:2109`), which
  the main header names until it is written itself. A save stopped while it writes
  the main table then leaves no backup that agrees with the main header, and the load
  takes the torn table. `RelocatingSaveIsAtomic` asks for a disk that grew by at least
  a table; with one sector less TLC finds this. The new backup is good at that moment
  (`OneCopyAlwaysGood`), and the load reports a corrupt table.
- The order "secondary table first" (`gpt.cc:1274`) does not survive a power
  cut, since nothing is flushed in between: `OneCopyAlwaysGood` fails under
  `PowerSpec`.
- On an empty table the answer "1 to abort" (`gpttext.cc:213`) moves the backup
  table to sector 1, because no partition bounds it from below. `Load` follows no
  disk whose copies overwrote each other (`CopiesApart`).
- A short write is counted as a success (`gpt.cc:1403`), and `DestroyGPT()`
  returns 1 when the disk cannot be opened (`gpt.cc:1542`).
- `FindLastInFree()` passes over a partition that begins in the sector it starts
  from (`gpt.cc:2420`; `BasicMBRData` has the same), so a partition of one sector
  next to a free block spoils the block's end, in sgdisk's and cgdisk's defaults
  and in EE entries.
- `lastUsableLBA > backupLBA` (`gpt.cc:1227`) does not catch equality;
  `TablesInPlace` and `UnmovedSaveIsSafe` have it as a precondition.
- cgdisk's `LoadBackup()` leaves `currentSpace` pointing into the list that it
  frees (`gptcurses.cc:538`).

In the MBR:

- A circle of EBRs that hold only links is followed for ever: all of them get
  the same number and overwrite the memory of one another (`basicmbr.cc:296`).
- A partition that begins in sector 1 may become logical; its EBR is then
  sector 0, and overwrites the MBR.
- With the array full, an omitted partition stays among the first four entries
  and is written as a primary.
- fixparts erases an old GPT header in the last sector even if a partition
  covers it, and it ignores what `WriteMBRData()` returns.
- `MakeItLegal()` may leave an array that is not legal, against the comment at
  `basicmbr.cc:1294` ("adjust primary/logical assignments and, if necessary, drop
  partitions, to make the data legal"). A GPT with partitions of one sector at 1,
  2, 3, 5 and 4, in this order, is one that gdisk's g ends with. An omitted partition
  hides the EBR of a logical one from `SectorUsedAs()`, `MaximizePrimaries()` makes a
  partition over the sector of an EBR primary, and `MakeLogicalsContiguous()` starts
  with the first logical and not with its EBR (`basicmbr.cc:1280`). The menu then
  refuses every change, and the save fails in `CreateExtended()`. What
  `MakeItLegal()` does achieve from every array is proved (`MakeItLegalRepairs`);
  `OmitOverlaps()` may omit more partitions than it has to.
- An extended partition that begins in sector 0 makes the MBR its first EBR, and
  any other partition that does (an "isohybrid" image has one) covers the MBR.
- The menu's r marks an empty entry as primary, since it does not look at the
  length (`basicmbr.cc:1626`), and `NumPrimaries()` does not count it. With four
  sized primaries beside it, `MovePrimariesToFirstFour()` finds no room for the
  last: it is not written, without a message, or, if there are logical
  partitions, written as one of them, with an EBR in a sector that another
  partition uses.
- `operator<` of `mbrpart.cc` compares an entry of length 0 in the other
  direction. If it has a start, as the entry of an empty EBR has, the comparison
  is no order: `std::sort` may chain logicals out of order, and sorting in the
  menu may put an omitted partition behind the logical whose EBR it covers,
  which makes a legal array illegal (`SectorUsedAs()` looks at the entries in
  order).
- The MBR is written before its EBRs. A save stopped in between may point to an
  EBR of a former layout, and a partition that neither table had appears.
- A read error ends the chain without a refusal; a save then loses the rest. A
  failure to read the MBR itself is no refusal either (`basicmbr.cc:184`): the
  menu shows an empty table.

In sgdisk and gdisk's hybrid MBRs:

- `sgdisk.8:503` and `:515` say of `-z` and `-Z` "and then exit"; later options
  are taken, and may save.
- `sgdisk.8:495` says that wiping comes after the write; the code wipes first
  (and says so in a comment), so that a refused or failed save has wiped.
- After `-n` with a start that was moved, `-d` does not find the range to
  forget; a range whose end is before its start stops the wiper.
- `-m` that cannot write the MBR, and `-z` whose destruction fails, exit with 0.
  On a refused disk `-o` and `-l` set the exit status to 0, and the assignment
  of 2 after the loop wins. A failed `-h` does not stop a save.
- `-R` writes the second disk also with `-P`.
- A backup file may hold a GPT and an MBR without an EE entry: `-m` that cannot
  write the MBR leaves it in memory, and `-b` stores it. `-l` of that file and a save
  give a GPT disk whose MBR protects nothing.
- `FindLastInFree()` overlooks a partition of one sector in front of one that is
  listed before it, so `-n` may make a partition over it. `-h`, `-d` and a save then
  leave an EE entry over a partition: `FindFirstInFree()` of the MBR takes the end of
  either of two overlapping entries for the end of the free space.
- `OptimizeEESize()` cuts an EE entry at the end of the disk (`mbr.cc:94`) also if
  it begins behind it, as one from a larger disk's backup may: the length wraps.
- After `-h` the MBR's class is "mbr" until it is read again, so `-d` in the
  same run deletes the entry without stretching the EE entries.
- `MakeHybrid()` adds the partition before once more for a number that is no
  partition; with the EE entry last, that overwrites an announced entry.

*Bounds of the GptStore runs.* Two sizes give a backup at the end, one before
the end (a disk that grew) and one past the end (a disk that shrank); no operation
looks at more than two places for a backup, and a third size leaves one behind that
no header names. With tables of 3 sectors, a disk of 11 has its backup table over
both the header and a part of the table of a disk of 10; one of 14 has it over the
header of a disk of 11 and next to its table, the least growth for which
`RelocatingSaveIsAtomic` promises anything, and clear of the copy of a disk of 10.
These are all the ways in which two copies can lie to one another.
In the power run the copies lie apart: for caches over places that overlap there
are the theorems. Two tables tell old from new.
One tear lets every single interrupted write be told from all tables; a second
one matters only when writes can be short without an error. Runs, loads, edits
and faults are unbounded in number.

*Bounds of the GptTable runs.* Two sizes let a disk grow and shrink between
sessions. Four or more usable sectors hold a free block between two
partitions, adjacent partitions, and partitions of one sector; tables of one
and two sectors move `firstUsableLBA`, and `Paddings = {0, 2}` adds the layout
of Linux `fdisk` (NEWS:266), where it is not right behind the table. Four
entries can be listed out of order. The sectors that may be asked for are the
smallest disk's usable ones in the passing run, which keeps it short; the
violation runs show what the sectors outside that range lead to. `Word` is far
larger than any disk, as in the code. Sessions and edits are unbounded in
number.

*Bounds of the FixParts runs.* Eight sectors hold an MBR, a primary, an
extended partition with two EBRs and two logicals, and a primary or a second
extended partition behind it. Two EBRs give every shape of chain that the code
tells apart: sound, broken, ending early, a link to itself, to each other,
bare links, a partition in front of or behind the extended partition's end.
Nine entries are the first four and five more; a disk with four extended
partitions has more logicals than that. Two sessions let a saved table
be read, changed and saved again; two edits are what it takes to change how an
entry is included and then sort or change a second one, which is where the marked
empty entries and the EBRs of former layouts come from. A search with three edits
found the array that sorting makes illegal; one fault is a read or a write that
fails anywhere, and a kill may come in addition. `Max32` and `Max64` are small
enough that differences wrap.

*Bounds of the SgdiskOptions runs.* Three options in any order are one that
changes the table, one that changes what the first did or what a flag says, and
one that fails or overrides. Three entries are two partitions and a free one.
The disks are one with a protective, one with a hybrid, one with a plain MBR
before a GPT, one with an MBR alone and a blank one; the backup files are of
larger disk, of a larger disk with a partition past the end of this one, of this
disk with an MBR without an EE entry, and no backup at all, and `-b` may write one. One fault is a failed wipe,
save, conversion or replication.

*Fairness.* FixParts's `FairSpec` is weakly fair to `ReadChains`: a program
that is reading goes on to the next EBR until it is done or killed. Nothing
else is fair: no user has to give a command or to save, and a disk write that
never returns breaks no promise of the other models, whose properties are
safety properties.

*Deadlock* is checked in the runs of GptStore and GptTable: a program can
always be started again. In those of FixParts and SgdiskOptions the number of
sessions and of options is bounded, and they end when it is used up.

## 5. Proofs

The theorems hold for all constants that satisfy the modules' assumptions, which
TLC evaluates in every run:

- `StoreAssumption`: any sets of tables and tears, any sizes of disks and tables
  (a disk has room for two copies, as `LoadPartitions()` demands), so that places may
  overlap or not; either program.
- `WordAssumption`, `TableAssumption`: any sizes of disks, tables, sectors and
  alignments; the sums of a table's start and length that the code computes from
  what a user may ask for stay below 2^64 (`Word`).
- `LayoutAssumption`, `DiskAssumption`: an array of more than four entries, a disk
  of fewer than 2^32 sectors, 64-bit numbers that hold the sum of two 32-bit ones,
  and any disks, GPT tables and numbers of faults, edits and sessions.
- `OptionsAssumption`, `DisksAssumption`: sector numbers that fit an MBR, and first
  disks and backup files whose hybrid MBRs match their own GPTs. That the program
  keeps it so is `HybridsMatch`.
- `SoundDisks`, a hypothesis of `EEKeepsOff` alone, which the run's module assumes of
  its disks: on the first disks and in the backup files partitions do not overlap, an
  MBR beside a GPT has EE entries that keep off the others, and a backup's EE entries
  begin on this disk. An MBR that the program would call "mbr" may be any.

| Theorem of GptStore | Property | Argument |
|---|---|---|
| `TypeCorrect` | `TypeOK` | inductive as it stands |
| `HeadersAlwaysAgree` | `HeadersAgree` | `HeadersInv`: `TypeOK`, every good header on disk names its own sector (`OnDisk`), the headers in memory point at each other unless the backup lies past the end (`LaidOut`), and a save has fixed the latter before its first write (`ReadyToSave`) |
| `MbrAlwaysLast` | `MbrIsWrittenLast` | `HeadersInv` and `Written`: what each step of a save finds already on disk |
| `OneCopyStaysGood` | `OneCopyAlwaysGood` | `SaveInv` adds `KeepsOld`: until the new backup is complete the main copy still holds the old table, and if the backup moved, so does the place it left, unless its header is lost under the new backup table. `OneCopyAlwaysGood` alone is not inductive: it does not say *which* copy is good, and the next write might hit that one |
| `SaveImplementsAtomicUpdate` | `SaveIsAnAtomicUpdate` | step simulation from `SaveInv` and `NothingPromised` (no promise is pending when a destruction starts) |
| `ReportedSaveIsDurable` | `SuccessIsDurable` | `Written` at the end of the save establishes `Durable`, which every later step keeps, because writes start only after the report is withdrawn (`Busy`) |
| `OneFaultIsSurvived` | `SurvivesOneFault` | `HeadersInv` (a good header names its own place), and `ForceLoadGPTData()` as a function of the damaged disk, for each of the four faults |
| `InterruptionIsNoticed` | `InterruptedSaveIsNoticed` | `MainCrcKnown`: a good main header carries the CRC of the old or the new table, and a load that passes all checks has a table with that CRC |
| `RelocationIsAtomic` | `RelocatingSaveIsAtomic` | `RelocateInv` adds `KeepsBackup`: if the disk grew by a table's length or more, the backup that the main header names is not where the new one goes, nor touched, until that header is written |
| `MbrComesBeforeBlanking` | `MbrBeforeGptIsGone` | `Converting`: the conversion is past its MBR write when it blanks |
| `ReportedDestructionIsComplete` | `DestroyedMeansGone` | `Blanked`: what each step of a destruction has blanked, if no write failed; the report comes only then |

With `~ShortWrites`: `MbrAlwaysLast`, `OneCopyStaysGood`,
`SaveImplementsAtomicUpdate`, `ReportedSaveIsDurable`, `RelocationIsAtomic`, as
with short writes success may be reported for half a table. `InterruptionIsNoticed`
needs no such condition: such a save is noticed by the next load.
`MbrComesBeforeBlanking` is about sgdisk (`~Interactive`), as gdisk has the other
order, and `ReportedDestructionIsComplete` about a disk that can be opened.

| Theorem of GptStorePower | Property | Argument |
|---|---|---|
| `ReportedSaveSurvivesPowerLoss` (`~ShortWrites`) | `SuccessIsDurable` | GptStore's invariants hold of the medium too after a loss (`MediumOK`), and `ReportsFlushed`: what a report rests on is on the medium when it is made |
| `ReportedDestructionSurvivesPowerLoss` (`~OpenMayFail`, sgdisk) | `DestroyedMeansGone` | the same, with `HeadersFlushed` where a destruction starts |
| `PowerLossIsNoticed` | `InterruptedSaveIsNoticed` | `MediumCrcKnown`: `MainCrcKnown` of the medium, whatever part of the writes it has |

| Theorem of GptTable | Property | Argument |
|---|---|---|
| `TypeCorrect` | `TypeOK` | `Inv`: types, used entries behind the headers, the main table ends before the first usable sector, `second = Mirror(main)`, and the backup table fits behind the last usable sector (`BackupFits`) |
| `HeadersAgree` | `HeadersMirror` | `Inv`. Every action either keeps both headers or sets them from one new header |
| `TablesStayInPlace` | `TablesInPlace` | `Inv`, which also holds between the sessions, where the property is silent because the disk may have another size |
| `SavedTablesAreSound` | `SavedTableIsSound` | `Inv` and the checks of the save; whatever a save corrects, it keeps the first usable sector that it checked against |
| `UnmovedSavesAreSafe` | `UnmovedSaveIsSafe` | `Inv`; the checks compare with `main` itself only if nothing is moved, which is why `SaveIsSafe` fails |
| `AlignedStaysInBlock` | `AlignStaysInBlock` | `AlignIs`: every sector between the one asked for and the one that `Align()` returns is free |
| `SearchesFindFreeSpace` | `FreeSpaceIsFound` | a pass over the array ends in the sector where nothing moves it (`FirstAvailableIs`, `LastAvailableIs`), in any order of the entries |
| `NewPartitionsAreFree` | `NewPartitionIsFree` | the ranges of the prompts are free blocks, and `AlignedStaysInBlock` |
| `LargestBlocksAreFound` | `LargestBlockIsFound` | the segments that the search visits are the blocks of free sectors, each once (`SegmentsAreBlocks`) |
| `SpacesTiles` | `SpacesTileTheTable` | an invariant of the walk along the sorted array: what is behind it is tiled (`SpacesStepTiles`) |

| Theorem of MbrLayout and FixParts | Property | Argument |
|---|---|---|
| `EbrsAreFree` | - | in a legal array the sector of a logical's EBR is in no included partition: the loop of `SectorUsedAs()` returns "EBR" only if no later entry covers the sector |
| `TypeCorrect` | `TypeOK` | `TypeInv`; the number of a logical partition is bounded where it is increased and by `NumberAfterCheck` |
| `LogicalsStayBehind` | `LogicalsAreNumberedFromFive` | `ChainInv`: the EBRs read so far are pairwise different and none is sector 0, so an EBR met again takes one from the number and ends the chain |
| `PrimariesSurvive` | `InterruptedSaveKeepsPrimaries` | `LoadInv` (no extended partition outlasts the reading), `SaveInv`, and that `CreateExtended()` permutes the array: when `RemoveLogicalsFromFirstFour()` is done no other sized entry is among the first four, so `MovePrimariesToFirstFour()` finds room for each of at most four primaries |
| `SaveSparesPartitions` | `SavesSparePartitions` | `Arranged` in `SaveInv`: the extended partition begins with the first EBR, and by `EbrsAreFree`, which survives the permutation, EBRs are in no partition in use |
| `SavedTablesAreReadBack` | `SavedTableIsReadBack` | `ReadBackInv`: the EBRs written so far are a path from the first one, each names its partition from its own sector and the next EBR from the first one's, and the table that the save began with is the one in the array. A reader who has followed the links as often as the disk has sectors has met each of them |
| `InterruptedSavesInventNothing` | `InterruptedSaveInventsNothing` | `InventInv`: every EBR on the disk shows a partition of the old or of the new table, read from its own sector, so that it does not matter which of them the links lead to |
| `MakeItLegalRepairs` | - | `DeleteOversizedParts()` leaves what fits and no later pass moves a partition; `TrimPrimaries()` ends with at most four; and `OmitOverlaps()`, the last pass, only omits, and passes over no pair that overlaps |
| `TheMenuKeepsTablesLegal` | `MenuKeepsTableLegal` | `MenuInv` (the array in the menu is `Repaired`) by `MakeItLegalRepairs`. A new type changes nothing that is looked at, `SetInclusionwChecks()` takes back what is not legal, and sorting is a permutation that keeps the order of the logicals, if all empty entries are alike |

| Theorem of SgdiskOptions | Property | Argument |
|---|---|---|
| `WritesAreAskedFor` | `OnlyWhatWasAskedIsWritten` | `AskedInv`: `neverSaveData` outlasts every later option after a failure, `pretend` outlasts `-m`'s use of the same flag, and `-m` alone does not set `saveNonGPT` |
| `TypeCorrect` | `TypeOK` | `TypeInv` with the types of the MBRs built and of the wiper's ranges |
| `WipingIsExact` | `WipeMatchesTable` | `WipedInv`: the ranges that wait are the new partitions, as long as no start was moved |
| `HybridsMatch` | `HybridMatchesGpt` | `MatchesInv`: the same of the MBR on the disk, of that in a backup and of that in memory, as each may become one of the others |
| `EEKeepsOff` (`SoundDisks`) | `EE_KeepsOff` | `OffInv`, with the two invariants before: in each of these three the partitions keep apart, the EE entries begin on the disk and one covers sector 1. Every builder starts an EE entry in the bytes before it only if they are free, `MakeBiggestPart()` takes a free block, and `OptimizeEESize()` grows an entry to the first and last sector of the free block beside it, if none overlap. EE keeps off the entries of more than one sector that lie on the disk (`Shape`), while one from a larger disk's backup may lie anywhere; a save requires the partitions of the GPT to lie on the disk, and by `MatchesInv` the MBR's are among them |
| `NewPartitionsKeepApart` | - | `FindLastInFree()` returns the end of the free block if no partition has one sector (`LargestBlocksAreFound` rests on the same lemma) and `Align()` stays in the block; so the flag "n" that `EE_KeepsOff` leaves out never comes from a table without such partitions |

*Loops.* The model's loops are folds and recursive functions. The library's
theorems about them and about induction take an operator as a parameter, which
the provers cannot instantiate. `FoldProofs` derives induction over sets from
the well-foundedness of finite sets under inclusion, and from it that a fold, a
`Loop` and a climbing recursive function have a sequence of states, one per
step. A lemma for each loop of the model states that sequence, and an invariant of
its steps is what is known of its result.

*What proving changed.* Two arms of the CASE by which SgdiskOptions chose the
table after a load overlapped, which left the choice to TLC. The preconditions
of a save (`PlainTable`) had gaps: proving `PrimariesSurvive` needed entries
without sectors to be unmarked, and `SaveSparesPartitions` that no partition covers
the MBR. A second edit in the run showed that the code does reach both, and the
cases listed under "In the MBR" in section 4. The run once checked that the menu
shows a legal array if no partitions overlap; the passes of `MakeItLegal()` gave no
proof of it, and a GPT whose order is not that of the disk refuted it. It is now in
`GptTables`, and `MenuKeepsTableLegal` says what holds. `EE_KeepsOff` did not hold
either: the attempt to prove it led to the backup file without an EE entry and to the
partition that `FindLastInFree()` overlooks, both of which longer runs of TLC
confirmed, to the 32 bits of the length in `OptimizeEESize()`, which the model did
not have, and to the checks of the save with which gdisk writes a hybrid MBR.

*Only model-checked* are three properties:

- `LoadedAlignmentFits` of GptTable speaks of powers of two (`2^k`), which the
  provers cannot reason about. That the alignment is in its range is part of
  GptTable's `TypeCorrect`.
- `SoundTableIsKept` of FixParts compares sets of partitions. That the walk of
  `ReadLogicalParts()` collects the set that the links define would be needed for
  chains of any shape; and with one more hypothesis, as a disk that has one entry
  twice shows the set of a sound table, and `MakeItLegal()` omits the second.
- `ChainReadingEnds` is a liveness property; fairness and `ENABLED` are out of the
  proof system's reach.

Short writes, gdisk's order of destruction and disks that cannot be opened are
checked in the runs where the theorems exclude them.

## 6. Plan

The modules planned are written: the store and its refinement, the power
model, the table with its three programs, the layout, chain and hybrid rules of
the MBR, and the option loop with backup files and the wiper. The dozen runs
that the project keeps to are used. Left, in this order:

1. **GptTable**: the backup header that a load finds at the end of a disk that
   shrank to a former size (`gpt.cc:931`), with the problems that `Verify`
   counts; entries whose type was set to 0.
2. **DiskAccess**: open modes and sector rounding below GptStore's writes.
3. **Backup files** with one good header.

Theorem left: `SoundTableIsKept`, with the walk of `ReadLogicalParts()` over a
sound chain as a path.

## 7. Not modelled

- Windows disk access (not built for the target), BSD disklabels (a read-only
  parser), attribute bits, type names, GUIDs, CRC-32: pure functions and static
  tables. `ohos/src/libpart`: one retry loop around an `ioctl`.
- Prompts, listings, the curses screens with cgdisk's cursor, parsing of
  units: display and input. Their ranges and defaults are modelled.
- CHS addresses, the active flag and disk signatures of an MBR; names, types
  and GUIDs of GPT entries.
- The alignment floor of disks over 300 GB; opening, closing and sector
  rounding of `DiskIO`.
- CRC collisions, and headers that carry a good CRC over absurd contents: a
  good header is one that this program wrote.
- The second disk of `sgdisk -R` once it is written; gdisk's prompt for an entry
  number when the table is full (`gpttext.cc:230`).
