---------------------------- MODULE SgdiskOptions ----------------------------
(***************************************************************************)
(* Runs of sgdisk on one disk: DoOptions() takes one option after another, *)
(* changes the tables in memory, and decides at the end whether to wipe    *)
(* the new partitions and to save.  The disk may hold a GPT with a         *)
(* protective or hybrid MBR, an MBR alone, both, or nothing; in between,   *)
(* gdisk may give it another hybrid MBR.                                   *)
(*                                                                         *)
(* Abstractions.  Saving and destroying a GPT are one step here (GptStore  *)
(* splits them); what a save that fails half-way leaves is not followed.   *)
(* The table has its default place and size (GptTable moves it).  Names,   *)
(* types, GUIDs and attributes are left out: the options that change them  *)
(* are OptEdit and OptTouch.  The second disk of -R is not followed.       *)
(***************************************************************************)
EXTENDS FreeSpace

CONSTANTS
  DiskSize, FirstUsable,
  NumParts,           \* entries of the partition table
  DefaultAlignment,
  WipeSectors,        \* 1 MiB in sectors
  MaxParts, Max32, Max64,   \* MBR: see MbrLayout
  Disks,              \* the disks a first run may find
  BackupFiles,        \* the files that -l may be given
  Starts, Ends,       \* what -n may be given for a sector: [sign, n]
  Alignments,         \* what -a may be given
  Lists,              \* the lists of partition numbers for -h and -m
  MaxRuns, MaxOptions, Faults

Mbr == INSTANCE HybridMbr

Partition == [first : 0 .. Max32 - 1, last : 0 .. Max32 - 2]
Partitions == [1 .. NumParts -> Partition]
MbrEntry == [start : 0 .. Max32, len : 0 .. Max32, as : {"NONE", "PRIMARY", "LOGICAL"},
             type : {"none", "ee", "ext", "data"}]

\* Every other entry of this MBR is a partition of the GPT.
Matches(mbr, parts) ==
  \A i \in 0 .. 3 : mbr[i].type = "data" =>
    \E p \in UsedParts(parts) : p.first <= p.last /\ Mbr!AsMBR(p) = mbr[i]

\* Sector numbers fit an MBR.
TablesAssumption(x) ==
  /\ x.parts \in Partitions /\ x.mbr \in [Mbr!Slots -> MbrEntry]
  /\ \A i \in Mbr!Slots : x.mbr[i].type = "data" => x.mbr[i].start + x.mbr[i].len < Max32

ASSUME OptionsAssumption ==
  /\ NumParts \in Nat \ {0} /\ WipeSectors \in Nat \ {0}
  /\ FirstUsable \in 3 .. DiskSize \div 2 /\ DiskSize < Word
  /\ DefaultAlignment \in Nat \ {0} /\ Alignments \subseteq Nat \ {0}
  /\ Mbr!LayoutAssumption
  /\ \A x \in Starts \union Ends : x.n \in Nat
  /\ Lists \subseteq Seq(Nat) /\ Faults \in Nat

\* The MBR of a disk with a GPT, or of a backup of one, is a protective or a hybrid
\* one of that GPT, unless it is one that makes sgdisk refuse the disk.
ASSUME DisksAssumption ==
  /\ \A d \in Disks :
       /\ d \in [gpt : {"good", "none"}, parts : Partitions, boot : BOOLEAN, mbr : [Mbr!Slots -> MbrEntry]]
       /\ TablesAssumption(d)
       /\ d.gpt = "good" /\ d.boot /\ Mbr!StateOf(d.mbr) # "mbr" => Matches(d.mbr, d.parts)
  /\ \A b \in BackupFiles :
       /\ b.holds \in {"none", "junk", "gpt"}
       /\ TablesAssumption(b)
       /\ b.holds = "gpt" => Matches(b.mbr, b.parts)

VARIABLES
  disk,      \* gpt: "good", "none" or "torn"; parts; boot: is there an MBR; mbr
  backup,    \* the file that -b writes and -l reads
  pc,        \* "idle", "options", "refused", "wipe", "save", "done"
  mem,       \* partitions, sectorAlignment, alignEnd, protectiveMBR and its state
  flags,     \* saveData, neverSaveData, saveNonGPT, pretend, and wipeMode
  retval,
  wiper,     \* OhosPartitionWiper::ranges_
  zeroed,    \* the sectors that this run has zeroed
  left,      \* what may still be done: runs, options, faults
  aux,       \* what happened in this run, for the properties
  auxStale   \* "o" if -o has ever left MBR entries behind in memory, "l" if -l has
             \* ever brought an MBR without EE beside a GPT, "n" if -n or -N has ever
             \* made a partition that overlaps another, for the properties

vars == <<disk, backup, pc, mem, flags, retval, wiper, zeroed, left, aux, auxStale>>

-----------------------------------------------------------------------------
LastUsable == DiskSize - FirstUsable
Space == [parts |-> mem.parts, first |-> FirstUsable, last |-> LastUsable, align |-> mem.align]
Blank == [n \in 1 .. NumParts |-> Unused]
Numbers == 0 .. NumParts + 1      \* what may be given as a partition number

NoFlags == [saveData |-> FALSE, neverSaveData |-> FALSE, saveNonGPT |-> TRUE,
            pretend |-> FALSE, wipe |-> FALSE]
NoMem == [parts |-> Blank, align |-> DefaultAlignment, alignEnd |-> FALSE,
          mbr |-> Mbr!ProtectiveMBR, state |-> "gpt"]
\* created: partitions made by -n and -N; moved: was one of them moved to be
\* aligned; failed: did an option fail; asked: -P, -g and -z or -Z; nonGpt: was
\* it a disk with an MBR alone.
NoAux == [created |-> {}, moved |-> FALSE, failed |-> FALSE, asked |-> {}, nonGpt |-> FALSE]

-----------------------------------------------------------------------------
(***************************************************************************)
(* The first pass and LoadPartitions()                                     *)
(***************************************************************************)
MbrState == IF disk.boot THEN Mbr!StateOf(disk.mbr) ELSE "invalid"

\* UseWhichPartitions()
WhichWasUsed ==
  IF disk.gpt = "good" THEN (IF MbrState = "mbr" THEN "abort" ELSE "gpt")
  ELSE IF MbrState \in {"mbr", "hybrid"} THEN "mbr" ELSE "new"

Loaded(parts, mbr, state) ==
  [NoMem EXCEPT !.parts = parts, !.mbr = mbr, !.state = state,
                !.align = ComputeAlignment(parts, DefaultAlignment)]

LoadedMem ==
  CASE WhichWasUsed = "gpt" /\ MbrState # "invalid" -> Loaded(disk.parts, disk.mbr, MbrState)
    [] WhichWasUsed = "gpt" /\ MbrState = "invalid" -> Loaded(disk.parts, Mbr!ProtectiveMBR, "gpt")
    [] WhichWasUsed = "mbr" -> Loaded(Mbr!XFormPartitions(disk.mbr, NumParts), Mbr!ProtectiveMBR, "gpt")
    [] WhichWasUsed = "new" -> Loaded(Blank, Mbr!ProtectiveMBR, "gpt")
    [] OTHER -> Loaded(disk.parts, disk.mbr, MbrState)

\* -P anywhere counts from the start, and then -W has no effect; otherwise the
\* last -W gives the mode.
Run(pretend, wipe) ==
  /\ flags' = [NoFlags EXCEPT !.pretend = pretend, !.wipe = wipe, !.saveNonGPT = WhichWasUsed # "mbr"]
  /\ pc' = IF WhichWasUsed = "abort" THEN "refused" ELSE "options"

Start ==
  /\ pc = "idle" /\ left.runs > 0 /\ disk.gpt # "torn"
  /\ \E pretend, wipe \in BOOLEAN :
       /\ ~(pretend /\ wipe)
       /\ Run(pretend, wipe)
       /\ aux' = [NoAux EXCEPT !.asked = IF pretend THEN {"P"} ELSE {}, !.nonGpt = WhichWasUsed = "mbr"]
  /\ mem' = LoadedMem
  /\ left' = [left EXCEPT !.runs = @ - 1]
  /\ retval' = IF WhichWasUsed = "abort" THEN 2 ELSE 0
  /\ wiper' = <<>> /\ zeroed' = {}
  /\ UNCHANGED <<disk, backup, auxStale>>

\* The first pass ends the program if it does not know the wipe mode.
UnknownWipeMode ==
  /\ pc = "idle" /\ left.runs > 0
  /\ pc' = "done" /\ retval' = 1
  /\ left' = [left EXCEPT !.runs = @ - 1]
  /\ flags' = NoFlags /\ aux' = NoAux /\ mem' = NoMem /\ wiper' = <<>> /\ zeroed' = {}
  /\ UNCHANGED <<disk, backup, auxStale>>

-----------------------------------------------------------------------------
(***************************************************************************)
(* Options                                                                 *)
(***************************************************************************)
\* One more option of those that the tables in memory must be good for, with
\* 'failures' of the writes it makes itself.
OptionWith(failures) ==
  /\ pc = "options" /\ left.options > 0 /\ left.faults >= failures
  /\ left' = [left EXCEPT !.options = @ - 1, !.faults = @ - failures]
  /\ UNCHANGED <<pc, zeroed>>
Option == OptionWith(0) /\ UNCHANGED auxStale

WillSave == flags' = [flags EXCEPT !.saveData = TRUE]

\* An option that fails: the tables stay, and nothing will be saved.
Fails ==
  /\ flags' = [flags EXCEPT !.neverSaveData = TRUE]
  /\ aux' = [aux EXCEPT !.failed = TRUE]
  /\ UNCHANGED <<disk, backup, mem, retval, wiper>>

\* IeeeToInt() for a number of sectors; an empty string is a zero.
IeeeToInt(x, low, high, default) ==
  CASE x.n = 0 -> default
    [] x.n # 0 /\ x.sign = "+" -> IF Minus(high, default) < mem.align THEN low + x.n - 1 ELSE default + x.n
    [] x.n # 0 /\ x.sign = "-" -> IF x.n > high THEN 0 ELSE high - x.n
    [] OTHER -> x.n

\* GPTData::CreatePartition()'s checks, with the start after it was aligned.
MayCreate(n, first, end) ==
  /\ n \in DOMAIN mem.parts /\ ~IsUsed(mem.parts[n])
  /\ IsFree(Space, first) /\ first <= end
  /\ FindLastInFree(Space, first) >= end

CreatePartition(n, start, end) ==
  LET part == [first |-> Align(Space, start), last |-> end]
  IN  IF MayCreate(n, part.first, end)
      THEN /\ mem' = [mem EXCEPT !.parts[n] = part]
           /\ wiper' = Append(wiper, [first |-> start, last |-> end])
           /\ WillSave
           /\ aux' = [aux EXCEPT !.created = @ \union {part}, !.moved = @ \/ part.first # start]
           /\ auxStale' = auxStale \union IF \E p \in UsedParts(mem.parts) : Overlap(p, part) THEN {"n"} ELSE {}
           /\ UNCHANGED <<disk, backup, retval>>
      ELSE Fails /\ UNCHANGED auxStale

LastFrom(start) == IF mem.alignEnd THEN FindLastAligned(Space, start) ELSE FindLastInFree(Space, start)
DefaultStart == Align(Space, FindFirstInLargest(Space))

\* -n: the range of the defaults is that of the largest free block.
OptNew ==
  /\ OptionWith(0)
  /\ \E n \in Numbers, a \in Starts, b \in Ends :
       LET high == LastFrom(DefaultStart)
           start == IeeeToInt(a, DefaultStart, high, DefaultStart)
       IN  CreatePartition(IF n = 0 THEN FindFirstFreePart(mem.parts) ELSE n, start, IeeeToInt(b, start, high, high))

\* -N
OptLargest ==
  /\ OptionWith(0)
  /\ \E n \in Numbers :
       CreatePartition(IF n = 0 THEN FindFirstFreePart(mem.parts) ELSE n, DefaultStart, LastFrom(DefaultStart))

\* GPTData::DeletePartition() takes any number between used entries.
MayDelete(n) ==
  /\ \E i \in DOMAIN mem.parts : i <= n /\ IsUsed(mem.parts[i])
  /\ \E i \in DOMAIN mem.parts : i >= n /\ IsUsed(mem.parts[i])

DeletedIn_GptOnly(m, n) == [m EXCEPT !.parts[n] = Unused]

DeletedIn(m, n) ==
  LET x == Mbr!DeleteByLocation([mbr |-> m.mbr, state |-> m.state], m.parts[n])
  IN  [m EXCEPT !.parts[n] = Unused, !.mbr = x.mbr, !.state = x.state]

\* OhosPartitionWiper::ForgetRange()
ForgetRange_None(p) == wiper

ForgetRange(p) == FoldLeft(LAMBDA w, r : IF r = p THEN w ELSE Append(w, r), <<>>, wiper)

\* -d
OptDelete ==
  /\ Option
  /\ \E n \in Numbers :
       IF MayDelete(n)
       THEN /\ mem' = DeletedIn(mem, n)
            /\ wiper' = IF IsUsed(mem.parts[n]) THEN ForgetRange(mem.parts[n]) ELSE wiper
            /\ aux' = [aux EXCEPT !.created = @ \ {mem.parts[n]}]
            /\ WillSave
            /\ UNCHANGED <<disk, backup, retval>>
       ELSE Fails

\* -r
OptTranspose ==
  /\ Option
  /\ \E n, k \in Numbers :
       IF {n, k} \subseteq DOMAIN mem.parts
       THEN /\ n < k
            /\ mem' = [mem EXCEPT !.parts[n] = mem.parts[k], !.parts[k] = mem.parts[n]]
            /\ WillSave
            /\ UNCHANGED <<disk, backup, retval, wiper, aux>>
       ELSE Fails

\* -c and -t: the number of a used entry; a number outside the table is ignored.
OptEdit ==
  /\ Option
  /\ \E n \in DOMAIN mem.parts :
       IF IsUsed(mem.parts[n])
       THEN WillSave /\ UNCHANGED <<disk, backup, mem, retval, wiper, aux>>
       ELSE Fails

\* -A: the attributes are listed, changed, or not understood.
OptAttributes ==
  /\ Option
  /\ flags' \in {flags, [flags EXCEPT !.saveData = TRUE],
                 [flags EXCEPT !.saveData = FALSE, !.neverSaveData = TRUE]}
  /\ aux' = [aux EXCEPT !.failed = @ \/ flags'.neverSaveData]
  /\ UNCHANGED <<disk, backup, mem, retval, wiper>>

\* -e, -C, -G, -u and -U, on a disk whose size has not changed.
OptTouch == Option /\ WillSave /\ UNCHANGED <<disk, backup, mem, retval, wiper, aux>>

\* -a and -I
OptAlignment ==
  /\ Option
  /\ \/ \E a \in Alignments : mem' = [mem EXCEPT !.align = a]
     \/ mem' = [mem EXCEPT !.alignEnd = TRUE]
  /\ UNCHANGED <<disk, backup, flags, retval, wiper, aux>>

\* -g
OptMbrToGpt ==
  /\ Option
  /\ flags' = [flags EXCEPT !.saveData = TRUE, !.saveNonGPT = TRUE]
  /\ aux' = [aux EXCEPT !.asked = @ \union {"g"}]
  /\ UNCHANGED <<disk, backup, mem, retval, wiper>>

\* -h: an MBR that cannot be built is no reason not to save.
OptHybrid ==
  /\ Option
  /\ \E list \in Lists, eeLast \in BOOLEAN :
       LET built == Mbr!BuildMBR(mem.parts, list, TRUE, eeLast)
       IN  IF built.ok
           THEN WillSave /\ mem' = [mem EXCEPT !.mbr = built.mbr, !.state = "mbr"]
           ELSE UNCHANGED <<flags, mem>>
  /\ UNCHANGED <<disk, backup, retval, wiper, aux>>

\* -m: the MBR is written and the GPT destroyed at once, not at the end.  If the
\* MBR cannot be written, the GPT stays, and the exit status says nothing of it.
OptGptToMbr ==
  /\ \E failures \in {0, 1}, list \in Lists :
       LET built == Mbr!BuildMBR(mem.parts, list, FALSE, FALSE)
           write == built.ok /\ ~flags.pretend
       IN  /\ OptionWith(failures)
           /\ failures = 1 => write
           /\ disk' = IF write /\ failures = 0
                      THEN [gpt |-> "none", parts |-> Blank, boot |-> TRUE, mbr |-> built.mbr] ELSE disk
           /\ IF built.ok
              THEN /\ mem' = [mem EXCEPT !.mbr = built.mbr, !.state = "mbr"]
                   /\ flags' = [flags EXCEPT !.saveNonGPT = FALSE, !.pretend = TRUE, !.saveData = FALSE]
              ELSE UNCHANGED <<mem, flags>>
  /\ UNCHANGED <<backup, retval, wiper, aux, auxStale>>

\* -R: the copy to the second disk may fail; the run goes on.
OptReplicate ==
  /\ \E failures \in {0, 1} : OptionWith(failures) /\ retval' = IF failures = 1 THEN 8 ELSE retval
  /\ UNCHANGED <<disk, backup, mem, flags, wiper, aux, auxStale>>

-----------------------------------------------------------------------------
(***************************************************************************)
(* Options that are also taken when the tables were refused                *)
(***************************************************************************)
AnyOption ==
  /\ pc \in {"options", "refused"} /\ left.options > 0
  /\ left' = [left EXCEPT !.options = @ - 1]
  /\ UNCHANGED <<pc, zeroed, retval>>

\* -o: the partitions go, the MBR stays.
OptClear ==
  /\ AnyOption
  /\ mem' = [mem EXCEPT !.parts = Blank, !.align = DefaultAlignment]
  /\ wiper' = <<>>
  /\ aux' = [aux EXCEPT !.created = {}]
  /\ auxStale' = auxStale \union IF mem.state = "gpt" THEN {} ELSE {"o"}
  /\ WillSave
  /\ UNCHANGED <<disk, backup>>

\* -b: the tables in memory, saved or not.
OptBackup ==
  /\ Option
  /\ backup' = [holds |-> "gpt", size |-> DiskSize, parts |-> mem.parts, mbr |-> mem.mbr]
  /\ UNCHANGED <<disk, mem, flags, retval, wiper, aux>>

\* LoadGPTBackup(): a file that is no backup leaves empty tables in memory.
\* Its MBR is read anew, which gives it its state; if it is from a disk of another
\* size, MoveSecondHeaderToEnd() fits the EE entry to this one.
BackupMBR ==
  LET x == [mbr |-> backup.mbr, state |-> Mbr!StateOf(backup.mbr)]
  IN  IF backup.size = DiskSize \/ x.state = "mbr" THEN x ELSE Mbr!OptimizeEESize(x)

BackupMem ==
  CASE backup.holds = "gpt" -> [mem EXCEPT !.parts = backup.parts, !.mbr = BackupMBR.mbr,
                                           !.state = BackupMBR.state]
    [] backup.holds = "junk" -> [NoMem EXCEPT !.alignEnd = mem.alignEnd]
    [] OTHER -> mem

LoadBackupFile_NotNever ==
  flags' = [flags EXCEPT !.saveData = backup.holds = "gpt"]

LoadBackupFile ==
  flags' = [flags EXCEPT !.saveData = backup.holds = "gpt",
                         !.neverSaveData = @ \/ backup.holds # "gpt"]

\* -l
OptLoadBackup ==
  /\ AnyOption
  /\ LoadBackupFile
  /\ mem' = BackupMem
  /\ wiper' = <<>>
  /\ aux' = [aux EXCEPT !.created = {}, !.failed = @ \/ backup.holds # "gpt"]
  /\ auxStale' = auxStale \union
       IF backup.holds = "gpt" /\ Mbr!StateOf(backup.mbr) = "mbr" THEN {"l"} ELSE {}
  /\ UNCHANGED <<disk, backup>>

\* -z and -Z: at once; options that follow go on with the tables in memory.
OptZap ==
  /\ AnyOption
  /\ \E all \in BOOLEAN :
       disk' = IF flags.pretend THEN disk
               ELSE IF all THEN [gpt |-> "none", parts |-> Blank, boot |-> FALSE, mbr |-> Mbr!EmptyMBR]
               ELSE [disk EXCEPT !.gpt = "none", !.parts = Blank]
  /\ wiper' = <<>>
  /\ flags' = [flags EXCEPT !.saveNonGPT = TRUE, !.saveData = FALSE]
  /\ aux' = [aux EXCEPT !.asked = @ \union {"z"}, !.created = {}]
  /\ UNCHANGED <<backup, mem, auxStale>>

-----------------------------------------------------------------------------
(***************************************************************************)
(* The end of DoOptions()                                                  *)
(***************************************************************************)
Saves == flags.saveData /\ ~flags.neverSaveData /\ flags.saveNonGPT /\ ~flags.pretend

\* The two conditions after the save, in their order.
Final_Adds(r) == IF flags.neverSaveData THEN r + 4 ELSE IF flags.saveData /\ ~flags.saveNonGPT THEN 3 ELSE r

Final(r) == IF flags.neverSaveData THEN 4 ELSE IF flags.saveData /\ ~flags.saveNonGPT THEN 3 ELSE r

EndOptions ==
  /\ pc \in {"options", "refused"}
  /\ pc' = IF ~Saves THEN "done" ELSE IF flags.wipe THEN "wipe" ELSE "save"
  /\ retval' = IF Saves THEN retval ELSE Final(retval)
  /\ UNCHANGED <<disk, backup, mem, flags, wiper, zeroed, left, aux, auxStale>>

\* WipeOneRange(): up to WipeSectors at the front, and again at the back.
FrontOf(r) == (r.first .. r.last) \cap (r.first .. r.first + WipeSectors - 1)
BackOf(r) == (r.first .. r.last) \cap (r.last - WipeSectors + 1 .. r.last)

\* A range that ends before it begins counts as a failure.
Ranges == SubSeq(wiper, 1, CHOOSE k \in 0 .. Len(wiper) :
                             /\ \A i \in 1 .. k : wiper[i].first <= wiper[i].last
                             /\ k < Len(wiper) => wiper[k + 1].first > wiper[k + 1].last)
WipeWrites ==
  [i \in 1 .. 2 * Len(Ranges) |->
     IF i % 2 = 1 THEN FrontOf(Ranges[(i + 1) \div 2]) ELSE BackOf(Ranges[i \div 2])]

\* OhosWipePartitions(): the first write that fails ends it with a warning.
Wipe ==
  /\ pc = "wipe"
  /\ \E k \in 0 .. Len(WipeWrites) :
       /\ zeroed' = UNION {WipeWrites[i] : i \in 1 .. k}
       /\ k < Len(WipeWrites) => left.faults > 0
       /\ left' = IF k < Len(WipeWrites) THEN [left EXCEPT !.faults = @ - 1] ELSE left
  /\ pc' = "save"
  /\ UNCHANGED <<disk, backup, mem, flags, retval, wiper, aux, auxStale>>

\* CheckGPTSize(), FindOverlaps() and FindInsanePartitions()
Saveable(parts) ==
  /\ \A p \in UsedParts(parts) : FirstUsable <= p.first /\ p.first <= p.last /\ p.last <= LastUsable
  /\ \A i, k \in DOMAIN parts :
       i < k /\ IsUsed(parts[i]) /\ IsUsed(parts[k]) => ~Overlap(parts[i], parts[k])
MaySave == Saveable(mem.parts)

Save ==
  /\ pc = "save" /\ MaySave
  /\ disk' = [gpt |-> "good", parts |-> mem.parts, boot |-> TRUE, mbr |-> mem.mbr]
  /\ retval' = Final(retval)
  /\ pc' = "done"
  /\ UNCHANGED <<backup, mem, flags, wiper, zeroed, left, aux, auxStale>>

\* Refused, or failed at the opening or at one of the writes.
SaveFails ==
  /\ pc = "save"
  /\ \/ MaySave /\ left.faults > 0 /\ left' = [left EXCEPT !.faults = @ - 1]
        /\ disk' \in {disk, [disk EXCEPT !.gpt = "torn"]}
     \/ ~MaySave /\ UNCHANGED <<disk, left>>
  /\ retval' = Final(4)
  /\ pc' = "done"
  /\ UNCHANGED <<backup, mem, flags, wiper, zeroed, aux, auxStale>>

Exit ==
  /\ pc = "done"
  /\ pc' = "idle"
  /\ mem' = NoMem /\ flags' = NoFlags /\ retval' = 0 /\ wiper' = <<>> /\ zeroed' = {} /\ aux' = NoAux
  /\ UNCHANGED <<disk, backup, left, auxStale>>

-----------------------------------------------------------------------------
\* gdisk makes a hybrid MBR and writes the disk.
GdiskHybrid ==
  /\ pc = "idle" /\ left.runs > 0 /\ disk.gpt = "good" /\ WhichWasUsed = "gpt" /\ Saveable(disk.parts)
  /\ \E list \in Lists, eeFirst, protect \in BOOLEAN :
       /\ \A k \in DOMAIN list : list[k] \in DOMAIN disk.parts
       /\ Len(list) <= 3
       /\ disk' = [disk EXCEPT !.boot = TRUE,
                     !.mbr = Mbr!MakeHybrid(LoadedMem.mbr, disk.parts, list, eeFirst, protect)]
  /\ UNCHANGED <<backup, pc, mem, flags, retval, wiper, zeroed, left, aux, auxStale>>

Init ==
  /\ disk \in Disks /\ backup \in BackupFiles
  /\ pc = "idle" /\ mem = NoMem /\ flags = NoFlags /\ retval = 0 /\ wiper = <<>> /\ zeroed = {}
  /\ left = [runs |-> MaxRuns, options |-> MaxOptions, faults |-> Faults]
  /\ aux = NoAux /\ auxStale = IF disk.gpt = "good" /\ MbrState = "mbr" THEN {"o"} ELSE {}

TakeOption ==
  \/ OptNew \/ OptLargest \/ OptDelete \/ OptTranspose \/ OptEdit \/ OptTouch \/ OptAlignment
  \/ OptMbrToGpt \/ OptHybrid \/ OptGptToMbr \/ OptClear \/ OptBackup \/ OptLoadBackup
  \/ OptZap \/ OptReplicate \/ OptAttributes

Next ==
  \/ Start \/ UnknownWipeMode \/ TakeOption \/ EndOptions \/ Wipe \/ Save \/ SaveFails \/ Exit
  \/ GdiskHybrid

Spec == Init /\ [][Next]_vars

-----------------------------------------------------------------------------
(* Properties.                                                             *)

TypeOK ==
  /\ disk.gpt \in {"good", "none", "torn"} /\ disk.boot \in BOOLEAN
  /\ backup.holds \in {"none", "junk", "gpt"}
  /\ pc \in {"idle", "options", "refused", "wipe", "save", "done"}
  /\ DOMAIN mem.parts = 1 .. NumParts /\ mem.state \in {"gpt", "hybrid", "mbr"}
  /\ flags \in [DOMAIN NoFlags -> BOOLEAN]
  /\ retval \in {0, 1, 2, 3, 4, 8}
  /\ zeroed \subseteq 0 .. DiskSize - 1

\* What is wiped is what -n and -N made and a later option did not take back:
\* both ends of each such partition, and not a sector more.  (With starts that
\* did not have to be moved; a failed write may leave some of it unwiped.)
WipeMatchesTable ==
  pc = "save" /\ flags.wipe /\ ~aux.moved =>
    LET ends == UNION {FrontOf(p) \union BackOf(p) : p \in aux.created \cap UsedParts(mem.parts)}
    IN  zeroed \subseteq ends /\ (left.faults = Faults => zeroed = ends)

\* The same for the other partitions, wherever the new ones begin: sgdisk.8 says
\* of -W that it zeroes sectors "of each partition created by -n or -N".
OtherPartitionsAreNotWiped ==
  pc = "save" =>
    \A p \in UsedParts(mem.parts) \ aux.created : zeroed \cap (p.first .. p.last) = {}

\* The disk is written, or wiped, only as asked: never with -P, and at the end
\* never after an option that failed, nor over an MBR disk without -g or -z.
OnlyWhatWasAskedIsWritten ==
  [][(disk' # disk \/ zeroed' \ zeroed # {}) /\ pc # "idle" =>
       /\ "P" \notin aux.asked
       /\ pc \in {"wipe", "save"} => ~aux.failed /\ (aux.nonGpt => aux.asked # {})]_vars

\* An MBR on this disk has an entry of type EE over the GPT header in sector 1;
\* such entries end on the disk and keep off all others of more than one sector
\* (FindLastInFree() overlooks some that have one).
Entries(mbr, type) == {i \in 0 .. 3 : mbr[i].type = type}
HasEE(mbr) == \E i \in Entries(mbr, "ee") : Mbr!Covers(mbr[i], 1)
EndsOnDisk(mbr) == \A i \in Entries(mbr, "ee") : Mbr!LastLBA(mbr[i]) < DiskSize
KeepsOff(mbr) == \A i \in Entries(mbr, "ee"), k \in Entries(mbr, "data") :
                   mbr[k].len > 1 => ~Mbr!Overlap(mbr[i], mbr[k])

\* A disk with a GPT has such an MBR, unless -o left entries there, -l brought an MBR
\* without EE or partitions overlapped (-d, -h, -l, -n, and gdisk's hybrid MBRs).
EE_KeepsOff ==
  disk.gpt = "good" /\ disk.boot /\ auxStale = {} =>
    HasEE(disk.mbr) /\ EndsOnDisk(disk.mbr) /\ KeepsOff(disk.mbr)

\* Every other entry of that MBR is a partition of the GPT.
HybridMatchesGpt ==
  disk.gpt = "good" /\ disk.boot /\ "o" \notin auxStale => Matches(disk.mbr, disk.parts)

\* What EE_KeepsOff rests on: on the disks and in the backup files that are found,
\* partitions do not overlap, an MBR beside a GPT has EE entries, primary ones and
\* empty ones, and EE keeps off.  EE entries begin on this disk, also in a backup of
\* a larger one: OptimizeEESize() gives others a length that wraps.
PartsApart(parts) ==
  \A p, q \in UsedParts(parts) : p.first <= p.last /\ (p # q => ~Overlap(p, q))
MbrApart(mbr) ==
  \A i, k \in {j \in Mbr!Slots : mbr[j].type = "data"} :
    mbr[i].len > 0 /\ (mbr[i] # mbr[k] => ~Mbr!Overlap(mbr[i], mbr[k]))
Plain(mbr) ==
  \A i \in 0 .. 3 :
    CASE mbr[i].type = "data" -> mbr[i].as = "PRIMARY"
      [] mbr[i].type = "ee" -> mbr[i].len > 0 /\ mbr[i].start < DiskSize
      [] OTHER -> mbr[i].start = 0 /\ mbr[i].len = 0
SoundDisks ==
  /\ \A d \in Disks :
       /\ PartsApart(d.parts) /\ MbrApart(d.mbr)
       /\ d.gpt = "good" /\ d.boot /\ Mbr!StateOf(d.mbr) # "mbr" =>
            Plain(d.mbr) /\ HasEE(d.mbr) /\ EndsOnDisk(d.mbr) /\ KeepsOff(d.mbr)
  /\ \A b \in BackupFiles : b.holds = "gpt" =>
       /\ PartsApart(b.parts) /\ MbrApart(b.mbr) /\ Plain(b.mbr)
       /\ Mbr!StateOf(b.mbr) # "mbr" => HasEE(b.mbr) /\ KeepsOff(b.mbr)
       /\ b.size = DiskSize => EndsOnDisk(b.mbr)
=============================================================================
