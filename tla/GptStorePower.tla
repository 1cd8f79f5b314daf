--------------------------- MODULE GptStorePower ---------------------------
(***************************************************************************)
(* GptStore on a machine that can lose power.  The disk of GptStore is     *)
(* then the kernel's page cache, and the medium below it holds what was    *)
(* last flushed.  The program flushes only in DiskBase::DiskSync() (sync() *)
(* and fsync()), after the last write of an operation: until then nothing  *)
(* orders the writes, so a loss of power may keep any of them and lose any *)
(* others.  The kernel has flushed everything when the next program loads. *)
(***************************************************************************)
EXTENDS GptStore

VARIABLES
  mediumHdr,   \* the headers on the medium
  mediumTab,   \* the tables on the medium
  mediumMbr    \* the MBR on the medium

medium == <<mediumHdr, mediumTab, mediumMbr>>
powerVars == <<hdr, tab, mbr, size, pc, job, mem, allOK, report, begun,
               mediumHdr, mediumTab, mediumMbr>>

\* A sync that does nothing, of a program that trusts the order of its writes.
Flush_Never == UNCHANGED medium

\* sync() and fsync() in DiskSync().
Flush == /\ mediumHdr' = hdr'
         /\ mediumTab' = tab'
         /\ mediumMbr' = mbr'

\* The two steps that end in DiskSync().
Synced == (FinishSave \/ FinishDestroy) /\ Flush

\* Writes that end in the page cache, and edits in memory.
Cached ==
  /\ \/ Edit \/ MoveSecondHeaderToEnd \/ NewTable \/ Recover \/ LoadMBR
     \/ SetProtectiveMBR \/ Quit \/ SaveGPTData \/ Zap \/ ConvertToMBR
     \/ WriteBackupTable \/ WriteBackupHeader \/ WriteMainTable
     \/ WriteMainHeader \/ WriteMBR
     \/ BlankMainHeader \/ BlankMainTable \/ BlankBackupTable
     \/ BlankBackupHeader \/ WriteMBROnly
     \/ FailWrite \/ Kill
  /\ UNCHANGED medium

\* A program starts, or something else writes to an idle disk.
Settled == (LoadPartitions \/ ResizeDisk \/ Damage) /\ Flush

\* Each cached write is on the medium, lost, or (for a table) half-written.
\* Of places that overlap this allows more than a disk can hold.
PowerLoss ==
  /\ hdr' \in {h \in [Loc -> {hdr[l] : l \in Loc} \cup {mediumHdr[l] : l \in Loc}] :
                 \A l \in Loc : h[l] \in {hdr[l], mediumHdr[l]}}
  /\ tab' \in {t \in [Loc -> Content] :
                 \A l \in Loc : t[l] \in {tab[l], mediumTab[l]} \cup
                   (IF tab[l] = mediumTab[l] THEN {} ELSE FreshTears)}
  /\ mbr' \in {mbr, mediumMbr}
  /\ Flush
  /\ pc' = "idle"
  /\ job' = "none"
  /\ UNCHANGED <<size, mem, allOK, history>>

PowerInit == Init /\ mediumHdr = hdr /\ mediumTab = tab /\ mediumMbr = mbr

PowerNext == Synced \/ Cached \/ Settled \/ PowerLoss

PowerSpec == PowerInit /\ [][PowerNext]_powerVars

=============================================================================
