------------------------ MODULE GptStorePowerProofs ------------------------
(***************************************************************************)
(* What a loss of power can do to the disk, for every set of tables, every *)
(* choice of disk sizes and any number of torn writes: nothing to an       *)
(* operation that was reported as a success, and nothing to a save under   *)
(* way that a load of the disk would not notice.                           *)
(***************************************************************************)
EXTENDS GptStorePower, GptStoreProofs

-----------------------------------------------------------------------------
(* The medium.                                                             *)

\* What is on the medium is of the disk's types, and its good headers too
\* name their own sector.
MediumOK ==
  /\ mediumHdr \in [Loc -> Header]
  /\ mediumTab \in [Loc -> Content]
  /\ mediumMbr \in MBRValidity
  /\ \A l \in Loc :
       mediumHdr[l].ok => /\ mediumHdr[l].at = l
                          /\ l = 0 => mediumHdr[l].alt # 0
                          /\ l # 0 => mediumHdr[l].alt = 0

\* A step is a step of GptStore that flushes everything or nothing, or it is
\* a loss of power.
LEMMA PowerSteps ==
  ASSUME [PowerNext]_powerVars
  PROVE  PowerLoss \/ ([Next]_vars /\ (Flush \/ UNCHANGED medium))
<1>1. CASE Synced \/ Settled
  BY <1>1 DEF Synced, Settled, Next, Command, Write, Fault
<1>2. CASE Cached
  BY <1>2 DEF Cached, Next, Command, Write, Fault
<1>3. CASE UNCHANGED powerVars
  BY <1>3 DEF powerVars, vars, medium
<1> QED
  BY <1>1, <1>2, <1>3 DEF PowerNext

\* Each sector that survives a loss of power is one that was written; what
\* was flushed survives.
LEMMA Survivors ==
  ASSUME TypeOK, MediumOK, PowerLoss
  PROVE  /\ hdr' \in [Loc -> Header] /\ tab' \in [Loc -> Content] /\ mbr' \in MBRValidity
         /\ \A l \in Loc : hdr'[l] \in {hdr[l], mediumHdr[l]}
         /\ mediumHdr = hdr => hdr' = hdr
         /\ mediumTab = tab => tab' = tab
         /\ mbr' \in {mbr, mediumMbr}
         /\ mediumHdr' = hdr' /\ mediumTab' = tab' /\ mediumMbr' = mbr'
<1> USE DEF TypeOK, MediumOK
<1>1. /\ hdr' \in [Loc -> {hdr[l] : l \in Loc} \cup {mediumHdr[l] : l \in Loc}]
      /\ \A l \in Loc : hdr'[l] \in {hdr[l], mediumHdr[l]}
  BY DEF PowerLoss
<1>2. hdr' \in [Loc -> Header]
  <2>1. \A l \in Loc : hdr[l] \in Header /\ mediumHdr[l] \in Header
    OBVIOUS
  <2> QED
    BY <1>1, <2>1
<1>3. mediumHdr = hdr => hdr' = hdr
  BY <1>1, <1>2
<1>4. /\ tab' \in [Loc -> Content]
      /\ \A l \in Loc : tab'[l] \in {tab[l], mediumTab[l]} \cup
                          (IF tab[l] = mediumTab[l] THEN {} ELSE FreshTears)
  BY DEF PowerLoss
<1>5. mediumTab = tab => tab' = tab
  BY <1>4
<1> QED
  BY <1>1, <1>2, <1>3, <1>4, <1>5 DEF PowerLoss, Flush

LEMMA MediumOKStep ==
  ASSUME HeadersInv, HeadersInv', MediumOK, Flush \/ UNCHANGED medium
  PROVE  MediumOK'
<1>1. CASE Flush
  BY <1>1 DEF Flush, MediumOK, HeadersInv, TypeOK, OnDisk
<1>2. CASE UNCHANGED medium
  BY <1>2 DEF medium, MediumOK
<1> QED
  BY <1>1, <1>2

\* A program that starts after a loss of power finds headers like any other.
LEMMA HeadersSurvive ==
  ASSUME HeadersInv, MediumOK, PowerLoss
  PROVE  HeadersInv' /\ MediumOK'
<1>1. /\ size' = size /\ mem' = mem /\ allOK' = allOK /\ report' = report
      /\ begun' = begun /\ pc' = "idle" /\ job' = "none"
  BY DEF PowerLoss, history
<1>2. TypeOK'
  BY <1>1, Survivors DEF HeadersInv, TypeOK, Phases, Jobs
<1>3. OnDisk'
  BY Survivors DEF HeadersInv, OnDisk, MediumOK
<1>4. LaidOut' /\ ReadyToSave'
  BY <1>1 DEF LaidOut, ReadyToSave, SavePhases
<1>5. MediumOK'
  <2>1. mediumHdr' = hdr' /\ mediumTab' = tab' /\ mediumMbr' = mbr'
    BY Survivors DEF HeadersInv
  <2> QED
    BY <1>2, <1>3, <2>1 DEF MediumOK, TypeOK, OnDisk
<1> QED
  BY <1>2, <1>3, <1>4, <1>5 DEF HeadersInv

\* What every theorem below needs of the program and of the medium.
Base == HeadersInv /\ MediumOK /\ Busy /\ NothingPromised

LEMMA BaseInit == PowerInit => Base
<1> SUFFICES ASSUME PowerInit PROVE Base
  OBVIOUS
<1>1. HeadersInv
  BY HeadersInit DEF PowerInit
<1>2. MediumOK
  BY <1>1 DEF PowerInit, MediumOK, HeadersInv, TypeOK, OnDisk
<1> QED
  BY <1>1, <1>2
  DEF PowerInit, Init, Base, Busy, NothingPromised, SavePhases, DestroyPhases

LEMMA BaseStep == Base /\ [PowerNext]_powerVars => Base'
<1> SUFFICES ASSUME Base, [PowerNext]_powerVars PROVE Base'
  OBVIOUS
<1> USE DEF Base
<1>1. CASE PowerLoss
  <2>1. pc' = "idle"
    BY <1>1 DEF PowerLoss
  <2> QED
    BY <1>1, <2>1, HeadersSurvive DEF Busy, NothingPromised, SavePhases, DestroyPhases
<1>2. CASE [Next]_vars /\ (Flush \/ UNCHANGED medium)
  BY <1>2, HeadersStep, MediumOKStep, BusyStep, NothingPromisedStep
<1> QED
  BY <1>1, <1>2, PowerSteps

-----------------------------------------------------------------------------
(* A success on record is on the medium.                                   *)

\* Where the next operation starts, the main header is flushed, and so are
\* the others unless gdisk failed to write a backup table over one of them.
HeadersFlushed ==
  /\ pc \in {"aborted", "cleared", "mo"} => mediumHdr = hdr
  /\ pc = "loaded" /\ ~Interactive => mediumHdr = hdr
  /\ pc \in {"loaded", "bt"} => mediumHdr[0] = hdr[0]

\* The first write of a save is not to the main header.
LEMMA FirstWrite ==
  ASSUME TypeOK, pc = "bt", FailWrite
  PROVE  /\ hdr'[0] = hdr[0]
         /\ pc' = IF Interactive THEN "loaded" ELSE "idle"
<1>1. /\ CutTable(mem.second.at, mem.parts)
      /\ pc' = IF Interactive THEN "loaded" ELSE "idle"
  BY DEF FailWrite, Interrupted, TableTarget, NewTableContents, DestroyPhases, AfterOperation
<1>2. mem.second.at \in Loc /\ mem.parts \in Content /\ 0 \in Loc
  BY Constants DEF TypeOK, Memory, Header
<1>3. \A k \in Loc : k \notin Under(mem.second.at) => hdr'[k] = hdr[k]
  BY <1>1, <1>2, TableStored
<1>4. 0 \notin Under(mem.second.at)
  BY <1>2, Geometry, Constants
<1> QED
  BY <1>1, <1>2, <1>3, <1>4

LEMMA HeadersFlushedStep ==
  ASSUME TypeOK, HeadersFlushed, [PowerNext]_powerVars
  PROVE  HeadersFlushed'
<1> USE DEF HeadersFlushed
<1>1. CASE Synced \/ Settled \/ PowerLoss
  BY <1>1 DEF Synced, Settled, PowerLoss, Flush
<1>2. CASE UNCHANGED medium
  <2>1. CASE \/ Edit \/ MoveSecondHeaderToEnd \/ NewTable \/ Recover \/ LoadMBR
             \/ SetProtectiveMBR \/ Quit \/ SaveGPTData \/ Zap \/ ConvertToMBR
             \/ WriteMBROnly
    BY <1>2, <2>1
    DEF Edit, MoveSecondHeaderToEnd, NewTable, Recover, LoadMBR, SetProtectiveMBR,
        Quit, SaveGPTData, Zap, ConvertToMBR, WriteMBROnly, DestroyGPT,
        AfterOperation, disk, medium
  <2>2. CASE \/ WriteBackupTable \/ WriteBackupHeader \/ WriteMainTable
             \/ WriteMainHeader \/ WriteMBR \/ BlankMainHeader \/ BlankMainTable
             \/ BlankBackupTable \/ BlankBackupHeader \/ Kill
    BY <2>2
    DEF WriteBackupTable, WriteBackupHeader, WriteMainTable, WriteMainHeader, WriteMBR,
        BlankMainHeader, BlankMainTable, BlankBackupTable, BlankBackupHeader, Kill
  <2>3. CASE FailWrite
    <3>1. CASE pc = "bt"
      BY <1>2, <2>3, <3>1, FirstWrite DEF medium
    <3>2. CASE pc = "mo"
      BY <1>2, <2>3, <3>2 DEF FailWrite, Interrupted, medium
    <3>3. CASE pc \notin {"bt", "mo"}
      BY <2>3, <3>3 DEF FailWrite
    <3> QED
      BY <3>1, <3>2, <3>3
  <2>4. CASE UNCHANGED powerVars
    BY <2>4 DEF powerVars
  <2> QED
    BY <1>1, <2>1, <2>2, <2>3, <2>4 DEF PowerNext, Cached
<1> QED
  BY <1>1, <1>2 DEF PowerNext, Cached, powerVars, medium

\* What a reported success rests on is flushed when it is reported.
ReportsFlushed ==
  /\ report.kind # "none" => mediumHdr = hdr
  /\ report.kind \in {"saved", "shrunk"} => mediumTab = tab
  /\ report.kind = "converted" /\ ~Interactive => mediumMbr = mbr

LEMMA ReportsFlushedStep ==
  ASSUME Base, HeadersFlushed, ReportsFlushed, [PowerNext]_powerVars
  PROVE  ReportsFlushed'
<1> USE DEF ReportsFlushed
<1>1. CASE Synced \/ Settled \/ PowerLoss
  BY <1>1 DEF Synced, Settled, PowerLoss, Flush
<1>2. CASE UNCHANGED <<medium, disk, report>>
  BY <1>2 DEF medium, disk
<1>3. CASE report' = NoReport
  BY <1>3 DEF NoReport
<1>4. CASE /\ report' = [kind |-> "gone", table |-> Blank]
           /\ pc = "mo" /\ UNCHANGED <<medium, hdr>>
  BY <1>4 DEF HeadersFlushed, medium
<1>5. CASE Cached
  <2>1. CASE \/ Edit \/ MoveSecondHeaderToEnd \/ NewTable \/ Recover \/ LoadMBR
             \/ SetProtectiveMBR \/ Quit \/ SaveGPTData \/ Zap \/ ConvertToMBR
    BY <1>2, <1>3, <1>5, <2>1
    DEF Cached, Edit, MoveSecondHeaderToEnd, NewTable, Recover, LoadMBR,
        SetProtectiveMBR, Quit, SaveGPTData, Zap, ConvertToMBR, history
  <2>2. CASE \/ WriteBackupTable \/ WriteBackupHeader \/ WriteMainTable
             \/ WriteMainHeader \/ WriteMBR \/ BlankMainHeader \/ BlankMainTable
             \/ BlankBackupTable \/ BlankBackupHeader \/ Kill
    <3>1. report' = report /\ pc \in SavePhases \cup DestroyPhases \cup {"mo"}
      BY <2>2
      DEF WriteBackupTable, WriteBackupHeader, WriteMainTable, WriteMainHeader, WriteMBR,
          BlankMainHeader, BlankMainTable, BlankBackupTable, BlankBackupHeader, Kill,
          history, SavePhases, DestroyPhases
    <3> QED
      BY <1>3, <3>1 DEF Base, Busy
  <2>3. CASE WriteMBROnly
    <3>1. pc = "mo" /\ report = NoReport /\ UNCHANGED <<medium, hdr>>
      BY <1>5, <2>3 DEF Cached, WriteMBROnly, Base, Busy
    <3>2. \/ report' = NoReport
          \/ report' = [kind |-> "gone", table |-> Blank]
          \/ report' = [kind |-> "converted", table |-> Blank] /\ Interactive
      BY <2>3, <3>1 DEF WriteMBROnly, BlanksMBR
    <3> QED
      BY <1>3, <1>4, <3>1, <3>2 DEF HeadersFlushed, medium
  <2>4. CASE FailWrite
    <3>1. report = NoReport
      BY <2>4 DEF FailWrite, Base, Busy, SavePhases, DestroyPhases
    <3>2. \/ report' = NoReport
          \/ report' = [kind |-> "gone", table |-> Blank] /\ pc = "mo"
      BY <2>4, <3>1 DEF FailWrite
    <3>3. pc = "mo" => UNCHANGED <<medium, hdr>>
      BY <1>5, <2>4 DEF Cached, FailWrite, Interrupted
    <3> QED
      BY <1>3, <1>4, <3>2, <3>3
  <2> QED
    BY <1>5, <2>1, <2>2, <2>3, <2>4 DEF Cached
<1>6. CASE UNCHANGED powerVars
  BY <1>2, <1>6 DEF powerVars, medium, disk
<1> QED
  BY <1>1, <1>5, <1>6 DEF PowerNext

\* A reported save survives a loss of power at any later moment.
THEOREM ReportedSaveSurvivesPowerLoss ==
  ASSUME ~ShortWrites
  PROVE  PowerSpec => []SuccessIsDurable
<1> DEFINE Inv == Base /\ HeadersFlushed /\ ReportsFlushed /\ Written /\ Durable
<1>1. PowerInit => Inv
  BY BaseInit
  DEF PowerInit, Init, HeadersFlushed, ReportsFlushed, Written, Durable, NoReport, SavePhases
<1>2. Inv /\ [PowerNext]_powerVars => Inv'
  <2> SUFFICES ASSUME Inv, [PowerNext]_powerVars PROVE Written' /\ Durable'
    BY BaseStep, HeadersFlushedStep, ReportsFlushedStep DEF Base, HeadersInv
  <2>1. CASE PowerLoss
    <3>1. pc' = "idle" /\ report' = report /\ size' = size
      BY <2>1 DEF PowerLoss, history
    <3>2. report.kind \in {"saved", "shrunk"} => hdr' = hdr /\ tab' = tab
      BY <2>1, Survivors DEF Base, HeadersInv, ReportsFlushed
    <3> QED
      BY <3>1, <3>2
      DEF Written, Durable, SavePhases, AgreesWithMain, Consistent, ConsistentIn
  <2>2. CASE [Next]_vars
    BY <2>2, WrittenStep, DurableStep DEF Base
  <2> QED
    BY <2>1, <2>2, PowerSteps
<1>3. Inv => SuccessIsDurable
  BY DurableLoads DEF Base
<1> QED
  BY <1>1, <1>2, <1>3, PTL DEF PowerSpec

\* So does a GPT that sgdisk reported destroyed or converted: it does not
\* come back, and the MBR it was converted to is not lost.
THEOREM ReportedDestructionSurvivesPowerLoss ==
  ASSUME ~OpenMayFail, ~Interactive
  PROVE  PowerSpec => []DestroyedMeansGone
<1> DEFINE Inv == /\ Base /\ HeadersFlushed /\ ReportsFlushed
                  /\ Converting /\ Blanked /\ Reported
<1>1. PowerInit => Inv
  BY BaseInit
  DEF PowerInit, Init, HeadersFlushed, ReportsFlushed, Converting, Blanked, Reported,
      NoReport, DestroyPhases
<1>2. Inv /\ [PowerNext]_powerVars => Inv'
  <2> SUFFICES ASSUME Inv, [PowerNext]_powerVars PROVE Converting' /\ Blanked' /\ Reported'
    BY BaseStep, HeadersFlushedStep, ReportsFlushedStep DEF Base, HeadersInv
  <2>1. TypeOK
    BY DEF Base, HeadersInv
  <2>2. CASE PowerLoss
    <3>1. pc' = "idle" /\ job' = "none" /\ report' = report /\ size' = size
      BY <2>2 DEF PowerLoss, history
    <3>2. report.kind # "none" => hdr' = hdr
      BY <2>1, <2>2, Survivors DEF Base, ReportsFlushed
    <3>3. report.kind = "converted" => mbr' = mbr
      BY <2>1, <2>2, Survivors DEF Base, ReportsFlushed
    <3> QED
      BY <3>1, <3>2, <3>3 DEF Converting, Blanked, Reported, Gone, DestroyPhases
  <2>3. CASE [Next]_vars
    BY <2>1, <2>3, ConvertingStep, BlankedStep, ReportedStep DEF Base
  <2> QED
    BY <2>2, <2>3, PowerSteps
<1>3. Inv => DestroyedMeansGone
  BY DEF Reported, Gone, DestroyedMeansGone, Loaded, ForceLoadGPTData, SecondLoc,
         GPTDataChoice
<1> QED
  BY <1>1, <1>2, <1>3, PTL DEF PowerSpec

-----------------------------------------------------------------------------
(* A save under way.                                                       *)

\* The main header on the medium is bad or has the CRC of the old table or
\* of the new; while nothing is written, it is the old one.
MediumCrcKnown ==
  /\ begun.old # {} /\ pc \in SavePhases \cup {"idle"} /\ mediumHdr[0].ok =>
       mediumHdr[0].crc \in begun.old \cup {mem.parts}
  /\ begun.old # {} /\ pc \in {"loaded", "aborted", "cleared", "bt"} =>
       begun.old = {hdr[0].crc}

LEMMA MediumCrcStep ==
  ASSUME Base, HeadersFlushed, MainCrcKnown, MainCrcKnown', MediumCrcKnown,
         [Next]_vars, Flush \/ UNCHANGED medium
  PROVE  MediumCrcKnown'
<1> SUFFICES ASSUME begun'.old # {} PROVE MediumCrcKnown'
  BY DEF MediumCrcKnown
<1>1. ASSUME pc' \in SavePhases \cup {"idle"}, mediumHdr'[0].ok
      PROVE  mediumHdr'[0].crc \in begun'.old \cup {mem'.parts}
  <2>1. CASE Flush
    BY <1>1, <2>1 DEF Flush, MainCrcKnown
  <2>2. CASE UNCHANGED medium /\ SaveGPTData /\ pc' = "bt"
    <3>1. /\ begun'.old = SoundStart(mem'.main.alt)
          /\ mediumHdr'[0] = hdr[0]
      BY <2>2 DEF SaveGPTData, AfterOperation, HeadersFlushed, medium
    <3> QED
      BY <3>1 DEF SoundStart, Consistent, ConsistentIn
  <2>3. CASE UNCHANGED medium /\ pc \in SavePhases /\ mem' = mem /\ begun' = begun
    BY <1>1, <2>3 DEF MediumCrcKnown, medium
  <2>4. CASE UNCHANGED medium /\ UNCHANGED vars
    BY <1>1, <2>4 DEF MediumCrcKnown, medium, vars
  <2> QED
    BY <1>1, <2>1, <2>2, <2>3, <2>4, UnderWay DEF Base
<1>2. ASSUME pc' \in {"loaded", "aborted", "cleared", "bt"}
      PROVE  begun'.old = {hdr'[0].crc}
  <2>1. CASE SaveGPTData /\ pc' = "bt"
    BY <2>1 DEF SaveGPTData, SoundStart, Consistent, ConsistentIn, disk, AfterOperation
  <2>2. CASE /\ pc \in {"loaded", "aborted", "cleared", "bt"}
             /\ hdr'[0] = hdr[0] /\ begun' = begun
    BY <2>2 DEF MediumCrcKnown
  <2>3. CASE \/ Edit \/ MoveSecondHeaderToEnd \/ NewTable \/ Recover \/ LoadMBR
             \/ SetProtectiveMBR \/ SaveGPTData
    BY <2>1, <2>2, <2>3
    DEF Edit, MoveSecondHeaderToEnd, NewTable, Recover, LoadMBR, SetProtectiveMBR,
        SaveGPTData, disk, history
  <2>4. CASE FailWrite
    <3>1. pc \notin DestroyPhases \cup {"mo"} /\ begun' = begun
      BY <2>4 DEF FailWrite, Base, NothingPromised
    <3>2. pc = "bt"
      BY <1>2, <2>4, <3>1 DEF FailWrite, DestroyPhases
    <3> QED
      BY <2>2, <2>4, <3>1, <3>2, FirstWrite DEF Base, HeadersInv
  <2>5. CASE UNCHANGED vars
    BY <1>2, <2>2, <2>5 DEF vars
  <2>6. ~\/ LoadPartitions \/ Quit \/ Zap \/ ConvertToMBR \/ FinishSave
         \/ ResizeDisk \/ Damage
    BY DEF LoadPartitions, Quit, Zap, ConvertToMBR, FinishSave, ResizeDisk, Damage, NotBegun
  <2>7. ~\/ WriteBackupTable \/ WriteBackupHeader \/ WriteMainTable \/ WriteMainHeader
         \/ WriteMBR \/ BlankMainHeader \/ BlankMainTable \/ BlankBackupTable
         \/ BlankBackupHeader \/ Kill
    BY <1>2
    DEF WriteBackupTable, WriteBackupHeader, WriteMainTable, WriteMainHeader, WriteMBR,
        BlankMainHeader, BlankMainTable, BlankBackupTable, BlankBackupHeader, Kill
  <2>8. ~(FinishDestroy \/ WriteMBROnly)
    BY DEF FinishDestroy, WriteMBROnly, Base, NothingPromised, DestroyPhases
  <2> QED
    BY <2>3, <2>4, <2>5, <2>6, <2>7, <2>8 DEF Next, Command, Write, Fault
<1> QED
  BY <1>1, <1>2 DEF MediumCrcKnown

\* A loss of power keeps one of the two main headers.
LEMMA CrcSurvives ==
  ASSUME Base, HeadersFlushed, MainCrcKnown, MediumCrcKnown, PowerLoss
  PROVE  MainCrcKnown' /\ MediumCrcKnown'
<1>1. /\ hdr'[0] \in {hdr[0], mediumHdr[0]} /\ mediumHdr' = hdr'
      /\ mem' = mem /\ begun' = begun /\ pc' = "idle"
  BY Survivors, Constants DEF Base, HeadersInv, PowerLoss, history
<1>2. ASSUME begun.old # {}, hdr'[0].ok
      PROVE  hdr'[0].crc \in begun.old \cup {mem.parts}
  <2>1. CASE pc \in SavePhases \cup {"idle"}
    BY <1>1, <1>2, <2>1 DEF MainCrcKnown, MediumCrcKnown
  <2>2. CASE pc \in {"loaded", "aborted", "cleared"}
    BY <1>1, <1>2, <2>2 DEF MediumCrcKnown, HeadersFlushed
  <2>3. CASE pc \in DestroyPhases \cup {"mo"}
    BY <1>2, <2>3 DEF Base, NothingPromised
  <2> QED
    BY <2>1, <2>2, <2>3 DEF Base, HeadersInv, TypeOK, Phases
<1> QED
  BY <1>1, <1>2 DEF MainCrcKnown, MediumCrcKnown

\* Whatever a loss of power keeps of a save's writes, torn or whole: a GPT
\* that passes every check holds the old partitions or the new.
THEOREM PowerLossIsNoticed == PowerSpec => []InterruptedSaveIsNoticed
<1> DEFINE Inv == Base /\ HeadersFlushed /\ MainCrcKnown /\ MediumCrcKnown
<1>1. PowerInit => Inv
  BY BaseInit DEF PowerInit, Init, HeadersFlushed, MainCrcKnown, MediumCrcKnown, NotBegun
<1>2. Inv /\ [PowerNext]_powerVars => Inv'
  <2> SUFFICES ASSUME Inv, [PowerNext]_powerVars PROVE MainCrcKnown' /\ MediumCrcKnown'
    BY BaseStep, HeadersFlushedStep DEF Base, HeadersInv
  <2>1. CASE PowerLoss
    BY <2>1, CrcSurvives
  <2>2. CASE [Next]_vars /\ (Flush \/ UNCHANGED medium)
    <3>1. MainCrcKnown'
      BY <2>2, MainCrcStep DEF Base
    <3> QED
      BY <2>2, <3>1, MediumCrcStep
  <2> QED
    BY <2>1, <2>2, PowerSteps
<1>3. Inv => InterruptedSaveIsNoticed
  <2>1. Loaded.state = "gpt_valid" => hdr[0].ok /\ Loaded.parts = hdr[0].crc
    BY DEF Loaded, ForceLoadGPTData
  <2> QED
    BY <2>1 DEF MainCrcKnown, InterruptedSaveIsNoticed
<1> QED
  BY <1>1, <1>2, <1>3, PTL DEF PowerSpec

=============================================================================
