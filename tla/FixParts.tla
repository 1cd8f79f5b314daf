------------------------------ MODULE FixParts ------------------------------
(***************************************************************************)
(* The programs that read an MBR with its chain of EBRs, change it and     *)
(* write it back:                                                          *)
(*   "fixparts"   fixparts.cc, with BasicMBRData::DoMenu()                 *)
(*   "scripted"   ohos_fixparts.cpp, which changes one type and saves      *)
(*   "gdisk"      recovery command g, which makes an MBR from a GPT        *)
(* A sector of the disk holds an MBR or EBR record, a GPT header or other  *)
(* data.  The chain is read one EBR at a time and written one sector at a  *)
(* time; a sector may be unreadable, a write may fail, and the program may *)
(* be killed between any two steps.                                        *)
(***************************************************************************)
EXTENDS MbrLayout

CONSTANTS Disks,        \* the disks a first session may find
          GptTables,    \* the partitions of GPTs that gdisk converts: slot -> [start, len]
          Faults,       \* how many reads and writes may fail
          MaxEdits,     \* how many menu commands are given
          MaxSessions   \* how many times a program is started

Sectors == 0 .. DiskSize - 1
Types == {"none", "data", "ext", "ee"}
Contents == [holds : {"record", "gpt", "data"},
             entries : [1 .. 4 -> [start : 0 .. Max32, len : 0 .. Max32, type : Types]]]

ASSUME DiskAssumption ==
  /\ Disks \subseteq [Sectors -> Contents]
  /\ GptTables \subseteq [Slots -> [start : Nat, len : Nat]]
  /\ Faults \in Nat /\ MaxEdits \in Nat /\ MaxSessions \in Nat

VARIABLES disk,       \* sector -> what it holds
          program,    \* which program runs, "none" between sessions
          pc,         \* what it does
          mbr,        \* partitions[]
          walk,       \* ReadLogicalParts(): its arguments and local variables
          ebr,        \* WriteMBRData(): partNum, writeEbrTo and extFirstLBA
          faults, edits, sessions,
          auxLoad,    \* the table that the load found, and whether it read it all
          auxSave     \* the table being saved, the disk before, and how it ended

session == <<program, mbr, walk, ebr>>
vars == <<disk, program, pc, mbr, walk, ebr, faults, edits, sessions, auxLoad, auxSave>>

-----------------------------------------------------------------------------
(***************************************************************************)
(* Sectors                                                                 *)
(***************************************************************************)
Entry(start, len, type) == [start |-> start, len |-> len, type |-> type]
NoEntry == Entry(0, 0, "none")
Record(entries) == [holds |-> "record", entries |-> entries]
Ebr(first, second) == Record(<<first, second, NoEntry, NoEntry>>)
Data == [holds |-> "data", entries |-> <<NoEntry, NoEntry, NoEntry, NoEntry>>]
GptHeader == [Data EXCEPT !.holds = "gpt"]

\* MBRPart::operator=(const MBRRecord &) and MBRPart::StoreInStruct()
FromEntry(e) == MkPart(e.start, e.len, IF e.len > 0 THEN "PRIMARY" ELSE "NONE", e.type)
ToEntry(p) == Entry(p.start, p.len, p.type)

IsExtended(e) == e.type = "ext"

-----------------------------------------------------------------------------
(***************************************************************************)
(* What a disk says, for the properties: the table that a reader finds who *)
(* follows every link once.                                                *)
(***************************************************************************)
OnDisk(start, e, as) == [start |-> start, len |-> e.len, type |-> e.type, as |-> as]

Links(d, ext, sector) ==
  LET e == d[sector].entries
  IN  IF sector \notin Sectors \/ d[sector].holds # "record" THEN {}
      ELSE IF IsExtended(e[1]) THEN {ext + e[1].start}
      ELSE IF e[2].start # 0 THEN {ext + e[2].start} ELSE {}

Chain(d, ext) ==
  LET reach[n \in 0 .. DiskSize] ==
        IF n = 0 THEN {ext}
        ELSE reach[n - 1] \union UNION {Links(d, ext, s) : s \in reach[n - 1]}
  IN  {s \in reach[DiskSize] : s \in Sectors /\ d[s].holds = "record"}

LogicalsOn(d, ext) ==
  {OnDisk(s + d[s].entries[1].start, d[s].entries[1], "LOGICAL") :
     s \in {t \in Chain(d, ext) : d[t].entries[1].len > 0 /\ ~IsExtended(d[t].entries[1])}}

PrimariesOn(d) ==
  {OnDisk(e.start, e, "PRIMARY") : e \in {d[0].entries[i] : i \in {j \in 1 .. 4 : d[0].entries[j].len > 0
                                                          /\ ~IsExtended(d[0].entries[j])}}}
ExtendedOn(d) == {i \in 1 .. 4 : IsExtended(d[0].entries[i])}

TableOn(d) == PrimariesOn(d) \union UNION {LogicalsOn(d, d[0].entries[i].start) : i \in ExtendedOn(d)}

TableOf(m) == {OnDisk(m[i].start, m[i], m[i].as) : i \in {j \in Included(m) : m[j].len > 0}}

\* A chain of links alone is a cycle if it comes back to an EBR.
LinkCycle(d) ==
  \E i \in ExtendedOn(d) :
    LET ext == d[0].entries[i].start
        bare == {s \in Chain(d, ext) : IsExtended(d[s].entries[1])}
        onward[n \in Nat, s \in Nat] ==
          IF s \notin bare THEN FALSE
          ELSE IF n = 0 THEN TRUE ELSE onward[n - 1, ext + d[s].entries[1].start]
    IN  \E s \in bare : onward[DiskSize, s]

-----------------------------------------------------------------------------
(***************************************************************************)
(* Loading                                                                 *)
(***************************************************************************)
NoWalk == [slot |-> 0, ext |-> 0, offset |-> 0, num |-> 3, seen |-> [i \in Slots |-> 0], more |-> FALSE]
NoEbr == [part |-> 0, to |-> 0, ext |-> 0]
NothingLoaded == [table |-> {}, whole |-> FALSE]
NothingSaved == [table |-> {}, before |-> {}, plain |-> FALSE, stale |-> FALSE, kind |-> "none"]

MayFail == faults < Faults
Fails == MayFail /\ faults' = faults + 1
Works == UNCHANGED faults

Stop == /\ pc' = "off" /\ program' = "none" /\ mbr' = EmptyMBR /\ walk' = NoWalk /\ ebr' = NoEbr

\* ReadMBRData(): the first sector.  A disk that cannot be opened, or has no
\* signature, is refused; if the seek fails or nothing is read, the program goes
\* on with the empty table that it began with.
ReadMBR(p) ==
  /\ pc = "off" /\ p \in {"fixparts", "scripted"} /\ sessions < MaxSessions
  /\ sessions' = sessions + 1
  /\ auxSave' = NothingSaved
  /\ \/ Fails /\ UNCHANGED <<disk, session, pc, auxLoad>>
     \/ /\ program' = p /\ pc' = "scan"
        /\ \/ /\ Fails
              /\ mbr' = EmptyMBR /\ auxLoad' = NothingLoaded
           \/ /\ Works
              /\ disk[0].holds = "record"
              /\ mbr' = [i \in Slots |-> IF i < 4 THEN FromEntry(disk[0].entries[i + 1]) ELSE EmptyPart]
              /\ auxLoad' = [table |-> TableOn(disk), whole |-> TRUE]
        /\ UNCHANGED <<disk, walk, ebr>>
  /\ UNCHANGED edits

ExtendedSlots == {i \in 0 .. 3 : mbr[i].type = "ext"}

BeginChain_FirstNumber ==
  /\ pc = "scan" /\ ExtendedSlots # {}
  /\ LET slot == LeastOf(ExtendedSlots)
     IN  walk' = [slot |-> slot, ext |-> mbr[slot].start, offset |-> mbr[slot].start,
                  num |-> slot + 1, seen |-> [i \in Slots |-> 0], more |-> TRUE]
  /\ pc' = "walking"
  /\ UNCHANGED <<disk, program, mbr, ebr, faults, edits, sessions, auxLoad, auxSave>>

\* The bound of ReadLogicalParts() tested behind its first round.
BeginChain_Unbounded ==
  /\ pc = "scan" /\ ExtendedSlots # {}
  /\ LET slot == LeastOf(ExtendedSlots)
     IN  walk' = [slot |-> slot, ext |-> mbr[slot].start, offset |-> mbr[slot].start,
                  num |-> walk.num + 1, seen |-> [i \in Slots |-> 0], more |-> TRUE]
  /\ pc' = "walking"
  /\ UNCHANGED <<disk, program, mbr, ebr, faults, edits, sessions, auxLoad, auxSave>>

\* The call of ReadLogicalParts() for the next extended partition, with the
\* number behind that of the last logical partition.
BeginChain ==
  /\ pc = "scan" /\ ExtendedSlots # {}
  /\ LET slot == LeastOf(ExtendedSlots)
     IN  walk' = [slot |-> slot, ext |-> mbr[slot].start, offset |-> mbr[slot].start,
                  num |-> walk.num + 1, seen |-> [i \in Slots |-> 0], more |-> walk.num + 1 < MaxParts]
  /\ pc' = "walking"
  /\ UNCHANGED <<disk, program, mbr, ebr, faults, edits, sessions, auxLoad, auxSave>>

\* ReadLogicalParts(): the array of EBRs read so far is indexed by the number
\* of the partition, so that an EBR that only points on is overwritten; every
\* entry that equals the offset takes one from the number.
SeenBefore == {k \in Slots : walk.seen[k] = walk.offset}
NumberAfterCheck == GreatestOf({0, walk.num - Cardinality(SeenBefore)})

FollowLink(w, e) == [w EXCEPT !.offset = w.ext + e.start]

\* A link taken from the last EBR instead of the extended partition.
ReadPartition_FromLastEbr(w, e, next) ==
  IF next.start # 0 /\ w.num < MaxParts - 1
  THEN [w EXCEPT !.offset = w.offset + next.start, !.num = w.num + 1]
  ELSE [w EXCEPT !.more = FALSE]

ReadPartition(w, e, next) ==
  IF next.start # 0 /\ w.num < MaxParts - 1
  THEN [w EXCEPT !.offset = w.ext + next.start, !.num = w.num + 1]
  ELSE [w EXCEPT !.more = FALSE]

\* ReadLogicalParts() without the look at the EBRs it has read.
ReadEbr_NoLoopCheck ==
  /\ pc = "walking" /\ walk.more
  /\ LET good == walk.offset \in Sectors /\ disk[walk.offset].holds = "record"
         e == disk[walk.offset].entries
     IN  /\ walk' = IF ~good THEN [walk EXCEPT !.more = FALSE]
                    ELSE IF IsExtended(e[1]) THEN FollowLink(walk, e[1])
                    ELSE IF e[2].start = 0 THEN [walk EXCEPT !.more = FALSE]
                    ELSE [walk EXCEPT !.offset = walk.ext + e[2].start,
                                      !.num = IF walk.num < MaxParts - 1 THEN walk.num + 1 ELSE 4]
         /\ mbr' = IF good /\ ~IsExtended(e[1])
                   THEN [mbr EXCEPT ![walk.num] = MkPart(e[1].start + walk.offset, e[1].len, "LOGICAL", e[1].type)]
                   ELSE mbr
  /\ UNCHANGED <<disk, program, pc, ebr, faults, edits, sessions, auxLoad, auxSave>>

\* One round of ReadLogicalParts().
ReadEbr ==
  /\ pc = "walking" /\ walk.more
  /\ LET w == [walk EXCEPT !.num = NumberAfterCheck, !.seen[NumberAfterCheck] = walk.offset]
         good == /\ SeenBefore = {}
                 /\ walk.offset \in Sectors /\ disk[walk.offset].holds = "record"
         e == disk[walk.offset].entries
     IN  \/ /\ Fails /\ walk' = [w EXCEPT !.more = FALSE]
            /\ auxLoad' = [auxLoad EXCEPT !.whole = FALSE] /\ UNCHANGED mbr
         \/ /\ Works /\ ~good
            /\ walk' = [w EXCEPT !.more = FALSE] /\ UNCHANGED <<mbr, auxLoad>>
         \/ /\ Works /\ good /\ IsExtended(e[1])
            /\ walk' = FollowLink(w, e[1]) /\ UNCHANGED <<mbr, auxLoad>>
         \/ /\ Works /\ good /\ ~IsExtended(e[1])
            /\ walk' = ReadPartition(w, e[1], e[2])
            /\ mbr' = [mbr EXCEPT ![w.num] = MkPart(Low32(e[1].start + walk.offset), e[1].len, "LOGICAL", e[1].type)]
            /\ UNCHANGED auxLoad
  /\ UNCHANGED <<disk, program, pc, ebr, edits, sessions, auxSave>>

EndChain ==
  /\ pc = "walking" /\ ~walk.more
  /\ pc' = "scan"
  /\ mbr' = [mbr EXCEPT ![walk.slot] = EmptyPart]
  /\ UNCHANGED <<disk, program, walk, ebr, faults, edits, sessions, auxLoad, auxSave>>

\* ReadMBRData() ends; a protective entry makes fixparts.cc and ValidateMbrData()
\* refuse the disk.
Refused == \E i \in 0 .. 3 : mbr[i].type = "ee"
EndLoad ==
  /\ pc = "scan" /\ ExtendedSlots = {}
  /\ IF Refused THEN Stop
     ELSE /\ pc' = IF program = "fixparts" THEN "erase" ELSE "menu"
          /\ mbr' = IF program = "fixparts" THEN mbr ELSE MakeItLegal(mbr)
          /\ walk' = NoWalk
          /\ UNCHANGED <<program, ebr>>
  /\ UNCHANGED <<disk, faults, edits, sessions, auxLoad, auxSave>>

CheckForGPT == {s \in {1, DiskSize - 1} : disk[s] = GptHeader}

\* BlankGPTData(): each header is erased by a write of its own.
BlankGPTData(erased) ==
  /\ IF erased \in {{}, CheckForGPT} THEN Works ELSE Fails
  /\ disk' = [s \in Sectors |-> IF s \in erased THEN Data ELSE disk[s]]

\* DoMBR(): old GPT headers are erased if the user wants it; then the table is
\* made legal.
DoMBR ==
  /\ pc = "erase"
  /\ pc' = "menu" /\ mbr' = MakeItLegal(mbr)
  /\ \E erased \in SUBSET CheckForGPT : BlankGPTData(erased)
  /\ UNCHANGED <<program, walk, ebr, edits, sessions, auxLoad, auxSave>>

\* XFormToMBR(): GPT partitions 1 to 4 become primary, the others logical.
XFormToMBR ==
  /\ pc = "off" /\ sessions < MaxSessions
  /\ disk[0].holds = "record" /\ \E i \in 1 .. 4 : disk[0].entries[i].type = "ee"
  /\ \E gpt \in GptTables :
       LET Make(m, i) == IF gpt[i].len > 0 THEN MakePart(m, i, gpt[i].start, gpt[i].len, "data") ELSE m
           made == Loop(Make, EmptyMBR, Upward)
       IN  mbr' = MakeItLegal(made) /\ auxLoad' = [table |-> TableOf(made), whole |-> TRUE]
  /\ program' = "gdisk" /\ pc' = "menu" /\ sessions' = sessions + 1
  /\ auxSave' = NothingSaved
  /\ UNCHANGED <<disk, walk, ebr, faults, edits>>

-----------------------------------------------------------------------------
(***************************************************************************)
(* DoMenu() and ChangePartitionType()                                      *)
(***************************************************************************)
Editing ==
  /\ pc = "menu" /\ edits < MaxEdits
  /\ edits' = edits + 1
  /\ UNCHANGED <<disk, program, pc, walk, ebr, faults, sessions, auxLoad, auxSave>>

SetInclusion ==
  /\ Editing /\ program # "scripted"
  /\ \E num \in Slots, as \in {"PRIMARY", "LOGICAL", "NONE"} : mbr' = SetInclusionwChecks(mbr, num, as)

Sort == Editing /\ program # "scripted" /\ mbr' \in SortMBR(mbr, 0)

ChangeType ==
  /\ Editing
  /\ \E num \in {i \in Slots : mbr[i].len > 0}, type \in {"data", "ext", "ee"} : mbr' = SetType(mbr, num, type)

-----------------------------------------------------------------------------
(***************************************************************************)
(* WriteMBRData()                                                          *)
(***************************************************************************)
\* What the promises about a save are for: an entry without sectors is blank, as
\* the menu lets one be marked as primary, and sorting is no order with others; no
\* partition begins in the MBR, and no logical one in sector 1, where its EBR would
\* be the MBR; and the array has entries to move partitions to that are not primary.
Spare == {j \in 4 .. MaxParts - 1 : mbr[j].as = "NONE" /\ mbr[j].len = 0}
ToMove == {i \in 0 .. 3 : mbr[i].as # "PRIMARY" /\ mbr[i].len > 0}
PlainTable ==
  /\ \A i \in Slots : mbr[i].len = 0 => mbr[i].start = 0 /\ mbr[i].as = "NONE"
  /\ \A i \in Included(mbr) : mbr[i].start > IF mbr[i].as = "LOGICAL" THEN 1 ELSE 0
  /\ Cardinality(ToMove) <= Cardinality(Spare)

\* EBRs of former layouts, which no chain leads to.
StaleEbrs == {s \in Sectors \ {0} : /\ disk[s].holds = "record"
                                    /\ \A i \in ExtendedOn(disk) : s \notin Chain(disk, disk[0].entries[i].start)}

\* The table is arranged; one that is not legal is not written.  ohos_fixparts.cpp
\* saves after it changed a partition, so there is one.
BeginWrite ==
  /\ pc = "menu"
  /\ program = "scripted" => \E i \in Slots : mbr[i].len > 0
  /\ program # "scripted" => CountParts(mbr) > 0
  /\ \E arranged \in CreateExtended(mbr) :
         IF arranged.ok
         THEN /\ pc' = "writeMBR" /\ mbr' = arranged.mbr
              /\ auxSave' = [table |-> TableOf(mbr), before |-> TableOn(disk), plain |-> PlainTable,
                            stale |-> StaleEbrs # {}, kind |-> "begun"]
              /\ UNCHANGED <<program, walk, ebr>>
         ELSE Stop /\ auxSave' = [NothingSaved EXCEPT !.kind = "refused"]
  /\ UNCHANGED <<disk, faults, edits, sessions, auxLoad>>

EndWrite(kind) == Stop /\ auxSave' = [auxSave EXCEPT !.kind = kind]

\* WriteMBRData(mbr, disk, sector): a sector behind the end cannot be written.
Store(sector, record) ==
  /\ Works
  /\ disk' = [disk EXCEPT ![sector] = record]

MBRRecord == Record([k \in 1 .. 4 |-> ToEntry(mbr[k - 1])])
WriteFails == (Fails \/ (Works /\ ebr.to \notin Sectors)) /\ EndWrite("failed") /\ UNCHANGED disk

WriteMBR ==
  /\ pc = "writeMBR"
  /\ \/ WriteFails
     \/ /\ Store(0, MBRRecord)
        /\ LET first == FindNextInUse(mbr, 4)
           IN  IF ExtendedSlots # {} /\ first >= 0
               THEN LET ext == mbr[GreatestOf(ExtendedSlots)].start
                    IN  /\ ebr' = [part |-> first, to |-> ext, ext |-> ext]
                        /\ pc' = "writeEBR"
                        /\ UNCHANGED <<program, mbr, walk, auxSave>>
               ELSE EndWrite("done")
  /\ UNCHANGED <<edits, sessions, auxLoad>>

\* The link to the EBR in front of the next logical partition, if there is one.
NextLogical == FindNextInUse(mbr, ebr.part + 1)
HasNext == NextLogical > 0 /\ mbr[NextLogical].start > 0
LinkTo_Absolute(p) == Entry(p.start - 1, Low32(p.len + 1), "ext")

LinkTo(p) == Entry(Low32(Minus64(p.start, ebr.ext + 1)), Low32(p.len + 1), "ext")
\* A logical partition begins in the sector behind its EBR.
FromItsEbr_Absolute(p) == ToEntry(p)
FromItsEbr(p) == Entry(1, p.len, p.type)

WriteEBR ==
  /\ pc = "writeEBR"
  /\ LET link == IF HasNext THEN LinkTo(mbr[NextLogical]) ELSE NoEntry
     IN  \/ WriteFails
         \/ /\ ebr.to \in Sectors
            /\ Store(ebr.to, Ebr(FromItsEbr(mbr[ebr.part]), link))
            /\ IF HasNext
               THEN /\ ebr' = [ebr EXCEPT !.part = NextLogical, !.to = link.start + ebr.ext]
                    /\ UNCHANGED <<program, pc, mbr, walk, auxSave>>
               ELSE EndWrite("done")
  /\ UNCHANGED <<edits, sessions, auxLoad>>

\* The user quits, or the process is killed.
Quit ==
  /\ pc # "off"
  /\ Stop
  /\ UNCHANGED <<disk, faults, edits, sessions, auxLoad, auxSave>>

-----------------------------------------------------------------------------
Init ==
  /\ disk \in Disks
  /\ program = "none" /\ pc = "off" /\ mbr = EmptyMBR /\ walk = NoWalk /\ ebr = NoEbr
  /\ faults = 0 /\ edits = 0 /\ sessions = 0
  /\ auxLoad = NothingLoaded /\ auxSave = NothingSaved

ReadChains == BeginChain \/ ReadEbr \/ EndChain
Read == (\E p \in {"fixparts", "scripted"} : ReadMBR(p)) \/ ReadChains \/ EndLoad \/ DoMBR \/ XFormToMBR
Menu == SetInclusion \/ Sort \/ ChangeType
Write == BeginWrite \/ WriteMBR \/ WriteEBR
Next == Read \/ Menu \/ Write \/ Quit

Spec == Init /\ [][Next]_vars

\* A program that reads the chains goes on until it is done or killed; nobody has
\* to give a command or to save.
FairSpec == Spec /\ WF_vars(ReadChains)

-----------------------------------------------------------------------------
(***************************************************************************)
(* Properties                                                              *)
(***************************************************************************)
\* Every variable has its type.  Numbers stay within the widths of their fields,
\* and the number of a logical partition read from the chain within the array
\* (ReadLogicalParts() uses it as an index before it is checked again).
TypeOK ==
  /\ disk \in [Sectors -> Contents]
  /\ program \in {"none", "fixparts", "scripted", "gdisk"}
  /\ pc \in {"off", "scan", "walking", "erase", "menu", "writeMBR", "writeEBR"}
  /\ mbr \in [Slots -> [start : 0 .. Max32, len : 0 .. Max32, as : {"NONE", "PRIMARY", "LOGICAL"}, type : Types]]
  /\ walk.num \in Nat /\ (walk.more => walk.num \in Slots)
  /\ walk.seen \in [Slots -> Nat]
  /\ ebr.part \in Slots
  /\ faults \in 0 .. Faults /\ edits \in 0 .. MaxEdits /\ sessions \in 0 .. MaxSessions

Final(p) == p.start + p.len - 1
Apart(p, q) == Final(p) < q.start \/ Final(q) < p.start
Fits(p) == p.start > 0 /\ Final(p) < DiskSize
Disjoint(t) == (\A p \in t : Fits(p)) /\ \A p, q \in t : p # q => Apart(p, q)

LogicalsIn(t) == {p \in t : p.as = "LOGICAL"}
PrimariesIn(t) == {p \in t : p.as = "PRIMARY"}
HasEbr(p, t) == p.start > 1 /\ \A q \in t : ~(q.start <= p.start - 1 /\ p.start - 1 <= Final(q))
Between(p, t) == \E q, r \in LogicalsIn(t) : q.start < p.start /\ p.start < r.start

\* A layout that a disk with one extended partition can hold.
Sound(t) ==
  /\ Disjoint(t)
  /\ \A p \in LogicalsIn(t) : HasEbr(p, t)
  /\ \A p \in PrimariesIn(t) : ~Between(p, t)
  /\ Cardinality(PrimariesIn(t)) + (IF LogicalsIn(t) = {} THEN 0 ELSE 1) <= 4

NoEmptyEbr(d) == \A i \in ExtendedOn(d) : \A s \in Chain(d, d[0].entries[i].start) : d[s].entries[1].len > 0

\* Loading and repairing a table that needs no repair changes nothing: every
\* primary and every logical partition on the disk is in the menu, with its
\* place, type and kind (ReadMBRData(), ReadLogicalParts() and MakeItLegal()).
SoundTableIsKept ==
  pc = "menu" /\ edits = 0 /\ auxLoad.whole /\ Sound(auxLoad.table) /\ NoEmptyEbr(disk) =>
    TableOf(mbr) = auxLoad.table

\* Whatever was read or converted, no included partitions in the menu overlap,
\* the MBR's four entries are enough for them and none ends behind the disk
\* (MakeItLegal(), and no command takes that back); and no command makes a legal
\* array illegal (SetInclusionwChecks(), SortMBR()), but for an entry without
\* sectors that begins somewhere, which spoils the order of sorting.
MenuKeepsTableLegal ==
  [][pc' = "menu" =>
       /\ Repaired(mbr')
       /\ pc = "menu" /\ IsLegal(mbr) /\ (\A i \in Slots : mbr[i].len = 0 => mbr[i].start = 0) =>
            IsLegal(mbr')]_vars

\* A save that reports no failure leaves what the menu showed: who reads the MBR
\* and follows the links of the EBRs finds each included partition and nothing
\* else (CreateExtended(), WriteMBRData()).
SavedTableIsReadBack ==
  pc = "off" /\ auxSave.kind = "done" /\ auxSave.plain => TableOn(disk) = auxSave.table

InUse(s) == \E i \in Included(mbr) : mbr[i].type # "ext" /\ mbr[i].len > 0 /\ Covers(mbr[i], s)

\* Neither the MBR nor an EBR is written to a sector of a partition in use, if the
\* table that is saved is plain.
SavesSparePartitions ==
  [][(pc \in {"writeMBR", "writeEBR"} /\ auxSave.plain) =>
       \A s \in Sectors : disk'[s] # disk[s] => ~InUse(s)]_vars

\* The chains of all extended partitions come to an end on any disk whose EBRs do
\* not link to one another in a circle without a partition between them
\* (ReadLogicalParts() looks for loops among the EBRs it has read).
ChainReadingEnds == (pc = "scan" /\ ~LinkCycle(disk)) ~> (ExtendedSlots = {})

\* While the disk is read, the logical partitions stay out of the first four
\* entries, which hold the MBR's own partitions, on any disk whose extended
\* partitions do not begin in the MBR.
LogicalsAreNumberedFromFive ==
  pc \in {"scan", "walking"} /\ (\A i \in ExtendedOn(disk) : disk[0].entries[i].start > 0) =>
    \A i \in 0 .. 3 : mbr[i].as # "LOGICAL"

\* A save that fails or is killed after any of its writes leaves the primary
\* partitions of the table before or of the new one, never some of each.
InterruptedSaveKeepsPrimaries ==
  auxSave.kind \in {"begun", "failed"} /\ auxSave.plain =>
    PrimariesOn(disk) \in {PrimariesIn(auxSave.before), PrimariesIn(auxSave.table)}

\* ... and a chain of old and new EBRs that may lack partitions, but shows none
\* that neither the old nor the new table has, unless there are EBRs of former
\* tables on the disk: the MBR is written before the chain it points to.
InterruptedSaveInventsNothing ==
  auxSave.kind \in {"begun", "failed"} /\ auxSave.plain /\ ~auxSave.stale =>
    TableOn(disk) \subseteq auxSave.before \union auxSave.table

\* "This writes both the MBR itself and any defined logical partitions" says the
\* comment at WriteMBRData(): after a save without a failure each logical partition
\* that the menu showed is found on the disk.
EveryLogicalIsWritten ==
  pc = "off" /\ auxSave.kind = "done" /\ (\A p \in LogicalsIn(auxSave.table) : p.start > 1) =>
    LogicalsIn(auxSave.table) \subseteq TableOn(disk)

=============================================================================
