------------------------------ MODULE HybridMbr ------------------------------
(***************************************************************************)
(* Protective and hybrid MBRs: how sgdisk and gdisk build one from a GPT,  *)
(* how an entry is deleted together with its GPT partition, and how an MBR *)
(* becomes a GPT.  A GPT partition has its first and its last sector, both *)
(* 0 if it is unused; parts is the partition array, from entry 1 on.       *)
(***************************************************************************)
EXTENDS MbrLayout

UsedPart(parts, n) == n \in DOMAIN parts /\ parts[n].last # 0
LengthOf(p) == p.last - p.first + 1

\* GPTPart::IsSizedForMBR()
IsSizedForMBR(p) ==
  IF p.first > Max32 \/ p.last - p.first > Max32 \/ p.first > p.last THEN "BAD"
  ELSE IF p.last > Max32 THEN "IFFY" ELSE "GOOD"

AsMBR(p) == MkPart(Low32(p.first), Low32(LengthOf(p)), "PRIMARY", "data")

\* The entry of type EE that reaches from sector 1 to the first partition.
EE(mbr) == MkPart(1, FindLastInFree(mbr, 1), "PRIMARY", "ee")

\* ReadMBRData(): what the four entries on the disk make of an MBR.
StateOf(mbr) ==
  LET types == {mbr[i].type : i \in 0 .. 3}
  IN  IF "ee" \notin types THEN "mbr" ELSE IF types \subseteq {"ee", "none"} THEN "gpt" ELSE "hybrid"

-----------------------------------------------------------------------------
(***************************************************************************)
(* GPTDataCL::BuildMBR(): sgdisk -h, with the EE entry first or last, and  *)
(* sgdisk -m, without one.  Any number that is no partition fails it all.  *)
(***************************************************************************)
BuildMBR(parts, list, hybrid, eeLast) ==
  LET offset == IF hybrid /\ ~eeLast THEN 1 ELSE 0
      entries == [i \in Slots |-> IF i - offset + 1 \in DOMAIN list /\ UsedPart(parts, list[i - offset + 1])
                                  THEN AsMBR(parts[list[i - offset + 1]]) ELSE EmptyPart]
      ee == IF eeLast THEN Len(list) ELSE 0
  IN  [ok |-> /\ Len(list) <= IF hybrid THEN 3 ELSE 4
              /\ \A k \in DOMAIN list : UsedPart(parts, list[k]) /\ IsSizedForMBR(parts[list[k]]) = "GOOD",
       mbr |-> IF hybrid THEN [entries EXCEPT ![ee] = EE(entries)] ELSE entries]

(***************************************************************************)
(* GPTDataTextUI::MakeHybrid(): gdisk's recovery command h.  A number that *)
(* is no partition leaves hybridPart and mbrNum as they were, and the      *)
(* partition before it is added once more.                                 *)
(***************************************************************************)
MakeHybrid(mbr, parts, list, eeFirst, protect) ==
  LET offset == IF eeFirst THEN 1 ELSE 0
      Convert(x, k) ==
        LET p == parts[list[k]]
            y == IF UsedPart(parts, list[k]) /\ IsSizedForMBR(p) # "BAD"
                 THEN [x EXCEPT !.num = k - 1 + offset, !.part = AsMBR(p), !.converted = @ + 1] ELSE x
        IN  [y EXCEPT !.mbr[y.num] = y.part]
      x == Loop(Convert, [mbr |-> EmptyMBR, num |-> 0, part |-> EmptyPart, converted |-> 0],
                [k \in DOMAIN list |-> k])
      hybrid == [x.mbr EXCEPT ![IF eeFirst THEN 0 ELSE x.converted] = EE(x.mbr)]
  IN  IF x.converted = 0 THEN mbr
      ELSE IF CountParts(hybrid) < 4 /\ protect THEN MakeBiggestPart(hybrid, 3, "ee") ELSE hybrid

-----------------------------------------------------------------------------
(***************************************************************************)
(* MBRData: keeping a hybrid MBR in step with the GPT.                     *)
(***************************************************************************)
\* Moving the start keeps the length; the space behind is looked at after that.
StretchEE_EndAsLength(mbr, i) ==
  LET p == mbr[i]
      after == p.start + p.len
  IN  IF SectorUsedAs(mbr, after, 4) = "NONE"
      THEN [mbr EXCEPT ![i].len = FindLastInFree(mbr, after) + 1] ELSE mbr

StretchEE(mbr, i) ==
  LET start == IF SectorUsedAs(mbr, Minus64(mbr[i].start, 1), 4) = "NONE"
               THEN FindFirstInFree(mbr, mbr[i].start - 1) ELSE mbr[i].start
      moved == [mbr EXCEPT ![i].start = start]
      after == start + mbr[i].len
      len == IF after > DiskSize THEN Low32(Minus64(DiskSize, start))
             ELSE IF SectorUsedAs(moved, after, 4) = "NONE" THEN FindLastInFree(moved, after) - start + 1
             ELSE mbr[i].len
  IN  IF mbr[i].type = "ee" THEN [moved EXCEPT ![i].len = len] ELSE mbr

\* OptimizeEESize(), on the array x.mbr with the state x.state.
OptimizeEESize(x) ==
  IF StateOf(x.mbr) = "gpt" \/ \A i \in 0 .. 3 : x.mbr[i].type = "none"
  THEN [x EXCEPT !.mbr = ProtectiveMBR, !.state = "gpt"]
  ELSE [x EXCEPT !.mbr = Loop(StretchEE, x.mbr, FirstFour)]

\* DeleteByLocation(): every entry that is this GPT partition.
DeleteByLocation(x, p) ==
  LET Delete(y, i) ==
        LET deleted == [y EXCEPT !.mbr[i] = EmptyPart]
        IN  IF /\ y.mbr[i].type # "ee" /\ p.first < Max32 /\ LengthOf(p) < Max32
               /\ y.mbr[i].start = p.first /\ y.mbr[i].len = LengthOf(p)
            THEN IF y.state = "hybrid" THEN OptimizeEESize(deleted) ELSE deleted
            ELSE y
  IN  Loop(Delete, x, Upward)

\* MBRData::AsGPT() in GPTData::XFormPartitions(), for a table of n entries.
XFormPartitions(mbr, n) ==
  [k \in 1 .. n |->
     IF k - 1 \in Slots /\ mbr[k - 1].type = "data"
     THEN [first |-> mbr[k - 1].start, last |-> LastLBA(mbr[k - 1])] ELSE [first |-> 0, last |-> 0]]
=============================================================================
