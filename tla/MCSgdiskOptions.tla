-------------------------- MODULE MCSgdiskOptions --------------------------
(***************************************************************************)
(* Disks of fourteen sectors with up to three partitions in 3 .. 11.       *)
(***************************************************************************)
EXTENDS SgdiskOptions

P(first, last) == [first |-> first, last |-> last]
Data(start, len) == Mbr!MkPart(start, len, "PRIMARY", "data")
Mbr4(a, b, c) == [i \in 0 .. MaxParts - 1 |-> IF i < 3 THEN <<a, b, c>>[i + 1] ELSE Mbr!EmptyPart]
Ee(len) == Mbr!MkPart(1, len, "PRIMARY", "ee")

Gpt(parts, mbr) == [gpt |-> "good", parts |-> parts, boot |-> TRUE, mbr |-> mbr]
NoGpt(boot, mbr) == [gpt |-> "none", parts |-> Blank, boot |-> boot, mbr |-> mbr]

MCDisks ==
  {Gpt(<<P(4, 5), Unused, P(10, 11)>>, Mbr!ProtectiveMBR),
   Gpt(<<P(4, 5), P(8, 8), Unused>>, Mbr4(Ee(3), Data(4, 2), Data(8, 1))),
   Gpt(<<P(4, 7), Unused, Unused>>, Mbr4(Data(4, 4), Mbr!EmptyPart, Mbr!EmptyPart)),
   NoGpt(TRUE, Mbr4(Data(4, 4), Data(9, 2), Mbr!EmptyPart)),
   NoGpt(FALSE, Mbr!EmptyMBR)}

File(size, parts, mbr) == [holds |-> "gpt", size |-> size, parts |-> parts, mbr |-> mbr]
NoFile(holds) == [holds |-> holds, size |-> DiskSize, parts |-> Blank, mbr |-> Mbr!EmptyMBR]

MCBackupFiles ==
  {NoFile("none"), NoFile("junk"),
   File(20, <<P(4, 5), P(6, 9), Unused>>, Mbr4(Ee(3), Data(4, 2), Mbr!EmptyPart)),
   File(14, <<P(4, 5), Unused, Unused>>, Mbr4(Data(4, 2), Mbr!EmptyPart, Mbr!EmptyPart)),
   File(20, <<P(4, 5), P(12, 15), Unused>>, [i \in 0 .. MaxParts - 1 |-> IF i = 0 THEN Ee(19) ELSE Mbr!EmptyPart])}

S(sign, n) == [sign |-> sign, n |-> n]
MCStarts == {S("", 0), S("", 5)}
MCEnds == {S("", 0), S("+", 2), S("-", 1)}
MCLists == {<<1>>, <<2, 1>>}

ASSUME MCDisksAreSound == SoundDisks
=============================================================================
