----------------------------- MODULE MCFixParts -----------------------------
(***************************************************************************)
(* Disks of eight sectors: an extended partition with two EBRs that link   *)
(* to each other, to themselves or nowhere, the same with primaries inside *)
(* or a second extended partition behind it, former GPT disks, a chain     *)
(* that has more partitions than the array, and a GPT disk for gdisk.      *)
(***************************************************************************)
EXTENDS FixParts

D(start, len) == Entry(start, len, "data")
X(start, len) == Entry(start, len, "ext")

DiskWith(sectors) == [s \in Sectors |-> IF s \in DOMAIN sectors THEN sectors[s] ELSE Data]

DiskFor(a, b, e, f) == DiskWith(0 :> Record(<<a, b, X(2, 5), NoEntry>>) @@ 2 :> e @@ 4 :> f)

LastEbr == Ebr(D(1, 1), NoEntry)
Chains ==
  {DiskFor(D(1, 1), D(6, 1), e, f) :
     e \in {Ebr(D(1, 1), X(2, 1)), Ebr(X(2, 1), NoEntry)},
     f \in {LastEbr, Ebr(D(1, 1), X(0, 1)), Ebr(X(0, 1), NoEntry), Data}}
  \union {DiskFor(D(1, 1), D(6, 1), e, LastEbr) : e \in {LastEbr, Ebr(D(1, 2), X(2, 1))}}
  \union {DiskFor(NoEntry, D(6, 1), Ebr(NoEntry, X(2, 1)), LastEbr)}

Neighbours ==
  {DiskFor(a, b, Ebr(D(1, 1), X(2, 1)), LastEbr) : a \in {NoEntry, D(2, 2), D(0, 2)}, b \in {D(6, 1), X(5, 3)}}

FormerGpt ==
  {DiskWith(0 :> Record(entries) @@ 1 :> GptHeader @@ 7 :> GptHeader) :
     entries \in {<<D(2, 2), NoEntry, D(5, 1), NoEntry>>, <<D(2, 2), D(4, 1), D(5, 1), D(6, 1)>>,
                  <<D(2, 6), D(3, 1), D(9, 1), D(4, 4)>>, <<Entry(1, 7, "ee"), NoEntry, NoEntry, NoEntry>>}}

Crowded == DiskWith(0 :> Record(<<X(2, 5), X(4, 3), X(6, 2), X(6, 1)>>)
                    @@ 2 :> Ebr(D(1, 1), X(2, 2)) @@ 4 :> Ebr(D(1, 1), X(4, 2)) @@ 6 :> Ebr(D(1, 1), NoEntry))

MCDisks == Chains \union Neighbours \union FormerGpt \union {Crowded}

At(places) == [i \in Slots |-> IF i + 1 \in DOMAIN places THEN [start |-> places[i + 1], len |-> 1]
                               ELSE [start |-> 0, len |-> 0]]
MCGptTables == {At(p) : p \in {<<2, 3, 4, 5, 6>>, <<1, 2, 4, 5, 7>>, <<1, 3, 5, 7>>, <<6, 4, 2, 1, 7>>,
                                  <<1, 2, 3, 5, 4>>}}
=============================================================================
