--------------------------- MODULE MbrLayoutProofs ---------------------------
(***************************************************************************)
(* The operators of MbrLayout for arrays of every size on a disk of every  *)
(* size: their types, that a legal array keeps the sectors of its EBRs     *)
(* free, that CreateExtended()'s loops permute the array, that every array *)
(* is repaired by MakeItLegal(), and that sorting and a new type keep it   *)
(* repaired and legal.  What a loop keeps is proved from its steps: one    *)
(* lemma for each loop of the module says that it has them, as a lemma     *)
(* cannot take the step as a parameter.                                    *)
(***************************************************************************)
EXTENDS MbrLayout, FoldProofs

-----------------------------------------------------------------------------
(* Types.                                                                  *)

\* Partitions and arrays of partitions of these types.
Parts(T) == [start : 0..Max32, len : 0..Max32, as : {"NONE", "PRIMARY", "LOGICAL"}, type : T]
Tables(T) == [Slots -> Parts(T)]

LEMMA Sizes ==
  /\ MaxParts \in Nat /\ MaxParts > 4 /\ Max32 \in Nat /\ Max64 \in Nat /\ DiskSize \in 2..Max32
  /\ Max64 > 2 * Max32 + 2
  /\ 0..3 \subseteq Slots /\ Slots \subseteq Nat /\ IsFiniteSet(Slots)
<1>1. IsFiniteSet(Slots)
  BY LayoutAssumption, FS_Interval DEF Slots
<1> QED BY <1>1, LayoutAssumption DEF Slots

LEMMA Low32Type == ASSUME NEW n \in Int PROVE Low32(n) \in 0..Max32
BY Sizes DEF Low32

LEMMA Low32Small == ASSUME NEW n \in 0..Max32 PROVE Low32(n) = n
BY Sizes DEF Low32

LEMMA Minus64Type == ASSUME NEW a \in Int, NEW b \in Int PROVE Minus64(a, b) \in Int
BY Sizes DEF Minus64

LEMMA LeastIn ==
  ASSUME NEW S, S \subseteq Nat, S # {}
  PROVE  LeastOf(S) \in S /\ \A y \in S : LeastOf(S) <= y
<1>1. \E x \in S : \A y \in S : x <= y
  BY LeastNumber
<1> QED BY <1>1 DEF LeastOf

LEMMA GreatestIn ==
  ASSUME NEW B \in Nat, NEW S, S \subseteq 0..B, S # {}
  PROVE  GreatestOf(S) \in S /\ \A y \in S : GreatestOf(S) >= y
<1> DEFINE U == {k \in Nat : \A y \in S : y <= k}
<1>1. B \in U
  OBVIOUS
<1>2. PICK m \in U : \A k \in U : m <= k
  <2> HIDE DEF U
  <2> QED BY <1>1, LeastNumber DEF U
<1>3. m \in S
  <2>1. SUFFICES ASSUME m \notin S PROVE FALSE
    OBVIOUS
  <2>2. \A y \in S : y \in Nat /\ y < m
    BY <1>2, <2>1
  <2>3. m \in Nat /\ m > 0
    <3>1. PICK y \in S : TRUE
      OBVIOUS
    <3>2. m \in Nat
      BY <1>2
    <3>3. y \in Nat /\ y < m
      BY <2>2, <3>1
    <3> QED BY <3>2, <3>3
  <2>4. m - 1 \in Nat /\ \A y \in S : y <= m - 1
    BY <2>2, <2>3
  <2> QED BY <1>2, <2>3, <2>4
<1>4. \E x \in S : \A y \in S : x >= y
  BY <1>2, <1>3
<1> QED BY <1>4 DEF GreatestOf

LEMMA PartType ==
  ASSUME NEW T, NEW s \in 0..Max32, NEW n \in 0..Max32, NEW as \in {"NONE", "PRIMARY", "LOGICAL"}, NEW t \in T
  PROVE  MkPart(s, n, as, t) \in Parts(T)
BY DEF MkPart, Parts

LEMMA EmptyTypes ==
  ASSUME NEW T, "none" \in T
  PROVE  EmptyPart \in Parts(T) /\ EmptyMBR \in Tables(T)
BY Sizes DEF EmptyPart, Parts, EmptyMBR, Tables

LEMMA SetAsType ==
  ASSUME NEW T, NEW mbr0 \in Tables(T), NEW i \in Slots, NEW as \in {"NONE", "PRIMARY", "LOGICAL"}
  PROVE  /\ SetAs(mbr0, i, as) \in Tables(T)
         /\ \A j \in Slots : /\ SetAs(mbr0, i, as)[j].start = mbr0[j].start
                             /\ SetAs(mbr0, i, as)[j].len = mbr0[j].len
                             /\ SetAs(mbr0, i, as)[j].type = mbr0[j].type
                             /\ SetAs(mbr0, i, as)[j].as = IF j = i THEN as ELSE mbr0[j].as
<1>1. mbr0[i] \in Parts(T)
  BY DEF Tables
<1> DEFINE p == [mbr0[i] EXCEPT !.as = as]
<1>2. p \in Parts(T) /\ p.start = mbr0[i].start /\ p.len = mbr0[i].len /\ p.type = mbr0[i].type /\ p.as = as
  BY <1>1 DEF Parts
<1>3. SetAs(mbr0, i, as) = [mbr0 EXCEPT ![i] = p]
  BY DEF SetAs
<1> HIDE DEF p
<1> QED BY <1>2, <1>3 DEF Tables

LEMMA SwappedType ==
  ASSUME NEW T, NEW m \in Tables(T), NEW i \in Slots, NEW j \in Slots
  PROVE  /\ Swapped(m, i, j) \in Tables(T)
         /\ Swapped(m, i, j)[i] = m[j] /\ Swapped(m, i, j)[j] = m[i]
         /\ \A k \in Slots \ {i, j} : Swapped(m, i, j)[k] = m[k]
BY DEF Swapped, Tables

LEMMA CountType ==
  ASSUME NEW S, S \subseteq Slots
  PROVE  IsFiniteSet(S) /\ Cardinality(S) \in Nat
BY Sizes, FS_Subset, FS_CardinalityType

LEMMA NumPrimariesType == ASSUME NEW m PROVE NumPrimaries(m) \in Nat
<1> DEFINE Sized(as) == {i \in Including(m, as) : m[i].len > 0}
<1>1. Cardinality(Sized("PRIMARY")) \in Nat
  <2>1. Sized("PRIMARY") \subseteq Slots
    BY DEF Including
  <2> HIDE DEF Sized
  <2> QED BY <2>1, CountType
<1>2. NumPrimaries(m) = Cardinality(Sized("PRIMARY")) + (IF Sized("LOGICAL") # {} THEN 1 ELSE 0)
  BY DEF NumPrimaries
<1> HIDE DEF Sized
<1> QED BY <1>1, <1>2

LEMMA FirstLogicalType ==
  ASSUME NEW T, NEW m \in Tables(T)
  PROVE  /\ FirstLogicalLBA(m) \in 0..Max32
         /\ \A i \in Including(m, "LOGICAL") : FirstLogicalLBA(m) <= m[i].start
         /\ FirstLogicalLBA(m) = Max32 \/ \E i \in Including(m, "LOGICAL") : FirstLogicalLBA(m) = m[i].start
<1> DEFINE S == {m[i].start : i \in Including(m, "LOGICAL")} \union {Max32}
<1>1. S \subseteq 0..Max32 /\ S # {}
  BY Sizes DEF Tables, Parts, Including
<1>2. LeastOf(S) \in S /\ \A y \in S : LeastOf(S) <= y
  <2>1. S \subseteq Nat
    BY <1>1, Sizes
  <2> HIDE DEF S
  <2> QED BY <1>1, <2>1, LeastIn
<1>3. FirstLogicalLBA(m) = LeastOf(S)
  BY DEF FirstLogicalLBA
<1> QED BY <1>1, <1>2, <1>3

LEMMA LastLogicalType ==
  ASSUME NEW T, NEW m \in Tables(T)
  PROVE  LastLogicalLBA(m) \in Nat
<1> DEFINE S == {LastLBA(m[i]) : i \in Including(m, "LOGICAL")} \union {0}
           B == 2 * Max32
<1>1. B \in Nat
  BY Sizes
<1>2. S \subseteq 0..B /\ S # {}
  <2>1. ASSUME NEW i \in Slots PROVE LastLBA(m[i]) \in 0..2 * Max32
    <3>1. m[i] \in Parts(T)
      BY DEF Tables
    <3>2. m[i].start \in 0..Max32 /\ m[i].len \in 0..Max32
      BY <3>1 DEF Parts
    <3> QED BY <3>2, Sizes DEF LastLBA
  <2> QED BY <1>1, <2>1 DEF Including
<1> HIDE DEF B
<1>3. GreatestOf(S) \in S
  <2> HIDE DEF S
  <2> QED BY <1>1, <1>2, GreatestIn
<1>4. LastLogicalLBA(m) = GreatestOf(S)
  BY DEF LastLogicalLBA
<1> QED BY <1>1, <1>2, <1>3, <1>4

-----------------------------------------------------------------------------
(* The loops of MbrLayout as sequences of steps: a loop whose step keeps a *)
(* set V runs through states of V.                                         *)

\* The loop of MaximizeLogicals().
LEMMA LogicalSteps ==
  ASSUME NEW mbr0, NEW V, [mbr |-> mbr0, can |-> UpdateCanBeLogical(mbr0)] \in V,
         \A v \in V, i \in Slots :
           [mbr |-> SetAs(v.mbr, i, IF i \in UpdateCanBeLogical(v.mbr).logical THEN "LOGICAL"
                                       ELSE IF i \in UpdateCanBeLogical(v.mbr).primary THEN "PRIMARY" ELSE "NONE"),
            can |-> UpdateCanBeLogical(v.mbr)] \in V
  PROVE  \E f \in [0..MaxParts -> V] :
           /\ f[0] = [mbr |-> mbr0, can |-> UpdateCanBeLogical(mbr0)]
           /\ \A k \in 1..MaxParts :
                f[k] = [mbr |-> SetAs(f[k - 1].mbr, (MaxParts - k), IF (MaxParts - k) \in UpdateCanBeLogical(f[k - 1].mbr).logical THEN "LOGICAL"
                                                   ELSE IF (MaxParts - k) \in UpdateCanBeLogical(f[k - 1].mbr).primary THEN "PRIMARY" ELSE "NONE"),
                        can |-> UpdateCanBeLogical(f[k - 1].mbr)]
           /\ MaximizeLogicals(mbr0) = IF NumPrimaries(f[MaxParts].mbr) < 4 /\ f[MaxParts].mbr[0].as = "LOGICAL"
                 THEN [f[MaxParts] EXCEPT !.mbr = SetAs(f[MaxParts].mbr, 0, "NONE")]
                 ELSE f[MaxParts]
<1> DEFINE N == MaxParts
           order == Downward
           state == [mbr |-> mbr0, can |-> UpdateCanBeLogical(mbr0)]
           Step(v, i) == [mbr |-> SetAs(v.mbr, i, IF i \in UpdateCanBeLogical(v.mbr).logical THEN "LOGICAL"
                                                     ELSE IF i \in UpdateCanBeLogical(v.mbr).primary THEN "PRIMARY" ELSE "NONE"),
                          can |-> UpdateCanBeLogical(v.mbr)]
           Is(F, n) == F = [k \in 0..n |->
                         IF k = 0 THEN state
                         ELSE CHOOSE y \in {Step(v, order[k]) : v \in {F[k - 1]}} : TRUE]
           g == [x \in (1..N) \X V |-> Step(x[2], order[x[1]])]
<1>0. /\ N \in Nat /\ Len(order) = N
      /\ \A k \in 1..N : order[k] = MaxParts - k /\ order[k] \in Slots
  BY LayoutAssumption DEF Downward, Slots
<1>1. state \in V /\ \A v \in V, i \in Slots : Step(v, i) \in V
  OBVIOUS
<1>2. MaximizeLogicals(mbr0) = IF NumPrimaries((CHOOSE F : Is(F, N))[N].mbr) < 4 /\ (CHOOSE F : Is(F, N))[N].mbr[0].as = "LOGICAL"
                 THEN [(CHOOSE F : Is(F, N))[N] EXCEPT !.mbr = SetAs((CHOOSE F : Is(F, N))[N].mbr, 0, "NONE")]
                 ELSE (CHOOSE F : Is(F, N))[N]
  BY <1>0 DEF Loop, MaximizeLogicals
<1> HIDE DEF N, order, state, Step, Is
<1>3. g \in [(1..N) \X V -> V]
  BY <1>0, <1>1
<1>4. PICK f \in [0..N -> V] : LoopsBy(f, N, state, g)
  <2> HIDE DEF g
  <2> QED BY <1>0, <1>1, <1>3, LoopExists
<1>5. Is(f, N)
  <2>1. ASSUME NEW k \in 0..N, k # 0
        PROVE  g[<<k, f[k - 1]>>] = CHOOSE y \in {Step(v, order[k]) : v \in {f[k - 1]}} : TRUE
    <3>1. f[k - 1] \in V /\ k \in 1..N
      BY <1>0, <2>1
    <3>2. g[<<k, f[k - 1]>>] = Step(f[k - 1], order[k])
      BY <3>1
    <3>3. {Step(v, order[k]) : v \in {f[k - 1]}} = {Step(f[k - 1], order[k])}
      OBVIOUS
    <3> HIDE DEF g
    <3> QED BY <3>2, <3>3
  <2>2. f = [k \in 0..N |-> IF k = 0 THEN state ELSE g[<<k, f[k - 1]>>]]
    BY <1>4 DEF LoopsBy
  <2> HIDE DEF g
  <2> QED BY <2>1, <2>2 DEF Is
<1> DEFINE F == CHOOSE F : Is(F, N)
<1>6. Is(F, N)
  BY <1>5
<1> HIDE DEF F
<1>7. F = [k \in 0..N |-> F[k]] /\ F[0] = state
  BY <1>0, <1>6 DEF Is
<1>8. ASSUME NEW k \in 1..N PROVE F[k] = Step(F[k - 1], order[k])
  <2>1. k \in 0..N /\ k # 0
    BY <1>0
  <2>2. F[k] = CHOOSE y \in {Step(v, order[k]) : v \in {F[k - 1]}} : TRUE
    BY <1>6, <2>1 DEF Is
  <2>3. {Step(v, order[k]) : v \in {F[k - 1]}} = {Step(F[k - 1], order[k])}
    OBVIOUS
  <2> QED BY <2>2, <2>3
<1>9. \A k \in 0..N : F[k] \in V
  <2>1. \A k \in 1..N : F[k - 1] \in V => F[k] \in V
    BY <1>0, <1>1, <1>8
  <2> QED BY <1>0, <1>1, <1>7, <2>1, LoopStays
<1>10. F \in [0..N -> V]
  BY <1>7, <1>9
<1>11. \A k \in 1..N : F[k] = Step(F[k - 1], MaxParts - k)
  BY <1>0, <1>8
<1>12. MaximizeLogicals(mbr0) = IF NumPrimaries(F[N].mbr) < 4 /\ F[N].mbr[0].as = "LOGICAL"
                 THEN [F[N] EXCEPT !.mbr = SetAs(F[N].mbr, 0, "NONE")]
                 ELSE F[N]
  BY <1>2 DEF F
<1> HIDE DEF g
<1> USE DEF N, state, Step
<1> QED BY <1>7, <1>10, <1>11, <1>12

\* The loop of MaximizePrimaries().
LEMMA PrimarySteps ==
  ASSUME NEW x0, NEW V, [mbr |-> x0.mbr, can |-> x0.can, num |-> NumPrimaries(x0.mbr)] \in V,
         \A v \in V, i \in Slots :
           (IF v.num < 4 /\ v.mbr[i].as = "NONE" /\ i \in v.can.primary
            THEN [mbr |-> SetAs(v.mbr, i, "PRIMARY"), can |-> UpdateCanBeLogical(SetAs(v.mbr, i, "PRIMARY")), num |-> v.num + 1]
            ELSE v) \in V
  PROVE  \E f \in [0..MaxParts -> V] :
           /\ f[0] = [mbr |-> x0.mbr, can |-> x0.can, num |-> NumPrimaries(x0.mbr)]
           /\ \A k \in 1..MaxParts :
                f[k] = (IF f[k - 1].num < 4 /\ f[k - 1].mbr[k - 1].as = "NONE" /\ k - 1 \in f[k - 1].can.primary
                        THEN [mbr |-> SetAs(f[k - 1].mbr, k - 1, "PRIMARY"), can |-> UpdateCanBeLogical(SetAs(f[k - 1].mbr, k - 1, "PRIMARY")), num |-> f[k - 1].num + 1]
                        ELSE f[k - 1])
           /\ MaximizePrimaries(x0) = f[MaxParts].mbr
<1> DEFINE N == MaxParts
           order == Upward
           state == [mbr |-> x0.mbr, can |-> x0.can, num |-> NumPrimaries(x0.mbr)]
           Step(v, i) == (IF v.num < 4 /\ v.mbr[i].as = "NONE" /\ i \in v.can.primary
                          THEN [mbr |-> SetAs(v.mbr, i, "PRIMARY"), can |-> UpdateCanBeLogical(SetAs(v.mbr, i, "PRIMARY")), num |-> v.num + 1]
                          ELSE v)
           Is(F, n) == F = [k \in 0..n |->
                         IF k = 0 THEN state
                         ELSE CHOOSE y \in {Step(v, order[k]) : v \in {F[k - 1]}} : TRUE]
           g == [x \in (1..N) \X V |-> Step(x[2], order[x[1]])]
<1>0. /\ N \in Nat /\ Len(order) = N
      /\ \A k \in 1..N : order[k] = k - 1 /\ order[k] \in Slots
  BY LayoutAssumption DEF Upward, Slots
<1>1. state \in V /\ \A v \in V, i \in Slots : Step(v, i) \in V
  OBVIOUS
<1>2. MaximizePrimaries(x0) = (CHOOSE F : Is(F, N))[N].mbr
  BY <1>0 DEF Loop, MaximizePrimaries
<1> HIDE DEF N, order, state, Step, Is
<1>3. g \in [(1..N) \X V -> V]
  BY <1>0, <1>1
<1>4. PICK f \in [0..N -> V] : LoopsBy(f, N, state, g)
  <2> HIDE DEF g
  <2> QED BY <1>0, <1>1, <1>3, LoopExists
<1>5. Is(f, N)
  <2>1. ASSUME NEW k \in 0..N, k # 0
        PROVE  g[<<k, f[k - 1]>>] = CHOOSE y \in {Step(v, order[k]) : v \in {f[k - 1]}} : TRUE
    <3>1. f[k - 1] \in V /\ k \in 1..N
      BY <1>0, <2>1
    <3>2. g[<<k, f[k - 1]>>] = Step(f[k - 1], order[k])
      BY <3>1
    <3>3. {Step(v, order[k]) : v \in {f[k - 1]}} = {Step(f[k - 1], order[k])}
      OBVIOUS
    <3> HIDE DEF g
    <3> QED BY <3>2, <3>3
  <2>2. f = [k \in 0..N |-> IF k = 0 THEN state ELSE g[<<k, f[k - 1]>>]]
    BY <1>4 DEF LoopsBy
  <2> HIDE DEF g
  <2> QED BY <2>1, <2>2 DEF Is
<1> DEFINE F == CHOOSE F : Is(F, N)
<1>6. Is(F, N)
  BY <1>5
<1> HIDE DEF F
<1>7. F = [k \in 0..N |-> F[k]] /\ F[0] = state
  BY <1>0, <1>6 DEF Is
<1>8. ASSUME NEW k \in 1..N PROVE F[k] = Step(F[k - 1], order[k])
  <2>1. k \in 0..N /\ k # 0
    BY <1>0
  <2>2. F[k] = CHOOSE y \in {Step(v, order[k]) : v \in {F[k - 1]}} : TRUE
    BY <1>6, <2>1 DEF Is
  <2>3. {Step(v, order[k]) : v \in {F[k - 1]}} = {Step(F[k - 1], order[k])}
    OBVIOUS
  <2> QED BY <2>2, <2>3
<1>9. \A k \in 0..N : F[k] \in V
  <2>1. \A k \in 1..N : F[k - 1] \in V => F[k] \in V
    BY <1>0, <1>1, <1>8
  <2> QED BY <1>0, <1>1, <1>7, <2>1, LoopStays
<1>10. F \in [0..N -> V]
  BY <1>7, <1>9
<1>11. \A k \in 1..N : F[k] = Step(F[k - 1], k - 1)
  BY <1>0, <1>8
<1>12. MaximizePrimaries(x0) = F[N].mbr
  BY <1>2 DEF F
<1> HIDE DEF g
<1> USE DEF N, state, Step
<1> QED BY <1>7, <1>10, <1>11, <1>12

\* The loop of MakeLogicalsContiguous().
LEMMA ConvertSteps ==
  ASSUME NEW mbr0, NEW V, mbr0 \in V,
         \A v \in V, i \in Slots :
           (IF v[i].as = "PRIMARY" /\ FirstLogicalLBA(mbr0) <= v[i].start /\ LastLBA(v[i]) <= LastLogicalLBA(mbr0)
            THEN SetAs(v, i, IF UsedAs(v, Minus64(v[i].start, 1)) = "NONE" THEN "LOGICAL" ELSE "NONE") ELSE v) \in V
  PROVE  \E f \in [0..MaxParts -> V] :
           /\ f[0] = mbr0
           /\ \A k \in 1..MaxParts :
                f[k] = (IF f[k - 1][k - 1].as = "PRIMARY" /\ FirstLogicalLBA(mbr0) <= f[k - 1][k - 1].start /\ LastLBA(f[k - 1][k - 1]) <= LastLogicalLBA(mbr0)
                        THEN SetAs(f[k - 1], k - 1, IF UsedAs(f[k - 1], Minus64(f[k - 1][k - 1].start, 1)) = "NONE" THEN "LOGICAL" ELSE "NONE") ELSE f[k - 1])
           /\ MakeLogicalsContiguous(mbr0) = f[MaxParts]
<1> DEFINE N == MaxParts
           order == Upward
           state == mbr0
           Step(v, i) == (IF v[i].as = "PRIMARY" /\ FirstLogicalLBA(mbr0) <= v[i].start /\ LastLBA(v[i]) <= LastLogicalLBA(mbr0)
                          THEN SetAs(v, i, IF UsedAs(v, Minus64(v[i].start, 1)) = "NONE" THEN "LOGICAL" ELSE "NONE") ELSE v)
           Is(F, n) == F = [k \in 0..n |->
                         IF k = 0 THEN state
                         ELSE CHOOSE y \in {Step(v, order[k]) : v \in {F[k - 1]}} : TRUE]
           g == [x \in (1..N) \X V |-> Step(x[2], order[x[1]])]
<1>0. /\ N \in Nat /\ Len(order) = N
      /\ \A k \in 1..N : order[k] = k - 1 /\ order[k] \in Slots
  BY LayoutAssumption DEF Upward, Slots
<1>1. state \in V /\ \A v \in V, i \in Slots : Step(v, i) \in V
  OBVIOUS
<1>2. MakeLogicalsContiguous(mbr0) = (CHOOSE F : Is(F, N))[N]
  BY <1>0 DEF Loop, MakeLogicalsContiguous
<1> HIDE DEF N, order, state, Step, Is
<1>3. g \in [(1..N) \X V -> V]
  BY <1>0, <1>1
<1>4. PICK f \in [0..N -> V] : LoopsBy(f, N, state, g)
  <2> HIDE DEF g
  <2> QED BY <1>0, <1>1, <1>3, LoopExists
<1>5. Is(f, N)
  <2>1. ASSUME NEW k \in 0..N, k # 0
        PROVE  g[<<k, f[k - 1]>>] = CHOOSE y \in {Step(v, order[k]) : v \in {f[k - 1]}} : TRUE
    <3>1. f[k - 1] \in V /\ k \in 1..N
      BY <1>0, <2>1
    <3>2. g[<<k, f[k - 1]>>] = Step(f[k - 1], order[k])
      BY <3>1
    <3>3. {Step(v, order[k]) : v \in {f[k - 1]}} = {Step(f[k - 1], order[k])}
      OBVIOUS
    <3> HIDE DEF g
    <3> QED BY <3>2, <3>3
  <2>2. f = [k \in 0..N |-> IF k = 0 THEN state ELSE g[<<k, f[k - 1]>>]]
    BY <1>4 DEF LoopsBy
  <2> HIDE DEF g
  <2> QED BY <2>1, <2>2 DEF Is
<1> DEFINE F == CHOOSE F : Is(F, N)
<1>6. Is(F, N)
  BY <1>5
<1> HIDE DEF F
<1>7. F = [k \in 0..N |-> F[k]] /\ F[0] = state
  BY <1>0, <1>6 DEF Is
<1>8. ASSUME NEW k \in 1..N PROVE F[k] = Step(F[k - 1], order[k])
  <2>1. k \in 0..N /\ k # 0
    BY <1>0
  <2>2. F[k] = CHOOSE y \in {Step(v, order[k]) : v \in {F[k - 1]}} : TRUE
    BY <1>6, <2>1 DEF Is
  <2>3. {Step(v, order[k]) : v \in {F[k - 1]}} = {Step(F[k - 1], order[k])}
    OBVIOUS
  <2> QED BY <2>2, <2>3
<1>9. \A k \in 0..N : F[k] \in V
  <2>1. \A k \in 1..N : F[k - 1] \in V => F[k] \in V
    BY <1>0, <1>1, <1>8
  <2> QED BY <1>0, <1>1, <1>7, <2>1, LoopStays
<1>10. F \in [0..N -> V]
  BY <1>7, <1>9
<1>11. \A k \in 1..N : F[k] = Step(F[k - 1], k - 1)
  BY <1>0, <1>8
<1>12. MakeLogicalsContiguous(mbr0) = F[N]
  BY <1>2 DEF F
<1> HIDE DEF g
<1> USE DEF N, state, Step
<1> QED BY <1>7, <1>10, <1>11, <1>12

\* The loop of TrimPrimaries().
LEMMA TrimSteps ==
  ASSUME NEW mbr0, NEW V, [mbr |-> mbr0, left |-> NumPrimaries(mbr0) - 4] \in V,
         \A v \in V, i \in Slots :
           (IF v.left > 0 /\ v.mbr[i].as = "PRIMARY"
            THEN [mbr |-> SetAs(v.mbr, i, "NONE"), left |-> v.left - 1] ELSE v) \in V
  PROVE  \E f \in [0..MaxParts -> V] :
           /\ f[0] = [mbr |-> mbr0, left |-> NumPrimaries(mbr0) - 4]
           /\ \A k \in 1..MaxParts :
                f[k] = (IF f[k - 1].left > 0 /\ f[k - 1].mbr[MaxParts - k].as = "PRIMARY"
                        THEN [mbr |-> SetAs(f[k - 1].mbr, MaxParts - k, "NONE"), left |-> f[k - 1].left - 1] ELSE f[k - 1])
           /\ TrimPrimaries(mbr0) = f[MaxParts].mbr
<1> DEFINE N == MaxParts
           order == Downward
           state == [mbr |-> mbr0, left |-> NumPrimaries(mbr0) - 4]
           Step(v, i) == (IF v.left > 0 /\ v.mbr[i].as = "PRIMARY"
                          THEN [mbr |-> SetAs(v.mbr, i, "NONE"), left |-> v.left - 1] ELSE v)
           Is(F, n) == F = [k \in 0..n |->
                         IF k = 0 THEN state
                         ELSE CHOOSE y \in {Step(v, order[k]) : v \in {F[k - 1]}} : TRUE]
           g == [x \in (1..N) \X V |-> Step(x[2], order[x[1]])]
<1>0. /\ N \in Nat /\ Len(order) = N
      /\ \A k \in 1..N : order[k] = MaxParts - k /\ order[k] \in Slots
  BY LayoutAssumption DEF Downward, Slots
<1>1. state \in V /\ \A v \in V, i \in Slots : Step(v, i) \in V
  OBVIOUS
<1>2. TrimPrimaries(mbr0) = (CHOOSE F : Is(F, N))[N].mbr
  BY <1>0 DEF Loop, TrimPrimaries
<1> HIDE DEF N, order, state, Step, Is
<1>3. g \in [(1..N) \X V -> V]
  BY <1>0, <1>1
<1>4. PICK f \in [0..N -> V] : LoopsBy(f, N, state, g)
  <2> HIDE DEF g
  <2> QED BY <1>0, <1>1, <1>3, LoopExists
<1>5. Is(f, N)
  <2>1. ASSUME NEW k \in 0..N, k # 0
        PROVE  g[<<k, f[k - 1]>>] = CHOOSE y \in {Step(v, order[k]) : v \in {f[k - 1]}} : TRUE
    <3>1. f[k - 1] \in V /\ k \in 1..N
      BY <1>0, <2>1
    <3>2. g[<<k, f[k - 1]>>] = Step(f[k - 1], order[k])
      BY <3>1
    <3>3. {Step(v, order[k]) : v \in {f[k - 1]}} = {Step(f[k - 1], order[k])}
      OBVIOUS
    <3> HIDE DEF g
    <3> QED BY <3>2, <3>3
  <2>2. f = [k \in 0..N |-> IF k = 0 THEN state ELSE g[<<k, f[k - 1]>>]]
    BY <1>4 DEF LoopsBy
  <2> HIDE DEF g
  <2> QED BY <2>1, <2>2 DEF Is
<1> DEFINE F == CHOOSE F : Is(F, N)
<1>6. Is(F, N)
  BY <1>5
<1> HIDE DEF F
<1>7. F = [k \in 0..N |-> F[k]] /\ F[0] = state
  BY <1>0, <1>6 DEF Is
<1>8. ASSUME NEW k \in 1..N PROVE F[k] = Step(F[k - 1], order[k])
  <2>1. k \in 0..N /\ k # 0
    BY <1>0
  <2>2. F[k] = CHOOSE y \in {Step(v, order[k]) : v \in {F[k - 1]}} : TRUE
    BY <1>6, <2>1 DEF Is
  <2>3. {Step(v, order[k]) : v \in {F[k - 1]}} = {Step(F[k - 1], order[k])}
    OBVIOUS
  <2> QED BY <2>2, <2>3
<1>9. \A k \in 0..N : F[k] \in V
  <2>1. \A k \in 1..N : F[k - 1] \in V => F[k] \in V
    BY <1>0, <1>1, <1>8
  <2> QED BY <1>0, <1>1, <1>7, <2>1, LoopStays
<1>10. F \in [0..N -> V]
  BY <1>7, <1>9
<1>11. \A k \in 1..N : F[k] = Step(F[k - 1], MaxParts - k)
  BY <1>0, <1>8
<1>12. TrimPrimaries(mbr0) = F[N].mbr
  BY <1>2 DEF F
<1> HIDE DEF g
<1> USE DEF N, state, Step
<1> QED BY <1>7, <1>10, <1>11, <1>12

\* The inner loop of OmitOverlaps().
Against(m, h, j) ==
  IF j <= h \/ m[h].as = "NONE" \/ ~Overlap(m[h], m[j]) THEN m
  ELSE SetAs(m, IF m[h].len < m[j].len THEN h ELSE j, "NONE")
OmitFor(m, h) ==
  LET Step(n, j) == Against(n, h, j)
  IN  Loop(Step, m, Upward)

LEMMA AgainstSteps ==
  ASSUME NEW m0, NEW h, NEW V, m0 \in V,
         \A v \in V, i \in Slots :
           Against(v, h, i) \in V
  PROVE  \E f \in [0..MaxParts -> V] :
           /\ f[0] = m0
           /\ \A k \in 1..MaxParts : f[k] = Against(f[k - 1], h, k - 1)
           /\ OmitFor(m0, h) = f[MaxParts]
<1> DEFINE N == MaxParts
           order == Upward
           state == m0
           Step(v, i) == Against(v, h, i)
           Is(F, n) == F = [k \in 0..n |->
                         IF k = 0 THEN state
                         ELSE CHOOSE y \in {Step(v, order[k]) : v \in {F[k - 1]}} : TRUE]
           g == [x \in (1..N) \X V |-> Step(x[2], order[x[1]])]
<1>0. /\ N \in Nat /\ Len(order) = N
      /\ \A k \in 1..N : order[k] = k - 1 /\ order[k] \in Slots
  BY LayoutAssumption DEF Upward, Slots
<1>1. state \in V /\ \A v \in V, i \in Slots : Step(v, i) \in V
  OBVIOUS
<1>2. OmitFor(m0, h) = (CHOOSE F : Is(F, N))[N]
  BY <1>0 DEF Loop, OmitFor
<1> HIDE DEF N, order, state, Step, Is
<1>3. g \in [(1..N) \X V -> V]
  BY <1>0, <1>1
<1>4. PICK f \in [0..N -> V] : LoopsBy(f, N, state, g)
  <2> HIDE DEF g
  <2> QED BY <1>0, <1>1, <1>3, LoopExists
<1>5. Is(f, N)
  <2>1. ASSUME NEW k \in 0..N, k # 0
        PROVE  g[<<k, f[k - 1]>>] = CHOOSE y \in {Step(v, order[k]) : v \in {f[k - 1]}} : TRUE
    <3>1. f[k - 1] \in V /\ k \in 1..N
      BY <1>0, <2>1
    <3>2. g[<<k, f[k - 1]>>] = Step(f[k - 1], order[k])
      BY <3>1
    <3>3. {Step(v, order[k]) : v \in {f[k - 1]}} = {Step(f[k - 1], order[k])}
      OBVIOUS
    <3> HIDE DEF g
    <3> QED BY <3>2, <3>3
  <2>2. f = [k \in 0..N |-> IF k = 0 THEN state ELSE g[<<k, f[k - 1]>>]]
    BY <1>4 DEF LoopsBy
  <2> HIDE DEF g
  <2> QED BY <2>1, <2>2 DEF Is
<1> DEFINE F == CHOOSE F : Is(F, N)
<1>6. Is(F, N)
  BY <1>5
<1> HIDE DEF F
<1>7. F = [k \in 0..N |-> F[k]] /\ F[0] = state
  BY <1>0, <1>6 DEF Is
<1>8. ASSUME NEW k \in 1..N PROVE F[k] = Step(F[k - 1], order[k])
  <2>1. k \in 0..N /\ k # 0
    BY <1>0
  <2>2. F[k] = CHOOSE y \in {Step(v, order[k]) : v \in {F[k - 1]}} : TRUE
    BY <1>6, <2>1 DEF Is
  <2>3. {Step(v, order[k]) : v \in {F[k - 1]}} = {Step(F[k - 1], order[k])}
    OBVIOUS
  <2> QED BY <2>2, <2>3
<1>9. \A k \in 0..N : F[k] \in V
  <2>1. \A k \in 1..N : F[k - 1] \in V => F[k] \in V
    BY <1>0, <1>1, <1>8
  <2> QED BY <1>0, <1>1, <1>7, <2>1, LoopStays
<1>10. F \in [0..N -> V]
  BY <1>7, <1>9
<1>11. \A k \in 1..N : F[k] = Step(F[k - 1], k - 1)
  BY <1>0, <1>8
<1>12. OmitFor(m0, h) = F[N]
  BY <1>2 DEF F
<1> HIDE DEF g
<1> USE DEF N, state, Step
<1> QED BY <1>7, <1>10, <1>11, <1>12

\* The outer loop of OmitOverlaps().
LEMMA OmitSteps ==
  ASSUME NEW mbr0, NEW V, mbr0 \in V,
         \A v \in V, i \in Slots :
           OmitFor(v, i) \in V
  PROVE  \E f \in [0..MaxParts -> V] :
           /\ f[0] = mbr0
           /\ \A k \in 1..MaxParts :
                f[k] = OmitFor(f[k - 1], (k - 1))
           /\ OmitOverlaps(mbr0) = f[MaxParts]
<1> DEFINE N == MaxParts
           order == Upward
           state == mbr0
           Step(v, i) == OmitFor(v, i)
           Is(F, n) == F = [k \in 0..n |->
                         IF k = 0 THEN state
                         ELSE CHOOSE y \in {Step(v, order[k]) : v \in {F[k - 1]}} : TRUE]
           g == [x \in (1..N) \X V |-> Step(x[2], order[x[1]])]
<1>0. /\ N \in Nat /\ Len(order) = N
      /\ \A k \in 1..N : order[k] = k - 1 /\ order[k] \in Slots
  BY LayoutAssumption DEF Upward, Slots
<1>1. state \in V /\ \A v \in V, i \in Slots : Step(v, i) \in V
  OBVIOUS
<1>2. OmitOverlaps(mbr0) = (CHOOSE F : Is(F, N))[N]
  BY <1>0 DEF Loop, OmitOverlaps, OmitFor, Against
<1> HIDE DEF N, order, state, Step, Is
<1>3. g \in [(1..N) \X V -> V]
  BY <1>0, <1>1
<1>4. PICK f \in [0..N -> V] : LoopsBy(f, N, state, g)
  <2> HIDE DEF g
  <2> QED BY <1>0, <1>1, <1>3, LoopExists
<1>5. Is(f, N)
  <2>1. ASSUME NEW k \in 0..N, k # 0
        PROVE  g[<<k, f[k - 1]>>] = CHOOSE y \in {Step(v, order[k]) : v \in {f[k - 1]}} : TRUE
    <3>1. f[k - 1] \in V /\ k \in 1..N
      BY <1>0, <2>1
    <3>2. g[<<k, f[k - 1]>>] = Step(f[k - 1], order[k])
      BY <3>1
    <3>3. {Step(v, order[k]) : v \in {f[k - 1]}} = {Step(f[k - 1], order[k])}
      OBVIOUS
    <3> HIDE DEF g
    <3> QED BY <3>2, <3>3
  <2>2. f = [k \in 0..N |-> IF k = 0 THEN state ELSE g[<<k, f[k - 1]>>]]
    BY <1>4 DEF LoopsBy
  <2> HIDE DEF g
  <2> QED BY <2>1, <2>2 DEF Is
<1> DEFINE F == CHOOSE F : Is(F, N)
<1>6. Is(F, N)
  BY <1>5
<1> HIDE DEF F
<1>7. F = [k \in 0..N |-> F[k]] /\ F[0] = state
  BY <1>0, <1>6 DEF Is
<1>8. ASSUME NEW k \in 1..N PROVE F[k] = Step(F[k - 1], order[k])
  <2>1. k \in 0..N /\ k # 0
    BY <1>0
  <2>2. F[k] = CHOOSE y \in {Step(v, order[k]) : v \in {F[k - 1]}} : TRUE
    BY <1>6, <2>1 DEF Is
  <2>3. {Step(v, order[k]) : v \in {F[k - 1]}} = {Step(F[k - 1], order[k])}
    OBVIOUS
  <2> QED BY <2>2, <2>3
<1>9. \A k \in 0..N : F[k] \in V
  <2>1. \A k \in 1..N : F[k - 1] \in V => F[k] \in V
    BY <1>0, <1>1, <1>8
  <2> QED BY <1>0, <1>1, <1>7, <2>1, LoopStays
<1>10. F \in [0..N -> V]
  BY <1>7, <1>9
<1>11. \A k \in 1..N : F[k] = Step(F[k - 1], k - 1)
  BY <1>0, <1>8
<1>12. OmitOverlaps(mbr0) = F[N]
  BY <1>2 DEF F
<1> HIDE DEF g
<1> USE DEF N, state, Step
<1> QED BY <1>7, <1>10, <1>11, <1>12

\* Where the loops of CreateExtended() move partitions to.
RoomBehind(m) == {j \in 4 .. MaxParts - 1 : m[j].as = "NONE" /\ m[j].len = 0}
RoomInFront(m) == {j \in 0 .. 3 : m[j].as # "PRIMARY"}

AwayStep(m, i) ==
  IF m[i].as = "PRIMARY" \/ m[i].len = 0 \/ RoomBehind(m) = {} THEN m ELSE Swapped(m, i, LeastOf(RoomBehind(m)))
ForwardStep(m, i) ==
  IF m[i].as # "PRIMARY" \/ RoomInFront(m) = {} THEN m ELSE Swapped(m, i, LeastOf(RoomInFront(m)))

\* The loop of RemoveLogicalsFromFirstFour().
LEMMA AwaySteps ==
  ASSUME NEW mbr0, NEW V, mbr0 \in V,
         \A v \in V, i \in 0 .. 3 :
           AwayStep(v, i) \in V
  PROVE  \E f \in [0..Len(FirstFour) -> V] :
           /\ f[0] = mbr0
           /\ \A k \in 1..Len(FirstFour) :
                f[k] = AwayStep(f[k - 1], (k - 1))
           /\ RemoveLogicalsFromFirstFour(mbr0) = f[Len(FirstFour)]
<1> DEFINE N == Len(FirstFour)
           order == FirstFour
           state == mbr0
           Step(v, i) == AwayStep(v, i)
           Is(F, n) == F = [k \in 0..n |->
                         IF k = 0 THEN state
                         ELSE CHOOSE y \in {Step(v, order[k]) : v \in {F[k - 1]}} : TRUE]
           g == [x \in (1..N) \X V |-> Step(x[2], order[x[1]])]
<1>0. /\ N \in Nat /\ Len(order) = N
      /\ \A k \in 1..N : order[k] = k - 1 /\ order[k] \in 0 .. 3
  BY LayoutAssumption DEF FirstFour, Slots
<1>1. state \in V /\ \A v \in V, i \in 0 .. 3 : Step(v, i) \in V
  OBVIOUS
<1>2. RemoveLogicalsFromFirstFour(mbr0) = (CHOOSE F : Is(F, N))[N]
  BY <1>0 DEF Loop, RemoveLogicalsFromFirstFour, AwayStep, RoomBehind
<1> HIDE DEF N, order, state, Step, Is
<1>3. g \in [(1..N) \X V -> V]
  BY <1>0, <1>1
<1>4. PICK f \in [0..N -> V] : LoopsBy(f, N, state, g)
  <2> HIDE DEF g
  <2> QED BY <1>0, <1>1, <1>3, LoopExists
<1>5. Is(f, N)
  <2>1. ASSUME NEW k \in 0..N, k # 0
        PROVE  g[<<k, f[k - 1]>>] = CHOOSE y \in {Step(v, order[k]) : v \in {f[k - 1]}} : TRUE
    <3>1. f[k - 1] \in V /\ k \in 1..N
      BY <1>0, <2>1
    <3>2. g[<<k, f[k - 1]>>] = Step(f[k - 1], order[k])
      BY <3>1
    <3>3. {Step(v, order[k]) : v \in {f[k - 1]}} = {Step(f[k - 1], order[k])}
      OBVIOUS
    <3> HIDE DEF g
    <3> QED BY <3>2, <3>3
  <2>2. f = [k \in 0..N |-> IF k = 0 THEN state ELSE g[<<k, f[k - 1]>>]]
    BY <1>4 DEF LoopsBy
  <2> HIDE DEF g
  <2> QED BY <2>1, <2>2 DEF Is
<1> DEFINE F == CHOOSE F : Is(F, N)
<1>6. Is(F, N)
  BY <1>5
<1> HIDE DEF F
<1>7. F = [k \in 0..N |-> F[k]] /\ F[0] = state
  BY <1>0, <1>6 DEF Is
<1>8. ASSUME NEW k \in 1..N PROVE F[k] = Step(F[k - 1], order[k])
  <2>1. k \in 0..N /\ k # 0
    BY <1>0
  <2>2. F[k] = CHOOSE y \in {Step(v, order[k]) : v \in {F[k - 1]}} : TRUE
    BY <1>6, <2>1 DEF Is
  <2>3. {Step(v, order[k]) : v \in {F[k - 1]}} = {Step(F[k - 1], order[k])}
    OBVIOUS
  <2> QED BY <2>2, <2>3
<1>9. \A k \in 0..N : F[k] \in V
  <2>1. \A k \in 1..N : F[k - 1] \in V => F[k] \in V
    BY <1>0, <1>1, <1>8
  <2> QED BY <1>0, <1>1, <1>7, <2>1, LoopStays
<1>10. F \in [0..N -> V]
  BY <1>7, <1>9
<1>11. \A k \in 1..N : F[k] = Step(F[k - 1], k - 1)
  BY <1>0, <1>8
<1>12. RemoveLogicalsFromFirstFour(mbr0) = F[N]
  BY <1>2 DEF F
<1> HIDE DEF g
<1> USE DEF N, state, Step
<1> QED BY <1>7, <1>10, <1>11, <1>12

\* The loop of MovePrimariesToFirstFour().
LEMMA ForwardSteps ==
  ASSUME NEW mbr0, NEW V, mbr0 \in V,
         \A v \in V, i \in 4 .. MaxParts - 1 :
           ForwardStep(v, i) \in V
  PROVE  \E f \in [0..MaxParts - 4 -> V] :
           /\ f[0] = mbr0
           /\ \A k \in 1..MaxParts - 4 :
                f[k] = ForwardStep(f[k - 1], (k + 3))
           /\ MovePrimariesToFirstFour(mbr0) = f[MaxParts - 4]
<1> DEFINE N == MaxParts - 4
           order == Behind
           state == mbr0
           Step(v, i) == ForwardStep(v, i)
           Is(F, n) == F = [k \in 0..n |->
                         IF k = 0 THEN state
                         ELSE CHOOSE y \in {Step(v, order[k]) : v \in {F[k - 1]}} : TRUE]
           g == [x \in (1..N) \X V |-> Step(x[2], order[x[1]])]
<1>0. /\ N \in Nat /\ Len(order) = N
      /\ \A k \in 1..N : order[k] = k + 3 /\ order[k] \in 4 .. MaxParts - 1
  BY LayoutAssumption DEF Behind, Slots
<1>1. state \in V /\ \A v \in V, i \in 4 .. MaxParts - 1 : Step(v, i) \in V
  OBVIOUS
<1>2. MovePrimariesToFirstFour(mbr0) = (CHOOSE F : Is(F, N))[N]
  BY <1>0 DEF Loop, MovePrimariesToFirstFour, ForwardStep, RoomInFront
<1> HIDE DEF N, order, state, Step, Is
<1>3. g \in [(1..N) \X V -> V]
  BY <1>0, <1>1
<1>4. PICK f \in [0..N -> V] : LoopsBy(f, N, state, g)
  <2> HIDE DEF g
  <2> QED BY <1>0, <1>1, <1>3, LoopExists
<1>5. Is(f, N)
  <2>1. ASSUME NEW k \in 0..N, k # 0
        PROVE  g[<<k, f[k - 1]>>] = CHOOSE y \in {Step(v, order[k]) : v \in {f[k - 1]}} : TRUE
    <3>1. f[k - 1] \in V /\ k \in 1..N
      BY <1>0, <2>1
    <3>2. g[<<k, f[k - 1]>>] = Step(f[k - 1], order[k])
      BY <3>1
    <3>3. {Step(v, order[k]) : v \in {f[k - 1]}} = {Step(f[k - 1], order[k])}
      OBVIOUS
    <3> HIDE DEF g
    <3> QED BY <3>2, <3>3
  <2>2. f = [k \in 0..N |-> IF k = 0 THEN state ELSE g[<<k, f[k - 1]>>]]
    BY <1>4 DEF LoopsBy
  <2> HIDE DEF g
  <2> QED BY <2>1, <2>2 DEF Is
<1> DEFINE F == CHOOSE F : Is(F, N)
<1>6. Is(F, N)
  BY <1>5
<1> HIDE DEF F
<1>7. F = [k \in 0..N |-> F[k]] /\ F[0] = state
  BY <1>0, <1>6 DEF Is
<1>8. ASSUME NEW k \in 1..N PROVE F[k] = Step(F[k - 1], order[k])
  <2>1. k \in 0..N /\ k # 0
    BY <1>0
  <2>2. F[k] = CHOOSE y \in {Step(v, order[k]) : v \in {F[k - 1]}} : TRUE
    BY <1>6, <2>1 DEF Is
  <2>3. {Step(v, order[k]) : v \in {F[k - 1]}} = {Step(F[k - 1], order[k])}
    OBVIOUS
  <2> QED BY <2>2, <2>3
<1>9. \A k \in 0..N : F[k] \in V
  <2>1. \A k \in 1..N : F[k - 1] \in V => F[k] \in V
    BY <1>0, <1>1, <1>8
  <2> QED BY <1>0, <1>1, <1>7, <2>1, LoopStays
<1>10. F \in [0..N -> V]
  BY <1>7, <1>9
<1>11. \A k \in 1..N : F[k] = Step(F[k - 1], k + 3)
  BY <1>0, <1>8
<1>12. MovePrimariesToFirstFour(mbr0) = F[N]
  BY <1>2 DEF F
<1> HIDE DEF g
<1> USE DEF N, state, Step
<1> QED BY <1>7, <1>10, <1>11, <1>12

-----------------------------------------------------------------------------
(* What MakeItLegal()'s passes make of an array: every partition keeps its *)
(* place, and only partitions with sectors are included.                   *)

HasSectors(m) == {i \in Slots : m[i].len > 0}
Cans(m) == [logical : SUBSET HasSectors(m), primary : SUBSET HasSectors(m)]

Placings(T, m) ==
  {x \in Tables(T) : \A i \in Slots : x[i].start = m[i].start /\ x[i].len = m[i].len /\ x[i].type = m[i].type}
Inclusions(T, m) == {x \in Placings(T, m) : \A i \in Slots : x[i].as # "NONE" => m[i].len > 0}

LEMMA SetAsPlaces ==
  ASSUME NEW T, NEW m, NEW x \in Placings(T, m), NEW i \in Slots, NEW as \in {"NONE", "PRIMARY", "LOGICAL"}
  PROVE  /\ SetAs(x, i, as) \in Placings(T, m)
         /\ \A j \in Slots : SetAs(x, i, as)[j].as = IF j = i THEN as ELSE x[j].as
         /\ x \in Inclusions(T, m) /\ (as # "NONE" => m[i].len > 0) => SetAs(x, i, as) \in Inclusions(T, m)
<1> DEFINE y == SetAs(x, i, as)
<1>1. x \in Tables(T) /\ \A j \in Slots : x[j].start = m[j].start /\ x[j].len = m[j].len /\ x[j].type = m[j].type
  BY DEF Placings
<1>2. /\ y \in Tables(T)
      /\ \A j \in Slots : /\ y[j].start = x[j].start /\ y[j].len = x[j].len /\ y[j].type = x[j].type
                          /\ y[j].as = IF j = i THEN as ELSE x[j].as
  <2>1. x \in Tables(T)
    BY <1>1
  <2>2. y \in Tables(T)
    BY <2>1, SetAsType
  <2> DEFINE p == [x[i] EXCEPT !.as = as]
  <2>3. x[i] \in Parts(T)
    BY <2>1 DEF Tables
  <2>4. p.start = x[i].start /\ p.len = x[i].len /\ p.type = x[i].type /\ p.as = as
    BY <2>3 DEF Parts
  <2>5. y = [x EXCEPT ![i] = p]
    BY DEF SetAs
  <2> HIDE DEF p, y
  <2>6. \A j \in Slots : y[j] = IF j = i THEN p ELSE x[j]
    BY <2>1, <2>5 DEF Tables
  <2> QED BY <2>2, <2>4, <2>6
<1> HIDE DEF y
<1>3. y \in Placings(T, m)
  BY <1>1, <1>2 DEF Placings
<1>4. x \in Inclusions(T, m) /\ (as # "NONE" => m[i].len > 0) => y \in Inclusions(T, m)
  BY <1>2, <1>3 DEF Inclusions
<1> QED BY <1>2, <1>3, <1>4 DEF y

LEMMA CanType == ASSUME NEW T, NEW m, NEW x \in Placings(T, m) PROVE UpdateCanBeLogical(x) \in Cans(m)
BY DEF UpdateCanBeLogical, Cans, HasSectors, Placings, MayBeLogical, MayBePrimary

LEMMA MaximizeLogicalsType ==
  ASSUME NEW T, NEW m \in Tables(T)
  PROVE  MaximizeLogicals(m).mbr \in Inclusions(T, m) /\ MaximizeLogicals(m).can \in Cans(m)
<1> DEFINE N == MaxParts
           V == [mbr : Placings(T, m), can : Cans(m)]
           state == [mbr |-> m, can |-> UpdateCanBeLogical(m)]
           As(x, i) == IF i \in UpdateCanBeLogical(x).logical THEN "LOGICAL"
                       ELSE IF i \in UpdateCanBeLogical(x).primary THEN "PRIMARY" ELSE "NONE"
           Step(v, i) == [mbr |-> SetAs(v.mbr, i, As(v.mbr, i)), can |-> UpdateCanBeLogical(v.mbr)]
           Result(x) == IF NumPrimaries(x.mbr) < 4 /\ x.mbr[0].as = "LOGICAL"
                        THEN [x EXCEPT !.mbr = SetAs(x.mbr, 0, "NONE")] ELSE x
<1>1. state \in V
  <2>1. m \in Placings(T, m)
    BY DEF Placings
  <2> QED BY <2>1, CanType
<1>2. ASSUME NEW v \in V, NEW i \in Slots
      PROVE  /\ Step(v, i) \in V
             /\ Step(v, i).mbr[i].as # "NONE" => m[i].len > 0
             /\ \A j \in Slots \ {i} : Step(v, i).mbr[j].as = v.mbr[j].as
  <2> DEFINE can == UpdateCanBeLogical(v.mbr)
             as == As(v.mbr, i)
  <2>1. v.mbr \in Placings(T, m) /\ can \in Cans(m)
    BY CanType
  <2>2. as \in {"NONE", "PRIMARY", "LOGICAL"} /\ (as # "NONE" => i \in can.logical \/ i \in can.primary)
    OBVIOUS
  <2> HIDE DEF as, can
  <2>3. as # "NONE" => m[i].len > 0
    BY <2>1, <2>2 DEF Cans, HasSectors
  <2> DEFINE z == v.mbr
             y == SetAs(z, i, as)
  <2>4. y \in Placings(T, m) /\ y[i].as = as /\ \A j \in Slots \ {i} : y[j].as = z[j].as
    <3> HIDE DEF z
    <3>1. z \in Placings(T, m)
      BY <2>1 DEF z
    <3>2. as \in {"NONE", "PRIMARY", "LOGICAL"}
      BY <2>2
    <3>3. y \in Placings(T, m)
      BY <3>1, <3>2, SetAsPlaces
    <3> DEFINE p == [z[i] EXCEPT !.as = as]
    <3>4. z \in Tables(T) /\ z[i] \in Parts(T)
      BY <3>1 DEF Placings, Tables
    <3>5. p.as = as
      BY <3>4 DEF Parts
    <3>6. y = [z EXCEPT ![i] = p]
      BY DEF SetAs
    <3> HIDE DEF p, y
    <3>7. y[i] = p /\ \A j \in Slots \ {i} : y[j] = z[j]
      BY <3>4, <3>6 DEF Tables
    <3> QED BY <3>3, <3>5, <3>7
  <2>5. Step(v, i) = [mbr |-> y, can |-> can]
    BY DEF as, can
  <2> HIDE DEF y
  <2>6. Step(v, i).mbr = y /\ Step(v, i).can = can
    BY <2>5
  <2>7. [mbr |-> y, can |-> can] \in V
    BY <2>1, <2>4
  <2> HIDE DEF Step, V
  <2> QED BY <2>3, <2>4, <2>5, <2>6, <2>7
<1>3. PICK f \in [0..N -> V] :
        /\ \A k \in 1..N : f[k] = Step(f[k - 1], N - k)
        /\ MaximizeLogicals(m) = Result(f[N])
  <2>1. \A v \in V, i \in Slots : Step(v, i) \in V
    BY <1>2
  <2> HIDE DEF V
  <2> QED BY <1>1, <2>1, LogicalSteps
<1>4. N \in Nat /\ N > 4 /\ Slots = 0..N - 1
  BY Sizes DEF Slots
<1> HIDE DEF N, V, Step, Result
\* The entries that the loop has decided have sectors, if they are included.
<1> DEFINE S == {k \in 0..N : \A i \in Slots : i >= N - k /\ f[k].mbr[i].as # "NONE" => m[i].len > 0}
<1>5. 0 \in S
  BY <1>4
<1>6. ASSUME NEW k \in 0..N - 1, k \in S PROVE k + 1 \in S
  <2> DEFINE at == N - (k + 1)
             v == f[k]
  <2>1. k + 1 \in 1..N /\ k + 1 \in 0..N /\ (k + 1) - 1 = k /\ k \in 0..N /\ at \in Slots
    BY <1>4
  <2>2. f[k + 1] = Step(v, at)
    BY <1>3, <2>1
  <2>3. v \in V
    BY <1>3, <2>1
  <2> HIDE DEF v
  <2>4. /\ f[k + 1].mbr[at].as # "NONE" => m[at].len > 0
        /\ \A j \in Slots \ {at} : f[k + 1].mbr[j].as = v.mbr[j].as
    BY <1>2, <2>1, <2>2, <2>3
  <2>5. \A j \in Slots : j >= at => j = at \/ j >= N - k
    BY <1>4
  <2>6. \A j \in Slots : j >= N - k /\ v.mbr[j].as # "NONE" => m[j].len > 0
    BY <1>6 DEF v
  <2> HIDE DEF at
  <2>7. \A j \in Slots : j >= at /\ f[k + 1].mbr[j].as # "NONE" => m[j].len > 0
    BY <2>4, <2>5, <2>6
  <2> QED BY <2>1, <2>7 DEF at
<1>7. N \in S
  <2> HIDE DEF S
  <2>1. 0..N \subseteq S
    BY <1>4, <1>5, <1>6, BoundedInduction
  <2> QED BY <1>4, <2>1
<1> DEFINE x == f[N]
<1>8. x \in V /\ MaximizeLogicals(m) = Result(x) /\ \A i \in Slots : x.mbr[i].as # "NONE" => m[i].len > 0
  BY <1>3, <1>4, <1>7
<1> HIDE DEF x
<1>9. x.mbr \in Inclusions(T, m) /\ x.can \in Cans(m)
  BY <1>8 DEF V, Inclusions
<1>10. SetAs(x.mbr, 0, "NONE") \in Inclusions(T, m)
  <2>1. 0 \in Slots /\ x.mbr \in Placings(T, m)
    BY <1>4, <1>9 DEF Inclusions
  <2> QED BY <1>9, <2>1, SetAsPlaces
<1>11. Result(x).mbr \in Inclusions(T, m) /\ Result(x).can \in Cans(m)
  <2> DEFINE y == [x EXCEPT !.mbr = SetAs(x.mbr, 0, "NONE")]
  <2>1. y.mbr \in Inclusions(T, m) /\ y.can \in Cans(m)
    BY <1>8, <1>9, <1>10 DEF V
  <2>2. Result(x) = y \/ Result(x) = x
    BY DEF Result
  <2> HIDE DEF y
  <2> QED BY <1>9, <2>1, <2>2
<1> QED BY <1>8, <1>11

LEMMA MaximizePrimariesType ==
  ASSUME NEW T, NEW m, NEW x, x.mbr \in Inclusions(T, m), x.can \in Cans(m)
  PROVE  MaximizePrimaries(x) \in Inclusions(T, m)
<1> DEFINE V == [mbr : Inclusions(T, m), can : Cans(m), num : Nat]
           state == [mbr |-> x.mbr, can |-> x.can, num |-> NumPrimaries(x.mbr)]
           Step(v, i) == IF v.num < 4 /\ v.mbr[i].as = "NONE" /\ i \in v.can.primary
                         THEN [mbr |-> SetAs(v.mbr, i, "PRIMARY"),
                               can |-> UpdateCanBeLogical(SetAs(v.mbr, i, "PRIMARY")), num |-> v.num + 1]
                         ELSE v
<1>1. state \in V
  BY NumPrimariesType
<1>2. ASSUME NEW v \in V, NEW i \in Slots PROVE Step(v, i) \in V
  <2>1. SUFFICES ASSUME i \in v.can.primary
                 PROVE  /\ SetAs(v.mbr, i, "PRIMARY") \in Inclusions(T, m)
                        /\ UpdateCanBeLogical(SetAs(v.mbr, i, "PRIMARY")) \in Cans(m)
    <3> DEFINE y == SetAs(v.mbr, i, "PRIMARY")
    <3> HIDE DEF y
    <3> QED BY DEF y
  <2>2. v.mbr \in Placings(T, m) /\ m[i].len > 0
    BY <2>1 DEF Inclusions, Cans, HasSectors
  <2>3. SetAs(v.mbr, i, "PRIMARY") \in Placings(T, m) /\ SetAs(v.mbr, i, "PRIMARY") \in Inclusions(T, m)
    BY <2>2, SetAsPlaces
  <2> QED BY <2>3, CanType
<1>3. \E f \in [0..MaxParts -> V] : MaximizePrimaries(x) = f[MaxParts].mbr
  <2> HIDE DEF V
  <2> QED BY <1>1, <1>2, PrimarySteps
<1>4. PICK f \in [0..MaxParts -> V] : MaximizePrimaries(x) = f[MaxParts].mbr
  <2> HIDE DEF V
  <2> QED BY <1>3
<1>5. f[MaxParts] \in V
  <2> HIDE DEF V
  <2> QED BY Sizes
<1> QED BY <1>4, <1>5

LEMMA MakeLogicalsContiguousType ==
  ASSUME NEW T, NEW m, NEW x \in Inclusions(T, m) PROVE MakeLogicalsContiguous(x) \in Inclusions(T, m)
<1> DEFINE Step(v, i) ==
             IF v[i].as = "PRIMARY" /\ FirstLogicalLBA(x) <= v[i].start /\ LastLBA(v[i]) <= LastLogicalLBA(x)
             THEN SetAs(v, i, IF UsedAs(v, Minus64(v[i].start, 1)) = "NONE" THEN "LOGICAL" ELSE "NONE") ELSE v
<1>1. ASSUME NEW v \in Inclusions(T, m), NEW i \in Slots PROVE Step(v, i) \in Inclusions(T, m)
  <2> DEFINE as == IF UsedAs(v, Minus64(v[i].start, 1)) = "NONE" THEN "LOGICAL" ELSE "NONE"
  <2>1. as \in {"NONE", "PRIMARY", "LOGICAL"} /\ v \in Placings(T, m)
    BY DEF Inclusions
  <2> HIDE DEF as
  <2>2. v[i].as = "PRIMARY" => m[i].len > 0
    BY DEF Inclusions
  <2>3. v[i].as = "PRIMARY" => SetAs(v, i, as) \in Inclusions(T, m)
    BY <2>1, <2>2, SetAsPlaces
  <2> QED BY <2>3 DEF as
<1>2. \E f \in [0..MaxParts -> Inclusions(T, m)] : MakeLogicalsContiguous(x) = f[MaxParts]
  BY <1>1, ConvertSteps
<1> QED BY <1>2, Sizes

\* Omitting a primary makes one fewer.
LEMMA OneFewer ==
  ASSUME NEW T, NEW m, NEW x \in Inclusions(T, m), NEW i \in Slots, x[i].as = "PRIMARY"
  PROVE  NumPrimaries(SetAs(x, i, "NONE")) = NumPrimaries(x) - 1
<1> DEFINE y == SetAs(x, i, "NONE")
           P(z) == {j \in Including(z, "PRIMARY") : z[j].len > 0}
           L(z) == {j \in Including(z, "LOGICAL") : z[j].len > 0}
<1>1. x \in Placings(T, m) /\ m[i].len > 0
  BY DEF Inclusions
<1>2. y \in Placings(T, m) /\ \A j \in Slots : y[j].as = IF j = i THEN "NONE" ELSE x[j].as
  BY <1>1, SetAsPlaces
<1>3. \A j \in Slots : y[j].len = x[j].len /\ x[j].len = m[j].len
  BY <1>1, <1>2 DEF Placings
<1> HIDE DEF y
<1>4. i \in P(x) /\ P(y) = P(x) \ {i} /\ L(y) = L(x)
  BY <1>1, <1>2, <1>3 DEF Including
<1>5. P(x) \subseteq Slots
  BY DEF Including
<1>6. NumPrimaries(x) = Cardinality(P(x)) + (IF L(x) # {} THEN 1 ELSE 0)
  BY DEF NumPrimaries
<1>7. NumPrimaries(y) = Cardinality(P(y)) + (IF L(y) # {} THEN 1 ELSE 0)
  BY DEF NumPrimaries
<1> HIDE DEF P, L
<1>8. IsFiniteSet(P(x)) /\ Cardinality(P(x)) \in Nat
  BY <1>5, CountType
<1>9. Cardinality(P(y)) = Cardinality(P(x)) - 1
  BY <1>4, <1>8, FS_RemoveElement
<1> QED BY <1>4, <1>6, <1>7, <1>8, <1>9 DEF y

\* Trimming stops at four: it could omit every primary, and one entry is enough
\* for the logical partitions.
LEMMA TrimPrimariesType ==
  ASSUME NEW T, NEW m, NEW x \in Inclusions(T, m)
  PROVE  TrimPrimaries(x) \in Inclusions(T, m) /\ NumPrimaries(TrimPrimaries(x)) <= 4
<1> DEFINE N == MaxParts
           V == {v \in [mbr : Inclusions(T, m), left : Int] : v.left = NumPrimaries(v.mbr) - 4}
           state == [mbr |-> x, left |-> NumPrimaries(x) - 4]
           Step(v, i) == IF v.left > 0 /\ v.mbr[i].as = "PRIMARY"
                         THEN [mbr |-> SetAs(v.mbr, i, "NONE"), left |-> v.left - 1] ELSE v
<1>1. state \in V
  BY NumPrimariesType
<1>2. ASSUME NEW v \in V, NEW i \in Slots
      PROVE  /\ Step(v, i) \in V /\ Step(v, i).left <= v.left
             /\ Step(v, i).left > 0 => Step(v, i).mbr[i].as # "PRIMARY"
             /\ \A j \in Slots : v.mbr[j].as # "PRIMARY" => Step(v, i).mbr[j].as # "PRIMARY"
  <2> DEFINE y == SetAs(v.mbr, i, "NONE")
  <2>1. v.mbr \in Inclusions(T, m) /\ v.mbr \in Placings(T, m) /\ v.left \in Int /\ v.left = NumPrimaries(v.mbr) - 4
    BY DEF Inclusions
  <2>2. y \in Inclusions(T, m) /\ \A j \in Slots : y[j].as = IF j = i THEN "NONE" ELSE v.mbr[j].as
    BY <2>1, SetAsPlaces
  <2>3. v.mbr[i].as = "PRIMARY" => NumPrimaries(y) = NumPrimaries(v.mbr) - 1
    BY <2>1, OneFewer
  <2>4. NumPrimaries(v.mbr) \in Nat
    BY NumPrimariesType
  <2> HIDE DEF y
  <2>5. CASE v.left > 0 /\ v.mbr[i].as = "PRIMARY"
    <3> DEFINE w == [mbr |-> y, left |-> v.left - 1]
    <3>1. Step(v, i) = w
      BY <2>5 DEF y
    <3>2. w.mbr = y /\ w.left = v.left - 1
      OBVIOUS
    <3>3. w.left \in Int /\ w.left = NumPrimaries(y) - 4 /\ w.left <= v.left
      BY <2>1, <2>3, <2>4, <2>5, <3>2
    <3>4. w \in V
      BY <2>1, <2>2, <3>2, <3>3
    <3> HIDE DEF Step, w, V
    <3> QED BY <2>2, <3>1, <3>2, <3>3, <3>4
  <2>6. CASE ~(v.left > 0 /\ v.mbr[i].as = "PRIMARY")
    <3>1. Step(v, i) = v
      BY <2>6
    <3> HIDE DEF Step, V
    <3> QED BY <2>1, <2>6, <3>1
  <2> QED BY <2>5, <2>6
<1>3. PICK f \in [0..N -> V] : /\ \A k \in 1..N : f[k] = Step(f[k - 1], N - k)
                               /\ TrimPrimaries(x) = f[N].mbr
  <2>1. \A v \in V, i \in Slots : Step(v, i) \in V
    BY <1>2
  <2> HIDE DEF V
  <2> QED BY <1>1, <2>1, TrimSteps
<1>4. N \in Nat /\ N > 4 /\ Slots = 0..N - 1
  BY Sizes DEF Slots
<1>a. ASSUME NEW v \in V PROVE v.mbr \in Inclusions(T, m) /\ v.left \in Int /\ v.left = NumPrimaries(v.mbr) - 4
  OBVIOUS
<1> HIDE DEF N, V, Step
<1> DEFINE S == {k \in 0..N : f[k].left > 0 => \A i \in Slots : i >= N - k => f[k].mbr[i].as # "PRIMARY"}
<1>5. 0 \in S
  BY <1>4
<1>6. ASSUME NEW k \in 0..N - 1, k \in S PROVE k + 1 \in S
  <2> DEFINE at == N - (k + 1)
             v == f[k]
             w == f[k + 1]
  <2>1. k + 1 \in 1..N /\ k + 1 \in 0..N /\ (k + 1) - 1 = k /\ k \in 0..N /\ at \in Slots
    BY <1>4
  <2>2. w = Step(v, at) /\ v \in V /\ w \in V
    BY <1>3, <2>1
  <2>3. \A j \in Slots : j >= at => j = at \/ j >= N - k
    BY <1>4
  <2>4. v.left > 0 => \A i \in Slots : i >= N - k => v.mbr[i].as # "PRIMARY"
    BY <1>6
  <2> HIDE DEF v, w, at
  <2>5. /\ w.left <= v.left /\ (w.left > 0 => w.mbr[at].as # "PRIMARY")
        /\ \A j \in Slots : v.mbr[j].as # "PRIMARY" => w.mbr[j].as # "PRIMARY"
    BY <1>2, <2>1, <2>2
  <2>6. w.left > 0 => v.left > 0
    BY <1>a, <2>2, <2>5
  <2>7. w.left > 0 => \A i \in Slots : i >= at => w.mbr[i].as # "PRIMARY"
    BY <2>3, <2>4, <2>5, <2>6
  <2> QED BY <2>1, <2>7 DEF at, w
<1>7. N \in S
  <2> HIDE DEF S
  <2>1. 0..N \subseteq S
    BY <1>4, <1>5, <1>6, BoundedInduction
  <2> QED BY <1>4, <2>1
<1> DEFINE v == f[N]
<1>8. v \in V /\ TrimPrimaries(x) = v.mbr /\ (v.left > 0 => \A i \in Slots : v.mbr[i].as # "PRIMARY")
  BY <1>3, <1>4, <1>7
<1> HIDE DEF v
<1>9. v.mbr \in Inclusions(T, m) /\ v.left \in Int /\ v.left = NumPrimaries(v.mbr) - 4
  BY <1>8, <1>a
<1>10. ~(v.left > 0)
  <2>1. SUFFICES ASSUME v.left > 0 PROVE FALSE
    OBVIOUS
  <2>2. {i \in Including(v.mbr, "PRIMARY") : v.mbr[i].len > 0} = {}
    BY <1>8, <2>1 DEF Including
  <2>3. NumPrimaries(v.mbr) <= 1
    <3> DEFINE z == v.mbr
               P == {i \in Including(z, "PRIMARY") : z[i].len > 0}
               L == {i \in Including(z, "LOGICAL") : z[i].len > 0}
    <3>1. P = {}
      BY <2>2
    <3>2. NumPrimaries(z) = Cardinality(P) + (IF L # {} THEN 1 ELSE 0)
      BY DEF NumPrimaries
    <3> HIDE DEF P, L, z
    <3>3. Cardinality(P) = 0
      BY <3>1, FS_EmptySet
    <3>4. NumPrimaries(z) <= 1
      BY <3>2, <3>3
    <3> QED BY <3>4 DEF z
  <2> QED BY <1>9, <2>1, <2>3, NumPrimariesType
<1> QED BY <1>8, <1>9, <1>10, NumPrimariesType

\* What omitting partitions makes of an array: the places stay.
Omitted(T, m) == {x \in Placings(T, m) : \A i \in Slots : x[i].as \in {m[i].as, "NONE"}}

LEMMA OmittedOf ==
  ASSUME NEW T, NEW m \in Tables(T), NEW x \in Omitted(T, m)
  PROVE  /\ x \in Tables(T)
         /\ \A y \in Omitted(T, x) : y \in Omitted(T, m)
         /\ \A i \in Slots, j \in Slots : Overlap(x[i], x[j]) <=> Overlap(m[i], m[j])
         /\ NumPrimaries(x) <= NumPrimaries(m)
<1>1. /\ x \in Tables(T)
      /\ \A j \in Slots : /\ x[j].start = m[j].start /\ x[j].len = m[j].len /\ x[j].type = m[j].type
                          /\ x[j].as = m[j].as \/ x[j].as = "NONE"
  BY DEF Omitted, Placings
<1>2. ASSUME NEW y \in Omitted(T, x) PROVE y \in Omitted(T, m)
  <2>1. /\ y \in Tables(T)
        /\ \A j \in Slots : /\ y[j].start = x[j].start /\ y[j].len = x[j].len /\ y[j].type = x[j].type
                            /\ y[j].as = x[j].as \/ y[j].as = "NONE"
    BY DEF Omitted, Placings
  <2> QED BY <1>1, <2>1 DEF Omitted, Placings
<1>3. \A i \in Slots, j \in Slots : Overlap(x[i], x[j]) <=> Overlap(m[i], m[j])
  BY <1>1 DEF Overlap, LastLBA
<1>4. NumPrimaries(x) <= NumPrimaries(m)
  <2> DEFINE P(z) == {j \in Including(z, "PRIMARY") : z[j].len > 0}
             L(z) == {j \in Including(z, "LOGICAL") : z[j].len > 0}
  <2>1. P(x) \subseteq P(m) /\ L(x) \subseteq L(m)
    BY <1>1 DEF Including
  <2>2. P(m) \subseteq Slots
    BY DEF Including
  <2>3. NumPrimaries(x) = Cardinality(P(x)) + (IF L(x) # {} THEN 1 ELSE 0)
    BY DEF NumPrimaries
  <2>4. NumPrimaries(m) = Cardinality(P(m)) + (IF L(m) # {} THEN 1 ELSE 0)
    BY DEF NumPrimaries
  <2> HIDE DEF P, L
  <2>5. IsFiniteSet(P(m)) /\ Cardinality(P(m)) \in Nat
    BY <2>2, CountType
  <2>6. Cardinality(P(x)) <= Cardinality(P(m)) /\ Cardinality(P(x)) \in Nat
    BY <2>1, <2>5, FS_Subset, FS_CardinalityType
  <2> QED BY <2>1, <2>3, <2>4, <2>5, <2>6
<1> QED BY <1>1, <1>2, <1>3, <1>4

LEMMA OmittedSelf == ASSUME NEW T, NEW m \in Tables(T) PROVE m \in Omitted(T, m)
BY DEF Omitted, Placings

\* A pair that the inner loop has compared is no longer included with an overlap.
LEMMA AgainstOmits ==
  ASSUME NEW T, NEW x \in Tables(T), NEW h \in Slots, NEW j \in Slots
  PROVE  /\ Against(x, h, j) \in Omitted(T, x)
         /\ j > h /\ Against(x, h, j)[h].as # "NONE" /\ Against(x, h, j)[j].as # "NONE"
              => ~Overlap(x[h], x[j])
<1> DEFINE at == IF x[h].len < x[j].len THEN h ELSE j
           y == SetAs(x, at, "NONE")
<1>1. at \in Slots /\ at \in {h, j}
  OBVIOUS
<1> HIDE DEF at
<1>2. x \in Placings(T, x) /\ x \in Omitted(T, x)
  BY OmittedSelf DEF Placings
<1>3. y \in Placings(T, x) /\ \A k \in Slots : y[k].as = IF k = at THEN "NONE" ELSE x[k].as
  BY <1>1, <1>2, SetAsPlaces
<1> HIDE DEF y
<1>4. y \in Omitted(T, x) /\ (y[h].as = "NONE" \/ y[j].as = "NONE")
  BY <1>1, <1>3 DEF Omitted
<1>5. Against(x, h, j) = IF j <= h \/ x[h].as = "NONE" \/ ~Overlap(x[h], x[j]) THEN x ELSE y
  BY DEF Against, y, at
<1>6. h \in Int /\ j \in Int
  BY Sizes DEF Slots
<1>7. CASE j <= h \/ x[h].as = "NONE" \/ ~Overlap(x[h], x[j])
  <2>1. Against(x, h, j) = x
    BY <1>5, <1>7
  <2> HIDE DEF Overlap
  <2> QED BY <1>2, <1>6, <1>7, <2>1
<1>8. CASE ~(j <= h \/ x[h].as = "NONE" \/ ~Overlap(x[h], x[j]))
  <2>1. Against(x, h, j) = y
    BY <1>5, <1>8
  <2> QED BY <1>4, <2>1
<1> QED BY <1>7, <1>8

LEMMA OmitForClears ==
  ASSUME NEW T, NEW m \in Tables(T), NEW h \in Slots
  PROVE  /\ OmitFor(m, h) \in Omitted(T, m)
         /\ \A j \in Slots : j > h /\ OmitFor(m, h)[h].as # "NONE" /\ OmitFor(m, h)[j].as # "NONE"
                               => ~Overlap(m[h], m[j])
<1> DEFINE N == MaxParts
           V == Omitted(T, m)
<1>1. m \in V
  BY OmittedSelf
<1>2. ASSUME NEW v \in V, NEW j \in Slots
      PROVE  /\ Against(v, h, j) \in V /\ Against(v, h, j) \in Omitted(T, v)
             /\ j > h /\ Against(v, h, j)[h].as # "NONE" /\ Against(v, h, j)[j].as # "NONE"
                  => ~Overlap(m[h], m[j])
  <2>1. /\ v \in Tables(T) /\ \A y \in Omitted(T, v) : y \in V
        /\ Overlap(v[h], v[j]) <=> Overlap(m[h], m[j])
    BY OmittedOf
  <2> QED BY <2>1, AgainstOmits
<1>3. PICK f \in [0..N -> V] : /\ f[0] = m
                               /\ \A k \in 1..N : f[k] = Against(f[k - 1], h, k - 1)
                               /\ OmitFor(m, h) = f[N]
  <2> HIDE DEF V
  <2>1. \A v \in V, i \in Slots : Against(v, h, i) \in V
    BY <1>2
  <2>2. \E f \in [0..MaxParts -> V] :
          /\ f[0] = m
          /\ \A k \in 1..MaxParts : f[k] = Against(f[k - 1], h, k - 1)
          /\ OmitFor(m, h) = f[MaxParts]
    <3>1. PICK x : x = OmitFor(m, h)
      OBVIOUS
    <3> QED BY <1>1, <2>1, <3>1, AgainstSteps
  <2> QED BY <2>2
<1>4. N \in Nat /\ N > 4 /\ Slots = 0..N - 1
  BY Sizes DEF Slots
<1> HIDE DEF N, V
<1> DEFINE Done(x, k) == \A j \in Slots : j > h /\ j < k /\ x[h].as # "NONE" /\ x[j].as # "NONE"
                                            => ~Overlap(m[h], m[j])
           S == {k \in 0..N : Done(f[k], k)}
<1>5. 0 \in S
  BY <1>4
<1>6. ASSUME NEW k \in 0..N - 1, k \in S PROVE k + 1 \in S
  <2> DEFINE v == f[k]
             w == f[k + 1]
  <2>1. k + 1 \in 1..N /\ k + 1 \in 0..N /\ (k + 1) - 1 = k /\ k \in 0..N /\ k \in Slots
    BY <1>4
  <2>2. w = Against(v, h, k) /\ v \in V
    BY <1>3, <2>1
  <2>3. Done(v, k)
    BY <1>6
  <2> HIDE DEF v, w
  <2>4. /\ w \in Omitted(T, v)
        /\ k > h /\ w[h].as # "NONE" /\ w[k].as # "NONE" => ~Overlap(m[h], m[k])
    BY <1>2, <2>1, <2>2
  <2>5. \A j \in Slots : w[j].as # "NONE" => v[j].as # "NONE"
    BY <2>4 DEF Omitted
  <2>6. \A j \in Slots : j < k + 1 => j < k \/ j = k
    BY <1>4
  <2>7. Done(w, k + 1)
    BY <2>3, <2>4, <2>5, <2>6
  <2> QED BY <2>1, <2>7 DEF w
<1>7. N \in S
  <2> HIDE DEF S
  <2>1. 0..N \subseteq S
    BY <1>4, <1>5, <1>6, BoundedInduction
  <2> QED BY <1>4, <2>1
<1>8. f[N] \in V /\ Done(f[N], N)
  BY <1>3, <1>4, <1>7
<1>9. \A j \in Slots : j < N
  BY <1>4
<1> QED BY <1>3, <1>8, <1>9 DEF V

LEMMA OmitOverlapsClears ==
  ASSUME NEW T, NEW m \in Tables(T)
  PROVE  OmitOverlaps(m) \in Omitted(T, m) /\ NoOverlaps(OmitOverlaps(m))
<1> DEFINE N == MaxParts
           V == Omitted(T, m)
<1>1. m \in V
  BY OmittedSelf
<1>2. ASSUME NEW v \in V, NEW h \in Slots
      PROVE  /\ OmitFor(v, h) \in V /\ OmitFor(v, h) \in Omitted(T, v)
             /\ \A j \in Slots : j > h /\ OmitFor(v, h)[h].as # "NONE" /\ OmitFor(v, h)[j].as # "NONE"
                                   => ~Overlap(m[h], m[j])
  <2>1. /\ v \in Tables(T) /\ \A y \in Omitted(T, v) : y \in V
        /\ \A j \in Slots : Overlap(v[h], v[j]) <=> Overlap(m[h], m[j])
    BY OmittedOf
  <2> QED BY <2>1, OmitForClears
<1>3. PICK f \in [0..N -> V] : /\ f[0] = m
                               /\ \A k \in 1..N : f[k] = OmitFor(f[k - 1], k - 1)
                               /\ OmitOverlaps(m) = f[N]
  <2> HIDE DEF V
  <2>1. \A v \in V, i \in Slots : OmitFor(v, i) \in V
    BY <1>2
  <2> QED BY <1>1, <2>1, OmitSteps
<1>4. N \in Nat /\ N > 4 /\ Slots = 0..N - 1
  BY Sizes DEF Slots
<1> HIDE DEF N, V
<1> DEFINE Done(x, k) == \A h \in Slots, j \in Slots :
                           h < k /\ j > h /\ x[h].as # "NONE" /\ x[j].as # "NONE" => ~Overlap(m[h], m[j])
           S == {k \in 0..N : Done(f[k], k)}
<1>5. 0 \in S
  BY <1>4
<1>6. ASSUME NEW k \in 0..N - 1, k \in S PROVE k + 1 \in S
  <2> DEFINE v == f[k]
             w == f[k + 1]
  <2>1. k + 1 \in 1..N /\ k + 1 \in 0..N /\ (k + 1) - 1 = k /\ k \in 0..N /\ k \in Slots
    BY <1>4
  <2>2. w = OmitFor(v, k) /\ v \in V
    BY <1>3, <2>1
  <2>3. Done(v, k)
    BY <1>6
  <2> HIDE DEF v, w
  <2>4. /\ w \in Omitted(T, v)
        /\ \A j \in Slots : j > k /\ w[k].as # "NONE" /\ w[j].as # "NONE" => ~Overlap(m[k], m[j])
    BY <1>2, <2>1, <2>2
  <2>5. \A j \in Slots : w[j].as # "NONE" => v[j].as # "NONE"
    BY <2>4 DEF Omitted
  <2>6. \A j \in Slots : j < k + 1 => j < k \/ j = k
    BY <1>4
  <2>7. Done(w, k + 1)
    BY <2>3, <2>4, <2>5, <2>6
  <2> QED BY <2>1, <2>7 DEF w
<1>7. N \in S
  <2> HIDE DEF S
  <2>1. 0..N \subseteq S
    BY <1>4, <1>5, <1>6, BoundedInduction
  <2> QED BY <1>4, <2>1
<1> DEFINE x == f[N]
<1>8. x \in V /\ Done(x, N) /\ OmitOverlaps(m) = x
  BY <1>3, <1>4, <1>7
<1> HIDE DEF x
<1>9. \A h \in Slots, j \in Slots : h < j /\ x[h].as # "NONE" /\ x[j].as # "NONE" => ~Overlap(x[h], x[j])
  <2>1. \A h \in Slots, j \in Slots : Overlap(x[h], x[j]) <=> Overlap(m[h], m[j])
    BY <1>8, OmittedOf DEF V
  <2>2. \A h \in Slots, j \in Slots : h < N /\ (h < j => j > h)
    BY <1>4
  <2> QED BY <1>8, <2>1, <2>2
<1> QED BY <1>8, <1>9 DEF V, NoOverlaps

\* DeleteOversizedParts() leaves what fits, and places stay.
LEMMA PlacedFits ==
  ASSUME NEW T, NEW m \in Tables(T), DoTheyFit(m), NEW x \in Placings(T, m)
  PROVE  DoTheyFit(x)
BY DEF DoTheyFit, Placings, LastLBA

LEMMA DeletingFits ==
  ASSUME NEW T, "none" \in T, NEW m \in Tables(T)
  PROVE  DeleteOversizedParts(m) \in Tables(T) /\ DoTheyFit(DeleteOversizedParts(m))
<1> DEFINE x == DeleteOversizedParts(m)
<1>1. \A i \in Slots : x[i] = IF Oversized(m[i]) THEN EmptyPart ELSE m[i]
  BY DEF DeleteOversizedParts
<1>2. x \in Tables(T)
  BY EmptyTypes DEF DeleteOversizedParts, Tables
<1>3. ASSUME NEW i \in Slots PROVE x[i].start <= DiskSize /\ LastLBA(x[i]) <= DiskSize
  <2>1. m[i] \in Parts(T)
    BY DEF Tables
  <2>2. m[i].start \in 0..Max32 /\ m[i].len \in 0..Max32
    BY <2>1 DEF Parts
  <2>3. LastLBA(m[i]) \in Int
    BY <2>2, Sizes DEF LastLBA
  <2>4. CASE Oversized(m[i])
    <3>1. x[i].start = 0 /\ LastLBA(x[i]) = 0
      BY <1>1, <2>4 DEF EmptyPart, LastLBA
    <3> QED BY <3>1, LayoutAssumption
  <2>5. CASE ~Oversized(m[i])
    <3>1. x[i] = m[i]
      BY <1>1, <2>5
    <3> HIDE DEF x
    <3> QED BY <2>2, <2>3, <2>5, <3>1, LayoutAssumption, Sizes DEF Oversized
  <2> QED BY <2>4, <2>5
<1> QED BY <1>2, <1>3 DEF DoTheyFit

\* What MakeItLegal() always achieves: whatever array it is given, afterwards no
\* included partitions overlap, the primary partitions and the extended one need
\* at most four entries, and everything ends on the disk.
THEOREM MakeItLegalRepairs ==
  ASSUME NEW T, "none" \in T, NEW m \in Tables(T)
  PROVE  MakeItLegal(m) \in Tables(T) /\ Repaired(MakeItLegal(m))
<1> DEFINE fitting == DeleteOversizedParts(m)
           maximal == MaximizePrimaries(MaximizeLogicals(fitting))
           joined == IF AreLogicalsContiguous(maximal) THEN maximal ELSE MakeLogicalsContiguous(maximal)
           trimmed == IF NumPrimaries(joined) > 4 THEN TrimPrimaries(joined) ELSE joined
           result == OmitOverlaps(trimmed)
<1>1. fitting \in Tables(T) /\ DoTheyFit(fitting)
  BY DeletingFits
<1>6. MakeItLegal(m) = IF IsLegal(m) THEN m ELSE result
  BY DEF MakeItLegal
<1> HIDE DEF fitting
<1>2. maximal \in Inclusions(T, fitting)
  BY <1>1, MaximizeLogicalsType, MaximizePrimariesType
<1> HIDE DEF maximal
<1>3. joined \in Inclusions(T, fitting)
  BY <1>2, MakeLogicalsContiguousType
<1> HIDE DEF joined
<1>4. trimmed \in Inclusions(T, fitting) /\ NumPrimaries(trimmed) <= 4
  BY <1>3, TrimPrimariesType, NumPrimariesType
<1> HIDE DEF trimmed
<1>5. trimmed \in Placings(T, fitting) /\ trimmed \in Tables(T) /\ DoTheyFit(trimmed)
  BY <1>1, <1>4, PlacedFits DEF Inclusions, Placings
<1>7. result \in Omitted(T, trimmed) /\ NoOverlaps(result)
  BY <1>5, OmitOverlapsClears
<1> HIDE DEF result
<1>8. result \in Tables(T) /\ NumPrimaries(result) <= NumPrimaries(trimmed)
  BY <1>5, <1>7, OmittedOf
<1>9. DoTheyFit(result)
  BY <1>5, <1>7, PlacedFits DEF Omitted
<1>10. NumPrimaries(result) <= 4
  BY <1>4, <1>8, NumPrimariesType
<1>11. IsLegal(m) => Repaired(m)
  BY DEF IsLegal, Repaired
<1>12. Repaired(result)
  BY <1>7, <1>9, <1>10 DEF Repaired
<1> QED BY <1>6, <1>8, <1>11, <1>12

LEMMA MakeItLegalType ==
  ASSUME NEW T, "none" \in T, NEW m \in Tables(T) PROVE MakeItLegal(m) \in Tables(T)
BY MakeItLegalRepairs

-----------------------------------------------------------------------------
(* ... and so is what the menu and the writer make of it.                  *)

LEMMA SetInclusionType ==
  ASSUME NEW T, NEW m \in Tables(T), NEW num \in Slots, NEW as \in {"NONE", "PRIMARY", "LOGICAL"}
  PROVE  SetInclusionwChecks(m, num, as) \in Tables(T)
BY SetAsType DEF SetInclusionwChecks

LEMMA SetTypeType ==
  ASSUME NEW T, NEW m \in Tables(T), NEW num \in Slots, NEW type, type # "ext" => type \in T
  PROVE  SetType(m, num, type) \in Tables(T)
<1> DEFINE p == [m[num] EXCEPT !.type = type]
<1>1. SUFFICES ASSUME type # "ext" PROVE [m EXCEPT ![num] = p] \in Tables(T)
  BY DEF SetType
<1>2. p \in Parts(T)
  BY <1>1 DEF Tables, Parts
<1> HIDE DEF p
<1> QED BY <1>2 DEF Tables

\* std::sort() only rearranges the entries from 'from' on.
LEMMA SortType ==
  ASSUME NEW T, NEW m \in Tables(T), NEW from \in {0, 4}, NEW sorted \in SortMBR(m, from)
  PROVE  /\ sorted \in Tables(T)
         /\ \A i \in Slots : i < from => sorted[i] = m[i]
         /\ \A i \in Slots : i >= from => \E j \in Slots : j >= from /\ sorted[i] = m[j]
<1> DEFINE all == from .. MaxParts - 1
           filled == {i \in all : m[i].len > 0 \/ m[i].start > 0}
           n == Cardinality(filled)
           Orders == {f \in [1 .. n -> filled] : /\ \A k \in 1 .. n - 1 : ~Before(m[f[k + 1]], m[f[k]])
                                                 /\ \A k, l \in 1 .. n : k # l => f[k] # f[l]}
           blank == {m[i] : i \in all \ filled}
           Rests == {g \in [from + n .. MaxParts - 1 -> blank] :
                       \A p \in blank : Cardinality({i \in DOMAIN g : g[i] = p}) = Cardinality({i \in all : m[i] = p})}
           At(f, g) == [i \in Slots |-> IF i < from THEN m[i]
                                        ELSE IF i - from < n THEN m[f[i - from + 1]] ELSE g[i]]
<1>1. all \subseteq Slots /\ filled \subseteq all /\ \A j \in all : j >= from
  BY Sizes DEF Slots
<1>2. n \in Nat
  <2> HIDE DEF filled, all
  <2> QED BY <1>1, CountType
<1>3. PICK f \in Orders, g \in Rests : sorted = At(f, g)
  <2>1. SortMBR(m, from) = {At(f, g) : f \in Orders, g \in Rests}
    BY DEF SortMBR
  <2> HIDE DEF Orders, Rests, At, filled, n, blank, all
  <2> QED BY <2>1
<1>4. f \in [1 .. n -> filled] /\ g \in [from + n .. MaxParts - 1 -> blank]
  <2> HIDE DEF filled, n, blank, all
  <2> QED BY <1>3
<1>5. \A p \in blank : \E j \in all : p = m[j]
  OBVIOUS
<1> HIDE DEF n, filled, all, blank, Orders, Rests
<1>6. \A i \in Slots : i < from => sorted[i] = m[i]
  BY <1>3
<1>7. ASSUME NEW i \in Slots, i >= from PROVE \E j \in all : sorted[i] = m[j]
  <2>1. sorted[i] = IF i - from < n THEN m[f[i - from + 1]] ELSE g[i]
    BY <1>3, <1>7, Sizes
  <2>2. CASE i - from < n
    <3>1. i - from + 1 \in 1..n
      BY <1>2, <1>7, <2>2, Sizes
    <3>2. f[i - from + 1] \in all
      BY <1>1, <1>4, <3>1
    <3> QED BY <2>1, <2>2, <3>2
  <2>3. CASE ~(i - from < n)
    <3>1. i \in from + n .. MaxParts - 1
      BY <1>2, <1>7, <2>3, Sizes DEF Slots
    <3>2. g[i] \in blank
      BY <1>4, <3>1
    <3> QED BY <1>5, <2>1, <2>3, <3>2
  <2> QED BY <2>2, <2>3
<1>8. ASSUME NEW i \in Slots PROVE sorted[i] \in Parts(T)
  <2>1. CASE i < from
    BY <1>6, <2>1 DEF Tables
  <2>2. CASE i >= from
    BY <1>1, <1>7, <2>2 DEF Tables
  <2> QED BY <2>1, <2>2, Sizes
<1>9. sorted = [i \in Slots |-> sorted[i]]
  BY <1>3
<1>10. sorted \in Tables(T)
  BY <1>8, <1>9 DEF Tables
<1> QED BY <1>1, <1>6, <1>7, <1>10

LEMMA AwayType ==
  ASSUME NEW T, NEW m \in Tables(T)
  PROVE  RemoveLogicalsFromFirstFour(m) \in Tables(T)
<1>1. ASSUME NEW v \in Tables(T), NEW i \in 0 .. 3 PROVE AwayStep(v, i) \in Tables(T)
  <2>1. RoomBehind(v) \subseteq Slots
    BY Sizes DEF Slots, RoomBehind
  <2>2. RoomBehind(v) # {} => LeastOf(RoomBehind(v)) \in Slots
    BY <2>1, LeastIn, Sizes
  <2>3. i \in Slots
    BY Sizes
  <2> QED BY <2>2, <2>3, SwappedType DEF AwayStep
<1> DEFINE N == Len(FirstFour)
<1>2. \E f \in [0..N -> Tables(T)] : RemoveLogicalsFromFirstFour(m) = f[N]
  BY <1>1, AwaySteps
<1>3. N \in 0..N
  BY DEF FirstFour
<1> QED BY <1>2, <1>3

LEMMA ForwardType ==
  ASSUME NEW T, NEW m \in Tables(T)
  PROVE  MovePrimariesToFirstFour(m) \in Tables(T)
<1>1. ASSUME NEW v \in Tables(T), NEW i \in 4 .. MaxParts - 1 PROVE ForwardStep(v, i) \in Tables(T)
  <2>1. RoomInFront(v) \subseteq Slots
    BY Sizes DEF RoomInFront
  <2>2. RoomInFront(v) # {} => LeastOf(RoomInFront(v)) \in Slots
    BY <2>1, LeastIn, Sizes
  <2>3. i \in Slots
    BY Sizes DEF Slots
  <2> QED BY <2>2, <2>3, SwappedType DEF ForwardStep
<1> DEFINE N == MaxParts - 4
<1>2. \E f \in [0..N -> Tables(T)] : MovePrimariesToFirstFour(m) = f[N]
  BY <1>1, ForwardSteps
<1>3. N \in 0..N
  BY Sizes
<1> QED BY <1>2, <1>3

LEMMA ExtendedForType ==
  ASSUME NEW T, NEW m \in Tables(T), "ext" \in T
  PROVE  ExtendedFor(m) \in Parts(T)
<1>1. FirstLogicalLBA(m) \in Int /\ LastLogicalLBA(m) + 2 \in Int
  BY FirstLogicalType, LastLogicalType, Sizes
<1>2. Minus64(FirstLogicalLBA(m), 1) \in Int /\ Minus64(LastLogicalLBA(m) + 2, FirstLogicalLBA(m)) \in Int
  BY <1>1, Minus64Type
<1> DEFINE before == Minus64(FirstLogicalLBA(m), 1)
           behind == Minus64(LastLogicalLBA(m) + 2, FirstLogicalLBA(m))
<1>3. before \in Int /\ behind \in Int
  BY <1>2
<1>4. ExtendedFor(m) = MkPart(Low32(before), Low32(behind), "PRIMARY", "ext")
  BY DEF ExtendedFor
<1> HIDE DEF before, behind
<1>5. Low32(before) \in 0..Max32 /\ Low32(behind) \in 0..Max32
  BY <1>3, Low32Type
<1> QED BY <1>4, <1>5, PartType

LEMMA WithExtendedType ==
  ASSUME NEW T, "ext" \in T, NEW m \in Tables(T)
  PROVE  /\ WithExtended(m).mbr \in Tables(T)
         /\ WithExtended(m).ok =>
              \E j \in 0..3 : /\ m[j].as = "NONE" \/ m[j].len = 0
                              /\ WithExtended(m).mbr = [m EXCEPT ![j] = ExtendedFor(m)]
<1> DEFINE room == {i \in 0 .. 3 : m[i].as = "NONE" \/ m[i].len = 0}
           placed == [m EXCEPT ![LeastOf(room)] = ExtendedFor(m)]
<1>1. WithExtended(m) = IF room = {} THEN [mbr |-> m, ok |-> FALSE]
                        ELSE [mbr |-> placed, ok |-> \A i \in Slots : placed[i].type # "ee"]
  BY DEF WithExtended
<1>2. ASSUME room # {} PROVE LeastOf(room) \in room
  <2>1. room \subseteq Nat
    OBVIOUS
  <2> HIDE DEF room
  <2> QED BY <1>2, <2>1, LeastIn
<1>3. room \subseteq Slots /\ \A i \in room : i \in 0..3 /\ (m[i].as = "NONE" \/ m[i].len = 0)
  BY Sizes
<1> HIDE DEF room
<1>4. ExtendedFor(m) \in Parts(T)
  BY ExtendedForType
<1>5. room # {} => placed \in Tables(T)
  BY <1>2, <1>3, <1>4 DEF Tables
<1>6. CASE room = {}
  BY <1>1, <1>6
<1>7. CASE room # {}
  <2>1. LeastOf(room) \in 0..3 /\ (m[LeastOf(room)].as = "NONE" \/ m[LeastOf(room)].len = 0)
    BY <1>2, <1>3, <1>7
  <2>2. WithExtended(m).mbr = placed
    BY <1>1, <1>7
  <2> QED BY <1>5, <1>7, <2>1, <2>2
<1> QED BY <1>6, <1>7

LEMMA CreateExtendedType ==
  ASSUME NEW T, "ext" \in T, NEW m \in Tables(T), NEW x \in CreateExtended(m)
  PROVE  x.mbr \in Tables(T)
<1> DEFINE moved == MovePrimariesToFirstFour(RemoveLogicalsFromFirstFour(m))
<1>1. moved \in Tables(T)
  BY AwayType, ForwardType
<1>2. CreateExtended(m) = IF ~IsLegal(m) THEN {[mbr |-> m, ok |-> FALSE]}
                          ELSE IF NumLogicals(moved) = 0 THEN {[mbr |-> moved, ok |-> TRUE]}
                          ELSE {WithExtended(sorted) : sorted \in SortMBR(moved, 4)}
  BY DEF CreateExtended
<1> HIDE DEF moved
<1>3. ASSUME NEW sorted \in SortMBR(moved, 4) PROVE WithExtended(sorted).mbr \in Tables(T)
  <2>1. 4 \in {0, 4}
    OBVIOUS
  <2>2. sorted \in Tables(T)
    BY <1>1, <2>1, SortType
  <2> QED BY <2>2, WithExtendedType
<1> QED BY <1>1, <1>2, <1>3

LEMMA NextInUseType ==
  ASSUME NEW T, NEW m \in Tables(T), NEW from \in Nat
  PROVE  \/ FindNextInUse(m, from) = -1
         \/ /\ FindNextInUse(m, from) \in Slots /\ FindNextInUse(m, from) >= from
            /\ m[FindNextInUse(m, from)].as # "NONE"
<1> DEFINE inUse == {i \in Slots : i >= from /\ m[i].as # "NONE"}
<1>1. inUse \subseteq Nat
  BY Sizes
<1>2. FindNextInUse(m, from) = IF inUse = {} THEN -1 ELSE LeastOf(inUse)
  BY DEF FindNextInUse
<1>3. inUse # {} => LeastOf(inUse) \in inUse
  <2> HIDE DEF inUse
  <2> QED BY <1>1, LeastIn
<1>4. CASE inUse = {}
  BY <1>2, <1>4
<1>5. CASE inUse # {}
  <2>1. FindNextInUse(m, from) \in inUse
    BY <1>2, <1>3, <1>5
  <2> QED BY <2>1
<1> QED BY <1>4, <1>5

-----------------------------------------------------------------------------
(* SectorUsedAs() as a sequence of looks: a sector that it calls an EBR is *)
(* not in a partition that is included.                                    *)

Uses == {"NONE", "PRIMARY", "LOGICAL", "EBR", "INVALID"}

Looked(m, sector, was, i) ==
  IF was \notin {"NONE", "EBR"} THEN was
  ELSE IF sector >= DiskSize THEN "INVALID"
  ELSE IF sector = 0 \/ (m[i].start = sector + 1 /\ m[i].as = "LOGICAL") THEN "EBR"
  ELSE IF Covers(m[i], sector) THEN m[i].as
  ELSE was

LookStep(m, sector) == [x \in (1..MaxParts) \X Uses |-> Looked(m, sector, x[2], x[1] - 1)]

LEMMA LookedType ==
  ASSUME NEW T, NEW m \in Tables(T), NEW sector, NEW was \in Uses, NEW i \in Slots
  PROVE  Looked(m, sector, was, i) \in Uses
<1>1. m[i].as \in {"NONE", "PRIMARY", "LOGICAL"}
  BY DEF Tables, Parts
<1> QED BY <1>1 DEF Looked, Uses

LEMMA UsedSteps ==
  ASSUME NEW T, NEW m \in Tables(T), NEW sector
  PROVE  \E h : /\ Steps(h, MaxParts, "NONE", Uses, LookStep(m, sector))
                /\ UsedAs(m, sector) = h[MaxParts]
<1> DEFINE N == MaxParts
           seq == SubSeq(Upward, 1, MaxParts)
           g == LookStep(m, sector)
           op(x, i) == Looked(m, sector, x, i)
           b == "NONE"
           V == Uses
           Is(f) == f = [I \in SUBSET (DOMAIN seq) |->
                           IF I = {} THEN b ELSE op(f[I \ {Max(I)}], seq[Max(I)])]
           F == CHOOSE f : Is(f)
<1>0. N \in Nat /\ DOMAIN seq = 1..N /\ \A k \in 1..N : seq[k] = k - 1 /\ seq[k] \in Slots
  <2>1. N \in Nat /\ N > 4
    BY Sizes
  <2>2. seq = [k \in 1..N |-> k - 1]
    BY <2>1 DEF Upward
  <2> HIDE DEF seq
  <2> QED BY <2>1, <2>2 DEF Slots
<1>1. UsedAs(m, sector) = F[1..N]
  <2>1. UsedAs(m, sector) = F[DOMAIN seq]
    BY DEF UsedAs, SectorUsedAs, FoldLeft, MapThenFoldSet, Looked
  <2> HIDE DEF F, seq
  <2> QED BY <1>0, <2>1
<1> HIDE DEF seq
<1>2. g \in [(1..N) \X V -> V]
  <2>1. ASSUME NEW x \in (1..N) \X V PROVE Looked(m, sector, x[2], x[1] - 1) \in V
    <3>1. x[1] - 1 \in Slots /\ x[2] \in V
      BY <1>0 DEF Slots
    <3> QED BY <3>1, LookedType
  <2> QED BY <2>1 DEF LookStep
<1>3. ASSUME NEW I \in SUBSET (1..N), I # {}, NEW y \in V
      PROVE  g[<<Max(I), y>>] = op(y, seq[Max(I)])
  <2>1. Max(I) \in 1..N
    BY <1>0, <1>3, MaxIn
  <2>2. seq[Max(I)] = Max(I) - 1
    BY <1>0, <2>1
  <2>3. g[<<Max(I), y>>] = Looked(m, sector, y, Max(I) - 1)
    BY <2>1 DEF LookStep
  <2> QED BY <2>2, <2>3
<1>4. b \in V
  BY DEF Uses
<1> HIDE DEF V, b
<1>5. PICK f \in [SUBSET (1..N) -> V] : FoldsBy(f, N, b, g)
  <2> HIDE DEF g, N
  <2> QED BY <1>0, <1>2, <1>4, FoldExists
<1>6. Is(f)
  <2>1. ASSUME NEW I \in SUBSET (1..N), I # {}
        PROVE  g[<<Max(I), f[I \ {Max(I)}]>>] = op(f[I \ {Max(I)}], seq[Max(I)])
    <3>1. f[I \ {Max(I)}] \in V
      BY <1>5
    <3> HIDE DEF g, op
    <3> QED BY <1>3, <2>1, <3>1
  <2> HIDE DEF g, op, N
  <2> QED BY <1>0, <1>5, <2>1 DEF FoldsBy
<1>7. Is(F)
  <2> HIDE DEF Is
  <2> QED BY <1>6
<1>8. Follows(F, N, b, V, g)
  <2>1. F[{}] = b
    <3> HIDE DEF F, op, N
    <3> QED BY <1>0, <1>7
  <2>2. ASSUME NEW I \in SUBSET (1..N), I # {}, F[I \ {Max(I)}] \in V
        PROVE  F[I] = g[<<Max(I), F[I \ {Max(I)}]>>]
    <3> HIDE DEF F, op, N, g
    <3> QED BY <1>0, <1>3, <1>7, <2>2
  <2> HIDE DEF F, op, N, g
  <2> QED BY <1>0, <1>2, <1>4, <2>1, <2>2 DEF Follows
<1>9. PICK h : Steps(h, N, b, V, g) /\ h[N] = F[1..N]
  <2> HIDE DEF F, g, N
  <2> QED BY <1>8, FoldSteps
<1> HIDE DEF F, g
<1> QED BY <1>1, <1>9 DEF g, V, b

LEMMA EbrIsFree ==
  ASSUME NEW T, NEW m \in Tables(T), NEW sector \in Nat, sector > 0, UsedAs(m, sector) = "EBR",
         NEW i \in Included(m)
  PROVE  ~Covers(m[i], sector)
<1> SUFFICES ASSUME Covers(m[i], sector) PROVE FALSE
  OBVIOUS
<1> DEFINE N == MaxParts
<1>1. PICK h : Steps(h, N, "NONE", Uses, LookStep(m, sector)) /\ UsedAs(m, sector) = h[N]
  BY UsedSteps
<1>2. N \in Nat /\ i \in Slots /\ i \in 0..N - 1 /\ m[i].as \in {"PRIMARY", "LOGICAL"}
  BY Sizes DEF Included, Including, Slots
<1>3. \A k \in 1..N : h[k] = Looked(m, sector, h[k - 1], k - 1)
  <2>1. ASSUME NEW k \in 1..N PROVE h[k] = Looked(m, sector, h[k - 1], k - 1)
    <3>1. h[k - 1] \in Uses
      BY <1>1, <1>2 DEF Steps
    <3> QED BY <1>1, <3>1 DEF Steps, LookStep
  <2> QED BY <2>1
<1>4. m[i].start <= sector /\ m[i].start \in Nat
  BY <1>2, Sizes DEF Covers, Tables, Parts
<1>5. h[i + 1] \notin {"NONE", "EBR"}
  <2>1. i + 1 \in 1..N /\ (i + 1) - 1 = i
    BY <1>2
  <2>2. h[i + 1] = Looked(m, sector, h[i], i)
    BY <1>3, <2>1
  <2> QED BY <1>2, <1>4, <2>2 DEF Looked
<1> DEFINE S == {k \in 0..N : k > i => h[k] \notin {"NONE", "EBR"}}
<1>6. 0 \in S
  BY <1>2
<1>7. ASSUME NEW n \in 0..N - 1, n \in S PROVE n + 1 \in S
  <2>1. n + 1 \in 1..N /\ n + 1 \in 0..N /\ (n + 1) - 1 = n
    BY <1>2
  <2>2. h[n + 1] = Looked(m, sector, h[n], n)
    BY <1>3, <2>1
  <2>3. CASE n = i
    BY <1>5, <2>1, <2>3
  <2>4. CASE n < i
    BY <1>2, <2>1, <2>4
  <2>5. CASE n > i
    BY <1>7, <2>1, <2>2, <2>5 DEF Looked
  <2> QED BY <1>2, <2>3, <2>4, <2>5
<1>8. 0..N \subseteq S
  <2> HIDE DEF S, N
  <2> QED BY <1>2, <1>6, <1>7, BoundedInduction
<1> QED BY <1>1, <1>2, <1>8

\* In a legal array no partition that is included covers the sector of a logical
\* partition's EBR (SpaceBeforeAllLogicals(), SectorUsedAs()).
THEOREM EbrsAreFree ==
  ASSUME NEW T, NEW m \in Tables(T), IsLegal(m), NEW i \in Including(m, "LOGICAL"), m[i].start > 1,
         NEW j \in Included(m)
  PROVE  ~Covers(m[j], m[i].start - 1)
<1> DEFINE sector == m[i].start - 1
<1>1. sector \in Nat /\ sector > 0
  BY Sizes DEF Including, Tables, Parts
<1>2. UsedAs(m, sector) = "EBR"
  <2>1. SpaceBeforeAllLogicals(m)
    BY DEF IsLegal
  <2>2. m[i].start > 0
    BY Sizes DEF Including, Tables, Parts
  <2> QED BY <2>1, <2>2 DEF SpaceBeforeAllLogicals
<1> HIDE DEF sector
<1>3. ~Covers(m[j], sector)
  BY <1>1, <1>2, EbrIsFree
<1> QED BY <1>3 DEF sector

-----------------------------------------------------------------------------
(***************************************************************************)
(* CreateExtended() rearranges an array: its loops only swap entries, and  *)
(* when they are done the sized entries among the first four are exactly   *)
(* the primaries.                                                          *)
(***************************************************************************)

PermutesBy(m, m0, p) ==
  /\ p \in [Slots -> Slots]
  /\ \A i, j \in Slots : p[i] = p[j] => i = j
  /\ \A j \in Slots : \E i \in Slots : p[i] = j
  /\ \A i \in Slots : m[i] = m0[p[i]]
Permutes(m, m0) == \E p : PermutesBy(m, m0, p)

LEMMA PermutesSelf == ASSUME NEW m PROVE Permutes(m, m)
<1> DEFINE p == [i \in Slots |-> i]
<1>1. PermutesBy(m, m, p)
  BY DEF PermutesBy
<1> QED BY <1>1 DEF Permutes

LEMMA SwapPermutes ==
  ASSUME NEW T, NEW m \in Tables(T), NEW m0, Permutes(m, m0), NEW i \in Slots, NEW j \in Slots
  PROVE  Permutes(Swapped(m, i, j), m0)
<1>1. PICK p : PermutesBy(m, m0, p)
  BY DEF Permutes
<1> DEFINE q == [k \in Slots |-> IF k = i THEN p[j] ELSE IF k = j THEN p[i] ELSE p[k]]
<1>2. q \in [Slots -> Slots]
  BY <1>1 DEF PermutesBy
<1>3. \A k, l \in Slots : q[k] = q[l] => k = l
  BY <1>1 DEF PermutesBy
<1>4. ASSUME NEW k \in Slots PROVE \E l \in Slots : q[l] = k
  <2>1. PICK l \in Slots : p[l] = k
    BY <1>1 DEF PermutesBy
  <2>2. CASE l = i
    <3>1. q[j] = k
      BY <2>1, <2>2
    <3> QED BY <3>1
  <2>3. CASE l = j
    <3>1. q[i] = k
      BY <2>1, <2>3
    <3> QED BY <3>1
  <2>4. CASE l # i /\ l # j
    <3>1. q[l] = k
      BY <2>1, <2>4
    <3> QED BY <3>1
  <2> QED BY <2>2, <2>3, <2>4
<1>5. ASSUME NEW k \in Slots PROVE Swapped(m, i, j)[k] = m0[q[k]]
  <2>1. /\ Swapped(m, i, j)[i] = m[j] /\ Swapped(m, i, j)[j] = m[i]
        /\ \A l \in Slots \ {i, j} : Swapped(m, i, j)[l] = m[l]
    BY SwappedType
  <2> QED BY <1>1, <2>1 DEF PermutesBy
<1>6. PermutesBy(Swapped(m, i, j), m0, q)
  <2> HIDE DEF q
  <2> QED BY <1>2, <1>3, <1>4, <1>5 DEF PermutesBy
<1> QED BY <1>6 DEF Permutes

\* The entries among the first four that do not belong there.
Misplaced(m) == {i \in 0 .. 3 : m[i].as # "PRIMARY" /\ m[i].len > 0}

LEMMA PlacesType ==
  ASSUME NEW m
  PROVE  /\ Misplaced(m) \subseteq Slots /\ IsFiniteSet(Misplaced(m)) /\ Cardinality(Misplaced(m)) \in Nat
         /\ RoomBehind(m) \subseteq Slots /\ IsFiniteSet(RoomBehind(m)) /\ Cardinality(RoomBehind(m)) \in Nat
<1>1. Misplaced(m) \subseteq Slots
  BY Sizes DEF Misplaced
<1>2. RoomBehind(m) \subseteq Slots
  BY Sizes DEF RoomBehind, Slots
<1> QED BY <1>1, <1>2, CountType

\* RemoveLogicalsFromFirstFour() has room for each that it moves.
LEMMA AwayStepKeeps ==
  ASSUME NEW T, NEW m \in Tables(T), NEW m0, Permutes(m, m0),
         Cardinality(Misplaced(m)) <= Cardinality(RoomBehind(m)), NEW i \in 0 .. 3
  PROVE  /\ AwayStep(m, i) \in Tables(T) /\ Permutes(AwayStep(m, i), m0)
         /\ Cardinality(Misplaced(AwayStep(m, i))) <= Cardinality(RoomBehind(AwayStep(m, i)))
         /\ Misplaced(AwayStep(m, i)) = Misplaced(m) \ {i}
<1>0. i \in Slots
  BY Sizes
<1>1. CASE m[i].as = "PRIMARY" \/ m[i].len = 0
  <2>1. AwayStep(m, i) = m
    BY <1>1 DEF AwayStep
  <2>2. i \notin Misplaced(m)
    BY <1>1 DEF Misplaced
  <2>3. Misplaced(m) \ {i} = Misplaced(m)
    BY <2>2
  <2> QED BY <2>1, <2>3
<1>2. CASE RoomBehind(m) = {}
  <2>1. AwayStep(m, i) = m
    BY <1>2 DEF AwayStep
  <2>2. Cardinality(RoomBehind(m)) = 0
    BY <1>2, FS_EmptySet
  <2>3. Cardinality(Misplaced(m)) = 0
    BY <2>2, PlacesType
  <2>4. Misplaced(m) = {}
    BY <2>3, PlacesType, FS_EmptySet
  <2>5. Misplaced(m) \ {i} = Misplaced(m)
    BY <2>4
  <2> QED BY <2>1, <2>5
<1>3. CASE m[i].as # "PRIMARY" /\ m[i].len # 0 /\ RoomBehind(m) # {}
  <2> DEFINE j == LeastOf(RoomBehind(m))
             n == Swapped(m, i, j)
  <2>1. AwayStep(m, i) = n
    BY <1>3 DEF AwayStep
  <2>2. j \in RoomBehind(m)
    <3>1. RoomBehind(m) \subseteq Nat
      BY PlacesType, Sizes
    <3> QED BY <1>3, <3>1, LeastIn
  <2> HIDE DEF j
  <2>3. j \in Slots /\ j \in 4 .. MaxParts - 1 /\ m[j].as = "NONE" /\ m[j].len = 0 /\ j # i
    <3>1. j \in 4 .. MaxParts - 1 /\ m[j].as = "NONE" /\ m[j].len = 0
      BY <2>2 DEF RoomBehind
    <3>2. j \in Slots
      BY <2>2, PlacesType
    <3> QED BY <3>1, <3>2, Sizes
  <2>4. /\ n \in Tables(T) /\ n[i] = m[j] /\ n[j] = m[i]
        /\ \A k \in Slots \ {i, j} : n[k] = m[k]
    BY <1>0, <2>3, SwappedType
  <2>5. Permutes(n, m0)
    BY <1>0, <2>3, SwapPermutes
  <2> HIDE DEF n
  <2>6. i \in Misplaced(m)
    <3>1. m[i].len \in Nat
      BY <1>0, Sizes DEF Tables, Parts
    <3> QED BY <1>3, <3>1 DEF Misplaced
  <2>7. Misplaced(n) = Misplaced(m) \ {i}
    <3>1. ASSUME NEW k \in 0 .. 3, k # i PROVE n[k] = m[k]
      <4>1. k \in Slots /\ k # j
        BY <2>3, Sizes
      <4> QED BY <2>4, <3>1, <4>1
    <3>2. ~(n[i].as # "PRIMARY" /\ n[i].len > 0)
      BY <2>3, <2>4
    <3> QED BY <3>1, <3>2 DEF Misplaced
  <2>8. RoomBehind(n) = RoomBehind(m) \ {j}
    <3>1. ASSUME NEW k \in 4 .. MaxParts - 1, k # j PROVE n[k] = m[k]
      <4>1. k \in Slots /\ k # i
        BY Sizes DEF Slots
      <4> QED BY <2>4, <3>1, <4>1
    <3>2. ~(n[j].as = "NONE" /\ n[j].len = 0)
      BY <1>3, <2>4
    <3> QED BY <3>1, <3>2 DEF RoomBehind
  <2>9. Cardinality(Misplaced(n)) = Cardinality(Misplaced(m)) - 1
    BY <2>6, <2>7, PlacesType, FS_RemoveElement
  <2>10. Cardinality(RoomBehind(n)) = Cardinality(RoomBehind(m)) - 1
    BY <2>2, <2>8, PlacesType, FS_RemoveElement
  <2>11. Cardinality(Misplaced(n)) <= Cardinality(RoomBehind(n))
    BY <2>9, <2>10, PlacesType
  <2> QED BY <2>1, <2>4, <2>5, <2>7, <2>11
<1> QED BY <1>1, <1>2, <1>3

LEMMA AwayClears ==
  ASSUME NEW T, NEW m \in Tables(T), Cardinality(Misplaced(m)) <= Cardinality(RoomBehind(m))
  PROVE  LET moved == RemoveLogicalsFromFirstFour(m)
         IN  moved \in Tables(T) /\ Permutes(moved, m) /\ Misplaced(moved) = {}
<1> DEFINE V == {v \in Tables(T) : Permutes(v, m) /\ Cardinality(Misplaced(v)) <= Cardinality(RoomBehind(v))}
           N == Len(FirstFour)
<1>1. m \in V
  BY PermutesSelf
<1>2. ASSUME NEW v \in V, NEW i \in 0 .. 3
      PROVE  AwayStep(v, i) \in V /\ Misplaced(AwayStep(v, i)) = Misplaced(v) \ {i}
  BY AwayStepKeeps
<1>3. PICK f \in [0..N -> V] :
        /\ f[0] = m
        /\ \A k \in 1..N : f[k] = AwayStep(f[k - 1], k - 1)
        /\ RemoveLogicalsFromFirstFour(m) = f[N]
  <2>1. \A v \in V, i \in 0 .. 3 : AwayStep(v, i) \in V
    BY <1>2
  <2> HIDE DEF V
  <2> QED BY <1>1, <2>1, AwaySteps
<1>4. N = 4
  BY DEF FirstFour
<1> HIDE DEF N
<1>5. ASSUME NEW k \in 1..4 PROVE f[k - 1] \in V /\ f[k] \in V /\ Misplaced(f[k]) = Misplaced(f[k - 1]) \ {k - 1}
  <2>1. k - 1 \in 0..3 /\ k - 1 \in 0..N /\ k \in 0..N /\ k \in 1..N
    BY <1>4
  <2>2. f[k - 1] \in V /\ f[k] \in V
    <3> HIDE DEF V
    <3> QED BY <1>3, <2>1
  <2>3. f[k] = AwayStep(f[k - 1], k - 1)
    BY <1>3, <2>1
  <2> DEFINE v == f[k - 1]
             i == k - 1
  <2>4. v \in V /\ i \in 0..3
    BY <2>1, <2>2
  <2>5. Misplaced(AwayStep(v, i)) = Misplaced(v) \ {i}
    <3> HIDE DEF V, v, i
    <3> QED BY <1>2, <2>4
  <2> QED BY <2>2, <2>3, <2>5
<1>6. Misplaced(f[4]) = {}
  <2>1. Misplaced(f[1]) = Misplaced(f[0]) \ {0} /\ Misplaced(f[2]) = Misplaced(f[1]) \ {1}
    <3>1. 1 - 1 = 0 /\ 2 - 1 = 1 /\ 1 \in 1..4 /\ 2 \in 1..4
      OBVIOUS
    <3> QED BY <1>5, <3>1
  <2>2. Misplaced(f[3]) = Misplaced(f[2]) \ {2} /\ Misplaced(f[4]) = Misplaced(f[3]) \ {3}
    <3>1. 3 - 1 = 2 /\ 4 - 1 = 3 /\ 3 \in 1..4 /\ 4 \in 1..4
      OBVIOUS
    <3> QED BY <1>5, <3>1
  <2>3. Misplaced(f[0]) \subseteq {0, 1, 2, 3}
    BY DEF Misplaced
  <2> QED BY <2>1, <2>2, <2>3
<1>7. f[4] \in V
  BY <1>5
<1> QED BY <1>3, <1>4, <1>6, <1>7

LEMMA FivePrimaries ==
  ASSUME NEW m, NEW m0, Permutes(m, m0), Cardinality(Including(m0, "PRIMARY")) <= 4,
         NEW i \in 4 .. MaxParts - 1, m[i].as = "PRIMARY"
  PROVE  RoomInFront(m) # {}
<1> SUFFICES ASSUME RoomInFront(m) = {} PROVE FALSE
  OBVIOUS
<1>1. PICK p : PermutesBy(m, m0, p)
  BY DEF Permutes
<1>2. i \in Slots /\ 0 \in Slots /\ 1 \in Slots /\ 2 \in Slots /\ 3 \in Slots /\ i \notin {0, 1, 2, 3}
  BY Sizes DEF Slots
<1>3. m[0].as = "PRIMARY" /\ m[1].as = "PRIMARY" /\ m[2].as = "PRIMARY" /\ m[3].as = "PRIMARY"
  BY DEF RoomInFront
<1>4. /\ p[0] # p[1] /\ p[0] # p[2] /\ p[0] # p[3] /\ p[0] # p[i] /\ p[1] # p[2]
      /\ p[1] # p[3] /\ p[1] # p[i] /\ p[2] # p[3] /\ p[2] # p[i] /\ p[3] # p[i]
  BY <1>1, <1>2 DEF PermutesBy
<1>5. {p[0], p[1], p[2], p[3], p[i]} \subseteq Including(m0, "PRIMARY")
  BY <1>1, <1>2, <1>3 DEF PermutesBy, Including
<1> DEFINE A == {p[0]}
           B == A \cup {p[1]}
           C == B \cup {p[2]}
           D == C \cup {p[3]}
           E == D \cup {p[i]}
<1>6. IsFiniteSet(A) /\ Cardinality(A) = 1
  BY FS_Singleton
<1>7. IsFiniteSet(B) /\ Cardinality(B) = 2
  <2>1. p[1] \notin A
    BY <1>4
  <2> HIDE DEF A
  <2> QED BY <1>6, <2>1, FS_AddElement
<1>8. IsFiniteSet(C) /\ Cardinality(C) = 3
  <2>1. p[2] \notin B
    BY <1>4
  <2> HIDE DEF B
  <2> QED BY <1>7, <2>1, FS_AddElement
<1>9. IsFiniteSet(D) /\ Cardinality(D) = 4
  <2>1. p[3] \notin C
    BY <1>4
  <2> HIDE DEF C
  <2> QED BY <1>8, <2>1, FS_AddElement
<1>10. Cardinality(E) = 5
  <2>1. p[i] \notin D
    BY <1>4
  <2> HIDE DEF D
  <2> QED BY <1>9, <2>1, FS_AddElement
<1>11. E \in SUBSET Including(m0, "PRIMARY")
  BY <1>5
<1>12. IsFiniteSet(Including(m0, "PRIMARY")) /\ Cardinality(Including(m0, "PRIMARY")) \in Nat
  BY CountType DEF Including
<1>13. Cardinality(E) <= Cardinality(Including(m0, "PRIMARY"))
  <2> HIDE DEF E
  <2> QED BY <1>11, <1>12, FS_Subset
<1> HIDE DEF E
<1> QED BY <1>10, <1>12, <1>13

\* MovePrimariesToFirstFour() has room for each that it moves, and moves only
\* blank entries behind.
LEMMA ForwardStepKeeps ==
  ASSUME NEW T, NEW m \in Tables(T), NEW m0, Permutes(m, m0), Misplaced(m) = {},
         Cardinality(Including(m0, "PRIMARY")) <= 4, NEW i \in 4 .. MaxParts - 1
  PROVE  /\ ForwardStep(m, i) \in Tables(T) /\ Permutes(ForwardStep(m, i), m0)
         /\ Misplaced(ForwardStep(m, i)) = {}
         /\ ForwardStep(m, i)[i].as # "PRIMARY"
         /\ \A k \in 4 .. MaxParts - 1 : k # i => ForwardStep(m, i)[k] = m[k]
<1>0. i \in Slots /\ i \notin 0 .. 3
  BY Sizes DEF Slots
<1>1. CASE m[i].as # "PRIMARY"
  BY <1>1 DEF ForwardStep
<1>2. CASE m[i].as = "PRIMARY"
  <2> DEFINE j == LeastOf(RoomInFront(m))
             n == Swapped(m, i, j)
  <2>1. RoomInFront(m) # {}
    BY <1>2, FivePrimaries
  <2>2. ForwardStep(m, i) = n
    BY <1>2, <2>1 DEF ForwardStep
  <2>3. j \in RoomInFront(m)
    <3>1. RoomInFront(m) \subseteq Nat
      BY DEF RoomInFront
    <3> QED BY <2>1, <3>1, LeastIn
  <2> HIDE DEF j
  <2>4. j \in 0 .. 3 /\ j \in Slots /\ m[j].as # "PRIMARY" /\ j # i
    BY <1>0, <2>3, Sizes DEF RoomInFront
  <2>5. /\ n \in Tables(T) /\ n[i] = m[j] /\ n[j] = m[i]
        /\ \A k \in Slots \ {i, j} : n[k] = m[k]
    BY <1>0, <2>4, SwappedType
  <2>6. Permutes(n, m0)
    BY <1>0, <2>4, SwapPermutes
  <2> HIDE DEF n
  <2>7. Misplaced(n) = {}
    <3>1. ASSUME NEW k \in 0 .. 3, k # j PROVE n[k] = m[k]
      <4>1. k \in Slots /\ k # i
        BY <1>0, Sizes
      <4> QED BY <2>5, <3>1, <4>1
    <3>2. n[j].as = "PRIMARY"
      BY <1>2, <2>5
    <3> QED BY <3>1, <3>2 DEF Misplaced
  <2>8. ASSUME NEW k \in 4 .. MaxParts - 1, k # i PROVE n[k] = m[k]
    <3>1. k \in Slots /\ k # j
      BY <2>4, Sizes DEF Slots
    <3> QED BY <2>5, <2>8, <3>1
  <2>9. n[i].as # "PRIMARY"
    BY <2>4, <2>5
  <2> QED BY <2>2, <2>5, <2>6, <2>7, <2>8, <2>9
<1> QED BY <1>1, <1>2

LEMMA ForwardClears ==
  ASSUME NEW T, NEW m \in Tables(T), NEW m0, Permutes(m, m0), Misplaced(m) = {},
         Cardinality(Including(m0, "PRIMARY")) <= 4
  PROVE  LET moved == MovePrimariesToFirstFour(m)
         IN  /\ moved \in Tables(T) /\ Permutes(moved, m0) /\ Misplaced(moved) = {}
             /\ \A i \in 4 .. MaxParts - 1 : moved[i].as # "PRIMARY"
<1> DEFINE V == {v \in Tables(T) : Permutes(v, m0) /\ Misplaced(v) = {}}
           N == MaxParts - 4
<1>1. m \in V /\ N \in Nat /\ N \in 0..N
  BY Sizes
<1>2. ASSUME NEW v \in V, NEW i \in 4 .. MaxParts - 1
      PROVE  /\ ForwardStep(v, i) \in V
             /\ ForwardStep(v, i)[i].as # "PRIMARY"
             /\ \A k \in 4 .. MaxParts - 1 : k # i => ForwardStep(v, i)[k] = v[k]
  BY ForwardStepKeeps
<1>3. PICK f \in [0..N -> V] :
        /\ f[0] = m
        /\ \A k \in 1..N : f[k] = ForwardStep(f[k - 1], k + 3)
        /\ MovePrimariesToFirstFour(m) = f[N]
  <2>1. \A v \in V, i \in 4 .. MaxParts - 1 : ForwardStep(v, i) \in V
    BY <1>2
  <2>2. m \in V
    BY <1>1
  <2> HIDE DEF V
  <2> QED BY <2>1, <2>2, ForwardSteps
<1> DEFINE S == {k \in 0..N : \A i \in 4 .. MaxParts - 1 : i <= k + 3 => f[k][i].as # "PRIMARY"}
<1>4. 0 \in S
  BY <1>1
<1>5. ASSUME NEW n \in 0..N - 1, n \in S PROVE n + 1 \in S
  <2> DEFINE v == f[n]
             i == n + 4
  <2>1. n + 1 \in 1..N /\ n + 1 \in 0..N /\ (n + 1) - 1 = n /\ (n + 1) + 3 = i /\ n \in 0..N
    BY <1>1
  <2>2. v \in V /\ i \in 4 .. MaxParts - 1
    <3>1. v \in V
      <4> HIDE DEF V
      <4> QED BY <1>3, <2>1
    <3> QED BY <2>1, <3>1, Sizes
  <2>3. f[n + 1] = ForwardStep(v, i)
    BY <1>3, <2>1
  <2> DEFINE w == ForwardStep(v, i)
  <2>4. /\ w[i].as # "PRIMARY"
        /\ \A k \in 4 .. MaxParts - 1 : k # i => w[k] = v[k]
    <3> HIDE DEF V, v, i
    <3> QED BY <1>2, <2>2
  <2>5. \A k \in 4 .. MaxParts - 1 : k <= n + 3 => v[k].as # "PRIMARY"
    BY <1>5
  <2> HIDE DEF v, w
  <2>6. \A k \in 4 .. MaxParts - 1 : k <= (n + 1) + 3 => w[k].as # "PRIMARY"
    BY <2>1, <2>4, <2>5, Sizes
  <2> QED BY <2>1, <2>3, <2>6 DEF w
<1>6. 0..N \subseteq S
  <2> HIDE DEF S, N
  <2> QED BY <1>1, <1>4, <1>5, BoundedInduction
<1>7. N \in S
  BY <1>1, <1>6
<1>8. \A i \in 4 .. MaxParts - 1 : f[N][i].as # "PRIMARY"
  BY <1>7, Sizes
<1>9. f[N] \in V
  <2> HIDE DEF V
  <2> QED BY <1>1, <1>3
<1> QED BY <1>3, <1>8, <1>9

-----------------------------------------------------------------------------
(***************************************************************************)
(* SortMBR(), for arrays whose blank entries begin nowhere: the entries    *)
(* with sectors come first, in the order of their starts, and no entry is  *)
(* lost or doubled.                                                        *)
(***************************************************************************)
BlankNowhere(m) == \A i \in Slots : m[i].len = 0 => m[i].start = 0

Filled(m, from) == {i \in from .. MaxParts - 1 : m[i].len > 0 \/ m[i].start > 0}
BlankBehind(m, from) == {m[i] : i \in (from .. MaxParts - 1) \ Filled(m, from)}

\* sorted takes its entries from f and then from g.
SortedBy(m, from, sorted, n, f, g) ==
  /\ n = Cardinality(Filled(m, from))
  /\ f \in [1 .. n -> Filled(m, from)]
  /\ \A k \in 1 .. n - 1 : ~Before(m[f[k + 1]], m[f[k]])
  /\ \A k, l \in 1 .. n : k # l => f[k] # f[l]
  /\ g \in [from + n .. MaxParts - 1 -> BlankBehind(m, from)]
  /\ \A p \in BlankBehind(m, from) :
       Cardinality({i \in DOMAIN g : g[i] = p}) = Cardinality({i \in from .. MaxParts - 1 : m[i] = p})
  /\ sorted = [i \in Slots |-> IF i < from THEN m[i]
                               ELSE IF i - from < n THEN m[f[i - from + 1]] ELSE g[i]]

LEMMA SortIs ==
  ASSUME NEW m, NEW from, NEW sorted \in SortMBR(m, from)
  PROVE  \E n, f, g : SortedBy(m, from, sorted, n, f, g)
<1> DEFINE all == from .. MaxParts - 1
           filled == {i \in all : m[i].len > 0 \/ m[i].start > 0}
           n == Cardinality(filled)
           Orders == {f \in [1 .. n -> filled] : /\ \A k \in 1 .. n - 1 : ~Before(m[f[k + 1]], m[f[k]])
                                                 /\ \A k, l \in 1 .. n : k # l => f[k] # f[l]}
           blank == {m[i] : i \in all \ filled}
           Rests == {g \in [from + n .. MaxParts - 1 -> blank] :
                       \A p \in blank : Cardinality({i \in DOMAIN g : g[i] = p}) = Cardinality({i \in all : m[i] = p})}
           At(f, g) == [i \in Slots |-> IF i < from THEN m[i]
                                        ELSE IF i - from < n THEN m[f[i - from + 1]] ELSE g[i]]
<1>1. PICK f \in Orders, g \in Rests : sorted = At(f, g)
  <2>1. SortMBR(m, from) = {At(f, g) : f \in Orders, g \in Rests}
    BY DEF SortMBR
  <2> HIDE DEF Orders, Rests, At, filled, n, blank, all
  <2> QED BY <2>1
<1>2. filled = Filled(m, from) /\ blank = BlankBehind(m, from)
  BY DEF Filled, BlankBehind
<1>3. f \in [1 .. n -> filled]
  <2> HIDE DEF filled, n
  <2> QED BY <1>1
<1>4. (\A k \in 1 .. n - 1 : ~Before(m[f[k + 1]], m[f[k]])) /\ \A k, l \in 1 .. n : k # l => f[k] # f[l]
  <2> HIDE DEF filled, n
  <2> QED BY <1>1
<1>5. /\ g \in [from + n .. MaxParts - 1 -> blank]
      /\ \A p \in blank : Cardinality({i \in DOMAIN g : g[i] = p}) = Cardinality({i \in all : m[i] = p})
  <2> HIDE DEF blank, n, all
  <2> QED BY <1>1
<1>6. sorted = [i \in Slots |-> IF i < from THEN m[i]
                                ELSE IF i - from < n THEN m[f[i - from + 1]] ELSE g[i]]
  BY <1>1
<1>7. n = Cardinality(Filled(m, from))
  BY <1>2
<1> HIDE DEF n, filled, blank, Orders, Rests, At
<1>8. SortedBy(m, from, sorted, n, f, g)
  BY <1>2, <1>3, <1>4, <1>5, <1>6, <1>7 DEF SortedBy
<1> QED BY <1>8

\* Neighbours in order are all in order.
LEMMA Ascends ==
  ASSUME NEW n \in Nat, NEW h \in [1 .. n -> Nat], \A k \in 1 .. n - 1 : h[k] <= h[k + 1],
         NEW k \in 1 .. n, NEW l \in 1 .. n, k <= l
  PROVE  h[k] <= h[l]
<1> DEFINE N == n - k
           S == {d \in 0 .. N : h[k] <= h[k + d]}
<1>1. N \in Nat /\ 0 \in S
  OBVIOUS
<1>2. ASSUME NEW d \in 0 .. N - 1, d \in S PROVE d + 1 \in S
  <2> DEFINE a == k + d
  <2>1. a \in 1 .. n - 1 /\ d + 1 \in 0 .. N /\ k + (d + 1) = a + 1 /\ a + 1 \in 1 .. n /\ a \in 1 .. n
    OBVIOUS
  <2>2. h[k] <= h[a]
    BY <1>2
  <2> HIDE DEF a
  <2>3. h[a] <= h[a + 1] /\ h[a] \in Nat /\ h[a + 1] \in Nat /\ h[k] \in Nat
    BY <2>1
  <2>4. h[k] <= h[a + 1]
    BY <2>2, <2>3
  <2> QED BY <2>1, <2>4
<1>3. 0 .. N \subseteq S
  <2> HIDE DEF S, N
  <2> QED BY <1>1, <1>2, BoundedInduction
<1>4. l - k \in 0 .. N /\ k + (l - k) = l
  OBVIOUS
<1> QED BY <1>3, <1>4

LEMMA FilledHasSectors ==
  ASSUME NEW T, NEW m \in Tables(T), BlankNowhere(m), NEW from \in {0, 4}
  PROVE  /\ Filled(m, from) \subseteq Slots
         /\ \A i \in Filled(m, from) : i >= from /\ m[i].len > 0 /\ m[i].start \in Nat
         /\ \A p \in BlankBehind(m, from) : p.len = 0
<1>1. from .. MaxParts - 1 \subseteq Slots /\ \A i \in from .. MaxParts - 1 : i >= from
  BY Sizes DEF Slots
<1>2. \A i \in Slots : m[i].len \in Nat /\ m[i].start \in Nat /\ (m[i].len = 0 => m[i].start = 0)
  BY Sizes DEF Tables, Parts, BlankNowhere
<1>3. ASSUME NEW i \in Filled(m, from) PROVE i >= from /\ m[i].len > 0 /\ m[i].start \in Nat
  <2>1. i \in from .. MaxParts - 1 /\ (m[i].len > 0 \/ m[i].start > 0)
    BY DEF Filled
  <2> QED BY <1>1, <1>2, <2>1
<1>4. ASSUME NEW p \in BlankBehind(m, from) PROVE p.len = 0
  <2>1. PICK i \in (from .. MaxParts - 1) \ Filled(m, from) : p = m[i]
    BY DEF BlankBehind
  <2> QED BY <1>1, <1>2, <2>1 DEF Filled
<1> QED BY <1>1, <1>3, <1>4 DEF Filled

\* The same of the array from 'from' on.
LEMMA SortOrders ==
  ASSUME NEW T, NEW m \in Tables(T), BlankNowhere(m), NEW from \in {0, 4}, NEW sorted \in SortMBR(m, from)
  PROVE  /\ \A i, j \in Slots : from <= i /\ i < j /\ sorted[i].len > 0 /\ sorted[j].len > 0 =>
              /\ sorted[i].start <= sorted[j].start
              /\ \E k, l \in Slots : from <= k /\ from <= l /\ k # l /\ sorted[i] = m[k] /\ sorted[j] = m[l]
         /\ \A k \in Slots : from <= k => \E i \in Slots : from <= i /\ sorted[i] = m[k]
<1> DEFINE filled == Filled(m, from)
<1>1. PICK n, f, g : SortedBy(m, from, sorted, n, f, g)
  BY SortIs
<1>2. /\ filled \subseteq Slots
      /\ \A i \in filled : i >= from /\ m[i].len > 0 /\ m[i].start \in Nat
      /\ \A p \in BlankBehind(m, from) : p.len = 0
  BY FilledHasSectors
<1>3. IsFiniteSet(filled) /\ n = Cardinality(filled) /\ n \in Nat
  <2> HIDE DEF filled
  <2> QED BY <1>1, <1>2, CountType DEF SortedBy, filled
<1> HIDE DEF filled
<1>4. /\ f \in [1 .. n -> filled]
      /\ \A k \in 1 .. n - 1 : ~Before(m[f[k + 1]], m[f[k]])
      /\ \A k, l \in 1 .. n : k # l => f[k] # f[l]
      /\ g \in [from + n .. MaxParts - 1 -> BlankBehind(m, from)]
      /\ \A i \in Slots : i >= from => sorted[i] = IF i - from < n THEN m[f[i - from + 1]] ELSE g[i]
  <2>1. /\ f \in [1 .. n -> filled]
        /\ \A k \in 1 .. n - 1 : ~Before(m[f[k + 1]], m[f[k]])
        /\ \A k, l \in 1 .. n : k # l => f[k] # f[l]
        /\ g \in [from + n .. MaxParts - 1 -> BlankBehind(m, from)]
    BY <1>1 DEF SortedBy, filled
  <2>2. sorted = [i \in Slots |-> IF i < from THEN m[i]
                                  ELSE IF i - from < n THEN m[f[i - from + 1]] ELSE g[i]]
    BY <1>1 DEF SortedBy
  <2>3. \A i \in Slots : i >= from => ~(i < from)
    BY Sizes
  <2> QED BY <2>1, <2>2, <2>3
<1> DEFINE h == [k \in 1 .. n |-> m[f[k]].start]
<1>5. h \in [1 .. n -> Nat] /\ \A k \in 1 .. n - 1 : h[k] <= h[k + 1]
  <2>1. \A k \in 1 .. n : f[k] \in filled /\ m[f[k]].len > 0 /\ m[f[k]].start \in Nat
    BY <1>2, <1>4
  <2>2. ASSUME NEW k \in 1 .. n - 1 PROVE m[f[k]].start <= m[f[k + 1]].start
    <3>1. k \in 1 .. n /\ k + 1 \in 1 .. n
      BY <1>3
    <3> QED BY <1>4, <2>1, <3>1 DEF Before
  <2>3. \A k \in 1 .. n - 1 : k \in 1 .. n /\ k + 1 \in 1 .. n
    BY <1>3
  <2> QED BY <2>1, <2>2, <2>3
<1> HIDE DEF h
\* A place with sectors is one of f's.
<1>6. ASSUME NEW i \in Slots, i >= from, sorted[i].len > 0
      PROVE  i - from + 1 \in 1 .. n /\ sorted[i] = m[f[i - from + 1]]
  <2>1. CASE i - from < n
    BY <1>3, <1>4, <1>6, <2>1, Sizes
  <2>2. CASE ~(i - from < n)
    <3>1. i \in from + n .. MaxParts - 1
      BY <1>3, <1>6, <2>2, Sizes DEF Slots
    <3>2. sorted[i] = g[i] /\ g[i] \in BlankBehind(m, from)
      BY <1>4, <1>6, <2>2, <3>1
    <3>3. sorted[i].len = 0
      BY <1>2, <3>2
    <3> QED BY <1>6, <3>3
  <2> QED BY <2>1, <2>2
<1>7. ASSUME NEW i \in Slots, NEW j \in Slots, from <= i, i < j, sorted[i].len > 0, sorted[j].len > 0
      PROVE  /\ sorted[i].start <= sorted[j].start
             /\ \E k, l \in Slots : from <= k /\ from <= l /\ k # l /\ sorted[i] = m[k] /\ sorted[j] = m[l]
  <2> DEFINE a == i - from + 1
             b == j - from + 1
  <2>1. i >= from /\ j >= from
    BY <1>7, Sizes
  <2>2. a \in 1 .. n /\ sorted[i] = m[f[a]]
    BY <1>6, <1>7, <2>1
  <2>3. b \in 1 .. n /\ sorted[j] = m[f[b]]
    BY <1>6, <1>7, <2>1
  <2>4. a <= b /\ a # b
    BY <1>7, Sizes
  <2> HIDE DEF a, b
  <2>5. h[a] <= h[b]
    BY <1>3, <1>5, <2>2, <2>3, <2>4, Ascends
  <2>6. f[a] # f[b] /\ f[a] \in filled /\ f[b] \in filled
    BY <1>4, <2>2, <2>3, <2>4
  <2>7. f[a] \in Slots /\ f[b] \in Slots /\ from <= f[a] /\ from <= f[b]
    BY <1>2, <2>6, Sizes
  <2> QED BY <2>2, <2>3, <2>5, <2>6, <2>7 DEF h
\* No entry is lost.
<1>8. ASSUME NEW k \in Slots, from <= k PROVE \E i \in Slots : from <= i /\ sorted[i] = m[k]
  <2>0. k \in from .. MaxParts - 1
    BY <1>8, Sizes DEF Slots
  <2>1. CASE k \in filled
    <3>1. f \in Injection(1 .. n, filled)
      BY <1>4 DEF Injection, IsInjective
    <3>2. Cardinality(1 .. n) = n
      BY <1>3, FS_Interval
    <3>3. f \in Surjection(1 .. n, filled)
      BY <1>3, <3>1, <3>2, FS_Injection
    <3>4. PICK a \in 1 .. n : f[a] = k
      BY <2>1, <3>3 DEF Surjection
    <3>5. n <= MaxParts - from
      <4>1. filled \subseteq from .. MaxParts - 1
        BY DEF filled, Filled
      <4>2. from \in Int /\ MaxParts - 1 \in Int /\ from <= MaxParts - 1
        BY Sizes
      <4>3. IsFiniteSet(from .. MaxParts - 1) /\ Cardinality(from .. MaxParts - 1) = MaxParts - from
        <5> DEFINE b == MaxParts - 1
        <5>1. IsFiniteSet(from .. b) /\ Cardinality(from .. b) = IF from > b THEN 0 ELSE b - from + 1
          <6> HIDE DEF b
          <6> QED BY <4>2, FS_Interval DEF b
        <5> QED BY <4>2, <5>1, Sizes
      <4> QED BY <1>3, <4>1, <4>3, FS_Subset
    <3> DEFINE i == from + a - 1
    <3>6. i \in Slots /\ from <= i /\ i - from < n /\ i - from + 1 = a
      BY <1>3, <3>5, Sizes DEF Slots
    <3> HIDE DEF i
    <3>7. sorted[i] = m[f[i - from + 1]]
      BY <1>4, <3>6, Sizes
    <3> QED BY <3>4, <3>6, <3>7
  <2>2. CASE k \notin filled
    <3> DEFINE p == m[k]
               G == {i \in DOMAIN g : g[i] = p}
               M == {i \in from .. MaxParts - 1 : m[i] = p}
    <3>1. p \in BlankBehind(m, from)
      BY <2>0, <2>2 DEF BlankBehind, filled
    <3>2. Cardinality(G) = Cardinality(M)
      <4> HIDE DEF p
      <4> QED BY <1>1, <3>1 DEF SortedBy
    <3>3. k \in M /\ M \subseteq Slots
      BY <2>0, Sizes DEF Slots
    <3>4. DOMAIN g = from + n .. MaxParts - 1
      BY <1>4
    <3>5. G # {}
      <4>1. IsFiniteSet(M) /\ M # {}
        <5> HIDE DEF M, p
        <5> QED BY <3>3, CountType
      <4>2. Cardinality(M) # 0
        <5> HIDE DEF M, p
        <5> QED BY <4>1, FS_EmptySet
      <4> HIDE DEF M, p
      <4>3. Cardinality({}) = 0
        BY FS_EmptySet
      <4> QED BY <3>2, <4>2, <4>3
    <3>6. PICK i \in from + n .. MaxParts - 1 : g[i] = p
      BY <3>4, <3>5
    <3>7. i \in Slots /\ from <= i /\ i >= from /\ ~(i - from < n)
      BY <1>3, Sizes DEF Slots
    <3>8. sorted[i] = g[i]
      BY <1>4, <3>7
    <3> QED BY <3>6, <3>7, <3>8
  <2> QED BY <2>1, <2>2
<1> QED BY <1>7, <1>8
-----------------------------------------------------------------------------
(* Sorting and a new type keep what the menu shows repaired and legal.     *)

\* Every partition of a sorted array is one of the array it was made from, and no
\* two of them are the same.
LEMMA SortMatches ==
  ASSUME NEW T, NEW m \in Tables(T), NEW sorted \in SortMBR(m, 0)
  PROVE  \E p \in [HasSectors(sorted) -> HasSectors(m)] :
           /\ \A i \in HasSectors(sorted) : sorted[i] = m[p[i]]
           /\ \A i, j \in HasSectors(sorted) : i # j => p[i] # p[j]
<1> DEFINE filled == Filled(m, 0)
<1>1. PICK n, f, g : SortedBy(m, 0, sorted, n, f, g)
  BY SortIs
<1>2. MaxParts \in Nat /\ Slots = 0 .. MaxParts - 1
  BY Sizes DEF Slots
<1>3. filled \subseteq Slots
  BY <1>2 DEF Filled
<1>4. n \in Nat
  <2>1. n = Cardinality(filled)
    BY <1>1 DEF SortedBy
  <2> HIDE DEF filled
  <2> QED BY <1>3, <2>1, CountType
<1>5. ASSUME NEW q \in BlankBehind(m, 0) PROVE q.len = 0
  <2>1. PICK i \in (0 .. MaxParts - 1) \ filled : q = m[i]
    BY DEF BlankBehind
  <2>2. i \in Slots
    BY <1>2, <2>1
  <2>3. ~(m[i].len > 0)
    BY <2>1 DEF Filled
  <2>4. m[i].len \in 0..Max32
    BY <2>2 DEF Tables, Parts
  <2> QED BY <2>1, <2>3, <2>4, Sizes
<1>6. /\ f \in [1 .. n -> filled]
      /\ \A k, l \in 1 .. n : k # l => f[k] # f[l]
      /\ g \in [n .. MaxParts - 1 -> BlankBehind(m, 0)]
      /\ sorted = [i \in Slots |-> IF i < 0 THEN m[i] ELSE IF i - 0 < n THEN m[f[i - 0 + 1]] ELSE g[i]]
  <2>1. 0 + n = n
    BY <1>4
  <2> QED BY <1>1, <2>1 DEF SortedBy
<1>7. \A i \in Slots : sorted[i] = IF i < n THEN m[f[i + 1]] ELSE g[i]
  BY <1>2, <1>6
<1>8. ASSUME NEW i \in HasSectors(sorted)
      PROVE  i + 1 \in 1 .. n /\ sorted[i] = m[f[i + 1]] /\ f[i + 1] \in HasSectors(m)
  <2>1. i \in Slots /\ sorted[i].len > 0
    BY DEF HasSectors
  <2>2. i < n
    <3>1. SUFFICES ASSUME ~(i < n) PROVE FALSE
      OBVIOUS
    <3>2. i \in n .. MaxParts - 1 /\ sorted[i] = g[i]
      BY <1>2, <1>4, <1>7, <2>1, <3>1
    <3>3. sorted[i].len = 0
      BY <1>5, <1>6, <3>2
    <3> QED BY <2>1, <3>3
  <2>3. i + 1 \in 1 .. n /\ sorted[i] = m[f[i + 1]]
    BY <1>2, <1>4, <1>7, <2>1, <2>2
  <2>4. f[i + 1] \in Slots
    BY <1>3, <1>6, <2>3
  <2> QED BY <2>1, <2>3, <2>4 DEF HasSectors
<1> DEFINE p == [i \in HasSectors(sorted) |-> f[i + 1]]
<1>9. p \in [HasSectors(sorted) -> HasSectors(m)] /\ \A i \in HasSectors(sorted) : sorted[i] = m[p[i]]
  BY <1>8
<1>10. ASSUME NEW i \in HasSectors(sorted), NEW j \in HasSectors(sorted), i # j PROVE p[i] # p[j]
  <2>1. i \in Slots /\ j \in Slots
    BY DEF HasSectors
  <2>2. i + 1 # j + 1
    BY <1>2, <1>10, <2>1
  <2> QED BY <1>6, <1>8, <2>2
<1> HIDE DEF p
<1> QED BY <1>9, <1>10

LEMMA OverlapSymmetric ==
  ASSUME NEW T, NEW p \in Parts(T), NEW q \in Parts(T) PROVE Overlap(p, q) => Overlap(q, p)
<1>1. p.start \in Nat /\ p.len \in Nat /\ q.start \in Nat /\ q.len \in Nat
  BY Sizes DEF Parts
<1>2. SUFFICES ASSUME p.len > 0, q.len > 0, (p.start <= LastLBA(q)) # (LastLBA(p) < q.start)
               PROVE  (q.start <= LastLBA(p)) # (LastLBA(q) < p.start)
  BY DEF Overlap
<1>3. LastLBA(p) = p.start + p.len - 1 /\ LastLBA(q) = q.start + q.len - 1
  BY <1>2 DEF LastLBA
<1>4. p.start <= LastLBA(p) /\ q.start <= LastLBA(q) /\ LastLBA(p) \in Nat /\ LastLBA(q) \in Nat
  BY <1>1, <1>2, <1>3
<1>5. CASE LastLBA(p) < q.start
  <2>1. p.start <= LastLBA(q)
    BY <1>1, <1>4, <1>5
  <2> QED BY <1>2, <1>5, <2>1
<1>6. CASE ~(LastLBA(p) < q.start)
  <2>1. p.start <= LastLBA(q)
    BY <1>2, <1>6
  <2>2. q.start <= LastLBA(p) /\ ~(LastLBA(q) < p.start)
    BY <1>1, <1>4, <1>6, <2>1
  <2> QED BY <2>2
<1> QED BY <1>5, <1>6

LEMMA SortRepaired ==
  ASSUME NEW T, NEW m \in Tables(T), Repaired(m), NEW sorted \in SortMBR(m, 0) PROVE Repaired(sorted)
<1>1. PICK p \in [HasSectors(sorted) -> HasSectors(m)] :
        /\ \A i \in HasSectors(sorted) : sorted[i] = m[p[i]]
        /\ \A i, j \in HasSectors(sorted) : i # j => p[i] # p[j]
  BY SortMatches
<1>2. MaxParts \in Nat /\ Slots = 0 .. MaxParts - 1
  BY Sizes DEF Slots
<1>3. sorted \in Tables(T) /\ \A i \in Slots : \E j \in Slots : sorted[i] = m[j]
  <2>1. 0 \in {0, 4} /\ \A i \in Slots : i >= 0
    BY <1>2
  <2> QED BY <2>1, SortType
<1>4. NoOverlaps(m) /\ NumPrimaries(m) <= 4 /\ DoTheyFit(m)
  BY DEF Repaired
<1>5. NoOverlaps(sorted)
  <2>1. SUFFICES ASSUME NEW i \in Slots, NEW j \in Slots, i < j, sorted[i].as # "NONE", sorted[j].as # "NONE",
                        Overlap(sorted[i], sorted[j])
                 PROVE  FALSE
    BY DEF NoOverlaps
  <2>2. i \in HasSectors(sorted) /\ j \in HasSectors(sorted)
    BY <2>1 DEF Overlap, HasSectors
  <2>3. i # j
    BY <1>2, <2>1
  <2>4. p[i] \in Slots /\ p[j] \in Slots /\ p[i] # p[j] /\ sorted[i] = m[p[i]] /\ sorted[j] = m[p[j]]
    BY <1>1, <2>2, <2>3 DEF HasSectors
  <2>5. m[p[i]] \in Parts(T) /\ m[p[j]] \in Parts(T)
    BY <2>4 DEF Tables
  <2>6. Overlap(m[p[i]], m[p[j]]) /\ Overlap(m[p[j]], m[p[i]])
    BY <2>1, <2>4, <2>5, OverlapSymmetric
  <2>7. p[i] < p[j] \/ p[j] < p[i]
    BY <1>2, <2>4
  <2> QED BY <1>4, <2>1, <2>4, <2>6, <2>7 DEF NoOverlaps
<1>6. NumPrimaries(sorted) <= NumPrimaries(m)
  <2> DEFINE P(z) == {j \in Including(z, "PRIMARY") : z[j].len > 0}
             L(z) == {j \in Including(z, "LOGICAL") : z[j].len > 0}
             q == [i \in P(sorted) |-> p[i]]
  <2>1. ASSUME NEW i \in HasSectors(sorted) PROVE p[i] \in Slots /\ m[p[i]].len > 0 /\ m[p[i]] = sorted[i]
    BY <1>1 DEF HasSectors
  <2>2. P(sorted) \subseteq HasSectors(sorted) /\ L(sorted) \subseteq HasSectors(sorted)
    BY DEF Including, HasSectors
  <2>3. \A i \in P(sorted) : p[i] \in P(m)
    BY <2>1, <2>2 DEF Including
  <2>4. \A i \in L(sorted) : p[i] \in L(m)
    BY <2>1, <2>2 DEF Including
  <2>5. P(m) \subseteq Slots
    BY DEF Including
  <2>6. NumPrimaries(sorted) = Cardinality(P(sorted)) + (IF L(sorted) # {} THEN 1 ELSE 0)
    BY DEF NumPrimaries
  <2>7. NumPrimaries(m) = Cardinality(P(m)) + (IF L(m) # {} THEN 1 ELSE 0)
    BY DEF NumPrimaries
  <2> HIDE DEF P, L
  <2>8. q \in Injection(P(sorted), P(m))
    BY <1>1, <2>2, <2>3 DEF Injection, IsInjective
  <2> HIDE DEF q
  <2>9. IsFiniteSet(P(m)) /\ Cardinality(P(m)) \in Nat
    BY <2>5, CountType
  <2>10. Cardinality(P(sorted)) <= Cardinality(P(m)) /\ Cardinality(P(sorted)) \in Nat
    BY <2>8, <2>9, FS_Injection, FS_CardinalityType
  <2> QED BY <2>4, <2>6, <2>7, <2>9, <2>10
<1>7. DoTheyFit(sorted)
  BY <1>3, <1>4 DEF DoTheyFit
<1>8. NumPrimaries(sorted) <= 4
  BY <1>4, <1>6, NumPrimariesType
<1> QED BY <1>5, <1>7, <1>8 DEF Repaired

\* The sector in front of a logical partition counts as an EBR if only omitted
\* partitions that come before it in the array cover it.
LEMMA EbrStands ==
  ASSUME NEW T, NEW m \in Tables(T), NEW sector \in Nat, sector < DiskSize, NEW i \in Slots,
         sector = 0 \/ (m[i].as = "LOGICAL" /\ m[i].start = sector + 1),
         sector > 0 => \A j \in Slots : Covers(m[j], sector) => m[j].as = "NONE" /\ j < i
  PROVE  UsedAs(m, sector) = "EBR"
<1> DEFINE N == MaxParts
<1>1. PICK h : Steps(h, N, "NONE", Uses, LookStep(m, sector)) /\ UsedAs(m, sector) = h[N]
  BY UsedSteps
<1>2. N \in Nat /\ N > 4 /\ Slots = 0..N - 1 /\ DiskSize \in Nat
  BY Sizes, LayoutAssumption DEF Slots
<1>3. \A k \in 1..N : h[k] = Looked(m, sector, h[k - 1], k - 1)
  <2>1. ASSUME NEW k \in 1..N PROVE h[k] = Looked(m, sector, h[k - 1], k - 1)
    <3>1. h[k - 1] \in Uses
      BY <1>1, <1>2 DEF Steps
    <3> QED BY <1>1, <3>1 DEF Steps, LookStep
  <2> QED BY <2>1
<1> HIDE DEF N
<1> DEFINE S == {k \in 0..N : h[k] \in {"NONE", "EBR"} /\ (k > i => h[k] = "EBR")}
<1>4. 0 \in S
  BY <1>1, <1>2 DEF Steps
<1>5. ASSUME NEW n \in 0..N - 1, n \in S PROVE n + 1 \in S
  <2>1. n + 1 \in 1..N /\ n + 1 \in 0..N /\ (n + 1) - 1 = n /\ n \in Slots
    BY <1>2
  <2> DEFINE was == h[n]
  <2>2. h[n + 1] = Looked(m, sector, was, n)
    BY <1>3, <2>1
  <2>3. was \in {"NONE", "EBR"} /\ (n > i => was = "EBR")
    BY <1>5
  <2>4. ~(sector >= DiskSize)
    BY <1>2
  <2> HIDE DEF was
  <2>5. CASE sector = 0 \/ (m[n].start = sector + 1 /\ m[n].as = "LOGICAL")
    <3>1. h[n + 1] = "EBR"
      BY <2>2, <2>3, <2>4, <2>5 DEF Looked
    <3> QED BY <2>1, <3>1
  <2>6. CASE ~(sector = 0 \/ (m[n].start = sector + 1 /\ m[n].as = "LOGICAL"))
    <3>1. n # i /\ sector > 0
      BY <2>6
    <3>2. h[n + 1] = IF Covers(m[n], sector) THEN m[n].as ELSE was
      BY <2>2, <2>3, <2>4, <2>6 DEF Looked
    <3>3. CASE Covers(m[n], sector)
      <4>1. m[n].as = "NONE" /\ n < i
        BY <2>1, <3>1, <3>3
      <4>2. h[n + 1] = "NONE" /\ ~(n + 1 > i)
        BY <1>2, <2>1, <3>2, <3>3, <4>1
      <4> QED BY <2>1, <4>2
    <3>4. CASE ~Covers(m[n], sector)
      <4>1. h[n + 1] = was
        BY <3>2, <3>4
      <4>2. n + 1 > i => n > i
        BY <1>2, <2>1, <3>1
      <4> QED BY <2>1, <2>3, <4>1, <4>2
    <3> QED BY <3>3, <3>4
  <2> QED BY <2>5, <2>6
<1>6. 0..N \subseteq S
  <2> HIDE DEF S
  <2> QED BY <1>2, <1>4, <1>5, BoundedInduction
<1>7. N \in S /\ N > i
  BY <1>2, <1>6
<1> QED BY <1>1, <1>7 DEF N

\* ... and in a legal array nothing included covers it: the array stays legal when
\* it is sorted, unless an entry without sectors begins somewhere.
LEMMA SortLegal ==
  ASSUME NEW T, NEW m \in Tables(T), IsLegal(m), BlankNowhere(m), NEW sorted \in SortMBR(m, 0)
  PROVE  IsLegal(sorted)
<1>1. MaxParts \in Nat /\ Slots = 0 .. MaxParts - 1 /\ DiskSize \in Nat /\ 0 \in {0, 4}
  BY Sizes, LayoutAssumption DEF Slots
<1>2. /\ sorted \in Tables(T)
      /\ \A i \in Slots : \E j \in Slots : sorted[i] = m[j]
      /\ \A j \in Slots : \E i \in Slots : sorted[i] = m[j]
  <2>1. \A i \in Slots : i >= 0 /\ 0 <= i
    BY <1>1
  <2>2. sorted \in Tables(T) /\ \A i \in Slots : \E j \in Slots : sorted[i] = m[j]
    BY <1>1, <2>1, SortType
  <2>3. \A j \in Slots : \E i \in Slots : sorted[i] = m[j]
    BY <1>1, <2>1, SortOrders
  <2> QED BY <2>2, <2>3
<1>3. \A i \in Slots, j \in Slots : i < j /\ sorted[i].len > 0 /\ sorted[j].len > 0 => sorted[i].start <= sorted[j].start
  <2>1. \A i \in Slots : 0 <= i
    BY <1>1
  <2> QED BY <1>1, <2>1, SortOrders
<1>4. NoOverlaps(m) /\ NumPrimaries(m) <= 4 /\ AreLogicalsContiguous(m) /\ DoTheyFit(m) /\ SpaceBeforeAllLogicals(m)
  BY DEF IsLegal
<1>5. NoOverlaps(sorted) /\ NumPrimaries(sorted) <= 4 /\ DoTheyFit(sorted)
  BY <1>4, SortRepaired DEF Repaired
<1>6. FirstLogicalLBA(sorted) = FirstLogicalLBA(m) /\ LastLogicalLBA(sorted) = LastLogicalLBA(m)
  <2> DEFINE F(z) == {z[i].start : i \in Including(z, "LOGICAL")}
             L(z) == {LastLBA(z[i]) : i \in Including(z, "LOGICAL")}
  <2>1. F(sorted) = F(m)
    <3>1. ASSUME NEW i \in Including(sorted, "LOGICAL") PROVE sorted[i].start \in F(m)
      <4>1. PICK j \in Slots : sorted[i] = m[j]
        BY <1>2 DEF Including
      <4> QED BY <4>1 DEF Including
    <3>2. ASSUME NEW j \in Including(m, "LOGICAL") PROVE m[j].start \in F(sorted)
      <4>1. PICK i \in Slots : sorted[i] = m[j]
        BY <1>2 DEF Including
      <4> QED BY <4>1 DEF Including
    <3> QED BY <3>1, <3>2
  <2>2. L(sorted) = L(m)
    <3>1. ASSUME NEW i \in Including(sorted, "LOGICAL") PROVE LastLBA(sorted[i]) \in L(m)
      <4>1. PICK j \in Slots : sorted[i] = m[j]
        BY <1>2 DEF Including
      <4> QED BY <4>1 DEF Including
    <3>2. ASSUME NEW j \in Including(m, "LOGICAL") PROVE LastLBA(m[j]) \in L(sorted)
      <4>1. PICK i \in Slots : sorted[i] = m[j]
        BY <1>2 DEF Including
      <4> QED BY <4>1 DEF Including
    <3> QED BY <3>1, <3>2
  <2>3. \A z : FirstLogicalLBA(z) = LeastOf(F(z) \union {Max32}) /\ LastLogicalLBA(z) = GreatestOf(L(z) \union {0})
    BY DEF FirstLogicalLBA, LastLogicalLBA
  <2> HIDE DEF F, L
  <2> QED BY <2>1, <2>2, <2>3
<1>7. AreLogicalsContiguous(sorted)
  <2>1. SUFFICES ASSUME LastLogicalLBA(sorted) > 0, NEW i \in Including(sorted, "PRIMARY")
                 PROVE  ~(Minus64(FirstLogicalLBA(sorted), 1) <= sorted[i].start /\ sorted[i].start <= LastLogicalLBA(sorted))
    BY DEF AreLogicalsContiguous
  <2>2. PICK j \in Slots : sorted[i] = m[j]
    BY <1>2 DEF Including
  <2>3. j \in Including(m, "PRIMARY")
    BY <2>2 DEF Including
  <2>4. ~(Minus64(FirstLogicalLBA(m), 1) <= m[j].start /\ m[j].start <= LastLogicalLBA(m))
    BY <1>4, <1>6, <2>1, <2>3 DEF AreLogicalsContiguous
  <2> QED BY <1>6, <2>2, <2>4
<1>8. SpaceBeforeAllLogicals(sorted)
  <2>1. SUFFICES ASSUME NEW i \in Including(sorted, "LOGICAL"), sorted[i].start > 0
                 PROVE  UsedAs(sorted, sorted[i].start - 1) = "EBR"
    BY DEF SpaceBeforeAllLogicals
  <2>2. i \in Slots /\ sorted[i].as = "LOGICAL"
    BY DEF Including
  <2>3. PICK l \in Slots : sorted[i] = m[l]
    BY <1>2, <2>2
  <2> DEFINE sector == m[l].start - 1
  <2>4. m[l].start \in Nat /\ m[l].len \in Nat /\ m[l].start > 0 /\ m[l].as = "LOGICAL" /\ m[l].start <= DiskSize
    BY <1>4, <2>1, <2>2, <2>3, Sizes DEF DoTheyFit, Tables, Parts
  <2>5. sector \in Nat /\ sector < DiskSize /\ m[l].start = sector + 1 /\ sorted[i].start - 1 = sector
    BY <1>1, <2>3, <2>4
  <2>6. UsedAs(m, sector) = "EBR"
    BY <1>4, <2>4 DEF SpaceBeforeAllLogicals, Including
  <2> HIDE DEF sector
  <2>7. sorted[i].len > 0 /\ sorted[i].start = sector + 1
    <3>1. m[l].len # 0
      BY <2>4 DEF BlankNowhere
    <3> QED BY <2>3, <2>4, <2>5, <3>1
  <2>8. ASSUME sector > 0, NEW j \in Slots, Covers(sorted[j], sector) PROVE sorted[j].as = "NONE" /\ j < i
    <3>1. PICK k \in Slots : sorted[j] = m[k]
      BY <1>2
    <3>2. m[k].start \in Nat /\ m[k].len \in Nat /\ m[k].as \in {"NONE", "PRIMARY", "LOGICAL"}
      BY Sizes DEF Tables, Parts
    <3>3. m[k].start <= sector /\ sector <= LastLBA(m[k])
      BY <2>8, <3>1 DEF Covers
    <3>4. sorted[j].len > 0
      BY <2>5, <2>8, <3>1, <3>2, <3>3 DEF LastLBA
    <3>5. sorted[j].start < sorted[i].start /\ sorted[j].start \in Nat /\ sorted[i].start \in Nat
      BY <2>5, <2>7, <3>1, <3>2, <3>3
    <3>6. ~(i < j) /\ i # j
      <4>1. i < j => sorted[i].start <= sorted[j].start
        BY <1>3, <2>2, <2>7, <3>4
      <4> QED BY <3>5, <4>1
    <3>7. j < i
      BY <1>1, <2>2, <3>6
    <3>8. k \notin Included(m)
      <4>1. Covers(m[k], sector)
        BY <2>8, <3>1
      <4> QED BY <2>5, <2>6, <2>8, <4>1, EbrIsFree
    <3>9. m[k].as = "NONE"
      BY <3>2, <3>8 DEF Included, Including
    <3> QED BY <3>1, <3>7, <3>9
  <2>9. UsedAs(sorted, sector) = "EBR"
    BY <1>2, <2>2, <2>5, <2>7, <2>8, EbrStands
  <2> QED BY <2>5, <2>9
<1> QED BY <1>5, <1>7, <1>8 DEF IsLegal

\* The rules look at places and at what is included, not at types.
LEMMA TypesDoNotMatter ==
  ASSUME NEW T, NEW m \in Tables(T), NEW x \in Tables(T),
         \A i \in Slots : x[i].start = m[i].start /\ x[i].len = m[i].len /\ x[i].as = m[i].as
  PROVE  (IsLegal(m) => IsLegal(x)) /\ (Repaired(m) => Repaired(x))
<1>1. \A i \in Slots : LastLBA(x[i]) = LastLBA(m[i])
  BY DEF LastLBA
<1>2. \A as : Including(x, as) = Including(m, as)
  BY DEF Including
<1>3. Including(m, "LOGICAL") \subseteq Slots /\ Including(m, "PRIMARY") \subseteq Slots
  BY DEF Including
<1>4. NoOverlaps(m) => NoOverlaps(x)
  BY <1>1 DEF NoOverlaps, Overlap
<1>5. NumPrimaries(x) = NumPrimaries(m)
  <2> DEFINE P(z) == {j \in Including(z, "PRIMARY") : z[j].len > 0}
             L(z) == {j \in Including(z, "LOGICAL") : z[j].len > 0}
  <2>1. P(x) = P(m) /\ L(x) = L(m)
    BY <1>2, <1>3
  <2>2. \A z : NumPrimaries(z) = Cardinality(P(z)) + (IF L(z) # {} THEN 1 ELSE 0)
    BY DEF NumPrimaries
  <2> HIDE DEF P, L
  <2> QED BY <2>1, <2>2
<1>6. FirstLogicalLBA(x) = FirstLogicalLBA(m) /\ LastLogicalLBA(x) = LastLogicalLBA(m)
  <2> DEFINE F(z) == {z[i].start : i \in Including(z, "LOGICAL")}
             L(z) == {LastLBA(z[i]) : i \in Including(z, "LOGICAL")}
  <2>1. F(x) = F(m) /\ L(x) = L(m)
    BY <1>1, <1>2, <1>3
  <2>2. \A z : FirstLogicalLBA(z) = LeastOf(F(z) \union {Max32}) /\ LastLogicalLBA(z) = GreatestOf(L(z) \union {0})
    BY DEF FirstLogicalLBA, LastLogicalLBA
  <2> HIDE DEF F, L
  <2> QED BY <2>1, <2>2
<1>7. AreLogicalsContiguous(m) => AreLogicalsContiguous(x)
  BY <1>2, <1>3, <1>6 DEF AreLogicalsContiguous
<1>8. DoTheyFit(m) => DoTheyFit(x)
  BY <1>1 DEF DoTheyFit
<1>9. ASSUME NEW sector PROVE UsedAs(x, sector) = UsedAs(m, sector)
  <2> DEFINE N == MaxParts
  <2>1. PICK h : Steps(h, N, "NONE", Uses, LookStep(m, sector)) /\ UsedAs(m, sector) = h[N]
    BY UsedSteps
  <2>2. PICK e : Steps(e, N, "NONE", Uses, LookStep(x, sector)) /\ UsedAs(x, sector) = e[N]
    BY UsedSteps
  <2>3. N \in Nat /\ Slots = 0..N - 1
    BY Sizes DEF Slots
  <2>4. ASSUME NEW was, NEW i \in Slots PROVE Looked(x, sector, was, i) = Looked(m, sector, was, i)
    BY <1>1 DEF Looked, Covers
  <2>5. LookStep(x, sector) = LookStep(m, sector)
    <3>1. \A k \in 1..N : k - 1 \in Slots
      BY <2>3
    <3>2. \A y \in (1..MaxParts) \X Uses : Looked(x, sector, y[2], y[1] - 1) = Looked(m, sector, y[2], y[1] - 1)
      BY <2>4, <3>1
    <3> QED BY <3>2 DEF LookStep
  <2> HIDE DEF N
  <2> DEFINE g == LookStep(m, sector)
  <2> HIDE DEF g
  <2>6. /\ h[0] = "NONE" /\ \A k \in 1..N : h[k] = g[<<k, h[k - 1]>>]
        /\ e[0] = "NONE" /\ \A k \in 1..N : e[k] = g[<<k, e[k - 1]>>]
    BY <2>1, <2>2, <2>5 DEF Steps, g
  <2> DEFINE S == {k \in 0..N : e[k] = h[k]}
  <2>7. 0 \in S
    BY <2>3, <2>6
  <2>8. ASSUME NEW n \in 0..N - 1, n \in S PROVE n + 1 \in S
    <3>1. n + 1 \in 1..N /\ n + 1 \in 0..N /\ (n + 1) - 1 = n /\ e[n] = h[n]
      BY <2>3, <2>8
    <3>2. h[n + 1] = g[<<n + 1, h[n]>>] /\ e[n + 1] = g[<<n + 1, e[n]>>]
      BY <2>6, <3>1
    <3> QED BY <3>1, <3>2
  <2>9. 0..N \subseteq S
    <3> HIDE DEF S
    <3> QED BY <2>3, <2>7, <2>8, BoundedInduction
  <2>10. N \in S
    BY <2>3, <2>9
  <2> QED BY <2>1, <2>2, <2>10
<1>10. SpaceBeforeAllLogicals(m) => SpaceBeforeAllLogicals(x)
  BY <1>2, <1>3, <1>9 DEF SpaceBeforeAllLogicals
<1> QED BY <1>4, <1>5, <1>7, <1>8, <1>10 DEF IsLegal, Repaired

LEMMA SetTypeKeeps ==
  ASSUME NEW T, NEW m \in Tables(T), NEW num \in Slots, NEW type, type # "ext" => type \in T
  PROVE  LET x == SetType(m, num, type)
         IN  (IsLegal(m) => IsLegal(x)) /\ (Repaired(m) => Repaired(x))
<1> DEFINE p == [m[num] EXCEPT !.type = type]
           x == SetType(m, num, type)
<1>1. CASE type = "ext"
  <2>1. x = m
    BY <1>1 DEF SetType
  <2> QED BY <2>1
<1>2. CASE type # "ext"
  <2>1. x = [m EXCEPT ![num] = p] /\ m[num] \in Parts(T)
    BY <1>2 DEF SetType, Tables
  <2>2. p.start = m[num].start /\ p.len = m[num].len /\ p.as = m[num].as
    BY <2>1 DEF Parts
  <2>3. x \in Tables(T)
    BY SetTypeType
  <2> HIDE DEF x, p
  <2>4. \A i \in Slots : x[i] = IF i = num THEN p ELSE m[i]
    BY <2>1 DEF Tables
  <2>5. \A i \in Slots : x[i].start = m[i].start /\ x[i].len = m[i].len /\ x[i].as = m[i].as
    BY <2>2, <2>4
  <2>6. (IsLegal(m) => IsLegal(x)) /\ (Repaired(m) => Repaired(x))
    BY <2>3, <2>5, TypesDoNotMatter
  <2> QED BY <2>6 DEF x
<1> QED BY <1>1, <1>2


=============================================================================
