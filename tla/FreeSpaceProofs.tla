-------------------------- MODULE FreeSpaceProofs --------------------------
(***************************************************************************)
(* What the searches of FreeSpace find, for every partition array.  They   *)
(* are folds over the array and recursive functions on sectors.            *)
(***************************************************************************)
EXTENDS FreeSpace, FoldProofs, SequenceTheorems

-----------------------------------------------------------------------------
(* The folds of FreeSpace, each as the steps it takes.                     *)

AnyPart == [first: Nat, last: Nat]

LastUsedStep(parts) ==
  [x \in (1..Len(parts)) \X Nat |->
     LET p == parts[x[1]]
     IN  IF IsUsed(p) /\ p.first > x[2] THEN p.last ELSE x[2]]

LEMMA LastUsedSteps ==
  ASSUME NEW parts \in Seq(AnyPart)
  PROVE  \E h : /\ Steps(h, Len(parts), 0, Nat, LastUsedStep(parts))
                /\ FindLastUsedLBA(parts) = h[Len(parts)]
<1> DEFINE N == Len(parts)
           g == LastUsedStep(parts)
           op(x, p) == IF IsUsed(p) /\ p.first > x THEN p.last ELSE x
           Is(f) == f = [I \in SUBSET (DOMAIN parts) |->
                           IF I = {} THEN 0 ELSE op(f[I \ {Max(I)}], parts[Max(I)])]
           F == CHOOSE f : Is(f)
<1>1. FindLastUsedLBA(parts) = F[1..N] /\ DOMAIN parts = 1..N /\ N \in Nat
  <2>1. FindLastUsedLBA(parts) = F[DOMAIN parts]
    BY DEF FindLastUsedLBA, FoldLeft, MapThenFoldSet
  <2>2. DOMAIN parts = 1..N /\ N \in Nat
    OBVIOUS
  <2> HIDE DEF F
  <2> QED BY <2>1, <2>2
<1>2. g \in [(1..N) \X Nat -> Nat]
  <2>1. ASSUME NEW i \in 1..N, NEW y \in Nat
        PROVE  op(y, parts[i]) \in Nat
    <3>1. parts[i] \in AnyPart
      OBVIOUS
    <3> QED BY <3>1 DEF AnyPart
  <2> QED BY <2>1 DEF LastUsedStep
<1>3. ASSUME NEW I \in SUBSET (1..N), I # {}, NEW y \in Nat
      PROVE  g[<<Max(I), y>>] = op(y, parts[Max(I)])
  <2>1. Max(I) \in 1..N
    BY <1>1, <1>3, MaxIn
  <2> QED BY <2>1 DEF LastUsedStep
<1>4. PICK f \in [SUBSET (1..N) -> Nat] : FoldsBy(f, N, 0, g)
  <2> HIDE DEF g, N
  <2> QED BY <1>1, <1>2, FoldExists
<1>5. Is(f)
  <2>1. ASSUME NEW I \in SUBSET (1..N), I # {}
        PROVE  g[<<Max(I), f[I \ {Max(I)}]>>] = op(f[I \ {Max(I)}], parts[Max(I)])
    <3>1. f[I \ {Max(I)}] \in Nat
      BY <1>4
    <3> HIDE DEF g, op
    <3> QED BY <1>3, <2>1, <3>1
  <2> HIDE DEF g, op, N
  <2> QED BY <1>1, <1>4, <2>1 DEF FoldsBy
<1>6. Is(F)
  <2> HIDE DEF Is
  <2> QED BY <1>5
<1>7. 0 \in Nat
  OBVIOUS
<1>8. Follows(F, N, 0, Nat, g)
  <2>1. F[{}] = 0
    <3> HIDE DEF F, op, N
    <3> QED BY <1>1, <1>6
  <2>2. ASSUME NEW I \in SUBSET (1..N), I # {}, F[I \ {Max(I)}] \in Nat
        PROVE  F[I] = g[<<Max(I), F[I \ {Max(I)}]>>]
    <3> HIDE DEF F, op, N, g
    <3> QED BY <1>1, <1>3, <1>6, <2>2
  <2> HIDE DEF F, op, N, g
  <2> QED BY <1>1, <1>2, <1>7, <2>1, <2>2 DEF Follows
<1> DEFINE V == Nat
           b == 0
<1>9. \E h : Steps(h, N, b, V, g) /\ h[N] = F[1..N]
  <2>1. Follows(F, N, b, V, g)
    BY <1>8
  <2> HIDE DEF F, g, N, V, b
  <2> QED BY <2>1, FoldSteps
<1> HIDE DEF F
<1> QED BY <1>1, <1>9

LastInFreeStep(s, start) ==
  [x \in (1..Len(s.parts)) \X Nat |->
     LET p == s.parts[x[1]]
     IN  IF x[2] > p.first /\ p.first > start THEN p.first - 1 ELSE x[2]]

LEMMA LastInFreeSteps ==
  ASSUME NEW s, s.parts \in Seq(AnyPart), s.last \in Nat, NEW start \in Nat
  PROVE  \E h : /\ Steps(h, Len(s.parts), s.last, Nat, LastInFreeStep(s, start))
                /\ FindLastInFree(s, start) = h[Len(s.parts)]
<1> DEFINE N == Len(s.parts)
           g == LastInFreeStep(s, start)
           op(x, p) == IF x > p.first /\ p.first > start THEN p.first - 1 ELSE x
           Is(f) == f = [I \in SUBSET (DOMAIN s.parts) |->
                           IF I = {} THEN s.last ELSE op(f[I \ {Max(I)}], s.parts[Max(I)])]
           F == CHOOSE f : Is(f)
<1>1. FindLastInFree(s, start) = F[1..N] /\ DOMAIN s.parts = 1..N /\ N \in Nat
  <2>1. FindLastInFree(s, start) = F[DOMAIN s.parts]
    BY DEF FindLastInFree, FoldLeft, MapThenFoldSet
  <2>2. DOMAIN s.parts = 1..N /\ N \in Nat
    OBVIOUS
  <2> HIDE DEF F
  <2> QED BY <2>1, <2>2
<1>2. g \in [(1..N) \X Nat -> Nat]
  <2>1. ASSUME NEW i \in 1..N, NEW y \in Nat
        PROVE  op(y, s.parts[i]) \in Nat
    <3>1. s.parts[i] \in AnyPart
      OBVIOUS
    <3> QED BY <3>1 DEF AnyPart
  <2> QED BY <2>1 DEF LastInFreeStep
<1>3. ASSUME NEW I \in SUBSET (1..N), I # {}, NEW y \in Nat
      PROVE  g[<<Max(I), y>>] = op(y, s.parts[Max(I)])
  <2>1. Max(I) \in 1..N
    BY <1>1, <1>3, MaxIn
  <2> QED BY <2>1 DEF LastInFreeStep
<1>4. PICK f \in [SUBSET (1..N) -> Nat] : FoldsBy(f, N, s.last, g)
  <2> HIDE DEF g, N
  <2> QED BY <1>1, <1>2, FoldExists
<1>5. Is(f)
  <2>1. ASSUME NEW I \in SUBSET (1..N), I # {}
        PROVE  g[<<Max(I), f[I \ {Max(I)}]>>] = op(f[I \ {Max(I)}], s.parts[Max(I)])
    <3>1. f[I \ {Max(I)}] \in Nat
      BY <1>4
    <3> HIDE DEF g, op
    <3> QED BY <1>3, <2>1, <3>1
  <2> HIDE DEF g, op, N
  <2> QED BY <1>1, <1>4, <2>1 DEF FoldsBy
<1>6. Is(F)
  <2> HIDE DEF Is
  <2> QED BY <1>5
<1>7. s.last \in Nat
  OBVIOUS
<1>8. Follows(F, N, s.last, Nat, g)
  <2>1. F[{}] = s.last
    <3> HIDE DEF F, op, N
    <3> QED BY <1>1, <1>6
  <2>2. ASSUME NEW I \in SUBSET (1..N), I # {}, F[I \ {Max(I)}] \in Nat
        PROVE  F[I] = g[<<Max(I), F[I \ {Max(I)}]>>]
    <3> HIDE DEF F, op, N, g
    <3> QED BY <1>1, <1>3, <1>6, <2>2
  <2> HIDE DEF F, op, N, g
  <2> QED BY <1>1, <1>2, <1>7, <2>1, <2>2 DEF Follows
<1> DEFINE V == Nat
           b == s.last
<1>9. \E h : Steps(h, N, b, V, g) /\ h[N] = F[1..N]
  <2>1. Follows(F, N, b, V, g)
    BY <1>8
  <2> HIDE DEF F, g, N, V, b
  <2> QED BY <2>1, FoldSteps
<1> HIDE DEF F
<1> QED BY <1>1, <1>9

ForwardStep(s) ==
  [x \in (1..Len(s.parts)) \X Nat |->
     LET p == s.parts[x[1]]
     IN  IF IsUsed(p) /\ Holds(p, x[2]) THEN p.last + 1 ELSE x[2]]

LEMMA ForwardSteps ==
  ASSUME NEW s, s.parts \in Seq(AnyPart), NEW first \in Nat
  PROVE  \E h : /\ Steps(h, Len(s.parts), first, Nat, ForwardStep(s))
                /\ PassForward(s, first) = h[Len(s.parts)]
<1> DEFINE N == Len(s.parts)
           g == ForwardStep(s)
           op(x, p) == IF IsUsed(p) /\ Holds(p, x) THEN p.last + 1 ELSE x
           Is(f) == f = [I \in SUBSET (DOMAIN s.parts) |->
                           IF I = {} THEN first ELSE op(f[I \ {Max(I)}], s.parts[Max(I)])]
           F == CHOOSE f : Is(f)
<1>1. PassForward(s, first) = F[1..N] /\ DOMAIN s.parts = 1..N /\ N \in Nat
  <2>1. PassForward(s, first) = F[DOMAIN s.parts]
    BY DEF PassForward, FoldLeft, MapThenFoldSet
  <2>2. DOMAIN s.parts = 1..N /\ N \in Nat
    OBVIOUS
  <2> HIDE DEF F
  <2> QED BY <2>1, <2>2
<1>2. g \in [(1..N) \X Nat -> Nat]
  <2>1. ASSUME NEW i \in 1..N, NEW y \in Nat
        PROVE  op(y, s.parts[i]) \in Nat
    <3>1. s.parts[i] \in AnyPart
      OBVIOUS
    <3> QED BY <3>1 DEF AnyPart
  <2> QED BY <2>1 DEF ForwardStep
<1>3. ASSUME NEW I \in SUBSET (1..N), I # {}, NEW y \in Nat
      PROVE  g[<<Max(I), y>>] = op(y, s.parts[Max(I)])
  <2>1. Max(I) \in 1..N
    BY <1>1, <1>3, MaxIn
  <2> QED BY <2>1 DEF ForwardStep
<1>4. PICK f \in [SUBSET (1..N) -> Nat] : FoldsBy(f, N, first, g)
  <2> HIDE DEF g, N
  <2> QED BY <1>1, <1>2, FoldExists
<1>5. Is(f)
  <2>1. ASSUME NEW I \in SUBSET (1..N), I # {}
        PROVE  g[<<Max(I), f[I \ {Max(I)}]>>] = op(f[I \ {Max(I)}], s.parts[Max(I)])
    <3>1. f[I \ {Max(I)}] \in Nat
      BY <1>4
    <3> HIDE DEF g, op
    <3> QED BY <1>3, <2>1, <3>1
  <2> HIDE DEF g, op, N
  <2> QED BY <1>1, <1>4, <2>1 DEF FoldsBy
<1>6. Is(F)
  <2> HIDE DEF Is
  <2> QED BY <1>5
<1>7. first \in Nat
  OBVIOUS
<1>8. Follows(F, N, first, Nat, g)
  <2>1. F[{}] = first
    <3> HIDE DEF F, op, N
    <3> QED BY <1>1, <1>6
  <2>2. ASSUME NEW I \in SUBSET (1..N), I # {}, F[I \ {Max(I)}] \in Nat
        PROVE  F[I] = g[<<Max(I), F[I \ {Max(I)}]>>]
    <3> HIDE DEF F, op, N, g
    <3> QED BY <1>1, <1>3, <1>6, <2>2
  <2> HIDE DEF F, op, N, g
  <2> QED BY <1>1, <1>2, <1>7, <2>1, <2>2 DEF Follows
<1> DEFINE V == Nat
           b == first
<1>9. \E h : Steps(h, N, b, V, g) /\ h[N] = F[1..N]
  <2>1. Follows(F, N, b, V, g)
    BY <1>8
  <2> HIDE DEF F, g, N, V, b
  <2> QED BY <2>1, FoldSteps
<1> HIDE DEF F
<1> QED BY <1>1, <1>9

BackwardStep(s) ==
  [x \in (1..Len(s.parts)) \X Nat |->
     LET p == s.parts[x[1]]
     IN  IF Holds(p, x[2]) THEN Minus(p.first, 1) ELSE x[2]]

LEMMA BackwardSteps ==
  ASSUME NEW s, s.parts \in Seq(AnyPart), NEW last \in Nat
  PROVE  \E h : /\ Steps(h, Len(s.parts), last, Nat, BackwardStep(s))
                /\ PassBackward(s, last) = h[Len(s.parts)]
<1> DEFINE N == Len(s.parts)
           g == BackwardStep(s)
           op(x, p) == IF Holds(p, x) THEN Minus(p.first, 1) ELSE x
           Is(f) == f = [I \in SUBSET (DOMAIN s.parts) |->
                           IF I = {} THEN last ELSE op(f[I \ {Max(I)}], s.parts[Max(I)])]
           F == CHOOSE f : Is(f)
<1>1. PassBackward(s, last) = F[1..N] /\ DOMAIN s.parts = 1..N /\ N \in Nat
  <2>1. PassBackward(s, last) = F[DOMAIN s.parts]
    BY DEF PassBackward, FoldLeft, MapThenFoldSet
  <2>2. DOMAIN s.parts = 1..N /\ N \in Nat
    OBVIOUS
  <2> HIDE DEF F
  <2> QED BY <2>1, <2>2
<1>2. g \in [(1..N) \X Nat -> Nat]
  <2>1. ASSUME NEW i \in 1..N, NEW y \in Nat
        PROVE  op(y, s.parts[i]) \in Nat
    <3>1. s.parts[i] \in AnyPart
      OBVIOUS
    <3> QED BY <3>1, WordAssumption DEF AnyPart, Minus
  <2> QED BY <2>1 DEF BackwardStep
<1>3. ASSUME NEW I \in SUBSET (1..N), I # {}, NEW y \in Nat
      PROVE  g[<<Max(I), y>>] = op(y, s.parts[Max(I)])
  <2>1. Max(I) \in 1..N
    BY <1>1, <1>3, MaxIn
  <2> QED BY <2>1 DEF BackwardStep
<1>4. PICK f \in [SUBSET (1..N) -> Nat] : FoldsBy(f, N, last, g)
  <2> HIDE DEF g, N
  <2> QED BY <1>1, <1>2, FoldExists
<1>5. Is(f)
  <2>1. ASSUME NEW I \in SUBSET (1..N), I # {}
        PROVE  g[<<Max(I), f[I \ {Max(I)}]>>] = op(f[I \ {Max(I)}], s.parts[Max(I)])
    <3>1. f[I \ {Max(I)}] \in Nat
      BY <1>4
    <3> HIDE DEF g, op
    <3> QED BY <1>3, <2>1, <3>1
  <2> HIDE DEF g, op, N
  <2> QED BY <1>1, <1>4, <2>1 DEF FoldsBy
<1>6. Is(F)
  <2> HIDE DEF Is
  <2> QED BY <1>5
<1>7. last \in Nat
  OBVIOUS
<1>8. Follows(F, N, last, Nat, g)
  <2>1. F[{}] = last
    <3> HIDE DEF F, op, N
    <3> QED BY <1>1, <1>6
  <2>2. ASSUME NEW I \in SUBSET (1..N), I # {}, F[I \ {Max(I)}] \in Nat
        PROVE  F[I] = g[<<Max(I), F[I \ {Max(I)}]>>]
    <3> HIDE DEF F, op, N, g
    <3> QED BY <1>1, <1>3, <1>6, <2>2
  <2> HIDE DEF F, op, N, g
  <2> QED BY <1>1, <1>2, <1>7, <2>1, <2>2 DEF Follows
<1> DEFINE V == Nat
           b == last
<1>9. \E h : Steps(h, N, b, V, g) /\ h[N] = F[1..N]
  <2>1. Follows(F, N, b, V, g)
    BY <1>8
  <2> HIDE DEF F, g, N, V, b
  <2> QED BY <2>1, FoldSteps
<1> HIDE DEF F
<1> QED BY <1>1, <1>9

-----------------------------------------------------------------------------
(* What the folds find.                                                    *)

LEMMA EntryType ==
  ASSUME NEW s, s.parts \in Seq(AnyPart), NEW i \in DOMAIN s.parts
  PROVE  s.parts[i] \in AnyPart /\ s.parts[i].first \in Nat /\ s.parts[i].last \in Nat
<1>1. s.parts[i] \in AnyPart
  OBVIOUS
<1> QED BY <1>1 DEF AnyPart

LEMMA LastUsedType ==
  ASSUME NEW parts \in Seq(AnyPart)
  PROVE  FindLastUsedLBA(parts) \in Nat
<1> DEFINE N == Len(parts)
<1>1. PICK h : /\ Steps(h, N, 0, Nat, LastUsedStep(parts))
               /\ FindLastUsedLBA(parts) = h[N]
  BY LastUsedSteps
<1> QED BY <1>1 DEF Steps

\* The end of the free block that holds 'start' is not behind the start of any
\* partition that begins behind 'start'.
LEMMA LastInFreeIs ==
  ASSUME NEW s, s.parts \in Seq(AnyPart), s.last \in Nat, NEW start \in Nat
  PROVE  LET last == FindLastInFree(s, start) IN
         /\ last \in Nat /\ last <= s.last
         /\ start <= s.last => start <= last
         /\ \A i \in DOMAIN s.parts : s.parts[i].first > start => last <= s.parts[i].first
<1> DEFINE N == Len(s.parts)
           g == LastInFreeStep(s, start)
<1>1. PICK h : Steps(h, N, s.last, Nat, g) /\ FindLastInFree(s, start) = h[N]
  BY LastInFreeSteps
<1>2. N \in Nat /\ DOMAIN s.parts = 1..N
  OBVIOUS
<1>3. ASSUME NEW k \in 1..N
      PROVE  /\ h[k] \in Nat /\ h[k - 1] \in Nat /\ s.parts[k] \in AnyPart
             /\ h[k] = IF h[k - 1] > s.parts[k].first /\ s.parts[k].first > start
                       THEN s.parts[k].first - 1 ELSE h[k - 1]
  <2>1. k - 1 \in 0..N /\ k \in 0..N /\ s.parts[k] \in AnyPart
    BY <1>2
  <2>2. h[k - 1] \in Nat /\ h[k] \in Nat /\ h[k] = g[<<k, h[k - 1]>>]
    BY <1>1, <2>1 DEF Steps
  <2> QED BY <2>1, <2>2 DEF LastInFreeStep
<1> DEFINE S == {k \in 0..N : /\ h[k] <= s.last
                              /\ start <= s.last => start <= h[k]
                              /\ \A i \in 1..k :
                                   s.parts[i].first > start => h[k] <= s.parts[i].first}
<1>4. 0 \in S
  BY <1>1, <1>2 DEF Steps
<1>5. ASSUME NEW n \in 0..N - 1, n \in S PROVE n + 1 \in S
  <2>1. n + 1 \in 1..N /\ (n + 1) - 1 = n
    BY <1>2
  <2>2. /\ h[n + 1] \in Nat /\ h[n] \in Nat /\ s.parts[n + 1] \in AnyPart
        /\ h[n + 1] = IF h[n] > s.parts[n + 1].first /\ s.parts[n + 1].first > start
                      THEN s.parts[n + 1].first - 1 ELSE h[n]
    BY <1>3, <2>1
  <2>3. h[n + 1] <= h[n]
    BY <2>2 DEF AnyPart
  <2>4. h[n + 1] <= s.last /\ (start <= s.last => start <= h[n + 1])
    <3>1. h[n] <= s.last /\ (start <= s.last => start <= h[n])
      BY <1>5
    <3>2. s.parts[n + 1].first \in Nat
      BY <2>2 DEF AnyPart
    <3> HIDE DEF S
    <3> QED BY <2>2, <2>3, <3>1, <3>2
  <2>5. ASSUME NEW i \in 1..n + 1, s.parts[i].first > start
        PROVE  h[n + 1] <= s.parts[i].first
    <3>1. CASE i = n + 1
      BY <2>2, <2>5, <3>1 DEF AnyPart
    <3>2. CASE i # n + 1
      <4>1. i \in 1..n /\ i \in DOMAIN s.parts /\ s.parts[i] \in AnyPart
        BY <1>2, <3>2
      <4>2. h[n] <= s.parts[i].first /\ s.parts[i].first \in Nat
        BY <1>5, <2>5, <4>1 DEF AnyPart
      <4> QED BY <2>2, <2>3, <4>2
    <3> QED BY <3>1, <3>2
  <2> QED BY <2>1, <2>4, <2>5
<1>6. N \in S
  <2>1. 0..N \subseteq S
    <3> HIDE DEF S
    <3> QED BY <1>2, <1>4, <1>5, BoundedInduction
  <2> HIDE DEF S
  <2> QED BY <1>2, <2>1
<1>7. h[N] \in Nat
  BY <1>1, <1>2 DEF Steps
<1> QED BY <1>1, <1>2, <1>6, <1>7

\* No used partition holds the sector.
Clear(s, sector) ==
  \A i \in DOMAIN s.parts : ~(IsUsed(s.parts[i]) /\ Holds(s.parts[i], sector))

LEMMA ForwardIs ==
  ASSUME NEW s, s.parts \in Seq(AnyPart), NEW first \in Nat
  PROVE  LET x == PassForward(s, first) IN
         /\ x \in Nat /\ first <= x
         /\ \A y \in first..x - 1 : ~Clear(s, y)
         /\ x = first => Clear(s, first)
<1> DEFINE N == Len(s.parts)
           g == ForwardStep(s)
           Held(k, y) == IsUsed(s.parts[k]) /\ Holds(s.parts[k], y)
<1>1. PICK h : Steps(h, N, first, Nat, g) /\ PassForward(s, first) = h[N]
  BY ForwardSteps
<1>2. N \in Nat /\ DOMAIN s.parts = 1..N
  OBVIOUS
<1>3. ASSUME NEW k \in 1..N
      PROVE  /\ h[k] \in Nat /\ h[k - 1] \in Nat /\ s.parts[k] \in AnyPart
             /\ h[k] = IF Held(k, h[k - 1]) THEN s.parts[k].last + 1 ELSE h[k - 1]
  <2>1. k - 1 \in 0..N /\ k \in 0..N /\ s.parts[k] \in AnyPart
    BY <1>2
  <2>2. h[k - 1] \in Nat /\ h[k] \in Nat /\ h[k] = g[<<k, h[k - 1]>>]
    BY <1>1, <2>1 DEF Steps
  <2> QED BY <2>1, <2>2 DEF ForwardStep
<1> DEFINE S == {k \in 0..N : /\ first <= h[k]
                              /\ \A y \in first..h[k] - 1 : ~Clear(s, y)
                              /\ h[k] = first => \A i \in 1..k : ~Held(i, first)}
<1>4. 0 \in S
  BY <1>1, <1>2 DEF Steps
<1>5. ASSUME NEW n \in 0..N - 1, n \in S PROVE n + 1 \in S
  <2>1. n + 1 \in 1..N /\ (n + 1) - 1 = n
    BY <1>2
  <2>2. /\ h[n + 1] \in Nat /\ h[n] \in Nat /\ s.parts[n + 1] \in AnyPart
        /\ h[n + 1] = IF Held(n + 1, h[n]) THEN s.parts[n + 1].last + 1 ELSE h[n]
    BY <1>3, <2>1
  <2>3. /\ first <= h[n] /\ \A y \in first..h[n] - 1 : ~Clear(s, y)
        /\ h[n] = first => \A i \in 1..n : ~Held(i, first)
    BY <1>5
  <2>4. CASE ~Held(n + 1, h[n])
    <3>1. h[n + 1] = h[n]
      BY <2>2, <2>4
    <3>2. h[n] = first => \A i \in 1..n + 1 : ~Held(i, first)
      <4> HIDE DEF Held
      <4> QED BY <2>3, <2>4
    <3> HIDE DEF Held
    <3> QED BY <2>1, <2>3, <3>1, <3>2
  <2>5. CASE Held(n + 1, h[n])
    <3>1. h[n + 1] = s.parts[n + 1].last + 1 /\ h[n + 1] > h[n]
      BY <2>2, <2>5 DEF Holds, AnyPart
    <3>2. ASSUME NEW y \in first..h[n + 1] - 1 PROVE ~Clear(s, y)
      <4>1. CASE y < h[n]
        BY <2>2, <2>3, <4>1
      <4>2. CASE ~(y < h[n])
        <5>1. Held(n + 1, y)
          BY <2>2, <2>5, <3>1, <4>2 DEF Holds, AnyPart
        <5> QED BY <1>2, <2>1, <5>1 DEF Clear
      <4> QED BY <4>1, <4>2
    <3>3. first <= h[n + 1] /\ h[n + 1] # first
      BY <2>2, <2>3, <3>1
    <3> HIDE DEF Held
    <3> QED BY <2>1, <3>2, <3>3
  <2> QED BY <2>4, <2>5
<1>6. N \in S
  <2>1. 0..N \subseteq S
    <3> HIDE DEF S
    <3> QED BY <1>2, <1>4, <1>5, BoundedInduction
  <2> HIDE DEF S
  <2> QED BY <1>2, <2>1
<1>7. h[N] \in Nat
  BY <1>1, <1>2 DEF Steps
<1>8. h[N] = first => Clear(s, first)
  BY <1>2, <1>6 DEF Clear
<1> QED BY <1>1, <1>6, <1>7, <1>8

\* The first sector from 'x' on that no used partition holds.
NextClear(s, x) == CHOOSE m \in Nat : /\ x <= m /\ Clear(s, m)
                                      /\ \A y \in x..m - 1 : ~Clear(s, y)

LEMMA PartsEnd ==
  ASSUME NEW s, s.parts \in Seq(AnyPart)
  PROVE  \E b \in Nat : \A i \in DOMAIN s.parts : s.parts[i].last < b
<1> DEFINE N == Len(s.parts)
           S == {k \in 0..N : \E b \in Nat : \A i \in 1..k : s.parts[i].last < b}
<1>1. N \in Nat /\ DOMAIN s.parts = 1..N
  OBVIOUS
<1>2. 0 \in S
  BY <1>1
<1>3. ASSUME NEW n \in 0..N - 1, n \in S PROVE n + 1 \in S
  <2>1. PICK b \in Nat : \A i \in 1..n : s.parts[i].last < b
    BY <1>3
  <2>2. n + 1 \in 0..N /\ n + 1 \in DOMAIN s.parts /\ s.parts[n + 1].last \in Nat
    <3>1. n + 1 \in 0..N /\ n + 1 \in DOMAIN s.parts
      BY <1>1
    <3> QED BY <3>1, EntryType
  <2> DEFINE c == IF b > s.parts[n + 1].last THEN b ELSE s.parts[n + 1].last + 1
  <2>3. c \in Nat /\ b <= c /\ s.parts[n + 1].last < c
    BY <2>2
  <2>4. ASSUME NEW i \in 1..n + 1 PROVE s.parts[i].last < c
    <3>1. CASE i = n + 1
      BY <2>3, <3>1
    <3>2. CASE i # n + 1
      <4>1. i \in 1..n /\ i \in DOMAIN s.parts /\ s.parts[i].last \in Nat
        <5>1. i \in 1..n /\ i \in DOMAIN s.parts
          BY <1>1, <3>2
        <5> QED BY <5>1, EntryType
      <4>2. s.parts[i].last < b
        BY <2>1, <4>1
      <4> HIDE DEF c
      <4> QED BY <2>3, <4>1, <4>2
    <3> QED BY <3>1, <3>2
  <2> HIDE DEF c
  <2>5. \E a \in Nat : \A i \in 1..n + 1 : s.parts[i].last < a
    BY <2>3, <2>4
  <2> QED BY <2>2, <2>5, Zenon
<1>4. N \in S
  <2>1. 0..N \subseteq S
    <3> HIDE DEF S
    <3> QED BY <1>1, <1>2, <1>3, BoundedInduction
  <2> HIDE DEF S
  <2> QED BY <1>1, <2>1
<1> QED BY <1>1, <1>4

LEMMA NextClearIs ==
  ASSUME NEW s, s.parts \in Seq(AnyPart), NEW x \in Nat
  PROVE  /\ NextClear(s, x) \in Nat /\ x <= NextClear(s, x) /\ Clear(s, NextClear(s, x))
         /\ \A y \in x..NextClear(s, x) - 1 : ~Clear(s, y)
<1> DEFINE T == {m \in Nat : x <= m /\ Clear(s, m)}
<1>1. T # {}
  <2>1. PICK b \in Nat : \A i \in DOMAIN s.parts : s.parts[i].last < b
    BY PartsEnd
  <2>2. Clear(s, x + b)
    <3>1. ASSUME NEW i \in DOMAIN s.parts PROVE ~Holds(s.parts[i], x + b)
      <4>1. s.parts[i].last \in Nat /\ s.parts[i].last < b
        BY <2>1, EntryType
      <4> QED BY <4>1 DEF Holds
    <3> QED BY <3>1 DEF Clear
  <2>3. x + b \in Nat /\ x <= x + b
    OBVIOUS
  <2> QED BY <2>2, <2>3
<1>2. PICK m \in T : \A k \in T : m <= k
  <2> HIDE DEF T
  <2> QED BY <1>1, LeastNumber DEF T
<1>3. m \in Nat /\ x <= m /\ Clear(s, m) /\ \A y \in x..m - 1 : ~Clear(s, y)
  BY <1>2
<1> QED BY <1>3 DEF NextClear

\* No other sector is like it.
LEMMA NextClearUnique ==
  ASSUME NEW s, s.parts \in Seq(AnyPart), NEW x \in Nat, NEW m \in Nat,
         x <= m, Clear(s, m), \A y \in x..m - 1 : ~Clear(s, y)
  PROVE  NextClear(s, x) = m
<1> DEFINE n == NextClear(s, x)
<1>1. n \in Nat /\ x <= n /\ Clear(s, n) /\ \A y \in x..n - 1 : ~Clear(s, y)
  BY NextClearIs
<1> HIDE DEF n
<1>2. ~(n < m) /\ ~(m < n)
  BY <1>1
<1> QED BY <1>1, <1>2 DEF n

\* A pass over the array does not skip it.
LEMMA NextAfterPass ==
  ASSUME NEW s, s.parts \in Seq(AnyPart), NEW x \in Nat
  PROVE  LET y == PassForward(s, x) IN
         /\ y \in Nat
         /\ y = x => NextClear(s, x) = x
         /\ y # x => x < y /\ NextClear(s, x) = NextClear(s, y)
<1> DEFINE y == PassForward(s, x)
<1>1. /\ y \in Nat /\ x <= y /\ \A z \in x..y - 1 : ~Clear(s, z)
      /\ y = x => Clear(s, x)
  BY ForwardIs
<1> HIDE DEF y
<1>2. CASE y = x
  BY <1>1, <1>2, NextClearUnique DEF y
<1>3. CASE y # x
  <2> DEFINE m == NextClear(s, y)
  <2>1. m \in Nat /\ y <= m /\ Clear(s, m) /\ \A z \in y..m - 1 : ~Clear(s, z)
    BY <1>1, NextClearIs
  <2> HIDE DEF m
  <2>2. x <= m /\ \A z \in x..m - 1 : ~Clear(s, z)
    BY <1>1, <2>1
  <2>3. NextClear(s, x) = m
    BY <2>1, <2>2, NextClearUnique
  <2> QED BY <1>1, <1>3, <2>3 DEF m, y
<1> QED BY <1>2, <1>3

\* FindFirstAvailable(), whose passes go on until one changes nothing, finds
\* the first clear sector from 'start' on, or 0 if that is not usable.
LEMMA FirstAvailableIs ==
  ASSUME NEW s, s.parts \in Seq(AnyPart), s.first \in Nat, NEW start \in Nat
  PROVE  FindFirstAvailable(s, start) =
           LET first == NextClear(s, IF start < s.first THEN s.first ELSE start)
           IN  IF first > s.last THEN 0 ELSE first
<1> DEFINE Is(f) == f = [x \in Nat |-> LET y == PassForward(s, x) IN IF y = x THEN x ELSE f[y]]
           F == CHOOSE f : Is(f)
           from == IF start < s.first THEN s.first ELSE start
           G == [x \in Nat |-> NextClear(s, x)]
<1>1. FindFirstAvailable(s, start) = IF F[from] > s.last THEN 0 ELSE F[from]
  BY DEF FindFirstAvailable
<1>2. Is(G)
  <2>1. ASSUME NEW x \in Nat
        PROVE  NextClear(s, x) = LET y == PassForward(s, x) IN IF y = x THEN x ELSE G[y]
    <3>1. PassForward(s, x) \in Nat
      BY NextAfterPass
    <3>2. G[PassForward(s, x)] = NextClear(s, PassForward(s, x))
      BY <3>1
    <3> HIDE DEF G
    <3> QED BY <3>2, NextAfterPass
  <2> QED BY <2>1
<1>3. Is(F)
  <2> HIDE DEF Is
  <2> QED BY <1>2
<1> HIDE DEF F
<1> DEFINE T == {d \in Nat : \E x \in Nat : NextClear(s, x) = x + d /\ F[x] # NextClear(s, x)}
<1>4. T = {}
  <2>1. SUFFICES ASSUME T # {} PROVE FALSE
    OBVIOUS
  <2>2. PICK d \in T : \A k \in T : d <= k
    <3> HIDE DEF T
    <3> QED BY <2>1, LeastNumber DEF T
  <2>3. PICK x \in Nat : NextClear(s, x) = x + d /\ F[x] # NextClear(s, x)
    BY <2>2
  <2> DEFINE y == PassForward(s, x)
  <2>4. y \in Nat /\ y # x /\ x < y /\ NextClear(s, x) = NextClear(s, y) /\ F[x] = F[y]
    BY <1>3, <2>3, NextAfterPass
  <2>5. NextClear(s, y) \in Nat /\ y <= NextClear(s, y)
    BY <2>4, NextClearIs
  <2> HIDE DEF y
  <2> DEFINE e == NextClear(s, y) - y
  <2>6. e \in Nat /\ NextClear(s, y) = y + e /\ e < d
    BY <2>2, <2>3, <2>4, <2>5
  <2>7. e \in T
    BY <2>3, <2>4, <2>6
  <2> QED BY <2>2, <2>6, <2>7
<1>5. from \in Nat
  OBVIOUS
<1>6. F[from] = NextClear(s, from)
  <2> DEFINE d == NextClear(s, from) - from
  <2>1. NextClear(s, from) \in Nat /\ from <= NextClear(s, from)
    BY <1>5, NextClearIs
  <2> HIDE DEF from
  <2>2. d \in Nat /\ NextClear(s, from) = from + d
    BY <1>5, <2>1
  <2> QED BY <1>4, <1>5, <2>2
<1> QED BY <1>1, <1>6

-----------------------------------------------------------------------------
(* The search from the other end.  It needs used partitions to begin at     *)
(* sector 2 or later, as behind an MBR and a GPT header: at sector 0 an      *)
(* unused entry would count as a partition.                                  *)

BehindHeaders(s) == \A i \in DOMAIN s.parts : IsUsed(s.parts[i]) => s.parts[i].first >= 2

LEMMA BackwardIs ==
  ASSUME NEW s, s.parts \in Seq(AnyPart), BehindHeaders(s), NEW last \in Nat, last >= 1
  PROVE  LET x == PassBackward(s, last) IN
         /\ x \in Nat /\ 1 <= x /\ x <= last
         /\ \A y \in x + 1..last : ~Clear(s, y)
         /\ x = last => Clear(s, last)
<1> DEFINE N == Len(s.parts)
           g == BackwardStep(s)
           Held(k, y) == Holds(s.parts[k], y)
<1>1. PICK h : Steps(h, N, last, Nat, g) /\ PassBackward(s, last) = h[N]
  BY BackwardSteps
<1>2. N \in Nat /\ DOMAIN s.parts = 1..N
  OBVIOUS
<1>3. ASSUME NEW k \in 1..N
      PROVE  /\ h[k] \in Nat /\ h[k - 1] \in Nat /\ s.parts[k] \in AnyPart
             /\ h[k] = IF Held(k, h[k - 1]) THEN Minus(s.parts[k].first, 1) ELSE h[k - 1]
  <2>1. k - 1 \in 0..N /\ k \in 0..N /\ s.parts[k] \in AnyPart
    BY <1>2
  <2>2. h[k - 1] \in Nat /\ h[k] \in Nat /\ h[k] = g[<<k, h[k - 1]>>]
    BY <1>1, <2>1 DEF Steps
  <2> QED BY <2>1, <2>2 DEF BackwardStep
\* Above sector 0, only used entries hold anything.
<1>4. ASSUME NEW k \in 1..N, NEW y \in Nat, y >= 1, Held(k, y)
      PROVE  IsUsed(s.parts[k]) /\ s.parts[k].first >= 2
  <2>1. IsUsed(s.parts[k])
    BY <1>4 DEF IsUsed, Unused, Holds
  <2> QED BY <1>2, <2>1 DEF BehindHeaders
<1> DEFINE S == {k \in 0..N : /\ 1 <= h[k] /\ h[k] <= last
                              /\ \A y \in h[k] + 1..last : ~Clear(s, y)
                              /\ h[k] = last => \A i \in 1..k : ~Held(i, last)}
<1>5. 0 \in S
  BY <1>1, <1>2 DEF Steps
<1>6. ASSUME NEW n \in 0..N - 1, n \in S PROVE n + 1 \in S
  <2>1. n + 1 \in 1..N /\ (n + 1) - 1 = n
    BY <1>2
  <2>2. /\ h[n + 1] \in Nat /\ h[n] \in Nat /\ s.parts[n + 1] \in AnyPart
        /\ h[n + 1] = IF Held(n + 1, h[n]) THEN Minus(s.parts[n + 1].first, 1) ELSE h[n]
    BY <1>3, <2>1
  <2>3. /\ 1 <= h[n] /\ h[n] <= last /\ \A y \in h[n] + 1..last : ~Clear(s, y)
        /\ h[n] = last => \A i \in 1..n : ~Held(i, last)
    BY <1>6
  <2>4. CASE ~Held(n + 1, h[n])
    <3>1. h[n + 1] = h[n]
      BY <2>2, <2>4
    <3>2. h[n] = last => \A i \in 1..n + 1 : ~Held(i, last)
      <4> HIDE DEF Held
      <4> QED BY <2>3, <2>4
    <3> HIDE DEF Held
    <3> QED BY <2>1, <2>3, <3>1, <3>2
  <2>5. CASE Held(n + 1, h[n])
    <3>1. IsUsed(s.parts[n + 1]) /\ s.parts[n + 1].first >= 2
      BY <1>4, <2>1, <2>2, <2>3, <2>5
    <3>2. h[n + 1] = s.parts[n + 1].first - 1 /\ h[n + 1] < h[n] /\ h[n + 1] >= 1
      BY <2>2, <2>5, <3>1 DEF Holds, AnyPart, Minus
    <3>3. ASSUME NEW y \in h[n + 1] + 1..last PROVE ~Clear(s, y)
      <4>1. CASE y > h[n]
        BY <2>2, <2>3, <4>1
      <4>2. CASE ~(y > h[n])
        <5>1. Held(n + 1, y)
          BY <2>2, <2>5, <3>2, <4>2 DEF Holds, AnyPart
        <5> QED BY <1>2, <2>1, <3>1, <5>1 DEF Clear
      <4> QED BY <4>1, <4>2
    <3>4. h[n + 1] <= last /\ h[n + 1] # last
      BY <2>2, <2>3, <3>2
    <3> HIDE DEF Held
    <3> QED BY <2>1, <3>2, <3>3, <3>4
  <2> QED BY <2>4, <2>5
<1>7. N \in S
  <2>1. 0..N \subseteq S
    <3> HIDE DEF S
    <3> QED BY <1>2, <1>5, <1>6, BoundedInduction
  <2> HIDE DEF S
  <2> QED BY <1>2, <2>1
<1>8. h[N] \in Nat
  BY <1>1, <1>2 DEF Steps
<1>9. h[N] = last => Clear(s, last)
  BY <1>2, <1>7 DEF Clear
<1> QED BY <1>1, <1>7, <1>8, <1>9

\* The last sector up to 'x' that no used partition holds.
LastClear(s, x) == CHOOSE m \in Nat : /\ 1 <= m /\ m <= x /\ Clear(s, m)
                                      /\ \A y \in m + 1..x : ~Clear(s, y)

LEMMA LastClearIs ==
  ASSUME NEW s, s.parts \in Seq(AnyPart), BehindHeaders(s), NEW x \in Nat, x >= 1
  PROVE  LET m == LastClear(s, x) IN
         m \in Nat /\ 1 <= m /\ m <= x /\ Clear(s, m) /\ \A y \in m + 1..x : ~Clear(s, y)
<1> DEFINE T == {d \in Nat : d < x /\ Clear(s, x - d)}
<1>1. T # {}
  <2>1. Clear(s, 1)
    <3>1. ASSUME NEW i \in DOMAIN s.parts, IsUsed(s.parts[i]) PROVE ~Holds(s.parts[i], 1)
      BY <3>1, EntryType DEF Holds, BehindHeaders
    <3> QED BY <3>1 DEF Clear
  <2>2. x - 1 \in Nat /\ x - 1 < x /\ x - (x - 1) = 1
    OBVIOUS
  <2>3. Clear(s, x - (x - 1))
    BY <2>1, <2>2
  <2> QED BY <2>2, <2>3
<1>2. PICK d \in T : \A k \in T : d <= k
  <2> HIDE DEF T
  <2> QED BY <1>1, LeastNumber DEF T
<1> DEFINE m == x - d
<1>3. m \in Nat /\ 1 <= m /\ m <= x /\ Clear(s, m)
  BY <1>2
<1>4. ASSUME NEW y \in m + 1..x PROVE ~Clear(s, y)
  <2>1. SUFFICES ASSUME Clear(s, y) PROVE FALSE
    OBVIOUS
  <2>2. x - y \in Nat /\ x - y < x /\ x - y < d /\ x - (x - y) = y
    BY <1>2, <1>3
  <2>3. Clear(s, x - (x - y))
    BY <2>1, <2>2
  <2>4. x - y \in T
    BY <2>2, <2>3
  <2> QED BY <1>2, <2>2, <2>4
<1> HIDE DEF m
<1> QED BY <1>3, <1>4 DEF LastClear

LEMMA LastClearUnique ==
  ASSUME NEW s, s.parts \in Seq(AnyPart), BehindHeaders(s), NEW x \in Nat,
         NEW m \in Nat, 1 <= m, m <= x, Clear(s, m), \A y \in m + 1..x : ~Clear(s, y)
  PROVE  LastClear(s, x) = m
<1> DEFINE n == LastClear(s, x)
<1>1. n \in Nat /\ 1 <= n /\ n <= x /\ Clear(s, n) /\ \A y \in n + 1..x : ~Clear(s, y)
  BY LastClearIs
<1> HIDE DEF n
<1>2. ~(n < m) /\ ~(m < n)
  BY <1>1
<1> QED BY <1>1, <1>2 DEF n

LEMMA LastAfterPass ==
  ASSUME NEW s, s.parts \in Seq(AnyPart), BehindHeaders(s), NEW x \in Nat, x >= 1
  PROVE  LET y == PassBackward(s, x) IN
         /\ y \in Nat /\ y >= 1
         /\ y = x => LastClear(s, x) = x
         /\ y # x => y < x /\ LastClear(s, x) = LastClear(s, y)
<1> DEFINE y == PassBackward(s, x)
<1>1. /\ y \in Nat /\ 1 <= y /\ y <= x /\ \A z \in y + 1..x : ~Clear(s, z)
      /\ y = x => Clear(s, x)
  BY BackwardIs
<1> HIDE DEF y
<1>2. CASE y = x
  BY <1>1, <1>2, LastClearUnique DEF y
<1>3. CASE y # x
  <2> DEFINE m == LastClear(s, y)
  <2>1. m \in Nat /\ 1 <= m /\ m <= y /\ Clear(s, m) /\ \A z \in m + 1..y : ~Clear(s, z)
    BY <1>1, LastClearIs
  <2> HIDE DEF m
  <2>2. m <= x /\ \A z \in m + 1..x : ~Clear(s, z)
    BY <1>1, <2>1
  <2>3. LastClear(s, x) = m
    BY <2>1, <2>2, LastClearUnique
  <2> QED BY <1>1, <1>3, <2>3 DEF m, y
<1> QED BY <1>2, <1>3

\* FindLastAvailable() finds the last clear sector of the usable ones, or 0.
LEMMA LastAvailableIs ==
  ASSUME NEW s, s.parts \in Seq(AnyPart), BehindHeaders(s), s.last \in Nat, s.last >= 1
  PROVE  FindLastAvailable(s) =
           LET last == LastClear(s, s.last) IN IF last < s.first THEN 0 ELSE last
<1> DEFINE Is(f) == f = [x \in Nat |-> LET y == PassBackward(s, x) IN IF y = x THEN x ELSE f[y]]
           F == CHOOSE f : Is(f)
           y0 == PassBackward(s, 0)
           G == [x \in Nat |-> IF x >= 1 THEN LastClear(s, x)
                               ELSE IF y0 = 0 THEN 0 ELSE LastClear(s, y0)]
<1>1. FindLastAvailable(s) = IF F[s.last] < s.first THEN 0 ELSE F[s.last]
  BY DEF FindLastAvailable
<1>2. y0 \in Nat
  <2>1. PICK h : Steps(h, Len(s.parts), 0, Nat, BackwardStep(s)) /\ y0 = h[Len(s.parts)]
    BY BackwardSteps
  <2> QED BY <2>1 DEF Steps
<1>3. Is(G)
  <2>1. ASSUME NEW x \in Nat
        PROVE  G[x] = LET y == PassBackward(s, x) IN IF y = x THEN x ELSE G[y]
    <3>1. CASE x >= 1
      <4> DEFINE y == PassBackward(s, x)
      <4>1. /\ y \in Nat /\ y >= 1
            /\ y = x => LastClear(s, x) = x
            /\ y # x => LastClear(s, x) = LastClear(s, y)
        BY <3>1, LastAfterPass
      <4> HIDE DEF y
      <4>2. G[x] = LastClear(s, x) /\ G[y] = LastClear(s, y)
        BY <3>1, <4>1
      <4> HIDE DEF G
      <4>3. G[x] = IF y = x THEN x ELSE G[y]
        BY <4>1, <4>2
      <4> QED BY <4>3 DEF y
    <3>2. CASE x = 0
      <4>1. CASE y0 = 0
        BY <3>2, <4>1
      <4>2. CASE y0 # 0
        <5>1. y0 \in Nat /\ y0 >= 1
          BY <1>2, <4>2
        <5>2. G[0] = LastClear(s, y0) /\ G[y0] = LastClear(s, y0)
          <6> HIDE DEF y0
          <6> QED BY <5>1
        <5> HIDE DEF G
        <5> QED BY <3>2, <4>2, <5>2
      <4> QED BY <4>1, <4>2
    <3> QED BY <3>1, <3>2
  <2>2. G = [x \in Nat |-> G[x]]
    OBVIOUS
  <2> HIDE DEF G
  <2> QED BY <2>1, <2>2
<1>4. Is(F)
  <2> HIDE DEF Is
  <2> QED BY <1>3
<1> HIDE DEF F
<1> DEFINE T == {x \in Nat : x >= 1 /\ F[x] # LastClear(s, x)}
<1>5. T = {}
  <2>1. SUFFICES ASSUME T # {} PROVE FALSE
    OBVIOUS
  <2>2. PICK x \in T : \A k \in T : x <= k
    <3> HIDE DEF T
    <3> QED BY <2>1, LeastNumber DEF T
  <2> DEFINE y == PassBackward(s, x)
  <2>3. /\ y \in Nat /\ y >= 1
        /\ y = x => LastClear(s, x) = x
        /\ y # x => y < x /\ LastClear(s, x) = LastClear(s, y)
    BY <2>2, LastAfterPass
  <2>4. F[x] = IF y = x THEN x ELSE F[y]
    BY <1>4, <2>2
  <2> HIDE DEF y
  <2>5. y # x /\ F[y] # LastClear(s, y)
    BY <2>2, <2>3, <2>4
  <2>6. y \in T
    BY <2>3, <2>5
  <2> QED BY <2>2, <2>3, <2>5, <2>6
<1>6. F[s.last] = LastClear(s, s.last)
  BY <1>5
<1> QED BY <1>1, <1>6

-----------------------------------------------------------------------------
(* Align().                                                                *)

LEMMA AlignType ==
  ASSUME NEW s, s.align \in Nat \ {0}, NEW sector \in Nat
  PROVE  Align(s, sector) \in Nat
<1> DEFINE d == sector \div s.align
           earlier == d * s.align
<1>1. d \in Nat
  OBVIOUS
<1>2. earlier \in Nat /\ earlier + s.align \in Nat
  BY <1>1
<1>3. Align(s, sector) \in {sector, earlier, earlier + s.align}
  BY DEF Align
<1> QED BY <1>2, <1>3

\* An aligned sector, if it moved, moved over free sectors only.
LEMMA AlignIs ==
  ASSUME NEW s, s.align \in Nat \ {0}, NEW sector \in Nat, IsFree(s, sector)
  PROVE  LET aligned == Align(s, sector) IN
         /\ aligned \in Nat
         /\ \A x \in sector..aligned : IsFree(s, x)
         /\ \A x \in aligned..sector : IsFree(s, x)
<1> DEFINE d == sector \div s.align
           earlier == d * s.align
           later == earlier + s.align
<1>1. d \in Nat
  OBVIOUS
<1>2. earlier \in Nat /\ later \in Nat
  BY <1>1
<1>3. Align(s, sector) =
        IF sector % s.align = 0 THEN sector
        ELSE IF earlier >= s.first /\ \A x \in earlier..(sector - 1) : IsFree(s, x) THEN earlier
        ELSE IF later <= s.last /\ \A x \in (sector + 1)..later : IsFree(s, x) THEN later
        ELSE sector
  BY DEF Align
<1> HIDE DEF d, earlier, later
<1>4. CASE Align(s, sector) = sector
  BY <1>4
<1>5. CASE /\ Align(s, sector) = earlier
           /\ \A x \in earlier..(sector - 1) : IsFree(s, x)
  <2>1. \A x \in earlier..sector : x \in earlier..(sector - 1) \/ x = sector
    BY <1>2
  <2>2. \A x \in sector..earlier : x \in earlier..sector \/ x = sector \/ earlier > sector
    BY <1>2
  <2>3. earlier <= sector
    BY <1>1 DEF earlier, d
  <2>4. \A x \in sector..earlier : x = sector
    BY <1>2, <2>3
  <2> QED BY <1>2, <1>5, <2>1, <2>4
<1>6. CASE /\ Align(s, sector) = later
           /\ \A x \in (sector + 1)..later : IsFree(s, x)
  <2>1. \A x \in sector..later : x \in (sector + 1)..later \/ x = sector
    BY <1>2
  <2>2. later >= sector
    BY <1>1 DEF later, earlier, d
  <2>3. \A x \in later..sector : x = sector
    BY <1>2, <2>2
  <2> QED BY <1>2, <1>6, <2>1, <2>3
<1> QED BY <1>3, <1>4, <1>5, <1>6

\* Align() moves a sector up only if the one behind it is free.
LEMMA AlignUp ==
  ASSUME NEW s, s.align \in Nat \ {0}, NEW sector \in Nat, Align(s, sector) > sector
  PROVE  IsFree(s, sector + 1) /\ Align(s, sector) <= s.last
<1> DEFINE d == sector \div s.align
           earlier == d * s.align
           later == earlier + s.align
<1>0. d \in Nat
  OBVIOUS
<1>1. earlier \in Nat /\ later \in Nat /\ earlier <= sector /\ later > earlier
  <2>1. earlier \in Nat
    BY <1>0
  <2>2. earlier <= sector
    BY <1>0
  <2> HIDE DEF earlier
  <2> QED BY <2>1, <2>2
<1>2. Align(s, sector) =
        IF sector % s.align = 0 THEN sector
        ELSE IF earlier >= s.first /\ \A x \in earlier..(sector - 1) : IsFree(s, x) THEN earlier
        ELSE IF later <= s.last /\ \A x \in (sector + 1)..later : IsFree(s, x) THEN later
        ELSE sector
  BY DEF Align
<1> HIDE DEF d, earlier, later
<1>3. /\ Align(s, sector) = later /\ later <= s.last
      /\ \A x \in (sector + 1)..later : IsFree(s, x)
  BY <1>1, <1>2
<1>4. sector + 1 \in (sector + 1)..later
  BY <1>1, <1>3
<1> QED BY <1>3, <1>4

-----------------------------------------------------------------------------
(* The list of spaces.                                                     *)

\* In a finite set that R orders, every rank is taken exactly once.
LEMMA Ranks ==
  ASSUME NEW S, IsFiniteSet(S), NEW R,
         \A p \in S : <<p, p>> \notin R,
         \A p, q \in S : p # q => <<p, q>> \in R \/ <<q, p>> \in R,
         \A p, q, r \in S : <<p, q>> \in R /\ <<q, r>> \in R => <<p, r>> \in R
  PROVE  LET rank(p) == Cardinality({q \in S : <<q, p>> \in R})
         IN  /\ Cardinality(S) \in Nat
             /\ \A p \in S : rank(p) \in Nat /\ rank(p) < Cardinality(S)
             /\ \A p, q \in S : <<p, q>> \in R => rank(p) < rank(q)
             /\ \A i \in 1..Cardinality(S) : \E p \in S : rank(p) = i - 1
<1> DEFINE N == Cardinality(S)
           InFront(p) == {q \in S : <<q, p>> \in R}
           rank(p) == Cardinality(InFront(p))
           f == [p \in S |-> rank(p) + 1]
<1>1. N \in Nat
  BY FS_CardinalityType
<1>2. ASSUME NEW p \in S
      PROVE  IsFiniteSet(InFront(p)) /\ rank(p) \in Nat /\ rank(p) < N
  <2> HIDE DEF N
  <2>1. InFront(p) \in SUBSET S /\ InFront(p) # S
    OBVIOUS
  <2>2. /\ IsFiniteSet(InFront(p)) /\ rank(p) <= Cardinality(S)
        /\ Cardinality(S) # rank(p)
    BY <2>1, FS_Subset
  <2>3. rank(p) \in Nat
    BY <2>2, FS_CardinalityType
  <2> HIDE DEF rank
  <2> QED BY <1>1, <2>2, <2>3 DEF N
<1>3. ASSUME NEW p \in S, NEW q \in S, <<p, q>> \in R
      PROVE  rank(p) < rank(q)
  <2>1. InFront(p) \in SUBSET InFront(q) /\ InFront(p) # InFront(q)
    BY <1>3
  <2>2. rank(p) <= rank(q) /\ rank(p) # rank(q)
    <3> HIDE DEF InFront
    <3> QED BY <1>2, <2>1, FS_Subset
  <2>3. rank(p) \in Nat /\ rank(q) \in Nat
    BY <1>2
  <2> HIDE DEF rank
  <2> QED BY <2>2, <2>3
<1>4. f \in Injection(S, 1..N)
  <2>1. f \in [S -> 1..N]
    <3>1. ASSUME NEW p \in S PROVE rank(p) + 1 \in 1..N
      <4>1. rank(p) \in Nat /\ rank(p) < N
        BY <1>2
      <4> HIDE DEF rank, N
      <4> QED BY <1>1, <4>1
    <3> HIDE DEF rank, N
    <3> QED BY <3>1
  <2>2. ASSUME NEW p \in S, NEW q \in S, p # q PROVE f[p] # f[q]
    <3>1. rank(p) < rank(q) \/ rank(q) < rank(p)
      <4> HIDE DEF rank
      <4> QED BY <1>3, <2>2
    <3>2. rank(p) \in Nat /\ rank(q) \in Nat
      BY <1>2
    <3> HIDE DEF rank
    <3> QED BY <3>1, <3>2
  <2> HIDE DEF f
  <2> QED BY <2>1, <2>2 DEF Injection, IsInjective
<1>5. IsFiniteSet(1..N) /\ Cardinality(1..N) = N
  BY <1>1, FS_Interval
<1>6. f \in Surjection(S, 1..N)
  <2>1. IsFiniteSet(1..N) /\ Cardinality(S) = Cardinality(1..N)
    BY <1>5
  <2> HIDE DEF f, N
  <2> QED BY <1>4, <2>1, FS_Injection
<1>7. ASSUME NEW i \in 1..N PROVE \E p \in S : rank(p) = i - 1
  <2>1. PICK p \in S : f[p] = i
    <3> HIDE DEF f, N
    <3> QED BY <1>6, <1>7 DEF Surjection
  <2>2. rank(p) + 1 = i /\ rank(p) \in Nat /\ i \in Int
    BY <1>2, <2>1
  <2>3. rank(p) = i - 1
    <3> HIDE DEF rank
    <3> QED BY <2>2
  <2> QED BY <2>3
<1> HIDE DEF f
<1> QED BY <1>1, <1>2, <1>3, <1>7

ListedSpace == [first: Int, last: Int, num: Nat]

\* MakeSpacesFromParts() and SortSpaces() list every used partition in the
\* order of their first sectors.
LEMMA PartSpaces ==
  ASSUME NEW s, s.parts \in Seq(AnyPart)
  PROVE  LET list == SpacesFromParts(s) IN
         /\ list \in Seq(ListedSpace)
         /\ \A i \in 1..Len(list) :
              \E n \in DOMAIN s.parts :
                IsUsed(s.parts[n]) /\ list[i] = SpaceOf(s.parts[n].first, s.parts[n].last, n)
         /\ \A n \in DOMAIN s.parts : IsUsed(s.parts[n]) =>
              \E i \in 1..Len(list) : list[i] = SpaceOf(s.parts[n].first, s.parts[n].last, n)
         /\ \A i, k \in 1..Len(list) :
              i < k => list[i].first <= list[k].first /\ list[i].num # list[k].num
<1> DEFINE used == {n \in DOMAIN s.parts : IsUsed(s.parts[n])}
           The(n) == SpaceOf(s.parts[n].first, s.parts[n].last, n)
           spaces == {The(n) : n \in used}
           Before(p, q) == p.first < q.first \/ (p.first = q.first /\ p.num < q.num)
           R == {x \in spaces \X spaces : Before(x[1], x[2])}
           Rank(p) == Cardinality({q \in spaces : <<q, p>> \in R})
           N == Cardinality(spaces)
           At(i) == CHOOSE p \in spaces : Rank(p) = i - 1
           list == SpacesFromParts(s)
<1>1. list = [i \in 1..N |-> At(i)]
  <2>1. ASSUME NEW p \in spaces
        PROVE  {q \in spaces : Before(q, p)} = {q \in spaces : <<q, p>> \in R}
    OBVIOUS
  <2>2. \A i \in 1..N : (CHOOSE p \in spaces : Cardinality({q \in spaces : Before(q, p)}) = i - 1) = At(i)
    <3> HIDE DEF spaces, R, Before
    <3> QED BY <2>1
  <2>3. list = [i \in 1..N |-> CHOOSE p \in spaces : Cardinality({q \in spaces : Before(q, p)}) = i - 1]
    BY DEF SpacesFromParts
  <2> HIDE DEF list, N, spaces, At, Before
  <2> QED BY <2>2, <2>3
<1>2. ASSUME NEW n \in used
      PROVE  /\ The(n) \in ListedSpace /\ The(n).num = n /\ n \in Nat
             /\ The(n).first = s.parts[n].first /\ The(n).last = s.parts[n].last
             /\ s.parts[n].first \in Nat
  <2>1. n \in Nat /\ s.parts[n].first \in Nat /\ s.parts[n].last \in Nat
    BY EntryType
  <2> QED BY <2>1 DEF SpaceOf, ListedSpace
<1>3. ASSUME NEW p \in spaces
      PROVE  /\ p.num \in used /\ p = The(p.num) /\ p \in ListedSpace
             /\ p.first \in Nat /\ p.num \in Nat
  <2>1. PICK n \in used : p = The(n)
    OBVIOUS
  <2> HIDE DEF used, The
  <2> QED BY <1>2, <2>1
<1>4. IsFiniteSet(spaces)
  <2>1. IsFiniteSet(DOMAIN s.parts)
    <3>1. DOMAIN s.parts = 1..Len(s.parts) /\ Len(s.parts) \in Nat
      OBVIOUS
    <3> QED BY <3>1, FS_Interval
  <2>2. IsFiniteSet(used)
    BY <2>1, FS_Subset
  <2> DEFINE f == [n \in used |-> The(n)]
  <2>3. f \in Surjection(used, spaces)
    BY DEF Surjection
  <2> HIDE DEF f, used, spaces
  <2> QED BY <2>2, <2>3, FS_Surjection
<1>5. /\ \A p \in spaces : <<p, p>> \notin R
      /\ \A p, q \in spaces : p # q => <<p, q>> \in R \/ <<q, p>> \in R
      /\ \A p, q, r \in spaces : <<p, q>> \in R /\ <<q, r>> \in R => <<p, r>> \in R
  <2>1. \A p, q \in spaces : p # q => p.num # q.num
    <3> HIDE DEF spaces, The, used
    <3> QED BY <1>3
  <2>2. \A p \in spaces : p.first \in Nat /\ p.num \in Nat
    BY <1>3
  <2> HIDE DEF spaces
  <2> QED BY <2>1, <2>2
<1>6. /\ N \in Nat
      /\ \A p \in spaces : Rank(p) \in Nat /\ Rank(p) < N
      /\ \A p, q \in spaces : <<p, q>> \in R => Rank(p) < Rank(q)
      /\ \A i \in 1..N : \E p \in spaces : Rank(p) = i - 1
  <2> HIDE DEF spaces, R
  <2> QED BY <1>4, <1>5, Ranks
<1> HIDE DEF list, Rank
<1>7. ASSUME NEW i \in 1..N
      PROVE  At(i) \in spaces /\ Rank(At(i)) = i - 1
  <2> HIDE DEF spaces
  <2> QED BY <1>6
<1> HIDE DEF At
<1>8. list \in [1..N -> ListedSpace]
  <2>1. ASSUME NEW i \in 1..N PROVE At(i) \in ListedSpace
    <3> HIDE DEF spaces, N
    <3> QED BY <1>3, <1>7
  <2> HIDE DEF spaces, N
  <2> QED BY <1>1, <2>1
<1>9. list \in Seq(ListedSpace) /\ Len(list) = N
  <2>1. N \in Nat
    BY <1>6
  <2> HIDE DEF N
  <2> QED BY <1>8, <2>1
<1>10. ASSUME NEW i \in 1..N
       PROVE  \E n \in DOMAIN s.parts : IsUsed(s.parts[n]) /\ list[i] = The(n)
  <2>1. list[i] = At(i)
    BY <1>1
  <2> HIDE DEF spaces, N, The
  <2>2. list[i].num \in used /\ list[i] = The(list[i].num)
    BY <1>3, <1>7, <2>1
  <2> QED BY <2>2
<1>11. ASSUME NEW n \in used PROVE \E i \in 1..N : list[i] = The(n)
  <2>1. The(n) \in spaces
    OBVIOUS
  <2> DEFINE p == The(n)
             i == Rank(p) + 1
  <2> HIDE DEF p
  <2>2. i \in 1..N /\ Rank(p) = i - 1
    <3>1. Rank(p) \in Nat /\ Rank(p) < N /\ N \in Nat
      BY <1>6, <2>1 DEF p
    <3> HIDE DEF N
    <3> QED BY <3>1
  <2> HIDE DEF i
  <2>3. At(i) = p
    <3>1. At(i) \in spaces /\ Rank(At(i)) = Rank(p) /\ p \in spaces
      BY <1>7, <2>1, <2>2 DEF p
    <3>2. SUFFICES ASSUME At(i) # p PROVE FALSE
      OBVIOUS
    <3>3. <<At(i), p>> \in R \/ <<p, At(i)>> \in R
      <4> HIDE DEF R, spaces
      <4> QED BY <1>5, <3>1, <3>2
    <3>4. Rank(At(i)) < Rank(p) \/ Rank(p) < Rank(At(i))
      <4> HIDE DEF R, spaces
      <4> QED BY <1>6, <3>1, <3>3
    <3>5. Rank(p) \in Nat
      BY <1>6, <2>1 DEF p
    <3> QED BY <3>1, <3>4, <3>5
  <2>4. list[i] = p
    <3> HIDE DEF N, spaces
    <3> QED BY <1>1, <2>2, <2>3
  <2> HIDE DEF N
  <2> QED BY <2>2, <2>4 DEF p
<1>12. ASSUME NEW i \in 1..N, NEW k \in 1..N, i < k
       PROVE  list[i].first <= list[k].first /\ list[i].num # list[k].num
  <2> DEFINE p == At(i)
             q == At(k)
  <2>1. p \in spaces /\ q \in spaces /\ Rank(p) = i - 1 /\ Rank(q) = k - 1
    BY <1>7
  <2>2. list[i] = p /\ list[k] = q
    BY <1>1
  <2> HIDE DEF p, q
  <2>3. Rank(p) < Rank(q) /\ Rank(p) \in Nat /\ Rank(q) \in Nat
    <3>1. i \in Int /\ k \in Int
      BY <1>6
    <3> HIDE DEF N
    <3>2. i - 1 \in Int /\ k - 1 \in Int /\ i - 1 < k - 1
      BY <1>12, <3>1
    <3> QED BY <1>6, <2>1, <3>2
  <2>4. p # q
    BY <2>3
  <2>5. <<p, q>> \in R
    <3> HIDE DEF R, spaces, N
    <3>1. ~(<<q, p>> \in R)
      <4>1. <<q, p>> \in R => Rank(q) < Rank(p)
        BY <1>6, <2>1
      <4> QED BY <2>3, <4>1
    <3> QED BY <1>5, <2>1, <2>4, <3>1
  <2>6. Before(p, q) /\ p.first \in Nat /\ q.first \in Nat /\ p.num \in Nat /\ q.num \in Nat
    BY <1>3, <2>1, <2>5
  <2>7. p.first <= q.first
    BY <2>6
  <2>8. p.num # q.num
    <3> HIDE DEF spaces, The, used
    <3> QED BY <1>3, <2>1, <2>4
  <2> QED BY <2>2, <2>7, <2>8
<1> HIDE DEF spaces
<1> QED BY <1>9, <1>10, <1>11, <1>12 DEF list

\* IdentifySpaces() as the steps that AddEmptySpaces() takes.
Behind(s, list) == IF list = <<>> THEN s.first ELSE list[Len(list)].last + 1

SpacesStep(s) ==
  LET list == SpacesFromParts(s)
  IN  [x \in (1..Len(list)) \X Seq(ListedSpace) |->
         x[2] \o EmptySpace(Behind(s, x[2]), list[x[1]].first - 1) \o <<list[x[1]]>>]

LEMMA EmptySpaceType ==
  ASSUME NEW a \in Int, NEW b \in Int
  PROVE  /\ EmptySpace(a, b) \in Seq(ListedSpace)
         /\ a <= b => EmptySpace(a, b) = <<SpaceOf(a, b, 0)>>
         /\ a > b => EmptySpace(a, b) = <<>>
<1>1. SpaceOf(a, b, 0) \in ListedSpace
  BY DEF SpaceOf, ListedSpace
<1>2. <<SpaceOf(a, b, 0)>> \in Seq(ListedSpace) /\ <<>> \in Seq(ListedSpace)
  BY <1>1
<1>3. EmptySpace(a, b) = IF a <= b THEN <<SpaceOf(a, b, 0)>> ELSE <<>>
  BY DEF EmptySpace
<1> QED BY <1>2, <1>3

LEMMA BehindType ==
  ASSUME NEW s, s.first \in Nat, NEW list \in Seq(ListedSpace)
  PROVE  Behind(s, list) \in Int
<1>1. ASSUME list # <<>> PROVE list[Len(list)].last \in Int
  <2>1. Len(list) \in DOMAIN list
    BY <1>1
  <2>2. list[Len(list)] \in ListedSpace
    BY <2>1
  <2> QED BY <2>2 DEF ListedSpace
<1> QED BY <1>1 DEF Behind

LEMMA SpacesSteps ==
  ASSUME NEW s, s.parts \in Seq(AnyPart), s.first \in Nat
  PROVE  LET list == SpacesFromParts(s) IN
         \E h : /\ Steps(h, Len(list), <<>>, Seq(ListedSpace), SpacesStep(s))
                /\ IdentifySpaces(s) =
                     IF h[Len(list)] = <<>> THEN <<SpaceOf(s.first, s.last, 0)>>
                     ELSE h[Len(list)] \o EmptySpace(Behind(s, h[Len(list)]), s.last)
<1> DEFINE list == SpacesFromParts(s)
           N == Len(list)
           V == Seq(ListedSpace)
           b == <<>>
           g == SpacesStep(s)
           op(x, p) == x \o EmptySpace(Behind(s, x), p.first - 1) \o <<p>>
           Is(f) == f = [I \in SUBSET (DOMAIN list) |->
                           IF I = {} THEN b ELSE op(f[I \ {Max(I)}], list[Max(I)])]
           F == CHOOSE f : Is(f)
<1>0. list \in V
  BY PartSpaces
<1>1. /\ IdentifySpaces(s) = IF F[1..N] = <<>> THEN <<SpaceOf(s.first, s.last, 0)>>
                             ELSE F[1..N] \o EmptySpace(Behind(s, F[1..N]), s.last)
      /\ DOMAIN list = 1..N /\ N \in Nat
  <2>1. IdentifySpaces(s) = IF F[DOMAIN list] = <<>> THEN <<SpaceOf(s.first, s.last, 0)>>
                            ELSE F[DOMAIN list] \o EmptySpace(Behind(s, F[DOMAIN list]), s.last)
    BY DEF IdentifySpaces, FoldLeft, MapThenFoldSet, Behind
  <2> HIDE DEF list
  <2>2. DOMAIN list = 1..N /\ N \in Nat
    BY <1>0
  <2> HIDE DEF F
  <2> QED BY <2>1, <2>2
<1> HIDE DEF list
<1>2. g \in [(1..N) \X V -> V]
  <2>1. ASSUME NEW i \in 1..N, NEW x \in V PROVE op(x, list[i]) \in V
    <3>1. list[i] \in ListedSpace
      BY <1>0
    <3>2. Behind(s, x) \in Int /\ list[i].first - 1 \in Int
      BY <3>1, BehindType DEF ListedSpace
    <3>3. EmptySpace(Behind(s, x), list[i].first - 1) \in V
      BY <3>2, EmptySpaceType
    <3>4. <<list[i]>> \in V
      BY <3>1
    <3> HIDE DEF V
    <3>5. x \o EmptySpace(Behind(s, x), list[i].first - 1) \in V
      BY <2>1, <3>3, ConcatProperties DEF V
    <3> QED BY <3>4, <3>5, ConcatProperties DEF V
  <2>2. g = [x \in (1..N) \X V |-> op(x[2], list[x[1]])]
    BY DEF SpacesStep, list
  <2> HIDE DEF op, g
  <2> QED BY <2>1, <2>2
<1>3. ASSUME NEW I \in SUBSET (1..N), I # {}, NEW y \in V
      PROVE  g[<<Max(I), y>>] = op(y, list[Max(I)])
  <2>1. Max(I) \in 1..N
    BY <1>1, <1>3, MaxIn
  <2>2. g = [x \in (1..N) \X V |-> op(x[2], list[x[1]])]
    BY DEF SpacesStep, list
  <2> HIDE DEF op, g
  <2> QED BY <1>3, <2>1, <2>2
<1>4. b \in V
  OBVIOUS
<1> HIDE DEF V, b
<1>5. PICK f \in [SUBSET (1..N) -> V] : FoldsBy(f, N, b, g)
  <2> HIDE DEF g, N
  <2> QED BY <1>1, <1>2, <1>4, FoldExists
<1>6. Is(f)
  <2>1. ASSUME NEW I \in SUBSET (1..N), I # {}
        PROVE  g[<<Max(I), f[I \ {Max(I)}]>>] = op(f[I \ {Max(I)}], list[Max(I)])
    <3>1. f[I \ {Max(I)}] \in V
      BY <1>5
    <3> HIDE DEF g, op
    <3> QED BY <1>3, <2>1, <3>1
  <2> HIDE DEF g, op, N
  <2> QED BY <1>1, <1>5, <2>1 DEF FoldsBy
<1>7. Is(F)
  <2> HIDE DEF Is
  <2> QED BY <1>6
<1>8. Follows(F, N, b, V, g)
  <2>1. F[{}] = b
    <3> HIDE DEF F, op, N
    <3> QED BY <1>1, <1>7
  <2>2. ASSUME NEW I \in SUBSET (1..N), I # {}, F[I \ {Max(I)}] \in V
        PROVE  F[I] = g[<<Max(I), F[I \ {Max(I)}]>>]
    <3> HIDE DEF F, op, N, g
    <3> QED BY <1>1, <1>3, <1>7, <2>2
  <2> HIDE DEF F, op, N, g
  <2> QED BY <1>1, <1>2, <1>4, <2>1, <2>2 DEF Follows
<1>9. PICK h : Steps(h, N, b, V, g) /\ h[N] = F[1..N]
  <2> HIDE DEF F, g, N
  <2> QED BY <1>8, FoldSteps
<1> HIDE DEF F, g
<1> QED BY <1>1, <1>9 DEF list, g, V, b

LEMMA ListedType ==
  ASSUME NEW s, s.parts \in Seq(AnyPart), s.first \in Nat, s.last \in Nat
  PROVE  /\ IdentifySpaces(s) \in Seq(ListedSpace)
         /\ \A e \in ToSet(IdentifySpaces(s)) : e \in ListedSpace /\ e.first \in Int /\ e.last \in Int
<1> DEFINE N == Len(SpacesFromParts(s))
           spaces == IdentifySpaces(s)
<1>1. PICK h : /\ Steps(h, N, <<>>, Seq(ListedSpace), SpacesStep(s))
               /\ spaces =
                    IF h[N] = <<>> THEN <<SpaceOf(s.first, s.last, 0)>>
                    ELSE h[N] \o EmptySpace(Behind(s, h[N]), s.last)
  BY SpacesSteps
<1>2. N \in Nat
  BY PartSpaces
<1> DEFINE filled == h[N]
           rest == EmptySpace(Behind(s, filled), s.last)
<1>3. filled \in Seq(ListedSpace)
  BY <1>1, <1>2 DEF Steps
<1>4. rest \in Seq(ListedSpace)
  <2> HIDE DEF filled
  <2>1. Behind(s, filled) \in Int
    BY <1>3, BehindType
  <2>2. \A a, b \in Int : EmptySpace(a, b) \in Seq(ListedSpace)
    BY EmptySpaceType
  <2>3. s.last \in Int
    OBVIOUS
  <2> QED BY <2>1, <2>2, <2>3, Zenon
<1>5. spaces = IF filled = <<>> THEN <<SpaceOf(s.first, s.last, 0)>> ELSE filled \o rest
  BY <1>1
<1>6. filled \o rest \in Seq(ListedSpace)
  <2> HIDE DEF filled, rest
  <2> QED BY <1>3, <1>4, ConcatProperties
<1>7. <<SpaceOf(s.first, s.last, 0)>> \in Seq(ListedSpace)
  <2>1. SpaceOf(s.first, s.last, 0) \in ListedSpace
    BY DEF SpaceOf, ListedSpace
  <2> QED BY <2>1
<1> HIDE DEF spaces, filled, rest
<1>8. spaces \in Seq(ListedSpace)
  BY <1>5, <1>6, <1>7
<1>9. ASSUME NEW e \in ToSet(spaces) PROVE e \in ListedSpace /\ e.first \in Int /\ e.last \in Int
  <2>1. e \in ListedSpace
    BY <1>8 DEF ToSet
  <2> QED BY <2>1 DEF ListedSpace
<1> QED BY <1>8, <1>9 DEF spaces

\* Each step appends the free space in front of a partition, if there is one,
\* and the partition.
LEMMA SpacesGrow ==
  ASSUME NEW s, s.parts \in Seq(AnyPart), s.first \in Nat, NEW h,
         Steps(h, Len(SpacesFromParts(s)), <<>>, Seq(ListedSpace), SpacesStep(s)),
         NEW k \in 1..Len(SpacesFromParts(s))
  PROVE  LET p == SpacesFromParts(s)[k]
             before == h[k - 1]
             from == Behind(s, before)
             to == p.first - 1
         IN  /\ p \in ListedSpace /\ before \in Seq(ListedSpace) /\ h[k] \in Seq(ListedSpace)
             /\ from \in Int /\ to \in Int
             /\ from <= to => h[k] = Append(Append(before, SpaceOf(from, to, 0)), p)
             /\ from > to => h[k] = Append(before, p)
<1> DEFINE list == SpacesFromParts(s)
           N == Len(list)
           V == Seq(ListedSpace)
           p == list[k]
           before == h[k - 1]
           from == Behind(s, before)
           to == p.first - 1
           e == EmptySpace(from, to)
<1>1. list \in V
  BY PartSpaces
<1>2. N \in Nat /\ k \in 1..N /\ p \in ListedSpace /\ k - 1 \in 0..N
  <2>1. k \in 1..N
    OBVIOUS
  <2> HIDE DEF list
  <2> QED BY <1>1, <2>1
<1>3. h \in [0..N -> V] /\ h[k] = SpacesStep(s)[<<k, before>>]
  BY DEF Steps
<1>4. before \in V /\ h[k] \in V
  <2> HIDE DEF V, list
  <2> QED BY <1>2, <1>3
<1>5. from \in Int /\ to \in Int
  <2>1. p.first \in Int
    <3> HIDE DEF p
    <3> QED BY <1>2 DEF ListedSpace
  <2> HIDE DEF p
  <2> QED BY <1>4, <2>1, BehindType
<1>6. h[k] = before \o e \o <<p>>
  <2>1. SpacesStep(s)[<<k, before>>] = before \o e \o <<p>>
    <3> HIDE DEF before
    <3> QED BY <1>4 DEF SpacesStep
  <2> QED BY <1>3, <2>1
<1>7. /\ from <= to => e = <<SpaceOf(from, to, 0)>>
      /\ from > to => e = <<>>
  <2> HIDE DEF from, to
  <2> QED BY <1>5, EmptySpaceType
<1>8. from <= to => SpaceOf(from, to, 0) \in ListedSpace
  <2> HIDE DEF from, to
  <2> QED BY <1>5 DEF SpaceOf, ListedSpace
<1> HIDE DEF from, to, e, before, p
<1>9. from <= to => h[k] = Append(Append(before, SpaceOf(from, to, 0)), p)
  <2> DEFINE x == SpaceOf(from, to, 0)
  <2> HIDE DEF x
  <2>1. SUFFICES ASSUME from <= to, x \in ListedSpace, e = <<x>>
                 PROVE  h[k] = Append(Append(before, x), p)
    BY <1>7, <1>8 DEF x
  <2>2. before \o <<x>> = Append(before, x) /\ Append(before, x) \in V
    BY <1>4, <2>1, AppendIsConcat
  <2>3. Append(before, x) \o <<p>> = Append(Append(before, x), p)
    BY <1>2, <2>2, AppendIsConcat
  <2> QED BY <1>6, <2>1, <2>2, <2>3
<1>10. from > to => h[k] = Append(before, p)
  <2>1. SUFFICES ASSUME from > to, e = <<>> PROVE h[k] = Append(before, p)
    BY <1>7
  <2>2. before \o <<>> = before
    BY <1>4, ConcatEmptySeq
  <2>3. before \o <<p>> = Append(before, p)
    BY <1>2, <1>4, AppendIsConcat
  <2> QED BY <1>6, <2>1, <2>2, <2>3
<1> QED BY <1>2, <1>4, <1>5, <1>9, <1>10 DEF from, to, before, p

LEMMA AppendElements ==
  ASSUME NEW T, NEW q \in Seq(T), NEW x \in T
  PROVE  /\ Append(q, x) \in Seq(T) /\ Append(q, x) # <<>>
         /\ Len(q) \in Nat /\ Len(Append(q, x)) = Len(q) + 1
         /\ Append(q, x)[Len(q) + 1] = x
         /\ \A j \in 1..Len(q) : Append(q, x)[j] = q[j]
         /\ \A j \in 1..Len(q) + 1 : j \in 1..Len(q) \/ j = Len(q) + 1
<1>1. Len(q) \in Nat
  OBVIOUS
<1> QED BY <1>1, AppendProperties

\* What the step for the partition at k appends, in one form for both cases.
Appended(s, h, k) ==
  LET p == SpacesFromParts(s)[k]
      before == h[k - 1]
      from == Behind(s, before)
      gap == SpaceOf(from, p.first - 1, 0)
      n == Len(h[k])
  IN  /\ h[k] \in Seq(ListedSpace) /\ h[k] # <<>> /\ n \in Nat /\ h[k][n] = p
      /\ \A j \in 1..n :
           \/ j \in 1..Len(before) /\ h[k][j] = before[j] /\ j < n
           \/ j = Len(before) + 1 /\ j = n - 1 /\ h[k][j] = gap /\ gap.first <= gap.last
           \/ j = n /\ h[k][j] = p /\ n = Len(before) + 1 /\ gap.first > gap.last
           \/ j = n /\ h[k][j] = p /\ n = Len(before) + 2 /\ gap.first <= gap.last
              /\ h[k][n - 1] = gap
      /\ \A j \in 1..Len(before) : j \in 1..n /\ h[k][j] = before[j]
      /\ from \in Int /\ p \in ListedSpace /\ before \in Seq(ListedSpace)
      /\ gap \in ListedSpace /\ gap.first = from /\ gap.last = p.first - 1 /\ gap.num = 0

LEMMA SpacesAppend ==
  ASSUME NEW s, s.parts \in Seq(AnyPart), s.first \in Nat, NEW h,
         Steps(h, Len(SpacesFromParts(s)), <<>>, Seq(ListedSpace), SpacesStep(s)),
         NEW k \in 1..Len(SpacesFromParts(s))
  PROVE  Appended(s, h, k)
<1> DEFINE p == SpacesFromParts(s)[k]
           before == h[k - 1]
           from == Behind(s, before)
           gap == SpaceOf(from, p.first - 1, 0)
           n == Len(h[k])
           Goal == /\ h[k] \in Seq(ListedSpace) /\ h[k] # <<>> /\ n \in Nat /\ h[k][n] = p
                   /\ \A j \in 1..n :
                        \/ j \in 1..Len(before) /\ h[k][j] = before[j] /\ j < n
                        \/ j = Len(before) + 1 /\ j = n - 1 /\ h[k][j] = gap /\ gap.first <= gap.last
                        \/ j = n /\ h[k][j] = p /\ n = Len(before) + 1 /\ gap.first > gap.last
                        \/ j = n /\ h[k][j] = p /\ n = Len(before) + 2 /\ gap.first <= gap.last
                           /\ h[k][n - 1] = gap
                   /\ \A j \in 1..Len(before) : j \in 1..n /\ h[k][j] = before[j]
                   /\ from \in Int /\ p \in ListedSpace /\ before \in Seq(ListedSpace)
                   /\ gap \in ListedSpace /\ gap.first = from /\ gap.last = p.first - 1
                   /\ gap.num = 0
<1>0. Goal => Appended(s, h, k)
  BY DEF Appended
<1>1. /\ p \in ListedSpace /\ before \in Seq(ListedSpace) /\ h[k] \in Seq(ListedSpace)
      /\ from \in Int /\ p.first - 1 \in Int
      /\ from <= p.first - 1 => h[k] = Append(Append(before, gap), p)
      /\ from > p.first - 1 => h[k] = Append(before, p)
  BY SpacesGrow
<1> HIDE DEF p, before, from
<1>2. gap \in ListedSpace /\ gap.first = from /\ gap.last = p.first - 1 /\ gap.num = 0
  BY <1>1 DEF SpaceOf, ListedSpace
<1> HIDE DEF gap
<1>3. Len(before) \in Nat
  BY <1>1
<1>4. ASSUME from <= p.first - 1 PROVE Goal
  <2> DEFINE q == Append(before, gap)
  <2>1. /\ q \in Seq(ListedSpace)
        /\ Len(q) = Len(before) + 1
        /\ q[Len(before) + 1] = gap
        /\ \A j \in 1..Len(before) : q[j] = before[j]
        /\ \A j \in 1..Len(before) + 1 : j \in 1..Len(before) \/ j = Len(before) + 1
    BY <1>1, <1>2, AppendElements
  <2> HIDE DEF q
  <2>2. h[k] = Append(q, p)
    BY <1>1, <1>4 DEF q
  <2>3. /\ h[k] # <<>> /\ Len(q) \in Nat /\ n = Len(q) + 1
        /\ h[k][Len(q) + 1] = p
        /\ \A j \in 1..Len(q) : h[k][j] = q[j]
        /\ \A j \in 1..Len(q) + 1 : j \in 1..Len(q) \/ j = Len(q) + 1
    BY <1>1, <2>1, <2>2, AppendElements
  <2> DEFINE m == Len(before)
  <2>4. m \in Nat /\ n = m + 2 /\ h[k][m + 2] = p /\ h[k][m + 1] = gap
        /\ \A j \in 1..m : h[k][j] = before[j]
    BY <1>3, <2>1, <2>3
  <2> HIDE DEF n, m
  <2>5. \A j \in 1..n : j \in 1..m \/ j = m + 1 \/ j = m + 2
    BY <2>4
  <2> QED BY <1>1, <1>2, <1>4, <2>3, <2>4, <2>5 DEF m
<1>5. ASSUME from > p.first - 1 PROVE Goal
  <2>1. h[k] = Append(before, p)
    BY <1>1, <1>5
  <2>2. /\ h[k] # <<>> /\ Len(before) \in Nat /\ n = Len(before) + 1
        /\ h[k][Len(before) + 1] = p
        /\ \A j \in 1..Len(before) : h[k][j] = before[j]
        /\ \A j \in 1..Len(before) + 1 : j \in 1..Len(before) \/ j = Len(before) + 1
    BY <1>1, <2>1, AppendElements
  <2> HIDE DEF n
  <2> QED BY <1>1, <1>2, <1>5, <2>2
<1>6. from <= p.first - 1 \/ from > p.first - 1
  BY <1>1
<1> HIDE DEF Goal
<1> QED BY <1>0, <1>4, <1>5, <1>6

\* The sectors of a partition and the order of the list.
LEMMA ListedPart ==
  ASSUME NEW s, s.parts \in Seq(AnyPart),
         \A i \in DOMAIN s.parts : IsUsed(s.parts[i]) => s.parts[i].first <= s.parts[i].last
  PROVE  LET list == SpacesFromParts(s) IN
         /\ Len(list) \in Nat
         /\ \A i \in 1..Len(list) : /\ list[i] \in ListedSpace
                                    /\ list[i].first \in Nat /\ list[i].last \in Nat
                                    /\ list[i].num \in DOMAIN s.parts /\ list[i].num # 0
                                    /\ list[i].first <= list[i].last
                                    /\ IsUsed(s.parts[list[i].num])
                                    /\ list[i].first = s.parts[list[i].num].first
                                    /\ list[i].last = s.parts[list[i].num].last
         /\ \A i, k \in 1..Len(list) : i <= k => list[i].first <= list[k].first
<1> DEFINE list == SpacesFromParts(s)
<1>1. /\ list \in Seq(ListedSpace)
      /\ \A i \in 1..Len(list) :
           \E n \in DOMAIN s.parts :
             IsUsed(s.parts[n]) /\ list[i] = SpaceOf(s.parts[n].first, s.parts[n].last, n)
      /\ \A i, k \in 1..Len(list) : i < k => list[i].first <= list[k].first
  BY PartSpaces
<1> HIDE DEF list
<1>2. Len(list) \in Nat
  BY <1>1
<1>3. ASSUME NEW i \in 1..Len(list)
      PROVE  /\ list[i] \in ListedSpace
             /\ list[i].first \in Nat /\ list[i].last \in Nat
             /\ list[i].num \in DOMAIN s.parts /\ list[i].num # 0
             /\ list[i].first <= list[i].last
             /\ IsUsed(s.parts[list[i].num])
             /\ list[i].first = s.parts[list[i].num].first
             /\ list[i].last = s.parts[list[i].num].last
  <2>1. PICK n \in DOMAIN s.parts :
          IsUsed(s.parts[n]) /\ list[i] = SpaceOf(s.parts[n].first, s.parts[n].last, n)
    BY <1>1
  <2>2. s.parts[n].first \in Nat /\ s.parts[n].last \in Nat /\ n # 0
    BY EntryType
  <2>3. list[i].num = n /\ list[i].first = s.parts[n].first /\ list[i].last = s.parts[n].last
    BY <2>1 DEF SpaceOf
  <2>4. list[i] \in ListedSpace
    BY <1>1
  <2> QED BY <2>1, <2>2, <2>3, <2>4
<1>4. ASSUME NEW i \in 1..Len(list), NEW k \in 1..Len(list), i <= k
      PROVE  list[i].first <= list[k].first
  <2>1. list[i].first \in Nat /\ (i < k \/ i = k)
    BY <1>2, <1>3, <1>4
  <2> QED BY <1>1, <2>1
<1> QED BY <1>2, <1>3, <1>4 DEF list

\* No partition begins in a free space, even if partitions overlap.
LEMMA FreeSpacesApart ==
  ASSUME NEW s, s.parts \in Seq(AnyPart), s.first \in Nat, s.last \in Nat,
         \A i \in DOMAIN s.parts : IsUsed(s.parts[i]) => s.parts[i].first <= s.parts[i].last,
         NEW e \in ToSet(IdentifySpaces(s)), e.num = 0
  PROVE  \A i \in DOMAIN s.parts :
           IsUsed(s.parts[i]) => s.parts[i].first < e.first \/ e.last < s.parts[i].first
<1> DEFINE list == SpacesFromParts(s)
           N == Len(list)
           Apart_(x) == \A i \in 1..N : list[i].first < x.first \/ x.last < list[i].first
<1>1. PICK h : /\ Steps(h, N, <<>>, Seq(ListedSpace), SpacesStep(s))
               /\ IdentifySpaces(s) =
                    IF h[N] = <<>> THEN <<SpaceOf(s.first, s.last, 0)>>
                    ELSE h[N] \o EmptySpace(Behind(s, h[N]), s.last)
  BY SpacesSteps
<1>2. /\ N \in Nat
      /\ \A i \in 1..N : /\ list[i] \in ListedSpace
                         /\ list[i].first \in Nat /\ list[i].last \in Nat
                         /\ list[i].num # 0 /\ list[i].first <= list[i].last
      /\ \A i, k \in 1..N : i <= k => list[i].first <= list[k].first
  BY ListedPart
<1>3. \A n \in DOMAIN s.parts : IsUsed(s.parts[n]) =>
        \E i \in 1..N : list[i] = SpaceOf(s.parts[n].first, s.parts[n].last, n)
  BY PartSpaces
<1>4. SUFFICES Apart_(e)
  <2>1. ASSUME NEW n \in DOMAIN s.parts, IsUsed(s.parts[n]), Apart_(e)
        PROVE  s.parts[n].first < e.first \/ e.last < s.parts[n].first
    <3>1. PICK i \in 1..N : list[i] = SpaceOf(s.parts[n].first, s.parts[n].last, n)
      BY <1>3, <2>1
    <3>2. list[i].first = s.parts[n].first
      BY <3>1 DEF SpaceOf
    <3> QED BY <2>1, <3>2
  <2> QED BY <2>1
<1> DEFINE Good(k) == /\ k = 0 => h[k] = <<>>
                      /\ k # 0 => h[k] # <<>> /\ h[k][Len(h[k])] = list[k]
                      /\ \A j \in 1..Len(h[k]) : h[k][j].num = 0 => Apart_(h[k][j])
           S == {k \in 0..N : Good(k)}
<1>5. 0 \in S
  <2>1. h[0] = <<>>
    BY <1>1 DEF Steps
  <2> QED BY <1>2, <2>1
<1>6. ASSUME NEW n \in 0..N - 1, Good(n) PROVE Good(n + 1)
  <2> DEFINE k == n + 1
             p == list[k]
             before == h[k - 1]
             from == Behind(s, before)
             gap == SpaceOf(from, p.first - 1, 0)
  <2>1. k \in 1..N /\ k - 1 = n /\ n \in Nat
    BY <1>2
  <2>2. /\ h[k] # <<>> /\ h[k][Len(h[k])] = p
        /\ \A j \in 1..Len(h[k]) :
             \/ j \in 1..Len(before) /\ h[k][j] = before[j]
             \/ h[k][j] = gap
             \/ h[k][j] = p
        /\ from \in Int /\ before \in Seq(ListedSpace)
        /\ gap.first = from /\ gap.last = p.first - 1
    <3>1. Appended(s, h, k)
      <4> HIDE DEF k
      <4> QED BY <1>1, <2>1, SpacesAppend
    <3> HIDE DEF k, list
    <3> QED BY <3>1 DEF Appended, list
  <2>3. p.num # 0 /\ p.first \in Nat
    BY <1>2, <2>1
  <2>4. before = h[n]
    BY <2>1
  <2> HIDE DEF list, gap, before, Apart_, k
  <2>5. ASSUME NEW i \in 1..N PROVE list[i].first < from \/ p.first - 1 < list[i].first
    <3>1. list[i].first \in Nat
      BY <1>2
    <3>2. CASE i >= k
      <4>1. p.first <= list[i].first
        BY <1>2, <2>1, <3>2
      <4> QED BY <2>3, <3>1, <4>1
    <3>3. CASE i < k
      <4>1. i <= n /\ n # 0 /\ n \in 1..N
        BY <1>2, <2>1, <3>3
      <4>2. before # <<>> /\ before[Len(before)] = list[n]
        BY <1>6, <2>4, <4>1
      <4>3. from = list[n].last + 1
        BY <4>2 DEF Behind
      <4>4. list[i].first <= list[n].first /\ list[n].first <= list[n].last
            /\ list[n].first \in Nat /\ list[n].last \in Nat
        BY <1>2, <4>1
      <4> QED BY <3>1, <4>3, <4>4
    <3> QED BY <1>2, <2>1, <3>2, <3>3
  <2>6. Apart_(gap)
    BY <2>2, <2>5 DEF Apart_
  <2>7. \A j \in 1..Len(h[k]) : h[k][j].num = 0 => Apart_(h[k][j])
    BY <1>6, <2>2, <2>3, <2>4, <2>6
  <2>8. Good(k)
    BY <2>1, <2>2, <2>7
  <2> QED BY <2>8 DEF k
<1>7. Good(N)
  <2>1. \A n \in 0..N - 1 : n \in S => n + 1 \in S
    <3> HIDE DEF Good
    <3> QED BY <1>2, <1>6
  <2>2. 0..N \subseteq S
    <3> HIDE DEF S, N
    <3> QED BY <1>2, <1>5, <2>1, BoundedInduction
  <2>3. N \in 0..N
    BY <1>2
  <2> HIDE DEF Good, N
  <2> QED BY <2>2, <2>3
<1> DEFINE whole == SpaceOf(s.first, s.last, 0)
           end == Behind(s, h[N])
           rest == SpaceOf(end, s.last, 0)
<1>8. h[N] \in Seq(ListedSpace) /\ end \in Int
  <2>1. h[N] \in Seq(ListedSpace)
    <3> HIDE DEF N
    <3> QED BY <1>1, <1>2 DEF Steps
  <2> QED BY <2>1, BehindType
<1>9. CASE h[N] = <<>>
  <2>1. N = 0
    BY <1>7, <1>9
  <2>2. Apart_(e)
    <3> HIDE DEF list
    <3> QED BY <2>1
  <2> QED BY <2>2
<1>10. CASE h[N] # <<>> /\ end <= s.last
  <2>1. IdentifySpaces(s) = Append(h[N], rest) /\ rest \in ListedSpace
    <3>1. EmptySpace(end, s.last) = <<rest>>
      <4>1. end \in Int /\ s.last \in Int /\ end <= s.last
        BY <1>8, <1>10
      <4> HIDE DEF end
      <4> QED BY <4>1, EmptySpaceType
    <3>2. rest \in ListedSpace
      <4> HIDE DEF end
      <4> QED BY <1>8 DEF SpaceOf, ListedSpace
    <3> HIDE DEF rest, end
    <3>3. h[N] \o <<rest>> = Append(h[N], rest)
      BY <1>8, <3>2, AppendIsConcat
    <3> QED BY <1>1, <1>10, <3>1, <3>2, <3>3 DEF end
  <2>2. \A x \in ToSet(IdentifySpaces(s)) : x = rest \/ \E j \in 1..Len(h[N]) : x = h[N][j]
    <3> HIDE DEF rest, N
    <3> QED BY <1>8, <2>1, AppendElements DEF ToSet
  <2>3. Apart_(rest)
    <3>1. N # 0 /\ h[N][Len(h[N])] = list[N]
      BY <1>7, <1>10
    <3>2. end = list[N].last + 1 /\ rest.first = end
      BY <1>10, <3>1 DEF Behind, SpaceOf
    <3> HIDE DEF list, rest, end
    <3>3. ASSUME NEW i \in 1..N PROVE list[i].first < rest.first
      <4>1. /\ list[i].first <= list[N].first /\ list[N].first <= list[N].last
            /\ list[i].first \in Nat /\ list[N].first \in Nat /\ list[N].last \in Nat
        <5>1. i <= N /\ N \in 1..N
          BY <1>2, <3>1
        <5> QED BY <1>2, <5>1
      <4> QED BY <3>2, <4>1
    <3> QED BY <3>3
  <2> HIDE DEF rest, Apart_, end
  <2> QED BY <1>7, <2>2, <2>3
<1>11. CASE h[N] # <<>> /\ end > s.last
  <2>1. IdentifySpaces(s) = h[N]
    <3>1. EmptySpace(end, s.last) = <<>>
      <4>1. end \in Int /\ s.last \in Int /\ end > s.last
        BY <1>8, <1>11
      <4> HIDE DEF end
      <4> QED BY <4>1, EmptySpaceType
    <3> HIDE DEF N
    <3> QED BY <1>1, <1>8, <1>11, <3>1, ConcatEmptySeq
  <2>2. \E j \in 1..Len(h[N]) : e = h[N][j]
    <3> HIDE DEF N
    <3> QED BY <1>8, <2>1 DEF ToSet
  <2> HIDE DEF Apart_
  <2> QED BY <1>7, <2>2
<1> QED BY <1>8, <1>9, <1>10, <1>11

\* Spaces without a gap between them, from sector a to sector b.
Tiled(list, a, b) ==
  /\ list \in Seq(ListedSpace) /\ list # <<>>
  /\ list[1].first = a /\ list[Len(list)].last = b
  /\ \A j \in 1..Len(list) : list[j].first <= list[j].last
  /\ \A j \in 1..Len(list) : j < Len(list) => list[j + 1].first = list[j].last + 1

LEMMA TiledHolds ==
  ASSUME NEW list, NEW a \in Int, NEW b \in Int, Tiled(list, a, b), NEW x \in a..b
  PROVE  \E j \in 1..Len(list) : /\ Holds(list[j], x)
                                 /\ \A i \in 1..Len(list) : Holds(list[i], x) => i = j
<1> DEFINE N == Len(list)
           T == {j \in 1..N : x <= list[j].last}
           Good(k) == \A i \in 1..N : i < k => list[i].last < list[k].first
           S == {k \in 0..N : Good(k)}
<1>1. list \in Seq(ListedSpace) /\ N \in Nat /\ N # 0
  BY DEF Tiled
<1>2. ASSUME NEW j \in 1..N PROVE list[j].first \in Int /\ list[j].last \in Int
  <2>1. list[j] \in ListedSpace
    BY <1>1
  <2> QED BY <2>1 DEF ListedSpace
<1>3. /\ list[1].first = a /\ list[N].last = b
      /\ \A j \in 1..N : list[j].first <= list[j].last
      /\ \A j \in 1..N : j < N => list[j + 1].first = list[j].last + 1
  BY DEF Tiled
<1> HIDE DEF N
<1>4. ASSUME NEW k \in 0..N - 1, Good(k) PROVE Good(k + 1)
  <2>1. SUFFICES ASSUME NEW i \in 1..N, i < k + 1 PROVE list[i].last < list[k + 1].first
    OBVIOUS
  <2>2. k \in 1..N /\ k < N
    BY <1>1, <2>1
  <2>3. list[k + 1].first = list[k].last + 1 /\ list[k].first <= list[k].last
    BY <1>3, <2>2
  <2>4. i = k \/ list[i].last < list[k].first
    BY <1>1, <1>4, <2>1
  <2>5. list[i].last \in Int /\ list[k].first \in Int /\ list[k].last \in Int
    BY <1>2, <2>2
  <2> QED BY <2>3, <2>4, <2>5
<1>5. \A k \in 1..N : Good(k)
  <2>1. 0 \in S
    BY <1>1
  <2>2. \A k \in 0..N - 1 : k \in S => k + 1 \in S
    <3> HIDE DEF Good
    <3> QED BY <1>1, <1>4
  <2>3. 0..N \subseteq S
    <3> HIDE DEF S
    <3> QED BY <1>1, <2>1, <2>2, BoundedInduction
  <2> HIDE DEF Good
  <2> QED BY <1>1, <2>3
<1>6. N \in T
  BY <1>1, <1>3
<1>7. PICK m \in T : \A k \in T : m <= k
  <2>1. T \subseteq Nat /\ T # {}
    BY <1>1, <1>6
  <2> HIDE DEF T
  <2> QED BY <2>1, LeastNumber
<1>8. m \in 1..N /\ x <= list[m].last /\ \A k \in 1..N : x <= list[k].last => m <= k
  BY <1>7
<1>9. list[m].first <= x
  <2>1. CASE m = 1
    BY <1>3, <2>1
  <2>2. CASE m # 1
    <3>1. m - 1 \in 1..N /\ m - 1 < N /\ (m - 1) + 1 = m
      BY <1>1, <1>8, <2>2
    <3>2. ~(x <= list[m - 1].last)
      BY <1>8, <3>1
    <3>3. list[m].first = list[m - 1].last + 1
      BY <1>3, <3>1
    <3>4. list[m - 1].last \in Int
      BY <1>2, <3>1
    <3> QED BY <3>2, <3>3, <3>4
  <2> QED BY <2>1, <2>2
<1>10. ASSUME NEW i \in 1..N, Holds(list[i], x) PROVE i = m
  <2>1. m <= i
    BY <1>8, <1>10 DEF Holds
  <2>2. m < i => list[m].last < list[i].first
    BY <1>5, <1>8
  <2>3. list[i].first <= x
    BY <1>10 DEF Holds
  <2>4. list[m].last \in Int /\ list[i].first \in Int
    BY <1>2, <1>8
  <2> QED BY <1>1, <1>8, <2>1, <2>2, <2>3, <2>4
<1> HIDE DEF T
<1> QED BY <1>8, <1>9, <1>10 DEF Holds, N

\* What a list of spaces made so far has in it.
SpacesSoFar(s, h, k) ==
  LET list == SpacesFromParts(s)
      n == Len(h[k])
  IN  /\ k = 0 => h[k] = <<>>
      /\ k # 0 => h[k] # <<>> /\ h[k][n] = list[k]
      /\ \A j \in 1..n : h[k][j].first <= h[k][j].last
      /\ \A j \in 1..n : j = 1 => h[k][j].first = s.first
      /\ \A j \in 1..n : j < n => h[k][j + 1].first = h[k][j].last + 1
      /\ \A j \in 1..n : j < n => h[k][j].num # 0 \/ h[k][j + 1].num # 0
      /\ \A j \in 1..n : h[k][j].num # 0 => \E i \in 1..k : h[k][j] = list[i]
      /\ \A i \in 1..k : \E j \in 1..n : h[k][j] = list[i]

LEMMA SpacesStepTiles ==
  ASSUME NEW s, s.parts \in Seq(AnyPart), s.first \in Nat, NEW h,
         Steps(h, Len(SpacesFromParts(s)), <<>>, Seq(ListedSpace), SpacesStep(s)),
         NEW k \in 1..Len(SpacesFromParts(s)),
         LET list == SpacesFromParts(s)
         IN  /\ list[k].first \in Nat /\ list[k].first <= list[k].last /\ s.first <= list[k].first
             /\ k # 1 => list[k - 1].last \in Int /\ list[k - 1].last < list[k].first
             /\ list[k].num # 0 /\ (k # 1 => list[k - 1].num # 0),
         k - 1 \in Nat, SpacesSoFar(s, h, k - 1)
  PROVE  SpacesSoFar(s, h, k)
<1> DEFINE list == SpacesFromParts(s)
           p == list[k]
           before == h[k - 1]
           m == Len(before)
           from == Behind(s, before)
           gap == SpaceOf(from, p.first - 1, 0)
           new == h[k]
           n == Len(new)
<1>1. /\ new \in Seq(ListedSpace) /\ new # <<>> /\ n \in Nat /\ new[n] = p
      /\ \A j \in 1..n :
           \/ j \in 1..m /\ new[j] = before[j] /\ j < n
           \/ j = m + 1 /\ j = n - 1 /\ new[j] = gap /\ gap.first <= gap.last
           \/ j = n /\ new[j] = p /\ n = m + 1 /\ gap.first > gap.last
           \/ j = n /\ new[j] = p /\ n = m + 2 /\ gap.first <= gap.last
              /\ new[n - 1] = gap
      /\ \A j \in 1..m : j \in 1..n /\ new[j] = before[j]
      /\ from \in Int /\ p \in ListedSpace /\ before \in Seq(ListedSpace)
      /\ gap \in ListedSpace /\ gap.first = from /\ gap.last = p.first - 1 /\ gap.num = 0
  <2>1. Appended(s, h, k)
    BY SpacesAppend
  <2> QED BY <2>1 DEF Appended
<1>2. /\ k \in Nat /\ k # 0 /\ p.first \in Nat /\ p.first <= p.last /\ s.first <= p.first
      /\ k # 1 => list[k - 1].last \in Int /\ list[k - 1].last < p.first
      /\ p.num # 0 /\ (k # 1 => list[k - 1].num # 0)
  OBVIOUS
<1>3. /\ k - 1 = 0 => before = <<>>
      /\ k - 1 # 0 => before # <<>> /\ before[m] = list[k - 1]
      /\ \A j \in 1..m : before[j].first <= before[j].last
      /\ \A j \in 1..m : j = 1 => before[j].first = s.first
      /\ \A j \in 1..m : j < m => before[j + 1].first = before[j].last + 1
      /\ \A j \in 1..m : j < m => before[j].num # 0 \/ before[j + 1].num # 0
      /\ \A j \in 1..m : before[j].num # 0 => \E i \in 1..k - 1 : before[j] = list[i]
      /\ \A i \in 1..k - 1 : \E j \in 1..m : before[j] = list[i]
  BY DEF SpacesSoFar
<1>4. from <= p.first /\ (before = <<>> => from = s.first)
      /\ (before # <<>> => from = before[m].last + 1)
  <2>1. /\ before = <<>> => from = s.first
        /\ before # <<>> => from = before[m].last + 1
    BY DEF Behind
  <2> HIDE DEF before, from, p, list, m
  <2> QED BY <1>2, <1>3, <2>1
<1>5. m \in Nat /\ (before = <<>> <=> m = 0)
  <2> HIDE DEF before
  <2> QED BY <1>1
<1>0. /\ SpacesSoFar(s, h, k) <=>
           /\ k = 0 => new = <<>>
           /\ k # 0 => new # <<>> /\ new[n] = list[k]
           /\ \A j \in 1..n : new[j].first <= new[j].last
           /\ \A j \in 1..n : j = 1 => new[j].first = s.first
           /\ \A j \in 1..n : j < n => new[j + 1].first = new[j].last + 1
           /\ \A j \in 1..n : j < n => new[j].num # 0 \/ new[j + 1].num # 0
           /\ \A j \in 1..n : new[j].num # 0 => \E i \in 1..k : new[j] = list[i]
           /\ \A i \in 1..k : \E j \in 1..n : new[j] = list[i]
      /\ p = list[k]
  BY DEF SpacesSoFar
<1>01. n \in 1..n
  <2> HIDE DEF new
  <2> QED BY <1>1 DEF n
<1> HIDE DEF before, from, gap, p, list, new, n, m
<1>6. \/ gap.first <= gap.last /\ n = m + 2 /\ new[m + 1] = gap /\ new[m + 2] = p
      \/ gap.first > gap.last /\ n = m + 1 /\ new[m + 1] = p
  <2>1. n \in 1..n
    BY <1>01
  <2>2. \/ n = m + 1 /\ gap.first > gap.last
        \/ n = m + 2 /\ gap.first <= gap.last /\ new[n - 1] = gap
    BY <1>1, <2>1
  <2>3. n = m + 2 => n - 1 = m + 1
    BY <1>5
  <2> QED BY <1>1, <2>2, <2>3
<1>7. ASSUME NEW j \in 1..n PROVE new[j].first <= new[j].last
  <2>1. j \in 1..m => new[j].first <= new[j].last
    BY <1>1, <1>3
  <2> QED BY <1>1, <1>2, <2>1
<1>8. ASSUME NEW j \in 1..n, j = 1 PROVE new[j].first = s.first
  <2>1. CASE m # 0
    <3>1. 1 \in 1..m /\ new[1] = before[1]
      BY <1>1, <1>5, <2>1
    <3> QED BY <1>3, <1>8, <3>1
  <2>2. CASE m = 0
    <3>1. from = s.first
      BY <1>4, <1>5, <2>2
    <3>2. new[1] = gap \/ (gap.first > gap.last /\ new[1] = p)
      BY <1>6, <2>2
    <3>3. gap.first > gap.last => p.first = from
      BY <1>1, <1>2, <1>4
    <3> QED BY <1>1, <1>8, <3>1, <3>2, <3>3
  <2> QED BY <2>1, <2>2
<1>9. ASSUME NEW j \in 1..n, j < n PROVE new[j + 1].first = new[j].last + 1
  <2>1. CASE j < m
    <3>1. j \in 1..m /\ j + 1 \in 1..m
      BY <1>1, <1>5, <2>1
    <3>2. new[j] = before[j] /\ new[j + 1] = before[j + 1]
      BY <1>1, <3>1
    <3> QED BY <1>3, <2>1, <3>1, <3>2
  <2>2. CASE j = m
    <3>1. j \in 1..m /\ new[j] = before[m] /\ m # 0
      BY <1>1, <1>5, <2>2
    <3>2. from = before[m].last + 1
      BY <1>4, <1>5, <3>1
    <3>3. new[m + 1].first = from
      BY <1>1, <1>2, <1>4, <1>6
    <3> QED BY <2>2, <3>1, <3>2, <3>3
  <2>3. CASE j = m + 1
    <3>1. n = m + 2 /\ new[m + 1] = gap /\ new[m + 2] = p
      BY <1>5, <1>6, <1>9, <2>3
    <3>2. (m + 1) + 1 = m + 2 /\ gap.last + 1 = p.first
      BY <1>1, <1>2, <1>5
    <3> QED BY <2>3, <3>1, <3>2
  <2> QED BY <1>1, <1>5, <1>6, <1>9, <2>1, <2>2, <2>3
<1>12. ASSUME NEW j \in 1..n, j < n PROVE new[j].num # 0 \/ new[j + 1].num # 0
  <2>1. CASE j < m
    <3>1. j \in 1..m /\ j + 1 \in 1..m
      BY <1>1, <1>5, <2>1
    <3>2. new[j] = before[j] /\ new[j + 1] = before[j + 1]
      BY <1>1, <3>1
    <3>3. before[j].num # 0 \/ before[j + 1].num # 0
      BY <1>3, <2>1, <3>1
    <3> QED BY <3>2, <3>3
  <2>2. CASE j = m
    <3>1. j \in 1..m /\ new[j] = before[m] /\ m # 0
      BY <1>1, <1>5, <2>2
    <3>2. k # 1 /\ before[m] = list[k - 1]
      BY <1>2, <1>3, <1>5, <3>1
    <3>3. list[k - 1].num # 0
      BY <1>2, <3>2
    <3>4. new[j].num # 0
      BY <3>1, <3>2, <3>3
    <3> QED BY <3>4
  <2>3. CASE j = m + 1
    <3>1. new[j + 1] = p
      <4>1. n = m + 2 /\ new[m + 2] = p
        BY <1>5, <1>6, <1>12, <2>3
      <4>2. j + 1 = m + 2
        BY <1>5, <2>3
      <4> QED BY <4>1, <4>2
    <3> QED BY <1>2, <3>1
  <2> QED BY <1>1, <1>5, <1>6, <1>12, <2>1, <2>2, <2>3
<1>10. ASSUME NEW j \in 1..n, new[j].num # 0 PROVE \E i \in 1..k : new[j] = list[i]
  <2>1. CASE j \in 1..m
    <3>1. PICK i \in 1..k - 1 : before[j] = list[i]
      BY <1>1, <1>3, <1>10, <2>1
    <3>2. i \in 1..k
      BY <1>2
    <3> QED BY <1>1, <2>1, <3>1, <3>2
  <2>2. CASE new[j] = p
    <3>1. k \in 1..k
      BY <1>2
    <3> QED BY <1>0, <2>2, <3>1
  <2>3. new[j] # gap
    BY <1>1, <1>10
  <2> QED BY <1>1, <2>1, <2>2, <2>3
<1>11. ASSUME NEW i \in 1..k PROVE \E j \in 1..n : new[j] = list[i]
  <2>1. CASE i = k
    <3>1. n \in 1..n
      BY <1>1, <1>5, <1>6
    <3> QED BY <1>0, <1>1, <2>1, <3>1
  <2>2. CASE i # k
    <3>1. i \in 1..k - 1
      BY <1>2, <2>2
    <3>2. PICK j \in 1..m : before[j] = list[i]
      BY <1>3, <3>1
    <3>3. j \in 1..n /\ new[j] = before[j]
      BY <1>1
    <3> QED BY <3>2, <3>3
  <2> QED BY <2>1, <2>2
<1> QED BY <1>0, <1>1, <1>2, <1>7, <1>8, <1>9, <1>10, <1>11, <1>12

\* If the partitions of the array lie apart among the usable sectors, each
\* usable sector is in exactly one space of the list, the spaces that are not
\* free are the partitions, and no free space follows another.
LEMMA SpacesTile ==
  ASSUME NEW s, s.parts \in Seq(AnyPart), s.first \in Nat, s.last \in Nat, s.first <= s.last,
         \A i \in DOMAIN s.parts : IsUsed(s.parts[i]) =>
           s.parts[i].first <= s.parts[i].last /\ s.first <= s.parts[i].first /\ s.parts[i].last <= s.last,
         \A i, k \in DOMAIN s.parts : i # k /\ IsUsed(s.parts[i]) /\ IsUsed(s.parts[k]) =>
           s.parts[i].last < s.parts[k].first \/ s.parts[k].last < s.parts[i].first
  PROVE  LET spaces == IdentifySpaces(s)
             list == SpacesFromParts(s)
         IN  /\ Tiled(spaces, s.first, s.last)
             /\ \A j \in 1..Len(spaces) :
                  spaces[j].num # 0 => \E i \in 1..Len(list) : spaces[j] = list[i]
             /\ \A i \in 1..Len(list) : \E j \in 1..Len(spaces) : spaces[j] = list[i]
             /\ \A j \in 1..Len(spaces) :
                  j < Len(spaces) => spaces[j].num # 0 \/ spaces[j + 1].num # 0
<1> DEFINE spaces == IdentifySpaces(s)
           list == SpacesFromParts(s)
           N == Len(list)
<1>1. PICK h : /\ Steps(h, N, <<>>, Seq(ListedSpace), SpacesStep(s))
               /\ spaces =
                    IF h[N] = <<>> THEN <<SpaceOf(s.first, s.last, 0)>>
                    ELSE h[N] \o EmptySpace(Behind(s, h[N]), s.last)
  BY SpacesSteps
<1>2. /\ N \in Nat
      /\ \A i \in 1..N : /\ list[i] \in ListedSpace
                         /\ list[i].first \in Nat /\ list[i].last \in Nat
                         /\ list[i].num \in DOMAIN s.parts /\ list[i].num # 0
                         /\ list[i].first <= list[i].last
                         /\ IsUsed(s.parts[list[i].num])
                         /\ list[i].first = s.parts[list[i].num].first
                         /\ list[i].last = s.parts[list[i].num].last
      /\ \A i, k \in 1..N : i <= k => list[i].first <= list[k].first
  BY ListedPart
<1>3. \A i, k \in 1..N : i < k => list[i].num # list[k].num
  BY PartSpaces
<1> HIDE DEF spaces, list
<1>4. ASSUME NEW i \in 1..N, NEW k \in 1..N, i < k PROVE list[i].last < list[k].first
  <2>1. list[i].num # list[k].num /\ list[i].first <= list[k].first
    BY <1>2, <1>3, <1>4
  <2>2. list[i].last < list[k].first \/ list[k].last < list[i].first
    BY <1>2, <2>1
  <2> QED BY <1>2, <2>1, <2>2
<1>5. \A i \in 1..N : s.first <= list[i].first /\ list[i].last <= s.last
  BY <1>2
<1> DEFINE S == {k \in 0..N : SpacesSoFar(s, h, k)}
<1>6. 0 \in S
  <2>1. h[0] = <<>> /\ Len(<<>>) = 0 /\ 1..0 = {}
    BY <1>1 DEF Steps
  <2>2. SpacesSoFar(s, h, 0)
    BY <2>1 DEF SpacesSoFar
  <2> QED BY <1>2, <2>2
<1>7. ASSUME NEW n \in 0..N - 1, SpacesSoFar(s, h, n) PROVE SpacesSoFar(s, h, n + 1)
  <2> DEFINE k == n + 1
  <2>1. k \in 1..N /\ k - 1 = n /\ n \in Nat
    BY <1>2
  <2> HIDE DEF k
  <2>2. k # 1 => list[k - 1].last \in Int /\ list[k - 1].last < list[k].first
                 /\ list[k - 1].num # 0
    <3>1. SUFFICES ASSUME k # 1 PROVE list[n].last \in Int /\ list[n].last < list[k].first
                                      /\ list[n].num # 0
      BY <2>1
    <3>2. n \in 1..N /\ n < k
      BY <2>1, <3>1
    <3> QED BY <1>2, <1>4, <2>1, <3>2
  <2>3. list[k].first \in Nat /\ list[k].first <= list[k].last /\ s.first <= list[k].first
        /\ list[k].num # 0
    BY <1>2, <1>5, <2>1
  <2>4. SpacesSoFar(s, h, k - 1)
    BY <1>7, <2>1
  <2>5. SpacesSoFar(s, h, k)
    BY <1>1, <2>1, <2>2, <2>3, <2>4, SpacesStepTiles DEF list
  <2> QED BY <2>5 DEF k
<1>8. SpacesSoFar(s, h, N)
  <2>1. \A n \in 0..N - 1 : n \in S => n + 1 \in S
    BY <1>2, <1>7
  <2>2. 0..N \subseteq S
    <3> HIDE DEF S, N
    <3> QED BY <1>2, <1>6, <2>1, BoundedInduction
  <2>3. N \in 0..N
    BY <1>2
  <2> QED BY <2>2, <2>3
<1> DEFINE so == h[N]
           m == Len(so)
           end == Behind(s, so)
           rest == SpaceOf(end, s.last, 0)
           whole == SpaceOf(s.first, s.last, 0)
<1>9. /\ N = 0 => so = <<>>
      /\ N # 0 => so # <<>> /\ so[m] = list[N]
      /\ \A j \in 1..m : so[j].first <= so[j].last
      /\ \A j \in 1..m : j = 1 => so[j].first = s.first
      /\ \A j \in 1..m : j < m => so[j + 1].first = so[j].last + 1
      /\ \A j \in 1..m : j < m => so[j].num # 0 \/ so[j + 1].num # 0
      /\ \A j \in 1..m : so[j].num # 0 => \E i \in 1..N : so[j] = list[i]
      /\ \A i \in 1..N : \E j \in 1..m : so[j] = list[i]
  BY <1>8 DEF SpacesSoFar, list
<1>10. so \in Seq(ListedSpace) /\ end \in Int
  <2>1. so \in Seq(ListedSpace)
    <3> HIDE DEF N
    <3> QED BY <1>1, <1>2 DEF Steps
  <2> HIDE DEF so
  <2> QED BY <2>1, BehindType
<1>11. /\ whole.first = s.first /\ whole.last = s.last /\ whole.num = 0 /\ whole \in ListedSpace
       /\ rest.first = end /\ rest.last = s.last /\ rest.num = 0 /\ rest \in ListedSpace
  <2> HIDE DEF end
  <2> QED BY <1>10 DEF SpaceOf, ListedSpace
<1>12. spaces = IF so = <<>> THEN <<whole>> ELSE so \o EmptySpace(end, s.last)
  BY <1>1
<1>13. so # <<>> => end = so[m].last + 1
  BY DEF Behind
<1>14. m \in Nat /\ (so # <<>> => m # 0)
  <2> HIDE DEF so
  <2> QED BY <1>10
<1> HIDE DEF so, m, end, rest, whole, N, S
<1>15. CASE so = <<>>
  <2>1. spaces = <<whole>>
    BY <1>12, <1>15
  <2>2. spaces \in Seq(ListedSpace) /\ Len(spaces) = 1 /\ spaces[1] = whole /\ spaces # <<>>
    BY <1>11, <2>1
  <2>3. Tiled(spaces, s.first, s.last) /\ \A j \in 1..Len(spaces) : ~(j < Len(spaces))
    BY <1>11, <2>2 DEF Tiled
  <2>4. N = 0
    BY <1>9, <1>15
  <2>5. \A j \in 1..Len(spaces) : spaces[j].num = 0
    BY <1>11, <2>2
  <2> QED BY <2>3, <2>4, <2>5 DEF spaces, list, N
<1>16. ASSUME so # <<>>
       PROVE  /\ N # 0 /\ so[m] = list[N] /\ m # 0
              /\ end = list[N].last + 1 /\ end <= s.last + 1 /\ list[N].last \in Nat
              /\ so[1].first = s.first /\ so[m].num # 0
  <2>1. N # 0 /\ so[m] = list[N] /\ m # 0 /\ N \in 1..N
    BY <1>2, <1>9, <1>14, <1>16
  <2>2. list[N].last \in Nat /\ list[N].last <= s.last
    BY <1>2, <1>5, <2>1
  <2>3. 1 \in 1..m
    BY <1>14, <2>1
  <2> QED BY <1>2, <1>9, <1>13, <1>16, <2>1, <2>2, <2>3
<1>17. CASE so # <<>> /\ end > s.last
  <2>1. spaces = so
    <3>1. EmptySpace(end, s.last) = <<>>
      <4>1. end \in Int /\ s.last \in Int /\ end > s.last
        BY <1>10, <1>17
      <4> QED BY <4>1, EmptySpaceType
    <3> QED BY <1>10, <1>12, <1>17, <3>1, ConcatEmptySeq
  <2>2. so[m].last = s.last
    BY <1>10, <1>16, <1>17
  <2>3. Tiled(so, s.first, s.last)
    BY <1>9, <1>10, <1>16, <1>17, <2>2 DEF Tiled, m
  <2> QED BY <1>9, <2>1, <2>3 DEF spaces, list, N, m
<1>18. CASE so # <<>> /\ end <= s.last
  <2>1. spaces = Append(so, rest)
    <3>1. EmptySpace(end, s.last) = <<rest>>
      <4>1. end \in Int /\ s.last \in Int /\ end <= s.last
        BY <1>10, <1>18
      <4> QED BY <4>1, EmptySpaceType DEF rest
    <3> QED BY <1>10, <1>11, <1>12, <1>18, <3>1, AppendIsConcat
  <2>2. /\ spaces \in Seq(ListedSpace) /\ spaces # <<>>
        /\ Len(spaces) = m + 1 /\ spaces[m + 1] = rest
        /\ \A j \in 1..m : spaces[j] = so[j]
        /\ \A j \in 1..m + 1 : j \in 1..m \/ j = m + 1
    BY <1>10, <1>11, <2>1, AppendElements DEF m
  <2>3. \A j \in 1..m + 1 : spaces[j].first <= spaces[j].last
    BY <1>9, <1>11, <1>18, <2>2
  <2>4. ASSUME NEW j \in 1..m + 1, j < m + 1
        PROVE  /\ spaces[j + 1].first = spaces[j].last + 1
               /\ spaces[j].num # 0 \/ spaces[j + 1].num # 0
    <3>1. CASE j < m
      <4>1. j \in 1..m /\ j + 1 \in 1..m
        BY <1>14, <3>1
      <4> QED BY <1>9, <2>2, <3>1, <4>1
    <3>2. CASE j = m
      <4>1. j \in 1..m
        BY <1>14, <3>2
      <4> QED BY <1>11, <1>16, <1>18, <2>2, <3>2, <4>1
    <3> QED BY <1>14, <2>4, <3>1, <3>2
  <2>5. spaces[1] = so[1]
    BY <1>14, <1>18, <2>2
  <2>6. Tiled(spaces, s.first, s.last)
    BY <1>11, <1>16, <1>18, <2>2, <2>3, <2>4, <2>5 DEF Tiled
  <2>7. \A j \in 1..m + 1 : spaces[j].num # 0 => \E i \in 1..N : spaces[j] = list[i]
    BY <1>9, <1>11, <2>2
  <2>8. \A i \in 1..N : \E j \in 1..m + 1 : spaces[j] = list[i]
    <3>1. 1..m \subseteq 1..m + 1
      BY <1>14
    <3> QED BY <1>9, <2>2, <3>1
  <2> QED BY <2>2, <2>4, <2>6, <2>7, <2>8 DEF spaces, list, N
<1> QED BY <1>10, <1>15, <1>17, <1>18

-----------------------------------------------------------------------------
(* The free blocks of a table that can be saved.                           *)

FreeIn(s) == {x \in s.first..s.last : Clear(s, x)}

\* The table's place, which leaves sector 0 to the MBR.
Roomy(s) == s.parts \in Seq(AnyPart) /\ s.first \in Nat \ {0} /\ s.last \in Nat

\* Every partition has its place there, more than one sector, and no other on top.
Packed(s) ==
  /\ Roomy(s)
  /\ \A i \in DOMAIN s.parts : IsUsed(s.parts[i]) =>
       s.first <= s.parts[i].first /\ s.parts[i].first < s.parts[i].last /\ s.parts[i].last <= s.last
  /\ \A i, k \in DOMAIN s.parts : i # k /\ IsUsed(s.parts[i]) /\ IsUsed(s.parts[k]) =>
       s.parts[i].last < s.parts[k].first \/ s.parts[k].last < s.parts[i].first

LEMMA FirstFree ==
  ASSUME NEW s, Roomy(s), NEW start \in Nat
  PROVE  \/ /\ FindFirstAvailable(s, start) = 0
            /\ \A y \in FreeIn(s) : y < start
         \/ /\ FindFirstAvailable(s, start) \in FreeIn(s)
            /\ FindFirstAvailable(s, start) >= start
            /\ \A y \in FreeIn(s) : y < start \/ y >= FindFirstAvailable(s, start)
<1> DEFINE from == IF start < s.first THEN s.first ELSE start
           c == NextClear(s, from)
<1>1. /\ s.parts \in Seq(AnyPart) /\ s.first \in Nat /\ s.first # 0 /\ s.last \in Nat
      /\ from \in Nat /\ from >= start /\ from >= s.first
  BY DEF Roomy
<1>2. FindFirstAvailable(s, start) = IF c > s.last THEN 0 ELSE c
  BY <1>1, FirstAvailableIs
<1>3. c \in Nat /\ from <= c /\ Clear(s, c) /\ \A y \in from..c - 1 : ~Clear(s, y)
  <2> HIDE DEF from
  <2> QED BY <1>1, NextClearIs
<1>4. \A y \in FreeIn(s) : y \in Nat /\ y <= s.last /\ s.first <= y /\ Clear(s, y)
  BY <1>1 DEF FreeIn
<1>5. ASSUME NEW y \in FreeIn(s) PROVE y < start \/ y >= c
  <2>1. SUFFICES ASSUME y >= start, y < c PROVE FALSE
    BY <1>1, <1>3, <1>4
  <2>2. y \in from..c - 1
    BY <1>1, <1>3, <1>4, <2>1
  <2> QED BY <1>3, <1>4, <2>2
<1>6. c <= s.last => c \in FreeIn(s)
  <2> HIDE DEF c, from
  <2> QED BY <1>1, <1>3 DEF FreeIn
<1> HIDE DEF c, from
<1>7. CASE c > s.last
  BY <1>1, <1>2, <1>3, <1>4, <1>5, <1>7
<1>8. CASE c <= s.last
  BY <1>1, <1>2, <1>3, <1>5, <1>6, <1>8
<1> QED BY <1>1, <1>3, <1>7, <1>8

\* FindLastInFree() ends at the end of the table or in front of a partition.
LEMMA LastInFreeStarts ==
  ASSUME NEW s, s.parts \in Seq(AnyPart), s.last \in Nat, NEW start \in Nat
  PROVE  LET last == FindLastInFree(s, start) IN
         \/ last = s.last
         \/ \E i \in DOMAIN s.parts : s.parts[i].first > start /\ last = s.parts[i].first - 1
<1> DEFINE N == Len(s.parts)
           g == LastInFreeStep(s, start)
<1>1. PICK h : Steps(h, N, s.last, Nat, g) /\ FindLastInFree(s, start) = h[N]
  BY LastInFreeSteps
<1>2. N \in Nat /\ DOMAIN s.parts = 1..N
  OBVIOUS
<1> DEFINE From(y) == y = s.last \/ \E i \in 1..N : s.parts[i].first > start /\ y = s.parts[i].first - 1
           S == {k \in 0..N : From(h[k])}
<1>3. 0 \in S
  BY <1>1, <1>2 DEF Steps
<1>4. ASSUME NEW n \in 0..N - 1, n \in S PROVE n + 1 \in S
  <2>1. n + 1 \in 1..N /\ (n + 1) - 1 = n /\ n + 1 \in 0..N /\ n \in 0..N
    BY <1>2
  <2>2. h[n] \in Nat /\ h[n + 1] = g[<<n + 1, h[n]>>]
    <3>1. h[n + 1] = g[<<n + 1, h[(n + 1) - 1]>>]
      BY <1>1, <2>1 DEF Steps
    <3> QED BY <1>1, <2>1, <3>1 DEF Steps
  <2>3. h[n + 1] = IF h[n] > s.parts[n + 1].first /\ s.parts[n + 1].first > start
                   THEN s.parts[n + 1].first - 1 ELSE h[n]
    BY <2>1, <2>2 DEF LastInFreeStep
  <2>4. From(h[n])
    BY <1>4
  <2>5. From(h[n + 1])
    <3>1. CASE h[n] > s.parts[n + 1].first /\ s.parts[n + 1].first > start
      BY <2>1, <2>3, <3>1
    <3>2. CASE ~(h[n] > s.parts[n + 1].first /\ s.parts[n + 1].first > start)
      BY <2>3, <2>4, <3>2
    <3> QED BY <3>1, <3>2
  <2> QED BY <2>1, <2>5
<1>5. 0..N \subseteq S
  <2> HIDE DEF S
  <2> QED BY <1>2, <1>3, <1>4, BoundedInduction
<1>6. N \in S
  <2> HIDE DEF S
  <2> QED BY <1>2, <1>5
<1> QED BY <1>1, <1>2, <1>6

\* From a free sector it finds the end of that sector's block.
LEMMA BlockEnd ==
  ASSUME NEW s, Packed(s), NEW x \in FreeIn(s)
  PROVE  /\ FindLastInFree(s, x) \in Nat
         /\ x <= FindLastInFree(s, x) /\ FindLastInFree(s, x) <= s.last
         /\ x..FindLastInFree(s, x) \subseteq FreeIn(s)
         /\ FindLastInFree(s, x) + 1 \notin FreeIn(s)
         /\ FindLastInFree(s, x) # s.last =>
              ~Clear(s, FindLastInFree(s, x) + 1) /\ ~Clear(s, FindLastInFree(s, x) + 2)
<1> DEFINE last == FindLastInFree(s, x)
<1>1. /\ s.parts \in Seq(AnyPart) /\ s.first \in Nat /\ s.first # 0 /\ s.last \in Nat
      /\ x \in Nat /\ s.first <= x /\ x <= s.last /\ Clear(s, x)
  BY DEF Packed, Roomy, FreeIn
<1>2. /\ last \in Nat /\ last <= s.last /\ x <= last
      /\ \A i \in DOMAIN s.parts : s.parts[i].first > x => last <= s.parts[i].first
  BY <1>1, LastInFreeIs
<1>3. last = s.last \/ \E i \in DOMAIN s.parts : s.parts[i].first > x /\ last = s.parts[i].first - 1
  BY <1>1, LastInFreeStarts
<1> HIDE DEF last
<1>4. \A i \in DOMAIN s.parts : s.parts[i].first \in Nat /\ s.parts[i].last \in Nat
  <2>1. \A i \in DOMAIN s.parts : s.parts[i] \in AnyPart
    BY <1>1
  <2> QED BY <2>1 DEF AnyPart
<1>5. \A i \in DOMAIN s.parts : s.parts[i].first > x => IsUsed(s.parts[i])
  BY <1>1, <1>4 DEF IsUsed, Unused
<1>6. ASSUME NEW q \in DOMAIN s.parts, s.parts[q].first > x PROVE last < s.parts[q].first
  <2>1. /\ s.parts[q].first \in Nat /\ s.parts[q].last \in Nat /\ IsUsed(s.parts[q])
        /\ s.parts[q].first < s.parts[q].last /\ s.parts[q].last <= s.last
        /\ last <= s.parts[q].first
    BY <1>2, <1>4, <1>5, <1>6 DEF Packed
  <2>2. CASE last = s.last
    BY <1>1, <2>1, <2>2
  <2>3. ASSUME NEW i \in DOMAIN s.parts, s.parts[i].first > x, last = s.parts[i].first - 1
        PROVE  last < s.parts[q].first
    <3>1. /\ s.parts[i].first \in Nat /\ s.parts[i].last \in Nat /\ IsUsed(s.parts[i])
          /\ s.parts[i].first < s.parts[i].last
      BY <1>4, <1>5, <2>3 DEF Packed
    <3>2. CASE i = q
      BY <2>3, <3>1, <3>2
    <3>3. CASE i # q
      <4>1. s.parts[i].last < s.parts[q].first \/ s.parts[q].last < s.parts[i].first
        BY <2>1, <3>1, <3>3 DEF Packed
      <4> QED BY <2>1, <2>3, <3>1, <4>1
    <3> QED BY <3>2, <3>3
  <2> QED BY <1>3, <2>2, <2>3
<1>7. ASSUME NEW y \in x..last PROVE y \in FreeIn(s)
  <2>1. y \in Nat /\ x <= y /\ y <= last /\ y \in s.first..s.last
    BY <1>1, <1>2
  <2>2. ASSUME NEW i \in DOMAIN s.parts, IsUsed(s.parts[i]), Holds(s.parts[i], y) PROVE FALSE
    <3>1. s.parts[i].first <= y /\ y <= s.parts[i].last /\ s.parts[i].first \in Nat /\ s.parts[i].last \in Nat
      BY <1>4, <2>2 DEF Holds
    <3>2. CASE s.parts[i].first <= x
      <4>1. Holds(s.parts[i], x)
        BY <1>1, <2>1, <3>1, <3>2 DEF Holds
      <4> QED BY <1>1, <2>2, <4>1 DEF Clear
    <3>3. CASE s.parts[i].first > x
      <4>1. last < s.parts[i].first
        BY <1>6, <3>3
      <4> QED BY <1>2, <2>1, <3>1, <4>1
    <3> QED BY <1>1, <3>1, <3>2, <3>3
  <2> QED BY <2>1, <2>2 DEF FreeIn, Clear
<1>8. last # s.last => ~Clear(s, last + 1) /\ ~Clear(s, last + 2)
  <2>1. SUFFICES ASSUME last # s.last PROVE ~Clear(s, last + 1) /\ ~Clear(s, last + 2)
    OBVIOUS
  <2>2. PICK i \in DOMAIN s.parts : s.parts[i].first > x /\ last = s.parts[i].first - 1
    BY <1>3, <2>1
  <2>3. /\ s.parts[i].first \in Nat /\ s.parts[i].last \in Nat /\ IsUsed(s.parts[i])
        /\ s.parts[i].first < s.parts[i].last
    BY <1>4, <1>5, <2>2 DEF Packed
  <2>4. Holds(s.parts[i], last + 1) /\ Holds(s.parts[i], last + 2)
    BY <2>2, <2>3 DEF Holds
  <2> QED BY <2>3, <2>4 DEF Clear
<1>9. last + 1 \notin FreeIn(s)
  BY <1>1, <1>2, <1>8 DEF FreeIn
<1> QED BY <1>2, <1>7, <1>8, <1>9 DEF last

\* The segment that FindFirstInLargest() finds from 'start' on.
SegmentFrom(s, start) ==
  [first |-> FindFirstAvailable(s, start), last |-> FindLastInFree(s, FindFirstAvailable(s, start))]

\* The recursive search, as the equation it follows.
Searches(F, s) ==
  /\ F \in [Nat -> Seq(AnyPart)]
  /\ \A x \in Nat : F[x] = IF FindFirstAvailable(s, x) = 0 THEN <<>>
                           ELSE <<SegmentFrom(s, x)>> \o F[SegmentFrom(s, x).last + 1]

LEMMA SegmentType ==
  ASSUME NEW s, Roomy(s), NEW x \in Nat
  PROVE  /\ FindFirstAvailable(s, x) \in Nat
         /\ SegmentFrom(s, x) \in AnyPart
         /\ SegmentFrom(s, x).first = FindFirstAvailable(s, x)
         /\ SegmentFrom(s, x).last = FindLastInFree(s, FindFirstAvailable(s, x))
         /\ FindFirstAvailable(s, x) # 0 => x \in 0..s.last /\ x < SegmentFrom(s, x).last + 1
<1>1. s.parts \in Seq(AnyPart) /\ s.first \in Nat /\ s.first # 0 /\ s.last \in Nat
  BY DEF Roomy
<1> DEFINE first == FindFirstAvailable(s, x)
<1>2. /\ first \in Nat
      /\ first # 0 => x <= first /\ first <= s.last
  <2>1. first = 0 \/ (first \in FreeIn(s) /\ first >= x)
    BY FirstFree
  <2> HIDE DEF first
  <2> QED BY <1>1, <2>1 DEF FreeIn
<1> HIDE DEF first
<1> DEFINE last == FindLastInFree(s, first)
<1>3. last \in Nat /\ (first <= s.last => first <= last)
  BY <1>1, <1>2, LastInFreeIs
<1> HIDE DEF last
<1>4. SegmentFrom(s, x) = [first |-> first, last |-> last]
  BY DEF SegmentFrom, first, last
<1>5. SegmentFrom(s, x).first = first /\ SegmentFrom(s, x).last = last
  BY <1>4
<1>6. SegmentFrom(s, x) \in AnyPart
  BY <1>2, <1>3, <1>4 DEF AnyPart
<1>7. first # 0 => x \in 0..s.last /\ x < last + 1
  BY <1>1, <1>2, <1>3
<1>8. first = FindFirstAvailable(s, x) /\ last = FindLastInFree(s, first)
  BY DEF first, last
<1> QED BY <1>2, <1>5, <1>6, <1>7, <1>8

LEMMA SegmentsSearch ==
  ASSUME NEW s, Roomy(s)
  PROVE  \E F : Searches(F, s) /\ Segments(s) = F[0]
<1>1. s.last \in Nat
  BY DEF Roomy
<1> DEFINE V == Seq(AnyPart)
           D == {x \in Nat : FindFirstAvailable(s, x) # 0}
           next == [x \in Nat |-> SegmentFrom(s, x).last + 1]
           g == [y \in Nat \X V |-> <<SegmentFrom(s, y[1])>> \o y[2]]
           Is(f) == f = [start \in Nat |->
                           LET first == FindFirstAvailable(s, start)
                               last == FindLastInFree(s, first)
                           IN  IF first = 0 THEN <<>>
                               ELSE <<[first |-> first, last |-> last]>> \o f[last + 1]]
           F == CHOOSE f : Is(f)
<1>2. Segments(s) = F[0]
  BY DEF Segments
<1>3. Climbs(s.last, V, D, next, <<>>, g)
  <2>1. D \subseteq 0..s.last
    BY SegmentType
  <2>2. next \in [Nat -> Nat]
    <3>1. ASSUME NEW x \in Nat PROVE SegmentFrom(s, x).last + 1 \in Nat
      <4>1. SegmentFrom(s, x) \in AnyPart
        BY SegmentType
      <4> QED BY <4>1 DEF AnyPart
    <3> QED BY <3>1
  <2>3. \A x \in D : x < next[x]
    BY SegmentType
  <2>4. g \in [Nat \X V -> V]
    <3>1. ASSUME NEW x \in Nat, NEW v \in V PROVE <<SegmentFrom(s, x)>> \o v \in V
      <4>1. SegmentFrom(s, x) \in AnyPart
        BY SegmentType
      <4>2. <<SegmentFrom(s, x)>> \in Seq(AnyPart)
        BY <4>1
      <4> QED BY <4>2
    <3> QED BY <3>1
  <2>5. <<>> \in V
    OBVIOUS
  <2> HIDE DEF D, next, g, V
  <2> QED BY <1>1, <2>1, <2>2, <2>3, <2>4, <2>5 DEF Climbs
<1>4. ASSUME NEW f
      PROVE  Is(f) <=> f = [x \in Nat |-> IF FindFirstAvailable(s, x) = 0 THEN <<>>
                                          ELSE <<SegmentFrom(s, x)>> \o f[SegmentFrom(s, x).last + 1]]
  <2>1. ASSUME NEW x \in Nat
        PROVE  (LET first == FindFirstAvailable(s, x)
                    last == FindLastInFree(s, first)
                IN  IF first = 0 THEN <<>> ELSE <<[first |-> first, last |-> last]>> \o f[last + 1])
               = IF FindFirstAvailable(s, x) = 0 THEN <<>>
                 ELSE <<SegmentFrom(s, x)>> \o f[SegmentFrom(s, x).last + 1]
    BY DEF SegmentFrom
  <2> QED BY <2>1
<1>5. \E f : Is(f)
  <2>1. PICK f \in [Nat -> V] : ClimbsBy(f, D, next, <<>>, g)
    <3> HIDE DEF D, next, g, V
    <3> QED BY <1>3, ClimbExists
  <2>2. ASSUME NEW x \in Nat
        PROVE  (IF x \in D THEN g[<<x, f[next[x]]>>] ELSE <<>>)
               = IF FindFirstAvailable(s, x) = 0 THEN <<>>
                 ELSE <<SegmentFrom(s, x)>> \o f[SegmentFrom(s, x).last + 1]
    <3>1. next[x] = SegmentFrom(s, x).last + 1 /\ next[x] \in Nat
      BY <1>3 DEF Climbs
    <3>2. f[next[x]] \in V
      BY <3>1
    <3> HIDE DEF V, next
    <3>3. g[<<x, f[next[x]]>>] = <<SegmentFrom(s, x)>> \o f[next[x]]
      BY <3>2
    <3>4. x \in D <=> FindFirstAvailable(s, x) # 0
      OBVIOUS
    <3> HIDE DEF g, D
    <3> QED BY <3>1, <3>3, <3>4
  <2>3. f = [x \in Nat |-> IF FindFirstAvailable(s, x) = 0 THEN <<>>
                           ELSE <<SegmentFrom(s, x)>> \o f[SegmentFrom(s, x).last + 1]]
    <3> HIDE DEF D, next, g, V
    <3> QED BY <2>1, <2>2 DEF ClimbsBy
  <2>4. Is(f)
    <3> HIDE DEF Is
    <3> QED BY <1>4, <2>3
  <2> HIDE DEF Is
  <2> QED BY <2>4
<1>6. Is(F)
  <2> HIDE DEF Is
  <2> QED BY <1>5
<1> HIDE DEF F
<1>7. F = [x \in Nat |-> IF FindFirstAvailable(s, x) = 0 THEN <<>>
                         ELSE <<SegmentFrom(s, x)>> \o F[SegmentFrom(s, x).last + 1]]
  <2> HIDE DEF Is
  <2> QED BY <1>4, <1>6
<1>8. \A x \in Nat : F[x] = IF FindFirstAvailable(s, x) = 0 THEN <<>>
                            ELSE <<SegmentFrom(s, x)>> \o F[SegmentFrom(s, x).last + 1]
  BY <1>7
<1>9. \A x \in Nat : F[x] \in V
  <2>1. \A x \in Nat \ D : F[x] = <<>>
    BY <1>8
  <2>2. ASSUME NEW x \in D, F[next[x]] \in V PROVE F[x] = g[<<x, F[next[x]]>>]
    <3>1. x \in Nat /\ next[x] = SegmentFrom(s, x).last + 1
      OBVIOUS
    <3>2. F[x] = <<SegmentFrom(s, x)>> \o F[SegmentFrom(s, x).last + 1]
      BY <1>8
    <3> HIDE DEF next, V, D
    <3>3. g[<<x, F[next[x]]>>] = <<SegmentFrom(s, x)>> \o F[next[x]]
      BY <2>2, <3>1
    <3> HIDE DEF g
    <3> QED BY <3>1, <3>2, <3>3
  <2> HIDE DEF D, next, g, V
  <2> QED BY <1>3, <2>1, <2>2, ClimbType
<1>10. DOMAIN F = Nat
  BY <1>7
<1>11. F \in [Nat -> Seq(AnyPart)]
  BY <1>7, <1>9
<1>12. Searches(F, s)
  BY <1>8, <1>11 DEF Searches
<1> QED BY <1>2, <1>12

\* The list is that of the free blocks from sector x on, in their order.
Blocks(s, list, x) ==
  /\ list \in Seq(AnyPart)
  /\ \A i \in 1..Len(list) : /\ list[i].first \in FreeIn(s) /\ list[i].first >= x
                             /\ list[i].last = FindLastInFree(s, list[i].first)
  /\ \A i, k \in 1..Len(list) : i < k => list[i].last < list[k].first
  /\ \A y \in FreeIn(s) : y >= x => \E i \in 1..Len(list) : list[i].first <= y /\ y <= list[i].last

LEMMA BlocksStep ==
  ASSUME NEW s, Packed(s), NEW F, Searches(F, s), NEW x \in Nat,
         \A z \in Nat : z > x => Blocks(s, F[z], z)
  PROVE  Blocks(s, F[x], x)
<1>1. Roomy(s) /\ F[x] \in Seq(AnyPart) /\ FreeIn(s) \subseteq Nat
  <2>1. Roomy(s)
    BY DEF Packed
  <2>2. F[x] \in Seq(AnyPart)
    BY DEF Searches
  <2>3. FreeIn(s) \subseteq Nat
    BY <2>1 DEF FreeIn, Roomy
  <2> QED BY <2>1, <2>2, <2>3
<1>2. CASE FindFirstAvailable(s, x) = 0
  <2>1. F[x] = <<>>
    BY <1>2 DEF Searches
  <2>2. Len(F[x]) = 0 /\ 1..Len(F[x]) = {}
    BY <2>1
  <2>3. \A y \in FreeIn(s) : y < x
    <3>1. 0 \notin FreeIn(s)
      BY <1>1 DEF FreeIn, Roomy
    <3> QED BY <1>1, <1>2, <3>1, FirstFree
  <2>4. \A y \in FreeIn(s) : ~(y >= x)
    BY <1>1, <2>3
  <2> QED BY <1>1, <2>2, <2>4 DEF Blocks
<1>3. CASE FindFirstAvailable(s, x) # 0
  <2> DEFINE p == SegmentFrom(s, x)
             z == p.last + 1
             rest == F[z]
             list == F[x]
  <2>1. /\ p \in AnyPart /\ p.first = FindFirstAvailable(s, x)
        /\ p.last = FindLastInFree(s, p.first)
        /\ x < z
    BY <1>1, <1>3, SegmentType
  <2>2. /\ p.first \in FreeIn(s) /\ p.first >= x
        /\ \A y \in FreeIn(s) : y < x \/ y >= p.first
    BY <1>1, <1>3, <2>1, FirstFree
  <2>3. p.first \in Nat /\ p.last \in Nat /\ p.first <= p.last /\ z \in Nat
    <3>1. p.first <= FindLastInFree(s, p.first)
      BY <2>2, BlockEnd
    <3> HIDE DEF p
    <3> QED BY <2>1, <3>1 DEF AnyPart
  <2>4. list = <<p>> \o rest /\ rest \in Seq(AnyPart) /\ Blocks(s, rest, z)
    <3>1. list = <<p>> \o rest
      BY <1>3 DEF Searches
    <3> HIDE DEF p
    <3> QED BY <2>1, <2>3, <3>1 DEF Searches
  <2> DEFINE M == Len(rest)
  <2>5. /\ M \in Nat /\ Len(list) = M + 1 /\ list[1] = p
        /\ \A i \in 1..M : list[i + 1] = rest[i]
    <3> HIDE DEF list, rest, p
    <3> QED BY <2>1, <2>4
  <2>6. \A i \in 1..M : /\ rest[i].first \in FreeIn(s) /\ rest[i].first >= z
                        /\ rest[i].last = FindLastInFree(s, rest[i].first)
    BY <2>4 DEF Blocks
  <2>7. \A i, k \in 1..M : i < k => rest[i].last < rest[k].first
    BY <2>4 DEF Blocks
  <2>8. \A y \in FreeIn(s) : y >= z => \E i \in 1..M : rest[i].first <= y /\ y <= rest[i].last
    BY <2>4 DEF Blocks
  <2>9. list \in Seq(AnyPart)
    BY <1>1
  <2>10. z = p.last + 1
    OBVIOUS
  <2> HIDE DEF list, rest, M, p, z
  <2>11. ASSUME NEW i \in 1..Len(list)
         PROVE  \/ i = 1 /\ list[i] = p
                \/ i - 1 \in 1..M /\ list[i] = rest[i - 1]
    <3>1. CASE i = 1
      BY <2>5, <3>1
    <3>2. CASE i # 1
      <4>1. i - 1 \in 1..M /\ (i - 1) + 1 = i
        BY <2>5, <3>2
      <4> QED BY <2>5, <4>1
    <3> QED BY <3>1, <3>2
  <2>12. ASSUME NEW i \in 1..Len(list)
         PROVE  /\ list[i].first \in FreeIn(s) /\ list[i].first >= x
                /\ list[i].last = FindLastInFree(s, list[i].first)
    <3>1. CASE list[i] = p
      BY <2>1, <2>2, <3>1
    <3>2. CASE i - 1 \in 1..M /\ list[i] = rest[i - 1]
      <4>1. rest[i - 1].first \in Nat
        BY <1>1, <2>6, <3>2
      <4> QED BY <2>1, <2>3, <2>6, <3>2, <4>1
    <3> QED BY <2>11, <3>1, <3>2
  <2>13. ASSUME NEW i \in 1..Len(list), NEW k \in 1..Len(list), i < k
         PROVE  list[i].last < list[k].first
    <3>1. k - 1 \in 1..M /\ list[k] = rest[k - 1]
      BY <2>5, <2>11, <2>13
    <3>2. CASE list[i] = p
      <4>1. rest[k - 1].first \in Nat /\ rest[k - 1].first >= z
        BY <1>1, <2>6, <3>1
      <4> QED BY <2>3, <2>10, <3>1, <3>2, <4>1
    <3>3. CASE i - 1 \in 1..M /\ list[i] = rest[i - 1]
      <4>1. i - 1 < k - 1
        BY <2>5, <2>13
      <4> QED BY <2>7, <3>1, <3>3, <4>1
    <3> QED BY <2>11, <3>2, <3>3
  <2>14. ASSUME NEW y \in FreeIn(s), y >= x
         PROVE  \E i \in 1..Len(list) : list[i].first <= y /\ y <= list[i].last
    <3>1. y \in Nat /\ y >= p.first
      BY <1>1, <2>2, <2>3, <2>14
    <3>2. CASE y <= p.last
      <4>1. 1 \in 1..Len(list)
        BY <2>5
      <4> QED BY <2>5, <3>1, <3>2, <4>1
    <3>3. CASE y >= z
      <4>1. PICK i \in 1..M : rest[i].first <= y /\ y <= rest[i].last
        BY <2>8, <3>3
      <4>2. i + 1 \in 1..Len(list) /\ list[i + 1] = rest[i]
        BY <2>5
      <4> QED BY <4>1, <4>2
    <3> QED BY <2>3, <2>10, <3>1, <3>2, <3>3
  <2> QED BY <2>9, <2>12, <2>13, <2>14 DEF Blocks, list
<1> QED BY <1>2, <1>3

LEMMA SegmentsAreBlocks ==
  ASSUME NEW s, Packed(s)
  PROVE  Blocks(s, Segments(s), 0)
<1>1. Roomy(s) /\ s.last \in Nat
  BY DEF Packed, Roomy
<1>2. PICK F : Searches(F, s) /\ Segments(s) = F[0]
  BY <1>1, SegmentsSearch
<1> DEFINE N == s.last
           S == {n \in 0..N + 1 : \A x \in Nat : x + n > N => Blocks(s, F[x], x)}
<1>3. 0 \in S
  <2>1. ASSUME NEW x \in Nat, x > N PROVE Blocks(s, F[x], x)
    <3>1. FindFirstAvailable(s, x) = 0
      <4>1. FindFirstAvailable(s, x) # 0 => x \in 0..s.last
        BY <1>1, SegmentType
      <4> QED BY <1>1, <2>1, <4>1
    <3>2. F[x] = <<>>
      BY <1>2, <3>1 DEF Searches
    <3>3. Len(F[x]) = 0 /\ 1..Len(F[x]) = {} /\ F[x] \in Seq(AnyPart)
      BY <3>2
    <3>4. \A y \in FreeIn(s) : ~(y >= x)
      BY <1>1, <2>1 DEF FreeIn, Roomy
    <3> QED BY <3>3, <3>4 DEF Blocks
  <2> QED BY <1>1, <2>1
<1>4. ASSUME NEW n \in 0..(N + 1) - 1, n \in S PROVE n + 1 \in S
  <2>1. ASSUME NEW x \in Nat, x + (n + 1) > N PROVE Blocks(s, F[x], x)
    <3>1. \A z \in Nat : z > x => Blocks(s, F[z], z)
      <4>1. \A z \in Nat : z > x => z + n > N
        BY <1>1, <2>1
      <4> QED BY <1>4, <4>1
    <3> QED BY <1>2, <3>1, BlocksStep
  <2>2. n + 1 \in 0..N + 1
    BY <1>1
  <2> QED BY <2>1, <2>2
<1>5. 0..N + 1 \subseteq S
  <2>1. N + 1 \in Nat
    BY <1>1
  <2> HIDE DEF S
  <2> QED BY <1>3, <1>4, <2>1, BoundedInduction
<1>6. \A x \in Nat : x + (N + 1) > N => Blocks(s, F[x], x)
  <2>1. N + 1 \in 0..N + 1
    BY <1>1
  <2> QED BY <1>5, <2>1
<1>7. 0 + (N + 1) > N
  BY <1>1
<1>8. Blocks(s, F[0], 0)
  BY <1>6, <1>7
<1> QED BY <1>2, <1>8

SumStep(list) == [x \in (1..Len(list)) \X Int |-> x[2] + Size(list[x[1]])]

LEMMA SumSteps ==
  ASSUME NEW s, Segments(s) \in Seq(AnyPart)
  PROVE  \E h : /\ Steps(h, Len(Segments(s)), 0, Int, SumStep(Segments(s)))
                /\ FindFreeBlocks(s) = h[Len(Segments(s))]
<1> DEFINE list == Segments(s)
           N == Len(list)
           V == Int
           b == 0
           g == SumStep(list)
           op(x, seg) == x + Size(seg)
           Is(f) == f = [I \in SUBSET (DOMAIN list) |->
                           IF I = {} THEN b ELSE op(f[I \ {Max(I)}], list[Max(I)])]
           F == CHOOSE f : Is(f)
<1>1. FindFreeBlocks(s) = F[1..N] /\ DOMAIN list = 1..N /\ N \in Nat
  <2>1. FindFreeBlocks(s) = F[DOMAIN list]
    BY DEF FindFreeBlocks, FoldLeft, MapThenFoldSet
  <2>2. DOMAIN list = 1..N /\ N \in Nat
    <3> HIDE DEF list
    <3> QED BY DEF list
  <2> HIDE DEF F
  <2> QED BY <2>1, <2>2
<1>2. g \in [(1..N) \X V -> V] /\ b \in V
  <2>1. ASSUME NEW i \in 1..N, NEW y \in V
        PROVE  op(y, list[i]) \in V
    <3>1. list[i] \in AnyPart
      OBVIOUS
    <3> HIDE DEF list
    <3> QED BY <3>1 DEF AnyPart, Size
  <2>2. b \in V
    OBVIOUS
  <2> HIDE DEF list
  <2> QED BY <2>1, <2>2 DEF SumStep
<1>3. ASSUME NEW I \in SUBSET (1..N), I # {}, NEW y \in V
      PROVE  g[<<Max(I), y>>] = op(y, list[Max(I)])
  <2>1. Max(I) \in 1..N
    BY <1>1, <1>3, MaxIn
  <2> HIDE DEF list
  <2> QED BY <2>1 DEF SumStep
<1>4. PICK f \in [SUBSET (1..N) -> V] : FoldsBy(f, N, b, g)
  <2> HIDE DEF g, N, V, b
  <2> QED BY <1>1, <1>2, FoldExists
<1>5. Is(f)
  <2>1. ASSUME NEW I \in SUBSET (1..N), I # {}
        PROVE  g[<<Max(I), f[I \ {Max(I)}]>>] = op(f[I \ {Max(I)}], list[Max(I)])
    <3>1. f[I \ {Max(I)}] \in V
      BY <1>4
    <3> HIDE DEF g, op, V
    <3> QED BY <1>3, <2>1, <3>1
  <2> HIDE DEF g, op, N, list, V, b
  <2> QED BY <1>1, <1>4, <2>1 DEF FoldsBy
<1>6. Is(F)
  <2> HIDE DEF Is
  <2> QED BY <1>5
<1>8. Follows(F, N, b, V, g)
  <2>1. F[{}] = b
    <3> HIDE DEF F, op, N, list, b
    <3> QED BY <1>1, <1>6
  <2>2. ASSUME NEW I \in SUBSET (1..N), I # {}, F[I \ {Max(I)}] \in V
        PROVE  F[I] = g[<<Max(I), F[I \ {Max(I)}]>>]
    <3> HIDE DEF F, op, N, g, list, V, b
    <3> QED BY <1>1, <1>3, <1>6, <2>2
  <2> HIDE DEF F, op, N, g, list, V, b
  <2> QED BY <1>1, <1>2, <2>1, <2>2 DEF Follows
<1>9. \E h : Steps(h, N, b, V, g) /\ h[N] = F[1..N]
  <2> HIDE DEF F, g, N, V, b
  <2> QED BY <1>8, FoldSteps
<1> HIDE DEF F
<1> QED BY <1>1, <1>9

LargestStep(list) == [x \in (1..Len(list)) \X [first: Int, last: Int] |-> IF Size(list[x[1]]) > Size(x[2]) THEN list[x[1]] ELSE x[2]]

LEMMA LargestSteps ==
  ASSUME NEW s, Segments(s) \in Seq(AnyPart)
  PROVE  \E h : /\ Steps(h, Len(Segments(s)), [first |-> 0, last |-> -1], [first: Int, last: Int], LargestStep(Segments(s)))
                /\ FindFirstInLargest(s) = h[Len(Segments(s))].first
<1> DEFINE list == Segments(s)
           N == Len(list)
           V == [first: Int, last: Int]
           b == [first |-> 0, last |-> -1]
           g == LargestStep(list)
           op(x, seg) == IF Size(seg) > Size(x) THEN seg ELSE x
           Is(f) == f = [I \in SUBSET (DOMAIN list) |->
                           IF I = {} THEN b ELSE op(f[I \ {Max(I)}], list[Max(I)])]
           F == CHOOSE f : Is(f)
<1>1. FindFirstInLargest(s) = F[1..N].first /\ DOMAIN list = 1..N /\ N \in Nat
  <2>1. FindFirstInLargest(s) = F[DOMAIN list].first
    BY DEF FindFirstInLargest, FoldLeft, MapThenFoldSet
  <2>2. DOMAIN list = 1..N /\ N \in Nat
    <3> HIDE DEF list
    <3> QED BY DEF list
  <2> HIDE DEF F
  <2> QED BY <2>1, <2>2
<1>2. g \in [(1..N) \X V -> V] /\ b \in V
  <2>1. ASSUME NEW i \in 1..N, NEW y \in V
        PROVE  op(y, list[i]) \in V
    <3>1. list[i] \in AnyPart
      OBVIOUS
    <3> HIDE DEF list
    <3> QED BY <3>1 DEF AnyPart, Size
  <2>2. b \in V
    OBVIOUS
  <2> HIDE DEF list
  <2> QED BY <2>1, <2>2 DEF LargestStep
<1>3. ASSUME NEW I \in SUBSET (1..N), I # {}, NEW y \in V
      PROVE  g[<<Max(I), y>>] = op(y, list[Max(I)])
  <2>1. Max(I) \in 1..N
    BY <1>1, <1>3, MaxIn
  <2> HIDE DEF list
  <2> QED BY <2>1 DEF LargestStep
<1>4. PICK f \in [SUBSET (1..N) -> V] : FoldsBy(f, N, b, g)
  <2> HIDE DEF g, N, V, b
  <2> QED BY <1>1, <1>2, FoldExists
<1>5. Is(f)
  <2>1. ASSUME NEW I \in SUBSET (1..N), I # {}
        PROVE  g[<<Max(I), f[I \ {Max(I)}]>>] = op(f[I \ {Max(I)}], list[Max(I)])
    <3>1. f[I \ {Max(I)}] \in V
      BY <1>4
    <3> HIDE DEF g, op, V
    <3> QED BY <1>3, <2>1, <3>1
  <2> HIDE DEF g, op, N, list, V, b
  <2> QED BY <1>1, <1>4, <2>1 DEF FoldsBy
<1>6. Is(F)
  <2> HIDE DEF Is
  <2> QED BY <1>5
<1>8. Follows(F, N, b, V, g)
  <2>1. F[{}] = b
    <3> HIDE DEF F, op, N, list, b
    <3> QED BY <1>1, <1>6
  <2>2. ASSUME NEW I \in SUBSET (1..N), I # {}, F[I \ {Max(I)}] \in V
        PROVE  F[I] = g[<<Max(I), F[I \ {Max(I)}]>>]
    <3> HIDE DEF F, op, N, g, list, V, b
    <3> QED BY <1>1, <1>3, <1>6, <2>2
  <2> HIDE DEF F, op, N, g, list, V, b
  <2> QED BY <1>1, <1>2, <2>1, <2>2 DEF Follows
<1>9. \E h : Steps(h, N, b, V, g) /\ h[N] = F[1..N]
  <2> HIDE DEF F, g, N, V, b
  <2> QED BY <1>8, FoldSteps
<1> HIDE DEF F
<1> QED BY <1>1, <1>9

\* Every free sector is counted once.
LEMMA FreeBlocksCount ==
  ASSUME NEW s, Packed(s)
  PROVE  FindFreeBlocks(s) = Cardinality(FreeIn(s))
<1> DEFINE list == Segments(s)
           N == Len(list)
           g == SumStep(list)
<1>1. /\ list \in Seq(AnyPart)
      /\ \A i \in 1..N : list[i].first \in FreeIn(s) /\ list[i].last = FindLastInFree(s, list[i].first)
      /\ \A i, k \in 1..N : i < k => list[i].last < list[k].first
      /\ \A y \in FreeIn(s) : y >= 0 => \E i \in 1..N : list[i].first <= y /\ y <= list[i].last
  BY SegmentsAreBlocks DEF Blocks
<1>2. N \in Nat
  BY <1>1
<1>3. PICK h : Steps(h, N, 0, Int, g) /\ FindFreeBlocks(s) = h[N]
  BY <1>1, SumSteps
<1>4. FreeIn(s) \subseteq Nat /\ s.first \in Nat /\ s.last \in Nat
  BY DEF FreeIn, Packed, Roomy
<1> HIDE DEF list
<1>5. ASSUME NEW i \in 1..N
      PROVE  /\ list[i].first \in Nat /\ list[i].last \in Nat /\ list[i].first <= list[i].last
             /\ list[i].first..list[i].last \subseteq FreeIn(s)
  <2>1. list[i].first \in FreeIn(s) /\ list[i].last = FindLastInFree(s, list[i].first)
    BY <1>1
  <2> QED BY <1>4, <2>1, BlockEnd
<1> DEFINE Block(i) == list[i].first..list[i].last
           U(k) == {y \in FreeIn(s) : \E i \in 1..k : y \in Block(i)}
           S == {k \in 0..N : IsFiniteSet(U(k)) /\ h[k] = Cardinality(U(k))}
<1>6. 0 \in S
  <2>1. U(0) = {}
    OBVIOUS
  <2>2. h[0] = 0 /\ 0 \in 0..N
    BY <1>2, <1>3 DEF Steps
  <2> HIDE DEF U
  <2> QED BY <2>1, <2>2, FS_EmptySet
<1>7. ASSUME NEW n \in 0..N - 1, n \in S PROVE n + 1 \in S
  <2>1. n + 1 \in 1..N /\ n + 1 \in 0..N /\ (n + 1) - 1 = n /\ n \in 0..N
    BY <1>2
  <2>2. h[n + 1] = h[n] + Size(list[n + 1])
    <3>1. h[n + 1] = g[<<n + 1, h[n]>>] /\ h[n] \in Int
      <4>1. h[n + 1] = g[<<n + 1, h[(n + 1) - 1]>>]
        BY <1>3, <2>1 DEF Steps
      <4> HIDE DEF g
      <4> QED BY <1>3, <2>1, <4>1 DEF Steps
    <3> QED BY <2>1, <3>1 DEF SumStep
  <2> DEFINE B == Block(n + 1)
  <2>3. U(n + 1) = U(n) \cup B
    <3>1. B \subseteq FreeIn(s)
      BY <1>5, <2>1
    <3>2. \A i \in 1..n + 1 : i \in 1..n \/ i = n + 1
      BY <2>1
    <3>3. 1..n \subseteq 1..n + 1 /\ n + 1 \in 1..n + 1
      BY <2>1
    <3> HIDE DEF Block
    <3> QED BY <3>1, <3>2, <3>3
  <2>4. U(n) \cap B = {}
    <3>1. SUFFICES ASSUME NEW y \in U(n), y \in B PROVE FALSE
      OBVIOUS
    <3>2. PICK i \in 1..n : y \in Block(i)
      BY <3>1
    <3>3. i \in 1..N /\ i < n + 1
      BY <2>1
    <3>4. list[i].last < list[n + 1].first
      BY <1>1, <2>1, <3>3
    <3> QED BY <1>5, <2>1, <3>1, <3>2, <3>3, <3>4
  <2>5. IsFiniteSet(B) /\ Cardinality(B) = Size(list[n + 1])
    <3>1. list[n + 1].first \in Int /\ list[n + 1].last \in Int /\ ~(list[n + 1].first > list[n + 1].last)
      BY <1>5, <2>1
    <3> QED BY <3>1, FS_Interval DEF Size
  <2>6. IsFiniteSet(U(n)) /\ h[n] = Cardinality(U(n))
    BY <1>7
  <2> HIDE DEF U, B
  <2>7. /\ IsFiniteSet(U(n) \cup B)
        /\ Cardinality(U(n) \cup B) = Cardinality(U(n)) + Cardinality(B) - Cardinality(U(n) \cap B)
    BY <2>5, <2>6, FS_Union
  <2>8. Cardinality(U(n) \cap B) = 0
    BY <2>4, FS_EmptySet
  <2>9. Cardinality(U(n)) \in Nat /\ Cardinality(B) \in Nat
    BY <2>5, <2>6, FS_CardinalityType
  <2>10. Cardinality(U(n + 1)) = h[n + 1]
    <3>1. Cardinality(U(n) \cup B) = Cardinality(U(n)) + Cardinality(B)
      BY <2>7, <2>8, <2>9
    <3> QED BY <2>2, <2>3, <2>5, <2>6, <3>1
  <2> QED BY <2>1, <2>3, <2>7, <2>10
<1>8. N \in S
  <2>1. 0..N \subseteq S
    <3> HIDE DEF S
    <3> QED BY <1>2, <1>6, <1>7, BoundedInduction
  <2> HIDE DEF S
  <2> QED BY <1>2, <2>1
<1>9. U(N) = FreeIn(s)
  <2>1. ASSUME NEW y \in FreeIn(s) PROVE \E i \in 1..N : y \in Block(i)
    <3>1. y \in Nat /\ y >= 0
      BY <1>4
    <3>2. PICK i \in 1..N : list[i].first <= y /\ y <= list[i].last
      BY <1>1, <3>1
    <3> QED BY <1>5, <3>1, <3>2
  <2> QED BY <2>1
<1> HIDE DEF U
<1> QED BY <1>3, <1>8, <1>9

\* The largest free block begins where FindFirstInLargest() says.
LEMMA LargestIs ==
  ASSUME NEW s, Packed(s)
  PROVE  LET start == FindFirstInLargest(s)
             last == FindLastInFree(s, start)
         IN  IF FreeIn(s) = {} THEN start = 0
             ELSE /\ start \in FreeIn(s)
                  /\ \A x, y \in FreeIn(s) : x..y \subseteq FreeIn(s) => y - x <= last - start
<1> DEFINE list == Segments(s)
           N == Len(list)
           g == LargestStep(list)
           b == [first |-> 0, last |-> -1]
           V == [first: Int, last: Int]
           start == FindFirstInLargest(s)
<1>1. /\ list \in Seq(AnyPart)
      /\ \A i \in 1..N : list[i].first \in FreeIn(s) /\ list[i].last = FindLastInFree(s, list[i].first)
      /\ \A y \in FreeIn(s) : y >= 0 => \E i \in 1..N : list[i].first <= y /\ y <= list[i].last
  BY SegmentsAreBlocks DEF Blocks
<1>2. N \in Nat
  BY <1>1
<1>3. PICK h : Steps(h, N, b, V, g) /\ start = h[N].first
  BY <1>1, LargestSteps
<1>4. FreeIn(s) \subseteq Nat
  BY DEF FreeIn, Packed, Roomy
<1> HIDE DEF list
<1>5. ASSUME NEW i \in 1..N
      PROVE  /\ list[i].first \in Nat /\ list[i].last \in Nat /\ list[i].first <= list[i].last
             /\ list[i].last + 1 \notin FreeIn(s)
  <2>1. list[i].first \in FreeIn(s) /\ list[i].last = FindLastInFree(s, list[i].first)
    BY <1>1
  <2> QED BY <1>4, <2>1, BlockEnd
<1> DEFINE S == {k \in 0..N : /\ k = 0 => h[k] = b
                              /\ k > 0 => \E i \in 1..k : h[k] = list[i]
                              /\ \A i \in 1..k : Size(list[i]) <= Size(h[k])}
<1>6. 0 \in S
  BY <1>2, <1>3 DEF Steps
<1>7. ASSUME NEW n \in 0..N - 1, n \in S PROVE n + 1 \in S
  <2>1. n + 1 \in 1..N /\ n + 1 \in 0..N /\ (n + 1) - 1 = n /\ n \in 0..N /\ n + 1 > 0
    BY <1>2
  <2>2. /\ n = 0 => h[n] = b
        /\ n > 0 => \E i \in 1..n : h[n] = list[i]
        /\ \A i \in 1..n : Size(list[i]) <= Size(h[n])
    BY <1>7
  <2>3. h[n + 1] = IF Size(list[n + 1]) > Size(h[n]) THEN list[n + 1] ELSE h[n]
    <3>1. h[n + 1] = g[<<n + 1, h[n]>>] /\ h[n] \in V
      <4>1. h[n + 1] = g[<<n + 1, h[(n + 1) - 1]>>]
        BY <1>3, <2>1 DEF Steps
      <4> HIDE DEF g, V, b
      <4> QED BY <1>3, <2>1, <4>1 DEF Steps
    <3> HIDE DEF V
    <3>2. <<n + 1, h[n]>> \in (1..N) \X V
      BY <2>1, <3>1
    <3> QED BY <3>1, <3>2 DEF LargestStep, V
  <2>4. h[n] \in V
    <3> HIDE DEF V, b, g
    <3> QED BY <1>3, <2>1 DEF Steps
  <2>5. \A i \in 1..N : Size(list[i]) \in Int /\ Size(list[i]) >= 1
    BY <1>5 DEF Size
  <2>6. Size(h[n]) \in Int /\ (n = 0 => Size(h[n]) = 0)
    BY <2>2, <2>4 DEF Size
  <2>7. \A i \in 1..n : i \in 1..n + 1 /\ i \in 1..N
    BY <2>1
  <2>8. \A i \in 1..n + 1 : i \in 1..n \/ i = n + 1
    BY <2>1
  <2> HIDE DEF b, V, g
  <2>9. CASE Size(list[n + 1]) > Size(h[n])
    <3>1. h[n + 1] = list[n + 1] /\ n + 1 \in 1..n + 1
      BY <2>1, <2>3, <2>9
    <3>2. \A i \in 1..n : Size(list[i]) <= Size(list[n + 1])
      BY <2>1, <2>2, <2>5, <2>6, <2>7, <2>9
    <3>3. Size(list[n + 1]) <= Size(list[n + 1])
      BY <2>1, <2>5
    <3>4. \A i \in 1..n + 1 : Size(list[i]) <= Size(h[n + 1])
      BY <2>8, <3>1, <3>2, <3>3
    <3> QED BY <2>1, <3>1, <3>4
  <2>10. CASE ~(Size(list[n + 1]) > Size(h[n]))
    <3>1. h[n + 1] = h[n] /\ n > 0
      BY <2>1, <2>3, <2>5, <2>6, <2>10
    <3>2. Size(list[n + 1]) <= Size(h[n])
      BY <2>1, <2>5, <2>6, <2>10
    <3>3. \A i \in 1..n + 1 : Size(list[i]) <= Size(h[n + 1])
      BY <2>2, <2>8, <3>1, <3>2
    <3>4. \E i \in 1..n + 1 : h[n + 1] = list[i]
      BY <2>2, <2>7, <3>1
    <3> QED BY <2>1, <3>3, <3>4
  <2> QED BY <2>9, <2>10
<1>8. N \in S
  <2>1. 0..N \subseteq S
    <3> HIDE DEF S
    <3> QED BY <1>2, <1>6, <1>7, BoundedInduction
  <2> HIDE DEF S
  <2> QED BY <1>2, <2>1
<1>9. CASE N = 0
  <2>1. \A y \in FreeIn(s) : y >= 0
    BY <1>4
  <2>2. FreeIn(s) = {}
    BY <1>1, <1>9, <2>1
  <2>3. start = 0
    BY <1>3, <1>8, <1>9
  <2> QED BY <2>2, <2>3
<1>10. CASE N > 0
  <2>1. PICK i \in 1..N : h[N] = list[i]
    BY <1>8, <1>10
  <2>2. \A k \in 1..N : Size(list[k]) <= Size(list[i])
    BY <1>8, <2>1
  <2>3. start = list[i].first /\ start \in FreeIn(s) /\ FindLastInFree(s, start) = list[i].last
    BY <1>1, <1>3, <2>1
  <2>4. ASSUME NEW x \in FreeIn(s), NEW y \in FreeIn(s), x..y \subseteq FreeIn(s)
        PROVE  y - x <= list[i].last - list[i].first
    <3>1. x \in Nat /\ y \in Nat /\ x >= 0
      BY <1>4
    <3>2. PICK k \in 1..N : list[k].first <= x /\ x <= list[k].last
      BY <1>1, <3>1
    <3>3. list[k].first \in Nat /\ list[k].last \in Nat /\ list[k].last + 1 \notin FreeIn(s)
          /\ list[i].first \in Nat /\ list[i].last \in Nat
      BY <1>5
    <3>4. y <= list[k].last
      <4>1. SUFFICES ASSUME list[k].last < y PROVE FALSE
        BY <3>1, <3>3
      <4>2. list[k].last + 1 \in x..y
        BY <3>1, <3>2, <3>3, <4>1
      <4> QED BY <2>4, <3>3, <4>2
    <3>5. list[k].last - list[k].first + 1 <= list[i].last - list[i].first + 1
      BY <2>2 DEF Size
    <3> QED BY <3>1, <3>2, <3>3, <3>4, <3>5
  <2> HIDE DEF start
  <2> QED BY <2>3, <2>4 DEF start
<1> QED BY <1>2, <1>9, <1>10

\* Alignment takes the end of a block back, never forward.
LEMMA AlignedEnd ==
  ASSUME NEW s, Packed(s), s.align \in Nat \ {0}, NEW x \in FreeIn(s)
  PROVE  FindLastAligned(s, x) \in x..FindLastInFree(s, x)
<1> DEFINE last == FindLastInFree(s, x)
           sector == last + 1
           endPlus == Align(s, sector)
<1>1. /\ last \in Nat /\ x <= last /\ last <= s.last
      /\ last # s.last => ~Clear(s, last + 1) /\ ~Clear(s, last + 2)
  BY BlockEnd
<1>2. x \in Nat /\ s.last \in Nat
  BY DEF FreeIn, Packed, Roomy
<1> HIDE DEF last
<1>3. FindLastAligned(s, x) = IF endPlus # last + 1 /\ IsFree(s, endPlus - 1) /\ endPlus > x
                              THEN endPlus - 1 ELSE last
  BY DEF FindLastAligned, last
<1>4. endPlus \in Nat /\ endPlus <= sector
  <2> DEFINE d == sector \div s.align
             earlier == d * s.align
             later == earlier + s.align
  <2>1. sector \in Nat /\ d \in Nat
    BY <1>1
  <2>2. earlier \in Nat /\ later \in Nat
    BY <2>1
  <2>3. earlier <= sector
    BY <2>1
  <2>4. endPlus = IF sector % s.align = 0 THEN sector
                  ELSE IF earlier >= s.first /\ \A y \in earlier..(sector - 1) : IsFree(s, y) THEN earlier
                  ELSE IF later <= s.last /\ \A y \in (sector + 1)..later : IsFree(s, y) THEN later
                  ELSE sector
    BY DEF Align
  <2> HIDE DEF sector, d, earlier
  <2>5. later <= s.last /\ (\A y \in (sector + 1)..later : IsFree(s, y)) => later <= sector
    <3>1. SUFFICES ASSUME later <= s.last, \A y \in (sector + 1)..later : IsFree(s, y), later > sector
                   PROVE  FALSE
      BY <2>1, <2>2
    <3>2. sector + 1 \in (sector + 1)..later /\ sector = last + 1 /\ last # s.last
      BY <1>1, <1>2, <2>1, <2>2, <3>1 DEF sector
    <3>3. IsFree(s, last + 2)
      <4>1. sector + 1 = last + 2
        BY <1>1, <3>2
      <4> QED BY <3>1, <3>2, <4>1
    <3>4. Clear(s, last + 2)
      BY <3>3 DEF IsFree, Clear
    <3> QED BY <1>1, <3>2, <3>4
  <2> HIDE DEF later, endPlus
  <2> QED BY <2>1, <2>2, <2>3, <2>4, <2>5
<1> HIDE DEF endPlus
<1> QED BY <1>1, <1>2, <1>3, <1>4 DEF last

-----------------------------------------------------------------------------
(* ComputeAlignment().                                                     *)

HalvesBy(h, m, x) == h = [n \in 1..m |-> IF x % n = 0 THEN n ELSE h[n \div 2]]

LEMMA HalvedIs ==
  ASSUME NEW a \in Nat \ {0}, NEW x \in Nat
  PROVE  Halved(a, x) \in 1..a /\ x % Halved(a, x) = 0
<1> DEFINE S == {m \in 0..a : \E h : HalvesBy(h, m, x)}
<1>1. 0 \in S
  <2> DEFINE h == [n \in 1..0 |-> 0]
  <2>1. HalvesBy(h, 0, x)
    BY DEF HalvesBy
  <2>2. \E h_ : HalvesBy(h_, 0, x)
    <3> HIDE DEF h
    <3> QED BY <2>1
  <2>3. 0 \in 0..a
    OBVIOUS
  <2> QED BY <2>2, <2>3, Zenon
<1>2. ASSUME NEW m \in 0..a - 1, m \in S PROVE m + 1 \in S
  <2>1. PICK h : HalvesBy(h, m, x)
    BY <1>2
  <2> DEFINE k == [n \in 1..m + 1 |-> IF n = m + 1 THEN (IF x % (m + 1) = 0 THEN m + 1 ELSE h[(m + 1) \div 2])
                                      ELSE h[n]]
  <2>2. ASSUME NEW n \in 1..m + 1 PROVE k[n] = IF x % n = 0 THEN n ELSE k[n \div 2]
    <3>1. n \div 2 \in 0..m /\ (n > 1 => n \div 2 \in 1..m)
      OBVIOUS
    <3>2. n = 1 => x % n = 0
      OBVIOUS
    <3>3. n > 1 => k[n \div 2] = h[n \div 2]
      BY <3>1
    <3>4. CASE n = m + 1
      BY <3>1, <3>2, <3>3, <3>4
    <3>5. CASE n # m + 1
      <4>1. n \in 1..m /\ k[n] = h[n]
        BY <3>5
      <4>2. h[n] = IF x % n = 0 THEN n ELSE h[n \div 2]
        BY <2>1, <4>1 DEF HalvesBy
      <4> HIDE DEF k
      <4> QED BY <3>2, <3>3, <4>1, <4>2
    <3> QED BY <3>4, <3>5
  <2>3. HalvesBy(k, m + 1, x)
    <3>1. DOMAIN k = 1..m + 1 /\ k = [n \in 1..m + 1 |-> k[n]]
      OBVIOUS
    <3> HIDE DEF k
    <3> QED BY <2>2, <3>1 DEF HalvesBy
  <2>4. m + 1 \in 0..a
    OBVIOUS
  <2> HIDE DEF k
  <2> QED BY <2>3, <2>4
<1>3. 0..a \subseteq S
  <2> HIDE DEF S
  <2> QED BY <1>1, <1>2, BoundedInduction
<1>4. a \in S
  <2> HIDE DEF S
  <2> QED BY <1>3
<1> DEFINE h == CHOOSE h : HalvesBy(h, a, x)
<1>5. HalvesBy(h, a, x)
  BY <1>4
<1>6. Halved(a, x) = h[a]
  BY DEF Halved, HalvesBy
<1> HIDE DEF h, S
<1>7. \A n \in 1..a : h[n] = IF x % n = 0 THEN n ELSE h[n \div 2]
  BY <1>5 DEF HalvesBy
<1> DEFINE T == {m \in 0..a : \A n \in 1..m : h[n] \in 1..n /\ x % h[n] = 0}
<1>8. ASSUME NEW m \in 0..a - 1, m \in T PROVE m + 1 \in T
  <2>1. ASSUME NEW n \in 1..m + 1 PROVE h[n] \in 1..n /\ x % h[n] = 0
    <3>1. n \in 1..a /\ h[n] = IF x % n = 0 THEN n ELSE h[n \div 2]
      BY <1>7
    <3>2. CASE x % n = 0
      BY <3>1, <3>2
    <3>3. CASE x % n # 0
      <4>1. n # 1
        BY <3>3
      <4>2. n \div 2 \in 1..m /\ n \div 2 <= n
        BY <4>1
      <4>3. h[n \div 2] \in 1..(n \div 2) /\ x % h[n \div 2] = 0
        BY <1>8, <4>2
      <4>4. h[n] = h[n \div 2]
        BY <3>1, <3>3
      <4>5. h[n] \in 1..(n \div 2) /\ x % h[n] = 0
        BY <4>3, <4>4
      <4> QED BY <4>2, <4>5
    <3> QED BY <3>2, <3>3
  <2> QED BY <2>1
<1>9. 0..a \subseteq T
  <2>1. 0 \in T
    OBVIOUS
  <2> HIDE DEF T
  <2> QED BY <1>8, <2>1, BoundedInduction
<1>10. a \in T /\ a \in 1..a
  <2> HIDE DEF T
  <2> QED BY <1>9
<1> QED BY <1>6, <1>10

AlignmentStep(parts, default) ==
  [x \in (1..Len(parts)) \X (1..default) |->
     IF IsUsed(parts[x[1]]) THEN Halved(x[2], parts[x[1]].first) ELSE x[2]]

LEMMA AlignmentSteps ==
  ASSUME NEW parts \in Seq(AnyPart), NEW default \in Nat \ {0}
  PROVE  \E h : /\ Steps(h, Len(parts), default, 1..default, AlignmentStep(parts, default))
                /\ ComputeAlignment(parts, default) = h[Len(parts)]
<1> DEFINE N == Len(parts)
           g == AlignmentStep(parts, default)
           op(x, p) == IF IsUsed(p) THEN Halved(x, p.first) ELSE x
           Is(f) == f = [I \in SUBSET (DOMAIN parts) |->
                           IF I = {} THEN default ELSE op(f[I \ {Max(I)}], parts[Max(I)])]
           F == CHOOSE f : Is(f)
<1>1. ComputeAlignment(parts, default) = F[1..N] /\ DOMAIN parts = 1..N /\ N \in Nat
  <2>1. ComputeAlignment(parts, default) = F[DOMAIN parts]
    BY DEF ComputeAlignment, FoldLeft, MapThenFoldSet
  <2>2. DOMAIN parts = 1..N /\ N \in Nat
    OBVIOUS
  <2> HIDE DEF F
  <2> QED BY <2>1, <2>2
<1>2. g \in [(1..N) \X (1..default) -> 1..default]
  <2>1. ASSUME NEW i \in 1..N, NEW y \in 1..default
        PROVE  op(y, parts[i]) \in 1..default
    <3>1. parts[i] \in AnyPart
      OBVIOUS
    <3>2. parts[i].first \in Nat /\ y \in Nat \ {0}
      BY <3>1 DEF AnyPart
    <3>3. Halved(y, parts[i].first) \in 1..y
      BY <3>2, HalvedIs
    <3> QED BY <3>2, <3>3
  <2> QED BY <2>1 DEF AlignmentStep
<1>3. ASSUME NEW I \in SUBSET (1..N), I # {}, NEW y \in 1..default
      PROVE  g[<<Max(I), y>>] = op(y, parts[Max(I)])
  <2>1. Max(I) \in 1..N
    BY <1>1, <1>3, MaxIn
  <2> QED BY <2>1 DEF AlignmentStep
<1>7. default \in 1..default
  OBVIOUS
<1>4. PICK f \in [SUBSET (1..N) -> 1..default] : FoldsBy(f, N, default, g)
  <2> DEFINE V == 1..default
  <2>1. N \in Nat /\ default \in V /\ g \in [(1..N) \X V -> V]
    BY <1>1, <1>2, <1>7
  <2>2. \E f \in [SUBSET (1..N) -> V] : FoldsBy(f, N, default, g)
    <3> HIDE DEF g, N, V
    <3> QED BY <2>1, FoldExists
  <2> QED BY <2>2
<1>5. Is(f)
  <2>1. ASSUME NEW I \in SUBSET (1..N), I # {}
        PROVE  g[<<Max(I), f[I \ {Max(I)}]>>] = op(f[I \ {Max(I)}], parts[Max(I)])
    <3>1. f[I \ {Max(I)}] \in 1..default
      BY <1>4
    <3> HIDE DEF g, op
    <3> QED BY <1>3, <2>1, <3>1
  <2> HIDE DEF g, op, N
  <2> QED BY <1>1, <1>4, <2>1 DEF FoldsBy
<1>6. Is(F)
  <2> HIDE DEF Is
  <2> QED BY <1>5
<1>8. Follows(F, N, default, 1..default, g)
  <2>1. F[{}] = default
    <3> HIDE DEF F, op, N
    <3> QED BY <1>1, <1>6
  <2>2. ASSUME NEW I \in SUBSET (1..N), I # {}, F[I \ {Max(I)}] \in 1..default
        PROVE  F[I] = g[<<Max(I), F[I \ {Max(I)}]>>]
    <3> HIDE DEF F, op, N, g
    <3> QED BY <1>1, <1>3, <1>6, <2>2
  <2> HIDE DEF F, op, N, g
  <2> QED BY <1>1, <1>2, <1>7, <2>1, <2>2 DEF Follows
<1> DEFINE V == 1..default
           b == default
<1>9. \E h : Steps(h, N, b, V, g) /\ h[N] = F[1..N]
  <2>1. Follows(F, N, b, V, g)
    BY <1>8
  <2> HIDE DEF F, g, N, V, b
  <2> QED BY <2>1, FoldSteps
<1> HIDE DEF F
<1> QED BY <1>1, <1>9


LEMMA AlignmentType ==
  ASSUME NEW parts \in Seq(AnyPart), NEW default \in Nat \ {0}
  PROVE  ComputeAlignment(parts, default) \in 1..default
<1> DEFINE N == Len(parts)
           V == 1..default
<1>1. PICK h : /\ Steps(h, N, default, V, AlignmentStep(parts, default))
               /\ ComputeAlignment(parts, default) = h[N]
  BY AlignmentSteps
<1> HIDE DEF V
<1>2. h[N] \in V
  BY <1>1 DEF Steps
<1> QED BY <1>1, <1>2 DEF V

LEMMA LargestType ==
  ASSUME NEW s, Roomy(s)
  PROVE  FindFirstInLargest(s) \in Nat
<1> DEFINE list == Segments(s)
           N == Len(list)
           b == [first |-> 0, last |-> -1]
           V == [first: Int, last: Int]
           g == LargestStep(list)
<1>1. list \in Seq(AnyPart)
  <2>1. PICK F : Searches(F, s) /\ list = F[0]
    BY SegmentsSearch
  <2> QED BY <2>1 DEF Searches
<1>2. PICK h : Steps(h, N, b, V, g) /\ FindFirstInLargest(s) = h[N].first
  BY <1>1, LargestSteps
<1> HIDE DEF list
<1>3. N \in Nat
  BY <1>1
<1> DEFINE S == {k \in 0..N : h[k].first \in Nat}
<1>4. 0 \in S
  BY <1>2, <1>3 DEF Steps
<1>5. ASSUME NEW n \in 0..N - 1, n \in S PROVE n + 1 \in S
  <2>1. n + 1 \in 1..N /\ (n + 1) - 1 = n /\ n \in 0..N /\ h[n] \in V
    BY <1>2, <1>3 DEF Steps
  <2>2. h[n + 1] = g[<<n + 1, h[n]>>]
    BY <1>2, <2>1 DEF Steps
  <2>3. h[n + 1] = IF Size(list[n + 1]) > Size(h[n]) THEN list[n + 1] ELSE h[n]
    <3> HIDE DEF N
    <3> QED BY <2>1, <2>2 DEF LargestStep, N
  <2>4. list[n + 1] \in AnyPart
    BY <1>1, <2>1
  <2>5. list[n + 1].first \in Nat
    BY <2>4 DEF AnyPart
  <2> QED BY <1>5, <2>1, <2>3, <2>5
<1>6. N \in S
  <2>1. 0..N \subseteq S
    <3> HIDE DEF S, N
    <3> QED BY <1>3, <1>4, <1>5, BoundedInduction
  <2> HIDE DEF S
  <2> QED BY <1>3, <2>1
<1> QED BY <1>2, <1>6
=============================================================================
