----------------------------- MODULE FoldProofs -----------------------------
(***************************************************************************)
(* Folds over arrays, loops and recursive functions on numbers, without a  *)
(* theorem of the library that takes an operator: induction over natural   *)
(* numbers is derived from the well-foundedness of finite sets under       *)
(* inclusion, and from it that a fold takes one step per entry (FoldExists *)
(* and FoldSteps) and that recursive functions exist (LoopExists).         *)
(***************************************************************************)
EXTENDS Integers, SequencesExt, FiniteSetTheorems, TLAPS

-----------------------------------------------------------------------------
(* Induction.                                                              *)

LEMMA LeastNumber ==
  ASSUME NEW T, T \subseteq Nat, T # {}
  PROVE  \E m \in T : \A k \in T : m <= k
<1> DEFINE R == StrictSubsetOrdering(Nat)
           U == {1..n : n \in T}
<1>1. IsWellFoundedOn(R, FiniteSubsetsOf(Nat))
  BY FS_StrictSubsetOrderingWellFounded
<1>2. U \subseteq FiniteSubsetsOf(Nat) /\ U # {}
  <2>1. ASSUME NEW n \in T PROVE 1..n \in FiniteSubsetsOf(Nat)
    <3>1. IsFiniteSet(1..n)
      BY FS_Interval
    <3> QED BY <3>1 DEF FiniteSubsetsOf
  <2> QED BY <2>1
<1>3. \E x \in U : \A y \in U : ~(<<y, x>> \in R)
  <2> HIDE DEF R, U
  <2> QED BY <1>1, <1>2, WFMin
<1>4. PICK m \in T : \A k \in T : ~(<<1..k, 1..m>> \in R)
  BY <1>3
<1>5. ASSUME NEW k \in T, k < m PROVE FALSE
  <2>1. /\ 1..k \in SUBSET Nat /\ 1..m \in SUBSET Nat /\ 1..k \subseteq 1..m
        /\ m \in 1..m /\ m \notin 1..k
    BY <1>5
  <2>2. <<1..k, 1..m>> \in R
    BY <2>1 DEF StrictSubsetOrdering
  <2> QED BY <2>2, <1>4
<1> QED BY <1>5

LEMMA Induction ==
  ASSUME NEW S, 0 \in S, \A n \in Nat : n \in S => n + 1 \in S
  PROVE  Nat \subseteq S
<1> DEFINE T == Nat \ S
<1>1. SUFFICES ASSUME T # {} PROVE FALSE
  OBVIOUS
<1>2. PICK m \in T : \A k \in T : m <= k
  BY <1>1, LeastNumber
<1>3. m \in Nat /\ m # 0 /\ m - 1 \in Nat /\ m - 1 \in S
  BY <1>2
<1> QED BY <1>2, <1>3

\* The same up to a bound.
LEMMA BoundedInduction ==
  ASSUME NEW N \in Nat, NEW S, 0 \in S, \A n \in 0..N - 1 : n \in S => n + 1 \in S
  PROVE  0..N \subseteq S
<1> DEFINE T == {n \in Nat : n <= N => n \in S}
<1>1. ASSUME NEW n \in Nat, n \in T PROVE n + 1 \in T
  <2>1. SUFFICES ASSUME n + 1 <= N PROVE n + 1 \in S
    OBVIOUS
  <2>2. n \in 0..N - 1 /\ n \in S
    BY <1>1, <2>1
  <2> QED BY <2>2
<1>2. Nat \subseteq T
  <2>1. 0 \in T
    OBVIOUS
  <2> HIDE DEF T
  <2> QED BY <1>1, <2>1, Induction
<1> QED BY <1>2

-----------------------------------------------------------------------------
(* Folds.                                                                  *)

LEMMA MaxIs ==
  ASSUME NEW s, NEW m \in s, m \in Int, \A y \in s : y \in Int /\ y <= m
  PROVE  Max(s) = m
<1>1. \E x \in s : \A y \in s : x >= y
  OBVIOUS
<1>2. Max(s) \in s /\ \A y \in s : Max(s) >= y
  BY <1>1 DEF Max
<1>3. Max(s) \in Int /\ Max(s) >= m /\ Max(s) <= m
  BY <1>2
<1> QED BY <1>3

LEMMA MaxIn ==
  ASSUME NEW n \in Nat, NEW s \in SUBSET (1..n), s # {}
  PROVE  Max(s) \in s
<1> DEFINE U == {k \in Nat : \A y \in s : y <= k}
<1>1. n \in U
  OBVIOUS
<1>2. PICK m \in U : \A k \in U : m <= k
  <2> HIDE DEF U
  <2> QED BY <1>1, LeastNumber DEF U
<1>3. m \in s
  <2>1. SUFFICES ASSUME m \notin s PROVE FALSE
    OBVIOUS
  <2>2. \A y \in s : y < m
    BY <1>2, <2>1
  <2>3. m - 1 \in Nat /\ \A y \in s : y <= m - 1
    <3>1. PICK y \in s : y \in 1..n
      OBVIOUS
    <3>2. y < m /\ m \in Nat
      BY <1>2, <2>2
    <3> QED BY <2>2, <3>1, <3>2
  <2>4. m <= m - 1
    BY <1>2, <2>3
  <2> QED BY <1>2, <2>4
<1>4. m \in Int /\ \A y \in s : y \in Int /\ y <= m
  BY <1>2
<1>5. Max(s) = m
  BY <1>3, <1>4, MaxIs
<1> QED BY <1>3, <1>5

\* f is the function that MapThenFoldSet() defines for FoldLeft(): of a set of
\* places, the last one is folded last.
FoldsBy(f, n, base, g) ==
  f = [s \in SUBSET (1..n) |-> IF s = {} THEN base ELSE g[<<Max(s), f[s \ {Max(s)}]>>]]

\* There is one for each step g whose results can be folded again.
LEMMA FoldExists ==
  ASSUME NEW N \in Nat, NEW V, NEW base \in V, NEW g \in [(1..N) \X V -> V]
  PROVE  \E f \in [SUBSET (1..N) -> V] : FoldsBy(f, N, base, g)
<1> DEFINE S == {n \in 0..N : \E f \in [SUBSET (1..n) -> V] : FoldsBy(f, n, base, g)}
<1>1. 0 \in S
  <2>1. SUBSET (1..0) = {{}}
    OBVIOUS
  <2> DEFINE f == [s \in SUBSET (1..0) |-> base]
  <2>2. f \in [SUBSET (1..0) -> V]
    OBVIOUS
  <2>3. FoldsBy(f, 0, base, g)
    BY <2>1 DEF FoldsBy
  <2>4. \E f_ \in [SUBSET (1..0) -> V] : FoldsBy(f_, 0, base, g)
    <3> HIDE DEF f
    <3> QED BY <2>2, <2>3
  <2>5. 0 \in 0..N
    OBVIOUS
  <2> QED BY <2>4, <2>5, Zenon
<1>2. ASSUME NEW n \in 0..N - 1, n \in S PROVE n + 1 \in S
  <2>1. PICK f \in [SUBSET (1..n) -> V] : FoldsBy(f, n, base, g)
    BY <1>2
  <2> DEFINE h == [s \in SUBSET (1..n + 1) |->
                     IF n + 1 \in s THEN g[<<n + 1, f[s \ {n + 1}]>>] ELSE f[s]]
  <2>2. h \in [SUBSET (1..n + 1) -> V]
    <3>1. ASSUME NEW s \in SUBSET (1..n + 1), n + 1 \in s
          PROVE  g[<<n + 1, f[s \ {n + 1}]>>] \in V
      <4>1. s \ {n + 1} \in SUBSET (1..n)
        BY <3>1
      <4> QED BY <4>1
    <3>2. ASSUME NEW s \in SUBSET (1..n + 1), n + 1 \notin s
          PROVE  f[s] \in V
      <4>1. s \in SUBSET (1..n)
        BY <3>2
      <4> QED BY <4>1
    <3> QED BY <3>1, <3>2
  <2>3. ASSUME NEW s \in SUBSET (1..n + 1)
        PROVE  h[s] = IF s = {} THEN base ELSE g[<<Max(s), h[s \ {Max(s)}]>>]
    <3>1. CASE n + 1 \in s
      <4>1. Max(s) = n + 1
        <5>1. n + 1 \in Int /\ \A y \in s : y \in Int /\ y <= n + 1
          OBVIOUS
        <5> QED BY <3>1, <5>1, MaxIs
      <4>2. s \ {n + 1} \in SUBSET (1..n + 1)
        OBVIOUS
      <4>3. h[s \ {n + 1}] = f[s \ {n + 1}]
        BY <4>2
      <4> QED BY <3>1, <4>1, <4>3
    <3>2. CASE n + 1 \notin s
      <4>1. s \in SUBSET (1..n) /\ h[s] = f[s]
        BY <3>2
      <4>2. f[s] = IF s = {} THEN base ELSE g[<<Max(s), f[s \ {Max(s)}]>>]
        BY <2>1, <4>1 DEF FoldsBy
      <4>3. h[s \ {Max(s)}] = f[s \ {Max(s)}]
        BY <3>2
      <4> QED BY <4>1, <4>2, <4>3
    <3> QED BY <3>1, <3>2
  <2>4. FoldsBy(h, n + 1, base, g)
    <3> HIDE DEF h
    <3> QED BY <2>2, <2>3 DEF FoldsBy
  <2> HIDE DEF h
  <2> QED BY <2>2, <2>4
<1>3. 0..N \subseteq S
  <2> HIDE DEF S
  <2> QED BY <1>1, <1>2, BoundedInduction
<1>4. N \in S
  <2> HIDE DEF S
  <2> QED BY <1>3
<1> QED BY <1>4

\* F does as g would wherever it gets a value that can be folded.
Follows(F, N, base, V, g) ==
  /\ N \in Nat /\ base \in V /\ g \in [(1..N) \X V -> V]
  /\ F[{}] = base
  /\ \A s \in SUBSET (1..N) :
       s # {} /\ F[s \ {Max(s)}] \in V => F[s] = g[<<Max(s), F[s \ {Max(s)}]>>]

\* The values of a fold, entry by entry.
Steps(h, N, base, V, g) ==
  /\ h \in [0..N -> V]
  /\ h[0] = base
  /\ \A k \in 1..N : h[k] = g[<<k, h[k - 1]>>]

LEMMA FoldSteps ==
  ASSUME NEW N, NEW V, NEW base, NEW g, NEW F, Follows(F, N, base, V, g)
  PROVE  \E h : Steps(h, N, base, V, g) /\ h[N] = F[1..N]
<1>a. N \in Nat /\ base \in V /\ g \in [(1..N) \X V -> V]
  BY DEF Follows
<1> USE <1>a
<1> DEFINE S == {n \in 0..N : F[1..n] \in V}
<1>1. ASSUME NEW n \in 0..N - 1, F[1..n] \in V
      PROVE  F[1..n + 1] = g[<<n + 1, F[1..n]>>]
  <2>1. Max(1..n + 1) = n + 1
    <3>1. n + 1 \in 1..n + 1 /\ n + 1 \in Int /\ \A y \in 1..n + 1 : y \in Int /\ y <= n + 1
      OBVIOUS
    <3> HIDE DEF S
    <3> QED BY <3>1, MaxIs
  <2>2. (1..n + 1) \ {n + 1} = 1..n
    OBVIOUS
  <2>3. 1..n + 1 \in SUBSET (1..N) /\ 1..n + 1 # {}
    OBVIOUS
  <2> QED BY <1>1, <2>1, <2>2, <2>3 DEF Follows
<1>2. 0..N \subseteq S
  <2>1. 0 \in S
    <3>1. 1..0 = {}
      OBVIOUS
    <3> QED BY <3>1 DEF Follows
  <2>2. ASSUME NEW n \in 0..N - 1, n \in S PROVE n + 1 \in S
    <3>1. F[1..n + 1] = g[<<n + 1, F[1..n]>>]
      BY <1>1, <2>2
    <3>2. <<n + 1, F[1..n]>> \in (1..N) \X V
      BY <2>2
    <3> QED BY <3>1, <3>2
  <2> HIDE DEF S
  <2> QED BY <2>1, <2>2, BoundedInduction
<1> DEFINE h == [k \in 0..N |-> F[1..k]]
<1>3. h \in [0..N -> V]
  BY <1>2
<1>4. h[0] = base
  <2>1. 1..0 = {}
    OBVIOUS
  <2> QED BY <2>1 DEF Follows
<1>5. ASSUME NEW k \in 1..N PROVE h[k] = g[<<k, h[k - 1]>>]
  <2>1. k - 1 \in 0..N - 1 /\ (k - 1) + 1 = k /\ F[1..k - 1] \in V
    BY <1>2
  <2>2. F[1..(k - 1) + 1] = g[<<(k - 1) + 1, F[1..k - 1]>>]
    BY <1>1, <2>1
  <2>3. F[1..k] = g[<<k, F[1..k - 1]>>]
    BY <2>1, <2>2, Zenon
  <2>4. h[k] = F[1..k] /\ h[k - 1] = F[1..k - 1]
    OBVIOUS
  <2> QED BY <2>3, <2>4, Zenon
<1>6. h[N] = F[1..N]
  OBVIOUS
<1> HIDE DEF h
<1> QED BY <1>3, <1>4, <1>5, <1>6 DEF Steps

-----------------------------------------------------------------------------
(* Loops, as functions from the number of rounds to the state after them.  *)

\* f is the function that a definition of the form
\*   f[k \in 0..n] == IF k = 0 THEN base ELSE g[<<k, f[k - 1]>>]
\* stands for.
LoopsBy(f, n, base, g) ==
  f = [k \in 0..n |-> IF k = 0 THEN base ELSE g[<<k, f[k - 1]>>]]

\* There is one for each round g whose results are states of a set V again.
LEMMA LoopExists ==
  ASSUME NEW N \in Nat, NEW V, NEW base \in V, NEW g \in [(1..N) \X V -> V]
  PROVE  \E f \in [0..N -> V] : LoopsBy(f, N, base, g)
<1> DEFINE S == {n \in 0..N : \E f \in [0..n -> V] : LoopsBy(f, n, base, g)}
<1>1. 0 \in S
  <2> DEFINE f == [k \in 0..0 |-> base]
  <2>1. f \in [0..0 -> V] /\ LoopsBy(f, 0, base, g)
    BY DEF LoopsBy
  <2>2. \E f_ \in [0..0 -> V] : LoopsBy(f_, 0, base, g)
    <3> HIDE DEF f
    <3> QED BY <2>1
  <2>3. 0 \in 0..N
    OBVIOUS
  <2> QED BY <2>2, <2>3, Zenon
<1>2. ASSUME NEW n \in 0..N - 1, n \in S PROVE n + 1 \in S
  <2>1. PICK f \in [0..n -> V] : LoopsBy(f, n, base, g)
    BY <1>2
  <2>2. f[n] \in V /\ <<n + 1, f[n]>> \in (1..N) \X V
    OBVIOUS
  <2> DEFINE h == [k \in 0..n + 1 |-> IF k = n + 1 THEN g[<<n + 1, f[n]>>] ELSE f[k]]
  <2>3. h \in [0..n + 1 -> V]
    BY <2>2
  <2>4. ASSUME NEW k \in 0..n + 1
        PROVE  h[k] = IF k = 0 THEN base ELSE g[<<k, h[k - 1]>>]
    <3>1. CASE k = n + 1
      <4>1. k # 0 /\ k - 1 = n /\ n \in 0..n + 1 /\ n # n + 1
        BY <3>1
      <4>2. h[k] = g[<<k, f[n]>>] /\ h[n] = f[n]
        BY <3>1, <4>1
      <4> HIDE DEF h
      <4> QED BY <4>1, <4>2
    <3>2. CASE k # n + 1
      <4>1. k \in 0..n /\ h[k] = f[k]
        BY <3>2
      <4>2. f[k] = IF k = 0 THEN base ELSE g[<<k, f[k - 1]>>]
        BY <2>1, <4>1 DEF LoopsBy
      <4>3. k # 0 => h[k - 1] = f[k - 1]
        BY <4>1
      <4> HIDE DEF h
      <4> QED BY <4>1, <4>2, <4>3
    <3> QED BY <3>1, <3>2
  <2>5. LoopsBy(h, n + 1, base, g)
    <3> HIDE DEF h
    <3> QED BY <2>3, <2>4 DEF LoopsBy
  <2>6. n + 1 \in 0..N
    OBVIOUS
  <2>7. \E f_ \in [0..n + 1 -> V] : LoopsBy(f_, n + 1, base, g)
    <3> HIDE DEF h
    <3> QED BY <2>3, <2>5
  <2> QED BY <2>6, <2>7, Zenon
<1>3. 0..N \subseteq S
  <2> HIDE DEF S
  <2> QED BY <1>1, <1>2, BoundedInduction
<1>4. N \in S
  <2> HIDE DEF S
  <2> QED BY <1>3
<1> QED BY <1>4

\* What every round keeps holds after all of them.
LEMMA LoopStays ==
  ASSUME NEW N \in Nat, NEW V, NEW F, F[0] \in V,
         \A k \in 1..N : F[k - 1] \in V => F[k] \in V
  PROVE  \A k \in 0..N : F[k] \in V
<1> DEFINE S == {k \in 0..N : F[k] \in V}
<1>1. 0 \in S
  OBVIOUS
<1>2. ASSUME NEW n \in 0..N - 1, n \in S PROVE n + 1 \in S
  <2>1. n + 1 \in 1..N /\ n + 1 \in 0..N /\ (n + 1) - 1 = n
    OBVIOUS
  <2> QED BY <1>2, <2>1
<1>3. 0..N \subseteq S
  <2> HIDE DEF S
  <2> QED BY <1>1, <1>2, BoundedInduction
<1> QED BY <1>3

-----------------------------------------------------------------------------
(* Recursive functions that call themselves with larger numbers, until they *)
(* leave the finite set D.                                                 *)

ClimbsBy(f, D, next, base, g) ==
  f = [x \in Nat |-> IF x \in D THEN g[<<x, f[next[x]]>>] ELSE base]

Climbs(N, V, D, next, base, g) ==
  /\ N \in Nat /\ D \subseteq 0..N
  /\ next \in [Nat -> Nat] /\ \A x \in D : x < next[x]
  /\ base \in V /\ g \in [Nat \X V -> V]

LEMMA ClimbExists ==
  ASSUME NEW N, NEW V, NEW D, NEW next, NEW base, NEW g, Climbs(N, V, D, next, base, g)
  PROVE  \E f \in [Nat -> V] : ClimbsBy(f, D, next, base, g)
<1>a. /\ N \in Nat /\ D \subseteq 0..N /\ next \in [Nat -> Nat] /\ base \in V
      /\ g \in [Nat \X V -> V] /\ \A x \in D : x < next[x]
  BY DEF Climbs
<1> USE <1>a
<1> DEFINE Call(f, x) == IF x \in D THEN g[<<x, f[next[x]]>>] ELSE base
           S == {n \in 0..N + 1 : \E f \in [Nat -> V] : \A x \in Nat : x + n > N => f[x] = Call(f, x)}
<1>1. 0 \in S
  <2> DEFINE f == [x \in Nat |-> base]
  <2>1. f \in [Nat -> V] /\ \A x \in Nat : x + 0 > N => f[x] = Call(f, x)
    OBVIOUS
  <2>2. \E f_ \in [Nat -> V] : \A x \in Nat : x + 0 > N => f_[x] = Call(f_, x)
    <3> HIDE DEF f
    <3> QED BY <2>1
  <2>3. 0 \in 0..N + 1
    OBVIOUS
  <2> HIDE DEF Call
  <2> QED BY <2>2, <2>3, Zenon
<1>2. ASSUME NEW n \in 0..(N + 1) - 1, n \in S PROVE n + 1 \in S
  <2>1. PICK f \in [Nat -> V] : \A x \in Nat : x + n > N => f[x] = Call(f, x)
    BY <1>2
  <2>2. N - n \in Nat
    OBVIOUS
  <2> DEFINE x0 == N - n
             c == Call(f, x0)
             h == [f EXCEPT ![x0] = c]
  <2>3. c \in V
    <3>1. CASE x0 \in D
      <4>1. next[x0] \in Nat
        BY <2>2
      <4>2. f[next[x0]] \in V
        BY <4>1
      <4>3. <<x0, f[next[x0]]>> \in Nat \X V
        BY <2>2, <4>2
      <4> QED BY <3>1, <4>3
    <3>2. CASE x0 \notin D
      BY <3>2
    <3> QED BY <3>1, <3>2
  <2> HIDE DEF c
  <2>4. h \in [Nat -> V] /\ h[x0] = c /\ \A x \in Nat : x # x0 => h[x] = f[x]
    BY <2>2, <2>3
  <2> HIDE DEF h
  <2>5. ASSUME NEW x \in Nat, x + (n + 1) > N PROVE h[x] = Call(h, x)
    <3>1. x >= x0
      BY <2>5
    <3>2. x \in D => h[next[x]] = f[next[x]]
      <4>1. SUFFICES ASSUME x \in D PROVE h[next[x]] = f[next[x]]
        OBVIOUS
      <4>2. next[x] \in Nat /\ next[x] > x /\ next[x] # x0
        BY <2>2, <3>1, <4>1
      <4> QED BY <2>4, <4>2
    <3>3. Call(h, x) = Call(f, x)
      BY <3>2
    <3>4. CASE x = x0
      BY <2>4, <3>3, <3>4 DEF c
    <3>5. CASE x # x0
      <4>1. x + n > N
        BY <2>5, <3>5
      <4> HIDE DEF Call
      <4> QED BY <2>1, <2>4, <3>3, <3>5, <4>1
    <3> QED BY <3>4, <3>5
  <2>6. n + 1 \in 0..N + 1
    OBVIOUS
  <2> HIDE DEF Call
  <2> QED BY <2>4, <2>5, <2>6, Zenon
<1>3. 0..N + 1 \subseteq S
  <2> HIDE DEF S
  <2> QED BY <1>1, <1>2, BoundedInduction
<1>4. N + 1 \in S
  <2> HIDE DEF S
  <2> QED BY <1>3
<1>5. PICK f \in [Nat -> V] : \A x \in Nat : x + (N + 1) > N => f[x] = Call(f, x)
  BY <1>4
<1>6. \A x \in Nat : f[x] = Call(f, x)
  BY <1>5
<1>7. ClimbsBy(f, D, next, base, g)
  BY <1>6 DEF ClimbsBy
<1> QED BY <1>7

\* What such a function does with the values of a set stays in it.
LEMMA ClimbType ==
  ASSUME NEW N, NEW V, NEW D, NEW next, NEW base, NEW g, Climbs(N, V, D, next, base, g),
         NEW F, \A x \in Nat \ D : F[x] = base,
         \A x \in D : F[next[x]] \in V => F[x] = g[<<x, F[next[x]]>>]
  PROVE  \A x \in Nat : F[x] \in V
<1>a. /\ N \in Nat /\ D \subseteq 0..N /\ next \in [Nat -> Nat] /\ base \in V
      /\ g \in [Nat \X V -> V] /\ \A x \in D : x < next[x]
  BY DEF Climbs
<1> USE <1>a
<1> DEFINE S == {n \in 0..N + 1 : \A x \in Nat : x + n > N => F[x] \in V}
<1>1. 0 \in S
  OBVIOUS
<1>2. ASSUME NEW n \in 0..(N + 1) - 1, n \in S PROVE n + 1 \in S
  <2>1. ASSUME NEW x \in Nat, x + (n + 1) > N PROVE F[x] \in V
    <3>1. CASE x \in D
      <4>1. next[x] \in Nat /\ next[x] + n > N
        BY <2>1, <3>1
      <4>2. F[next[x]] \in V
        BY <1>2, <4>1
      <4>3. <<x, F[next[x]]>> \in Nat \X V
        BY <4>2
      <4> QED BY <3>1, <4>2, <4>3
    <3>2. CASE x \notin D
      BY <3>2
    <3> QED BY <3>1, <3>2
  <2> QED BY <2>1
<1>3. 0..N + 1 \subseteq S
  <2> HIDE DEF S
  <2> QED BY <1>1, <1>2, BoundedInduction
<1>4. N + 1 \in S
  <2> HIDE DEF S
  <2> QED BY <1>3
<1>5. \A x \in Nat : x + (N + 1) > N
  OBVIOUS
<1> QED BY <1>4, <1>5
=============================================================================
