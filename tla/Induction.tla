------------------------------ MODULE Induction ------------------------------
(***************************************************************************)
(* Induction over the naturals with a set in the place of a predicate, so  *)
(* that the provers can instantiate it, and what it gives: a function      *)
(* defined from the value before, as the loops of the models are, exists.  *)
(***************************************************************************)
EXTENDS Naturals, Sequences, WellFoundedInduction, SequenceTheorems, TLAPS

\* A set with 0 and, with every number, the next one has all numbers: the
\* counter of any loop of the code gets to any bound.
LEMMA NatInductionOnSet ==
  ASSUME NEW S, 0 \in S, \A n \in Nat : n \in S => n + 1 \in S
  PROVE  Nat \subseteq S
<1> DEFINE T == Nat \ S
<1> SUFFICES ASSUME T # {} PROVE FALSE
  OBVIOUS
<1>1. PICK x \in T : \A y \in T : ~ (<<y, x>> \in OpToRel(<, Nat))
  <2>1. T \subseteq Nat
    OBVIOUS
  <2> HIDE DEF T
  <2> QED  BY <2>1, NatLessThanWellFounded, WFMin, Zenon
<1>2. x # 0 /\ x - 1 \in T
  OBVIOUS
<1>3. <<x - 1, x>> \in OpToRel(<, Nat)
  BY <1>2 DEF OpToRel
<1> QED  BY <1>1, <1>2, <1>3, Zenon

\* A loop of n rounds, each of which goes from one value to the next, has a
\* function of its values.
LEMMA LoopExists ==
  ASSUME NEW X, NEW base \in X, NEW n \in Nat, NEW next \in [1 .. n -> [X -> X]]
  PROVE  \E f \in [0 .. n -> X] : f[0] = base /\ \A k \in 1 .. n : f[k] = next[k][f[k - 1]]
<1> DEFINE Runs(f, m) == f[0] = base /\ \A k \in 1 .. m : f[k] = next[k][f[k - 1]]
           S == {m \in Nat : m <= n => \E f \in [0 .. m -> X] : Runs(f, m)}
<1>1. 0 \in S
  <2> DEFINE f == [k \in 0 .. 0 |-> base]
  <2> f \in [0 .. 0 -> X] /\ Runs(f, 0)
    OBVIOUS
  <2> QED  OBVIOUS
<1>2. ASSUME NEW m \in Nat, m \in S PROVE m + 1 \in S
  <2> SUFFICES ASSUME m + 1 <= n PROVE \E f \in [0 .. m + 1 -> X] : Runs(f, m + 1)
    OBVIOUS
  <2>1. PICK f \in [0 .. m -> X] : Runs(f, m)
    BY <1>2
  <2> DEFINE g == [k \in 0 .. m + 1 |-> IF k <= m THEN f[k] ELSE next[m + 1][f[m]]]
  <2>2. next[m + 1][f[m]] \in X
    OBVIOUS
  <2>3. g \in [0 .. m + 1 -> X]
    BY <2>2
  <2>4. ASSUME NEW k \in 1 .. m + 1
        PROVE  g[k] = next[k][g[k - 1]]
    <3>1. CASE k <= m
      BY <2>1, <3>1
    <3>2. CASE k = m + 1
      BY <3>2
    <3> QED  BY <3>1, <3>2
  <2>5. g[0] = base
    BY <2>1
  <2> HIDE DEF g
  <2> QED  BY <2>3, <2>4, <2>5
<1>3. n \in S
  <2> HIDE DEF S
  <2> QED  BY <1>1, <1>2, NatInductionOnSet
<1> QED  BY <1>3

\* The rounds of a loop, and those of a loop of which every round is alike.
Rounds(n, X, base, next) == n \in Nat /\ base \in X /\ next \in [1 .. n -> [X -> X]]
Steps(n, X, base, step) == n \in Nat /\ base \in X /\ step \in [X -> X]

\* A loop has a function of its values.
LEMMA RoundsExist ==
  ASSUME NEW n, NEW X, NEW base, NEW next, Rounds(n, X, base, next)
  PROVE  \E f \in [0 .. n -> X] : f[0] = base /\ \A k \in 1 .. n : f[k] = next[k][f[k - 1]]
<1>1. n \in Nat /\ base \in X /\ next \in [1 .. n -> [X -> X]]
  BY DEF Rounds
<1> QED  BY <1>1, LoopExists

\* A loop of like rounds has a function of its values.
LEMMA StepsExist ==
  ASSUME NEW n, NEW X, NEW base, NEW step, Steps(n, X, base, step)
  PROVE  \E f \in [0 .. n -> X] : f[0] = base /\ \A k \in 1 .. n : f[k] = step[f[k - 1]]
<1> DEFINE next == [k \in 1 .. n |-> step]
<1>1. n \in Nat /\ base \in X /\ next \in [1 .. n -> [X -> X]]
  BY DEF Steps
<1>2. \A k \in 1 .. n : next[k] = step
  OBVIOUS
<1> HIDE DEF next
<1>3. PICK f \in [0 .. n -> X] : f[0] = base /\ \A k \in 1 .. n : f[k] = next[k][f[k - 1]]
  BY <1>1, LoopExists
<1>4. \A k \in 1 .. n : f[k] = step[f[k - 1]]
  BY <1>2, <1>3
<1> QED  BY <1>3, <1>4

\* What holds of a loop's value at first and survives every round holds of its
\* value after any round.
LEMMA LoopStays ==
  ASSUME NEW X, NEW n \in Nat, NEW f, f[0] \in X,
         \A k \in 1 .. n : f[k - 1] \in X => f[k] \in X
  PROVE  \A k \in 0 .. n : f[k] \in X
<1> DEFINE S == {m \in Nat : m <= n => f[m] \in X}
<1>1. 0 \in S
  OBVIOUS
<1>2. ASSUME NEW m \in Nat, m \in S PROVE m + 1 \in S
  <2> SUFFICES ASSUME m + 1 <= n PROVE f[m + 1] \in X
    OBVIOUS
  <2>1. m + 1 \in 1 .. n /\ (m + 1) - 1 = m /\ f[m] \in X
    BY <1>2
  <2> QED  BY <2>1
<1>3. Nat \subseteq S
  <2> HIDE DEF S
  <2> QED  BY <1>1, <1>2, NatInductionOnSet
<1> QED  BY <1>3

\* Two loops that begin alike and go alike through every round are one loop.
LEMMA LoopUnique ==
  ASSUME NEW n \in Nat, NEW f, NEW g, f[0] = g[0],
         \A k \in 1 .. n : f[k - 1] = g[k - 1] => f[k] = g[k]
  PROVE  \A k \in 0 .. n : f[k] = g[k]
<1> DEFINE S == {m \in Nat : m <= n => f[m] = g[m]}
<1>1. 0 \in S
  OBVIOUS
<1>2. ASSUME NEW m \in Nat, m \in S PROVE m + 1 \in S
  <2> SUFFICES ASSUME m + 1 <= n PROVE f[m + 1] = g[m + 1]
    OBVIOUS
  <2>1. m + 1 \in 1 .. n /\ (m + 1) - 1 = m /\ f[m] = g[m]
    BY <1>2
  <2> QED  BY <2>1
<1>3. Nat \subseteq S
  <2> HIDE DEF S
  <2> QED  BY <1>1, <1>2, NatInductionOnSet
<1> QED  BY <1>3

\* Two loops that go alike.
Alike(n, f, g) ==
  n \in Nat /\ f[0] = g[0] /\ \A k \in 1 .. n : f[k - 1] = g[k - 1] => f[k] = g[k]

\* Loops that go alike have the same value after every round.
LEMMA AlikeIsSame ==
  ASSUME NEW n, NEW f, NEW g, Alike(n, f, g)
  PROVE  \A k \in 0 .. n : f[k] = g[k]
<1>1. n \in Nat /\ f[0] = g[0]
  BY DEF Alike
<1>2. \A k \in 1 .. n : f[k - 1] = g[k - 1] => f[k] = g[k]
  BY DEF Alike
<1> QED  BY <1>1, <1>2, LoopUnique

\* A set with the empty sequence and, with every sequence, the longer ones has
\* all sequences.
LEMMA SeqInductionOnSet ==
  ASSUME NEW T, NEW S, << >> \in S, \A s \in Seq(T), e \in T : s \in S => Append(s, e) \in S
  PROVE  Seq(T) \subseteq S
<1> DEFINE N == {m \in Nat : \A s \in Seq(T) : Len(s) = m => s \in S}
<1>1. 0 \in N
  BY EmptySeq
<1>2. ASSUME NEW m \in Nat, m \in N PROVE m + 1 \in N
  <2> SUFFICES ASSUME NEW t \in Seq(T), Len(t) = m + 1 PROVE t \in S
    OBVIOUS
  <2>1. t # << >>
    OBVIOUS
  <2>2. PICK s \in Seq(T), e \in T : t = Append(s, e)
    BY <2>1, SequenceEmptyOrAppend
  <2>3. Len(s) = m
    BY <2>2
  <2> QED  BY <1>2, <2>2, <2>3
<1>3. Nat \subseteq N
  <2> HIDE DEF N
  <2> QED  BY <1>1, <1>2, NatInductionOnSet
<1> QED  BY <1>3, LenProperties

\* Among numbers there is a least one.
LEMMA LeastNumber ==
  ASSUME NEW S \in SUBSET Nat, S # {}
  PROVE  \E k \in S : \A h \in S : k <= h
<1>1. PICK k \in S : \A h \in S : ~ (<<h, k>> \in OpToRel(<, Nat))
  BY NatLessThanWellFounded, WFMin, Zenon
<1>2. ASSUME NEW h \in S PROVE k <= h
  <2>1. h \in Nat /\ k \in Nat
    OBVIOUS
  <2>2. h < k => <<h, k>> \in OpToRel(<, Nat)
    BY <2>1, Zenon DEF OpToRel
  <2>3. ~ (h < k)
    BY <1>1, <2>2, Zenon
  <2> QED  BY <2>1, <2>3
<1> QED  BY <1>2
=============================================================================
