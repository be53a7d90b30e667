-------------------------- MODULE StepgenFill_proofs --------------------------
(***************************************************************************)
(* Proofs about the filling of the ring: what the sums over its words are, *)
(* that the closed form of emit_run() counts them, that nothing is left in *)
(* the engine at rest, and where an armed reversal may be.                 *)
(***************************************************************************)
EXTENDS Stepgen_proofs, WellFoundedInduction

(* Induction over the naturals, for a set instead of a predicate.          *)
LEMMA NatSetInduction ==
    ASSUME NEW S, 0 \in S, \A n \in Nat : n \in S => n + 1 \in S
    PROVE  Nat \subseteq S
<1> DEFINE R == {ss \in Nat \X Nat : ss[1] < ss[2]}
           T == Nat \ S
<1>1. IsWellFoundedOn(R, Nat)
  BY NatLessThanWellFounded DEF OpToRel
<1>2. \A x, y \in Nat : y < x => <<y, x>> \in R
  OBVIOUS
<1> SUFFICES ASSUME T # {} PROVE FALSE
  OBVIOUS
<1>3. T \subseteq Nat
  OBVIOUS
<1> HIDE DEF R, T
<1>4. PICK x \in T : \A y \in T : ~ (<<y, x>> \in R)
  BY <1>1, <1>3, WFMin, Zenon
<1>5. x \in Nat /\ x \notin S
  BY <1>4 DEF T
<1>6. x - 1 \in Nat /\ x - 1 < x
  BY <1>5
<1>7. x - 1 \notin T
  BY <1>2, <1>4, <1>5, <1>6
<1>8. x - 1 \in S
  BY <1>6, <1>7 DEF T
<1>. QED BY <1>5, <1>6, <1>8

---------------------------------------------------------------------------
(* Sums over the words of a half.                                          *)

(* The partial sums that StepsIn defines exist. *)
LEMMA SumsExist ==
    ASSUME NEW words \in [RingIx -> Word], NEW a \in Axes, NEW half \in Half
    PROVE  \E sum \in [0 .. HalfTicks -> Int] :
              sum = [i \in 0 .. HalfTicks |->
                       IF i = 0 THEN 0
                       ELSE sum[i - 1] + words[half * HalfTicks + i - 1][a]]
<1> DEFINE w(i) == words[half * HalfTicks + i - 1][a]
           Upto(m, s) == /\ s \in [0 .. m -> Int] /\ s[0] = 0
                         /\ \A i \in 1 .. m : s[i] = s[i - 1] + w(i)
           S == {m \in Nat : m <= HalfTicks => \E s : Upto(m, s)}
<1>1. \A i \in 1 .. HalfTicks : w(i) \in Int
  <2>1. \A i \in 1 .. HalfTicks : half * HalfTicks + i - 1 \in RingIx
    BY HalfTicksAssumption DEF RingIx, Half
  <2>. QED BY <2>1 DEF Word, Sign
<1> HIDE DEF w
<1>2. 0 \in S
  <2>1. Upto(0, [i \in 0 .. 0 |-> 0])
    OBVIOUS
  <2>. QED BY <2>1
<1>3. ASSUME NEW m \in Nat, m \in S PROVE m + 1 \in S
  <2> SUFFICES ASSUME m + 1 <= HalfTicks PROVE \E s : Upto(m + 1, s)
    OBVIOUS
  <2>1. PICK s : Upto(m, s)
    BY <1>3, HalfTicksAssumption
  <2> DEFINE t == [i \in 0 .. m + 1 |-> IF i = m + 1 THEN s[m] + w(m + 1) ELSE s[i]]
  <2>2. w(m + 1) \in Int
    BY <1>1, HalfTicksAssumption
  <2>3. t \in [0 .. m + 1 -> Int] /\ t[0] = 0
    BY <2>1, <2>2
  <2>4. \A i \in 1 .. m + 1 : t[i] = t[i - 1] + w(i)
    BY <2>1
  <2>. QED BY <2>3, <2>4
<1>4. HalfTicks \in S
  <2>. HIDE DEF S
  <2>. QED BY <1>2, <1>3, NatSetInduction, HalfTicksAssumption
<1>5. PICK s : Upto(HalfTicks, s)
  BY <1>4, HalfTicksAssumption
<1>6. s = [i \in 0 .. HalfTicks |-> IF i = 0 THEN 0 ELSE s[i - 1] + w(i)]
  BY <1>5, HalfTicksAssumption
<1>. QED BY <1>5, <1>6 DEF w

(* The sum of no words, of one more word, and that it is a number. *)
LEMMA StepsInRec ==
    ASSUME NEW words \in [RingIx -> Word], NEW a \in Axes, NEW half \in Half
    PROVE  /\ StepsIn(words, a, half, 0) = 0
           /\ \A n \in 0 .. HalfTicks : StepsIn(words, a, half, n) \in Int
           /\ \A n \in 0 .. HalfTicks - 1 :
                StepsIn(words, a, half, n + 1) =
                  StepsIn(words, a, half, n) + words[half * HalfTicks + n][a]
<1> DEFINE Is(s) == s = [i \in 0 .. HalfTicks |->
                       IF i = 0 THEN 0
                       ELSE s[i - 1] + words[half * HalfTicks + i - 1][a]]
           sum == CHOOSE s : Is(s)
<1>1. ASSUME NEW n PROVE StepsIn(words, a, half, n) = sum[n]
  BY DEF StepsIn
<1>2. PICK t \in [0 .. HalfTicks -> Int] : Is(t)
  BY SumsExist
<1>3. Is(sum)
  BY <1>2
<1> HIDE DEF sum
<1>4. sum[0] = 0
  BY <1>3, HalfTicksAssumption
<1>5. ASSUME NEW n \in 0 .. HalfTicks - 1
      PROVE  sum[n + 1] = sum[n] + words[half * HalfTicks + n][a]
  <2>1. n + 1 \in 0 .. HalfTicks /\ n + 1 # 0 /\ (n + 1) - 1 = n
        /\ half * HalfTicks + (n + 1) - 1 = half * HalfTicks + n
    BY HalfTicksAssumption DEF Half
  <2>. QED BY <1>3, <2>1
<1>6. \A n \in 0 .. HalfTicks : sum[n] \in Int
  <2> DEFINE S == {n \in Nat : n <= HalfTicks => sum[n] \in Int}
  <2>1. 0 \in S
    BY <1>4
  <2>2. ASSUME NEW n \in Nat, n \in S PROVE n + 1 \in S
    <3> SUFFICES ASSUME n + 1 <= HalfTicks PROVE sum[n + 1] \in Int
      OBVIOUS
    <3>1. n \in 0 .. HalfTicks - 1 /\ sum[n] \in Int
      BY <2>2, HalfTicksAssumption
    <3>2. words[half * HalfTicks + n][a] \in Int
      BY <3>1, HalfTicksAssumption DEF RingIx, Half, Word, Sign
    <3>. QED BY <1>5, <3>1, <3>2
  <2>3. Nat \subseteq S
    <3>. HIDE DEF S
    <3>. QED BY <2>1, <2>2, NatSetInduction
  <2>. QED BY <2>3, HalfTicksAssumption
<1>. QED BY <1>1, <1>4, <1>5, <1>6

(* It depends on the words it sums only. *)
LEMMA StepsInSame ==
    ASSUME NEW words \in [RingIx -> Word], NEW other \in [RingIx -> Word],
           NEW a \in Axes, NEW half \in Half, NEW n \in 0 .. HalfTicks,
           \A j \in 0 .. n - 1 : other[half * HalfTicks + j][a] = words[half * HalfTicks + j][a]
    PROVE  StepsIn(other, a, half, n) = StepsIn(words, a, half, n)
<1> DEFINE S == {m \in Nat : m <= n => StepsIn(other, a, half, m) = StepsIn(words, a, half, m)}
<1>1. 0 \in S
  BY StepsInRec
<1>2. ASSUME NEW m \in Nat, m \in S PROVE m + 1 \in S
  <2> SUFFICES ASSUME m + 1 <= n
               PROVE  StepsIn(other, a, half, m + 1) = StepsIn(words, a, half, m + 1)
    OBVIOUS
  <2>1. m \in 0 .. HalfTicks - 1 /\ m \in 0 .. n - 1
    BY HalfTicksAssumption
  <2>2. StepsIn(other, a, half, m) = StepsIn(words, a, half, m)
    BY <1>2, <2>1
  <2>. QED BY <2>1, <2>2, StepsInRec
<1>3. Nat \subseteq S
  <2>. HIDE DEF S
  <2>. QED BY <1>1, <1>2, NatSetInduction
<1>. QED BY <1>3, HalfTicksAssumption

---------------------------------------------------------------------------
(* Remainders.                                                             *)
LEMMA ModSplit ==
    ASSUME NEW M \in Nat \ {0}, NEW x \in Int
    PROVE  x \div M \in Int /\ x % M \in 0 .. M - 1 /\ x = M * (x \div M) + (x % M)
<1>1. x \div M \in Int
  OBVIOUS
<1>2. x % M \in 0 .. M - 1
  OBVIOUS
<1>3. x = M * (x \div M) + (x % M)
  OBVIOUS
<1>. QED BY <1>1, <1>2, <1>3

LEMMA ModUnique ==
    ASSUME NEW M \in Nat \ {0}, NEW q \in Int, NEW r \in 0 .. M - 1
    PROVE  (M * q + r) % M = r /\ (M * q + r) \div M = q
<1> DEFINE x == M * q + r
           d == x \div M
           e == x % M
<1>1. x \in Int /\ d \in Int /\ e \in 0 .. M - 1 /\ x = M * d + e
  OBVIOUS
<1>2. M * (q - d) = e - r
  BY <1>1
<1>3. -M < M * (q - d) /\ M * (q - d) < M
  BY <1>1, <1>2
<1>4. q - d = 0
  <2>1. ASSUME q - d >= 1 PROVE FALSE
    <3>1. M * (q - d) >= M
      BY <1>1, <2>1
    <3>. QED BY <3>1, <1>3
  <2>2. ASSUME q - d <= -1 PROVE FALSE
    <3>1. M * (q - d) <= -M
      BY <1>1, <2>2
    <3>. QED BY <3>1, <1>3
  <2>. QED BY <2>1, <2>2, <1>1
<1>. QED BY <1>1, <1>4

(* A remainder may be taken before an addition or after it. *)
LEMMA ModPlus ==
    ASSUME NEW M \in Nat \ {0}, NEW x \in Int, NEW y \in Int
    PROVE  /\ ((x % M) + y) % M = (x + y) % M
           /\ (y - (x % M)) % M = (y - x) % M
<1> DEFINE q == x \div M
           r == x % M
<1>1. q \in Int /\ r \in 0 .. M - 1 /\ x = M * q + r
  BY ModSplit
<1> HIDE DEF q, r
<1>2. (r + y) % M = (x + y) % M
  <2> DEFINE u == (r + y) \div M
             v == (r + y) % M
  <2>1. u \in Int /\ v \in 0 .. M - 1 /\ r + y = M * u + v
    BY <1>1, ModSplit
  <2> HIDE DEF u, v
  <2>2. x + y = M * (q + u) + v
    BY <1>1, <2>1
  <2>3. (M * (q + u) + v) % M = v
    BY <1>1, <2>1, ModUnique
  <2>. QED BY <2>2, <2>3 DEF v
<1>3. (y - r) % M = (y - x) % M
  <2> DEFINE u == (y - r) \div M
             v == (y - r) % M
  <2>1. u \in Int /\ v \in 0 .. M - 1 /\ y - r = M * u + v
    BY <1>1, ModSplit
  <2> HIDE DEF u, v
  <2>2. y - x = M * (u - q) + v
    BY <1>1, <2>1
  <2>3. (M * (u - q) + v) % M = v
    BY <1>1, <2>1, ModUnique
  <2>. QED BY <2>2, <2>3 DEF v
<1>. QED BY <1>2, <1>3 DEF r

---------------------------------------------------------------------------
(* One run of emit_run().                                                  *)

(* The high word goes up by one exactly when the low word wraps. *)
LEMMA WrapOnce ==
    ASSUME NEW x \in Nat, NEW i \in 0 .. RateMax
    PROVE  /\ (x + i) \div PhaseMod =
                 (x \div PhaseMod) + (IF (x + i) % PhaseMod < i THEN 1 ELSE 0)
           /\ (x + i) % PhaseMod < i => x % PhaseMod >= RateMax
           /\ x % PhaseMod < i => ~((x + i) % PhaseMod < i)
<1> DEFINE q == x \div PhaseMod
           r == x % PhaseMod
<1>1. PhaseMod \in Nat \ {0} /\ PhaseMod = 2 * RateMax /\ RateMax \in Nat
  BY RateAssumption DEF PhaseMod
<1>0. PhaseMod \in Nat \ {0} /\ x \in Int
  BY RateAssumption DEF PhaseMod
<1>2. q \in Int /\ r \in 0 .. PhaseMod - 1 /\ x = PhaseMod * q + r
  BY <1>0, ModSplit
<1> HIDE DEF q, r
<1>3. CASE r + i < PhaseMod
  <2>1. r + i \in 0 .. PhaseMod - 1 /\ x + i = PhaseMod * q + (r + i)
    BY <1>1, <1>2, <1>3
  <2>2. (x + i) % PhaseMod = r + i /\ (x + i) \div PhaseMod = q
    BY <1>0, <1>2, <2>1, ModUnique
  <2>. QED BY <1>1, <1>2, <2>2 DEF q, r
<1>4. CASE r + i >= PhaseMod
  <2>1. r + i - PhaseMod \in 0 .. PhaseMod - 1 /\ q + 1 \in Int
        /\ x + i = PhaseMod * (q + 1) + (r + i - PhaseMod)
    BY <1>1, <1>2, <1>4
  <2>2. (x + i) % PhaseMod = r + i - PhaseMod /\ (x + i) \div PhaseMod = q + 1
    BY <1>0, <2>1, ModUnique, ZenonT(60)
  <2>. QED BY <1>1, <1>2, <1>4, <2>2 DEF q, r
<1>. QED BY <1>1, <1>2, <1>3, <1>4

(* The closed form counts a word at a time; no two words in a row step; the *)
(* first steps only from the upper half of the accumulator, and a last word *)
(* that steps leaves it in the lower half.                                  *)
LEMMA RunSteps ==
    ASSUME NEW p \in 0 .. PhaseMod - 1, NEW i \in 0 .. RateMax
    PROVE  /\ ClosedForm(p, i, 0) = 0
           /\ \A k \in Nat : ClosedForm(p, i, k) \in Int
           /\ \A k \in Nat : ClosedForm(p, i, k + 1) =
                 ClosedForm(p, i, k) + (IF StepsAt(p, i, k) THEN 1 ELSE 0)
           /\ \A j \in Nat : StepsAt(p, i, j) => ~StepsAt(p, i, j + 1)
           /\ StepsAt(p, i, 0) => p >= RateMax
           /\ \A k \in Nat : StepsAt(p, i, k) => (p + i * (k + 1)) % PhaseMod < RateMax
           /\ i = 0 => \A j \in Nat : ~StepsAt(p, i, j)
<1>0. PhaseMod \in Nat \ {0} /\ RateMax \in Nat /\ PhaseMod = 2 * RateMax
  BY RateAssumption DEF PhaseMod
<1>1. \A k \in Nat : p + i * k \in Nat /\ p + i * (k + 1) = (p + i * k) + i
                     /\ p + i * (k + 1) \in Nat
  <2> SUFFICES ASSUME NEW k \in Nat
               PROVE  p + i * k \in Nat /\ p + i * (k + 1) = (p + i * k) + i
    BY <1>0
  <2>1. i * k \in Nat /\ i * (k + 1) = i * k + i
    BY <1>0
  <2>. QED BY <2>1, <1>0
<1>2. p + i * 0 = p /\ p % PhaseMod = p /\ p \div PhaseMod = 0
  <2>1. p + i * 0 = p
    BY <1>0
  <2>2. PhaseMod * 0 + p = p /\ 0 \in Int
    BY <1>0
  <2>. QED BY <2>1, <2>2, <1>0, ModUnique
<1>3. ASSUME NEW k \in Nat
      PROVE  /\ ClosedForm(p, i, k) \in Int
             /\ ClosedForm(p, i, k + 1) = ClosedForm(p, i, k)
                                          + (IF StepsAt(p, i, k) THEN 1 ELSE 0)
             /\ StepsAt(p, i, k) => ~StepsAt(p, i, k + 1)
             /\ StepsAt(p, i, k) => (p + i * (k + 1)) % PhaseMod < RateMax
  <2> DEFINE x == p + i * k
             y == p + i * (k + 1)
  <2>1. x \in Nat /\ y = x + i /\ y \in Nat /\ p + i * ((k + 1) + 1) = y + i
    BY <1>1
  <2> HIDE DEF x, y
  <2>2. (x + i) \div PhaseMod = (x \div PhaseMod) + (IF (x + i) % PhaseMod < i THEN 1 ELSE 0)
    BY <2>1, WrapOnce
  <2>3. y % PhaseMod < i => ~((y + i) % PhaseMod < i)
    BY <2>1, WrapOnce
  <2>4. x \div PhaseMod \in Int /\ y % PhaseMod \in Nat
    BY <2>1, <1>0, ModSplit
  <2>5. y % PhaseMod < i => y % PhaseMod < RateMax
    BY <2>4, <1>0
  <2>6. /\ ClosedForm(p, i, k) = x \div PhaseMod /\ ClosedForm(p, i, k + 1) = y \div PhaseMod
        /\ StepsAt(p, i, k) <=> y % PhaseMod < i
        /\ StepsAt(p, i, k + 1) <=> (y + i) % PhaseMod < i
        /\ (p + i * (k + 1)) % PhaseMod = y % PhaseMod
    BY <2>1 DEF ClosedForm, StepsAt, x, y
  <2>. QED BY <2>1, <2>2, <2>3, <2>4, <2>5, <2>6
<1>4. StepsAt(p, i, 0) => p >= RateMax
  <2>1. p + i * (0 + 1) = p + i
    BY <1>0
  <2>2. (p + i) % PhaseMod < i => p % PhaseMod >= RateMax
    BY <1>0, WrapOnce
  <2>. QED BY <1>2, <2>1, <2>2 DEF StepsAt
<1>5. ClosedForm(p, i, 0) = 0
  BY <1>2 DEF ClosedForm
<1>6. ASSUME i = 0, NEW j \in Nat PROVE ~StepsAt(p, i, j)
  <2>1. p + i * (j + 1) = p
    BY <1>0, <1>6
  <2>. QED BY <1>2, <1>6, <2>1 DEF StepsAt
<1>. QED BY <1>3, <1>4, <1>5, <1>6

(* The words that a run writes add up to its closed form. *)
LEMMA RunTotal ==
    ASSUME NEW words \in [RingIx -> Word], NEW other \in [RingIx -> Word],
           NEW a \in Axes, NEW half \in Half, NEW d \in 0 .. HalfTicks,
           NEW k \in 0 .. HalfTicks, d + k <= HalfTicks,
           NEW p \in 0 .. PhaseMod - 1, NEW i \in 0 .. RateMax, NEW f \in {-1, 1},
           \A j \in 0 .. d - 1 : other[half * HalfTicks + j][a] = words[half * HalfTicks + j][a],
           \A j \in 0 .. k - 1 : other[half * HalfTicks + (d + j)][a] =
                                    IF StepsAt(p, i, j) THEN f ELSE 0
    PROVE  StepsIn(other, a, half, d + k) =
              StepsIn(words, a, half, d) + f * ClosedForm(p, i, k)
<1> DEFINE T(m) == StepsIn(other, a, half, d + m) =
                      StepsIn(words, a, half, d) + f * ClosedForm(p, i, m)
           S == {m \in Nat : m <= k => T(m)}
<1>0. StepsIn(words, a, half, d) \in Int /\ HalfTicks \in Nat
  BY StepsInRec, HalfTicksAssumption
<1>1. 0 \in S
  <2>1. StepsIn(other, a, half, d) = StepsIn(words, a, half, d)
    BY StepsInSame
  <2>2. ClosedForm(p, i, 0) = 0 /\ d + 0 = d
    BY RunSteps, <1>0
  <2>. QED BY <1>0, <2>1, <2>2
<1>2. ASSUME NEW m \in Nat, m \in S PROVE m + 1 \in S
  <2> SUFFICES ASSUME m + 1 <= k PROVE T(m + 1)
    OBVIOUS
  <2>1. m \in 0 .. k - 1 /\ d + m \in 0 .. HalfTicks - 1 /\ d + (m + 1) = (d + m) + 1
    BY <1>0
  <2>2. T(m)
    BY <1>2, <1>0
  <2>3. StepsIn(other, a, half, (d + m) + 1) =
          StepsIn(other, a, half, d + m) + other[half * HalfTicks + (d + m)][a]
    BY <2>1, StepsInRec
  <2>4. other[half * HalfTicks + (d + m)][a] = IF StepsAt(p, i, m) THEN f ELSE 0
    BY <2>1
  <2>5. /\ ClosedForm(p, i, m) \in Int
        /\ ClosedForm(p, i, m + 1) = ClosedForm(p, i, m)
                                     + (IF StepsAt(p, i, m) THEN 1 ELSE 0)
    BY RunSteps
  <2>. QED BY <1>0, <2>1, <2>2, <2>3, <2>4, <2>5
<1>3. Nat \subseteq S
  <2>. HIDE DEF S
  <2>. QED BY <1>1, <1>2, NatSetInduction
<1>. QED BY <1>3, <1>0

(* Words of no step add nothing. *)
LEMMA SilentTotal ==
    ASSUME NEW words \in [RingIx -> Word], NEW other \in [RingIx -> Word],
           NEW a \in Axes, NEW half \in Half, NEW d \in 0 .. HalfTicks,
           \A j \in 0 .. d - 1 : other[half * HalfTicks + j][a] = words[half * HalfTicks + j][a],
           \A j \in d .. HalfTicks - 1 : other[half * HalfTicks + j][a] = 0
    PROVE  StepsIn(other, a, half, HalfTicks) = StepsIn(words, a, half, d)
<1> DEFINE S == {m \in Nat : d + m <= HalfTicks =>
                     StepsIn(other, a, half, d + m) = StepsIn(words, a, half, d)}
<1>0. HalfTicks \in Nat /\ StepsIn(words, a, half, d) \in Int
  BY HalfTicksAssumption, StepsInRec
<1>1. 0 \in S
  <2>1. StepsIn(other, a, half, d) = StepsIn(words, a, half, d) /\ d + 0 = d
    BY StepsInSame
  <2>. QED BY <2>1
<1>2. ASSUME NEW m \in Nat, m \in S PROVE m + 1 \in S
  <2> SUFFICES ASSUME d + (m + 1) <= HalfTicks
               PROVE  StepsIn(other, a, half, d + (m + 1)) = StepsIn(words, a, half, d)
    OBVIOUS
  <2>1. d + m \in 0 .. HalfTicks - 1 /\ d + m \in d .. HalfTicks - 1
        /\ d + (m + 1) = (d + m) + 1
    BY <1>0
  <2>2. StepsIn(other, a, half, d + m) = StepsIn(words, a, half, d)
    BY <1>0, <1>2, <2>1
  <2>3. StepsIn(other, a, half, (d + m) + 1) =
          StepsIn(other, a, half, d + m) + other[half * HalfTicks + (d + m)][a]
    BY <2>1, StepsInRec
  <2>4. other[half * HalfTicks + (d + m)][a] = 0
    BY <2>1
  <2>. QED BY <1>0, <2>1, <2>2, <2>3, <2>4
<1>3. Nat \subseteq S
  <2>. HIDE DEF S
  <2>. QED BY <1>1, <1>2, NatSetInduction
<1>4. HalfTicks - d \in Nat /\ d + (HalfTicks - d) = HalfTicks
  BY <1>0
<1>. QED BY <1>0, <1>3, <1>4

---------------------------------------------------------------------------
(* Ticks.                                                                  *)

(* The index ranges are wide enough to tell the halves of a ring and its    *)
(* guard apart; in the code they have 32 bits.                              *)
WideIndices == HalfMod >= 3 /\ TickMod >= 2 * (HalfTicks + GuardTicks)

LEMMA ModDiff ==
    ASSUME NEW M \in Nat \ {0}, NEW x \in Int, NEW y \in Int
    PROVE  ((x % M) - (y % M)) % M = (x - y) % M
<1>1. x % M \in Int /\ y % M \in Int
  BY ModSplit
<1>2. ((x % M) - (y % M)) % M = ((x % M) - y) % M
  BY <1>1, ModPlus
<1>3. (x % M) - y = (x % M) + (-y) /\ -y \in Int /\ x + (-y) = x - y
  BY <1>1
<1>4. ((x % M) + (-y)) % M = (x + (-y)) % M
  BY <1>3, ModPlus
<1>. QED BY <1>2, <1>3, <1>4

LEMMA ModSmall ==
    ASSUME NEW M \in Nat \ {0}, NEW x \in 0 .. M - 1
    PROVE  x % M = x
<1>1. M * 0 + x = x /\ 0 \in Int
  OBVIOUS
<1>. QED BY <1>1, ModUnique

(* The half after this one starts HalfTicks later, also across the wrap. *)
LEMMA HalfStartNext ==
    ASSUME NEW h \in HalfIx
    PROVE  HalfStart(NextHalf(h)) = (HalfStart(h) + HalfTicks) % TickMod
<1>1. /\ h \in Nat /\ HalfMod \in Nat \ {0} /\ TickMod \in Nat \ {0} /\ HalfTicks \in Nat
      /\ (HalfMod * HalfTicks) % TickMod = 0 /\ h + 1 <= HalfMod
  BY WrapAssumption, HalfTicksAssumption DEF HalfIx
<1>2. h * HalfTicks \in Int /\ (h + 1) * HalfTicks = h * HalfTicks + HalfTicks
  BY <1>1
<1>3. (HalfStart(h) + HalfTicks) % TickMod = ((h + 1) * HalfTicks) % TickMod
  <2> DEFINE x == h * HalfTicks
  <2>1. x \in Int /\ HalfTicks \in Int /\ (h + 1) * HalfTicks = x + HalfTicks
        /\ HalfStart(h) = x % TickMod
    BY <1>1, <1>2 DEF HalfStart
  <2>. HIDE DEF x
  <2>2. ((x % TickMod) + HalfTicks) % TickMod = (x + HalfTicks) % TickMod
    BY <1>1, <2>1, ModPlus
  <2>. QED BY <2>1, <2>2
<1>4. CASE h + 1 = HalfMod
  <2>1. HalfMod * 1 + 0 = HalfMod /\ 0 \in 0 .. HalfMod - 1
    BY <1>1
  <2>2. NextHalf(h) = 0
    BY <1>1, <1>4, <2>1, ModUnique DEF NextHalf
  <2>3. 0 * HalfTicks = 0 /\ 0 \in 0 .. TickMod - 1
    BY <1>1
  <2>4. HalfStart(0) = 0
    BY <1>1, <2>3, ModSmall DEF HalfStart
  <2>. QED BY <1>1, <1>3, <1>4, <2>2, <2>4
<1>5. CASE h + 1 # HalfMod
  <2>1. h + 1 \in 0 .. HalfMod - 1
    BY <1>1, <1>5
  <2>2. NextHalf(h) = h + 1
    BY <1>1, <2>1, ModSmall DEF NextHalf
  <2>. QED BY <1>3, <2>2 DEF HalfStart
<1>. QED BY <1>4, <1>5

(* A half, the next one and the one after it are different. *)
LEMMA NextHalves ==
    ASSUME WideIndices, NEW h \in HalfIx
    PROVE  /\ NextHalf(h) \in HalfIx /\ Next2(h) \in HalfIx
           /\ NextHalf(h) # h /\ Next2(h) # h /\ Next2(h) # NextHalf(h)
<1>1. HalfMod \in Nat /\ HalfMod >= 3 /\ h \in 0 .. HalfMod - 1
  BY WrapAssumption DEF WideIndices, HalfIx
<1>2. ASSUME NEW g \in 0 .. HalfMod - 1
      PROVE  NextHalf(g) = IF g + 1 = HalfMod THEN 0 ELSE g + 1
  <2>1. CASE g + 1 = HalfMod
    <3>1. HalfMod * 1 + 0 = HalfMod /\ 0 \in 0 .. HalfMod - 1
      BY <1>1
    <3>2. HalfMod % HalfMod = 0
      BY <1>1, <3>1, ModUnique
    <3>. QED BY <2>1, <3>2 DEF NextHalf
  <2>2. CASE g + 1 # HalfMod
    <3>1. g + 1 \in 0 .. HalfMod - 1 /\ HalfMod \in Nat \ {0}
      BY <1>1, <2>2
    <3>. QED BY <2>2, <3>1, ModSmall DEF NextHalf
  <2>. QED BY <2>1, <2>2
<1>3. NextHalf(h) \in 0 .. HalfMod - 1
  BY <1>1, <1>2
<1>4. NextHalf(NextHalf(h)) = IF NextHalf(h) + 1 = HalfMod THEN 0 ELSE NextHalf(h) + 1
  BY <1>2, <1>3
<1>5. NextHalf(h) = IF h + 1 = HalfMod THEN 0 ELSE h + 1
  BY <1>1, <1>2
<1>. QED BY <1>1, <1>3, <1>4, <1>5 DEF HalfIx, Next2

(* A filler is at the first tick of its half exactly when it has filled none. *)
LEMMA NowAtStart ==
    ASSUME WideIndices, NEW c \in Caller, frame[c].index \in HalfIx,
           frame[c].done \in 0 .. HalfTicks - 1
    PROVE  Now(c) = HalfStart(frame[c].index) <=> frame[c].done = 0
<1> DEFINE s == HalfStart(frame[c].index)
           d == frame[c].done
<1>1. TickMod \in Nat \ {0} /\ s \in 0 .. TickMod - 1 /\ d \in 0 .. TickMod - 1
  BY HalfStartType, WrapAssumption, HalfTicksAssumption, GuardAssumption DEF WideIndices, Tick
<1>2. Now(c) = (s + d) % TickMod
  BY DEF Now
<1> HIDE DEF s, d
<1>3. s % TickMod = s /\ d % TickMod = d
  BY <1>1, ModSmall
<1>4. (((s + d) % TickMod) - (s % TickMod)) % TickMod = d
  <2>1. s + d \in Int /\ (s + d) - s = d /\ s \in Int
    BY <1>1
  <2>. QED BY <1>1, <1>3, <2>1, ModDiff
<1>5. CASE d = 0
  BY <1>1, <1>2, <1>3, <1>5 DEF s, d
<1>6. CASE d # 0
  <2>1. ASSUME (s + d) % TickMod = s PROVE FALSE
    <3>1. s - s = 0 /\ 0 \in 0 .. TickMod - 1 /\ s % TickMod = s
      BY <1>1, <1>3
    <3>2. 0 % TickMod = d
      BY <1>4, <2>1, <3>1
    <3>. QED BY <1>1, <1>6, <3>1, <3>2, ModSmall
  <2>. QED BY <1>2, <1>6, <2>1 DEF s, d
<1>. QED BY <1>5, <1>6

(* A tick that is less than half the range away is still to come. *)
LEMMA TickAhead ==
    ASSUME WideIndices, NEW s \in Int, NEW x \in Int, NEW y \in Int,
           x - y - 1 \in 0 .. HalfTicks + GuardTicks - 1
    PROVE  TickGE((s + x) % TickMod, (((s + y) % TickMod) + 1) % TickMod)
<1>0. TickMod \in Nat \ {0} /\ HalfTicks \in Nat /\ GuardTicks \in Nat
  BY WrapAssumption, HalfTicksAssumption, GuardAssumption
<1>1. (((s + y) % TickMod) + 1) % TickMod = (s + y + 1) % TickMod
  <2> DEFINE z == s + y
  <2>1. z \in Int /\ 1 \in Int
    OBVIOUS
  <2>. HIDE DEF z
  <2>2. ((z % TickMod) + 1) % TickMod = (z + 1) % TickMod
    BY <1>0, <2>1, ModPlus
  <2>. QED BY <2>2 DEF z
<1>2. (((s + x) % TickMod) - ((s + y + 1) % TickMod)) % TickMod = (x - y - 1) % TickMod
  <2> DEFINE u == s + x
             v == s + y + 1
  <2>1. u \in Int /\ v \in Int /\ u - v = x - y - 1
    OBVIOUS
  <2>. HIDE DEF u, v
  <2>2. ((u % TickMod) - (v % TickMod)) % TickMod = (u - v) % TickMod
    BY <1>0, <2>1, ModDiff
  <2>. QED BY <2>1, <2>2 DEF u, v
<1>3. TickMod \div 2 >= HalfTicks + GuardTicks
  <2>1. TickMod \div 2 \in Int /\ TickMod % 2 \in 0 .. 1
        /\ TickMod = 2 * (TickMod \div 2) + (TickMod % 2)
    BY <1>0
  <2>. QED BY <1>0, <2>1 DEF WideIndices
<1>4. x - y - 1 \in 0 .. TickMod - 1
  BY <1>0 DEF WideIndices
<1>5. (x - y - 1) % TickMod = x - y - 1
  BY <1>0, <1>4, ModSmall
<1>6. TickGE((s + x) % TickMod, (s + y + 1) % TickMod)
  BY <1>0, <1>2, <1>3, <1>5 DEF TickGE
<1>. QED BY <1>1, <1>6

(* The first tick at which an axis armed for a half may step. *)
GuardOf(h) == (HalfStart(h) + GuardTicks) % TickMod

(* An axis armed for the half after the one being filled is silent, and so  *)
(* is one armed for this half while its guard lasts.                        *)
LEMMA ArmedIsBlocked ==
    ASSUME WideIndices, NEW c \in Caller, frame[c].index \in HalfIx,
           frame[c].done \in 0 .. HalfTicks - 1,
           NEW a \in Axes, ax[a].blockUntil = GuardOf(ax[a].armedHalf),
           \/ ax[a].armedHalf = frame[c].index /\ frame[c].done < GuardTicks
           \/ ax[a].armedHalf = NextHalf(frame[c].index)
    PROVE  Rate(a, Now(c)) = 0
<1> DEFINE s == HalfStart(frame[c].index)
           d == frame[c].done
<1>0. TickMod \in Nat \ {0} /\ HalfTicks \in Nat /\ GuardTicks \in Nat
      /\ s \in Int /\ d \in 0 .. HalfTicks - 1
  BY WrapAssumption, HalfTicksAssumption, GuardAssumption, HalfStartType DEF Tick
<1>1. Now(c) = (s + d) % TickMod
  BY DEF Now
<1>2. CASE ax[a].armedHalf = frame[c].index /\ d < GuardTicks
  <2>1. ax[a].blockUntil = (s + GuardTicks) % TickMod
    BY <1>2 DEF GuardOf
  <2>2. GuardTicks - d - 1 \in 0 .. HalfTicks + GuardTicks - 1 /\ d \in Int /\ GuardTicks \in Int
    BY <1>0, <1>2
  <2>. HIDE DEF s, d
  <2>3. TickGE((s + GuardTicks) % TickMod, (((s + d) % TickMod) + 1) % TickMod)
    BY <1>0, <2>2, TickAhead
  <2>. QED BY <1>1, <2>1, <2>3 DEF Rate, Blocked
<1>3. CASE ax[a].armedHalf = NextHalf(frame[c].index)
  <2>1. HalfStart(ax[a].armedHalf) = (s + HalfTicks) % TickMod
    BY <1>3, HalfStartNext
  <2>2. ax[a].blockUntil = (s + (HalfTicks + GuardTicks)) % TickMod
    <3> DEFINE z == s + HalfTicks
    <3>1. z \in Int /\ z + GuardTicks = s + (HalfTicks + GuardTicks) /\ GuardTicks \in Int
      BY <1>0
    <3>2. HalfStart(ax[a].armedHalf) = z % TickMod
      BY <2>1
    <3>. HIDE DEF s, z
    <3>3. ((z % TickMod) + GuardTicks) % TickMod = (z + GuardTicks) % TickMod
      BY <1>0, <3>1, ModPlus
    <3>. QED BY <3>1, <3>2, <3>3 DEF GuardOf
  <2>3. (HalfTicks + GuardTicks) - d - 1 \in 0 .. HalfTicks + GuardTicks - 1 /\ d \in Int
        /\ HalfTicks + GuardTicks \in Int
    BY <1>0
  <2>. HIDE DEF s, d
  <2>4. TickGE((s + (HalfTicks + GuardTicks)) % TickMod, (((s + d) % TickMod) + 1) % TickMod)
    BY <1>0, <2>3, TickAhead
  <2>. QED BY <1>1, <2>2, <2>4 DEF Rate, Blocked
<1>. QED BY <1>2, <1>3

---------------------------------------------------------------------------
(* The engine at rest.                                                     *)

Starting == mpc \in {"fill0", "fill1", "run", "port"}

(* Neither playing, nor starting to, nor between the two halves of a stop. *)
AtRest == ~running /\ ~Starting /\ mpc # "abort"

(* Nothing is planned, held back, armed or moving. *)
Blanked ==
    /\ ring = Blank /\ staged = NoSteps
    /\ ~segValid /\ remaining = 0 /\ pending = <<>> /\ ~moving /\ stalled = 0
    /\ \A a \in Axes : ~ax[a].armed /\ ax[a].inc = 0
    /\ \A c \in Caller : frame[c].at = "loop"

(* The queue is empty wherever a boundary interrupt could still refill from *)
(* it, and no longer than the one segment that was on its way into it.      *)
CleanInv ==
    /\ AtRest => Blanked
    /\ AtRest /\ ~IsrIdle => queue = <<>>
    /\ ipc \in {"fault", "faulted"} => queue = <<>>
    /\ state \notin {"READY", "RUNNING"} =>
         Len(queue) <= 1 /\ (mpc = "push" => queue = <<>>)

LEMMA InitClean == Init => CleanInv
  BY DEF Init, CoreInit, CleanInv, Blanked

LEMMA FramesAtLoop ==
    ASSUME TypeOK, AppliedInFill, ipc # "fill", mpc \notin {"fill0", "fill1"}
    PROVE  \A c \in Caller : frame[c].at = "loop"
  BY TypeParts DEF CoreTypeOK, AppliedInFill, Caller, Frame

LEMMA AbortBlanks ==
    ASSUME TypeOK, \A c \in Caller : frame[c].at = "loop", NEW bits, CoreAbort(bits)
    PROVE  Blanked' /\ queue' = <<>> /\ Len(queue') = 0
<1>1. \A a \in Axes : ~ax'[a].armed /\ ax'[a].inc = 0
  BY TypeParts DEF CoreAbort, CoreTypeOK, AxisState
<1>. QED BY <1>1 DEF CoreAbort, Blanked

(* A step of a fill at rest finds nothing to do. *)
LEMMA FillAtRest ==
    ASSUME CoreTypeOK, Blanked, queue = <<>>, NEW c \in Caller, FillStep(c)
    PROVE  Blanked' /\ queue' = <<>>
<1>1. Candidates = <<>>
  BY DEF Candidates, Blanked
<1>2. FillStarve(c)
  BY <1>1 DEF FillStep, FillTake, FillHold, FillApply, FillEmit, Blanked
<1>3. ring' = Blank
  BY <1>2 DEF FillStarve, SilenceRest, Blanked, Blank
<1>4. \A a \in Axes : ~ax'[a].armed /\ ax'[a].inc = 0
  BY <1>2, ZenonT(60) DEF FillStarve, CoreTypeOK, AxisState, Blanked
<1>5. \A b \in Caller : frame'[b].at = "loop"
  <2>1. frame' = [frame EXCEPT ![c].done = HalfTicks] /\ frame \in [Caller -> Frame]
    BY <1>2 DEF FillStarve, SilenceRest, CoreTypeOK
  <2>. QED BY <2>1 DEF Blanked, Frame
<1>6. /\ staged' = NoSteps /\ ~segValid' /\ remaining' = 0 /\ pending' = <<>> /\ ~moving'
      /\ stalled' = 0 /\ queue' = <<>>
  BY <1>2 DEF FillStarve, Blanked, positions
<1>. QED BY <1>3, <1>4, <1>5, <1>6 DEF Blanked

(* Nor does a boundary interrupt before it. *)
LEMMA BoundaryAtRest ==
    ASSUME CoreTypeOK, Blanked,
           IsrBoundary \/ IsrPlay \/ (IsrRefill /\ ready[1 - frame["isr"].half])
    PROVE  Blanked' /\ UNCHANGED <<queue, motor, running, enable>>
<1>1. UNCHANGED <<ring, segValid, remaining, pending, moving, stalled, queue>>
  BY DEF IsrBoundary, IsrPlay, IsrRefill, segments
<1>2. staged' = NoSteps
  <2>1. frame["isr"].half \in Half
    BY DEF CoreTypeOK, Caller, Frame
  <2>2. CASE IsrBoundary \/ IsrPlay
    BY <2>2 DEF IsrBoundary, IsrPlay, positions, Blanked
  <2>3. CASE IsrRefill /\ ready[1 - frame["isr"].half]
    <3>1. staged' = [staged EXCEPT ![frame["isr"].half] = [a \in Axes |-> 0]]
      BY <2>3 DEF IsrRefill, BeginFill
    <3>. QED BY <2>1, <3>1 DEF Blanked, NoSteps
  <2>. QED BY <2>2, <2>3
<1>3. \A h : TakenFor(h) = {}
  BY DEF TakenFor, Blanked
<1>4. \A a \in Axes : ~ax'[a].armed /\ ax'[a].inc = 0
  <2>1. \A a \in Axes : ax'[a] = ax[a]
    BY <1>3 DEF IsrBoundary, IsrPlay, AfterTake, IsrRefill
  <2>. QED BY <2>1 DEF Blanked
<1>5. \A c \in Caller : frame'[c].at = "loop"
  <2>1. frame \in [Caller -> Frame] /\ \A c \in Caller : frame[c].at = "loop"
    BY DEF CoreTypeOK, Blanked
  <2>2. CASE IsrBoundary
    BY <2>1, <2>2 DEF IsrBoundary, Frame
  <2>3. CASE IsrPlay
    BY <2>1, <2>3 DEF IsrPlay
  <2>4. CASE IsrRefill /\ ready[1 - frame["isr"].half]
    BY <2>1, <2>4 DEF IsrRefill, BeginFill
  <2>. QED BY <2>2, <2>3, <2>4
<1>6. UNCHANGED <<motor, running, enable>>
  BY <1>3 DEF IsrBoundary, IsrPlay, IsrRefill, motion, portVars, dma
<1>. QED BY <1>1, <1>2, <1>4, <1>5, <1>6 DEF Blanked

(* A fill takes segments off the queue and puts none in. *)
LEMMA FillShortens ==
    ASSUME CoreTypeOK, NEW c \in Caller, FillStep(c)
    PROVE  /\ queue' = queue \/ (queue # <<>> /\ queue' = Tail(queue))
           /\ queue' \in Seq(Segment) /\ Len(queue') <= Len(queue)
           /\ queue = <<>> => queue' = <<>>
<1>1. queue \in Seq(Segment) /\ pending \in Seq(Segment)
  BY DEF CoreTypeOK, AtMostOne
<1>2. Candidates # <<>> /\ pending = <<>> => queue # <<>>
  BY DEF Candidates
<1>3. queue' = queue \/ (queue # <<>> /\ queue' = Tail(queue))
  BY <1>2 DEF FillStep, FillTake, Take, FillHold, FillStarve, FillApply, FillEmit
<1>. QED BY <1>1, <1>3

(* The calls that change neither the core nor the wires, and no step of     *)
(* which starts a fill or an abort.                                         *)
CallStep ==
    \/ EnableCheck \/ EnableDrives \/ EnableReady \/ StartRun \/ StopCheck \/ StopReady
    \/ ClearEStopCheck \/ ClearEStopDemote \/ ClearCheck \/ ClearIdle
    \/ SubmitCheck \/ SubmitRefused

LEMMA CallSteps ==
    ASSUME CallStep
    PROVE  /\ UNCHANGED <<coreVars, dma, pin, motion, ready, ipc, history>>
           /\ IsrIdle
           /\ mpc \notin {"fill0", "fill1", "abort", "port"}
           /\ mpc' \notin {"fill0", "fill1", "abort", "run"}
           /\ mpc = "run" <=> mpc' = "port"
           /\ mpc' = "push" => state \in {"READY", "RUNNING"} /\ state' = state
           /\ state' # state => \/ state' \in {"READY", "RUNNING"}
                                \/ mpc \in {"demote", "cleared"}
  BY DEF CallStep, EnableCheck, EnableDrives, EnableReady, StartRun, StopCheck, StopReady,
     ClearEStopCheck, ClearEStopDemote, ClearCheck, ClearIdle, SubmitCheck, SubmitRefused,
     portVars, facade, history, MainAt, MainRuns

(* The steps of the interrupt that change neither. *)
FlowStep == IsrDone \/ IsrFaultCheck \/ IsrFault

LEMMA FlowSteps ==
    ASSUME FlowStep
    PROVE  /\ UNCHANGED <<coreVars, portVars, mpc, history>>
           /\ ipc \in {"fill", "fault", "faulted"} /\ ipc' \in {"idle", "faulted"}
           /\ ipc = "fill" => ipc' = "idle" /\ Filled("isr") /\ state' = state
           /\ ipc' = "faulted" => ipc = "fault"
           /\ state' # state => ipc = "faulted" /\ state' = "FAULT"
  BY DEF FlowStep, IsrDone, IsrFaultCheck, IsrFault, facade, history

LEMMA StepClean ==
    ASSUME EStopCuts = {}, TypeOK, ControlInv, AppliedInFill, CleanInv, [Next]_vars
    PROVE  CleanInv'
<1>0. CoreTypeOK /\ Len(<<>>) = 0
  BY TypeParts
<1> USE DEF CleanInv
<1>1. CASE CallStep
  <2>1. UNCHANGED <<ring, staged, segValid, remaining, pending, moving, stalled, ax, frame,
                    queue, running, flags, ipc>>
    BY <1>1, CallSteps DEF coreVars, positions, segments, dma
  <2>2. AtRest' => AtRest
    BY <1>1, <2>1, CallSteps DEF AtRest, Starting
  <2>3. Blanked => Blanked'
    BY <2>1 DEF Blanked
  <2>4. AtRest' => IsrIdle'
    BY <1>1, <2>1, CallSteps DEF IsrIdle
  <2>5. state' \notin {"READY", "RUNNING"} =>
           Len(queue') <= 1 /\ (mpc' = "push" => queue' = <<>>)
    BY <1>1, <2>1, CallSteps DEF ControlInv
  <2>6. ipc \notin {"fault", "faulted"}
    BY <1>1, CallSteps DEF IsrIdle
  <2>. QED BY <2>1, <2>2, <2>3, <2>4, <2>5, <2>6
<1>2. CASE FlowStep
  <2>1. UNCHANGED <<ring, staged, segValid, remaining, pending, moving, stalled, ax, frame,
                    queue, running, flags, mpc>>
    BY <1>2, FlowSteps DEF coreVars, positions, segments, portVars, dma
  <2>2. Blanked => Blanked'
    BY <2>1 DEF Blanked
  <2>3. AtRest' => AtRest /\ ~IsrIdle
    BY <1>2, <2>1, FlowSteps DEF AtRest, Starting, IsrIdle
  <2>. QED BY <1>0, <1>2, <2>1, <2>2, <2>3, FlowSteps
<1>3. CASE StartFill0 \/ StartFill1 \/ StartDir \/ MainFillStep
  <2>1. mpc' \in {"fill0", "fill1", "run"} /\ ipc' = "idle"
    BY <1>3 DEF StartFill0, StartFill1, StartDir, MainFillStep, MainAt, MainRuns, IsrIdle
  <2>2. state' \in {"READY", "RUNNING"}
    BY <1>3 DEF StartFill0, StartFill1, StartDir, MainFillStep, MainAt, ControlInv, facade
  <2>. QED BY <2>1, <2>2 DEF AtRest, Starting
<1>4. CASE StartPort
  <2>1. running' /\ ipc' = "idle" /\ state' \in {"READY", "RUNNING"}
    BY <1>4 DEF StartPort, PortStart, MainAt, MainRuns, IsrIdle, ControlInv, facade
  <2>. QED BY <2>1 DEF AtRest
<1>5. CASE Stop
  <2>1. mpc' = "abort" /\ ipc' = "idle" /\ UNCHANGED <<queue, state>>
    BY <1>5 DEF Stop, MainAt, MainRuns, IsrIdle, coreVars, segments, facade
  <2>. QED BY <2>1 DEF AtRest
<1>6. CASE StopAbort
  <2>1. mpc' = "stop" /\ ipc' = "idle" /\ CoreAbort({})
    BY <1>6 DEF StopAbort, MainAt, MainRuns, IsrIdle
  <2>2. Blanked' /\ queue' = <<>> /\ Len(queue') = 0
    BY <1>6, <2>1, AbortBlanks, FramesAtLoop DEF StopAbort, MainAt, MainRuns, IsrIdle
  <2>. QED BY <2>1, <2>2
<1>7. CASE ClearRewind
  <2>1. AtRest /\ IsrIdle' /\ UNCHANGED <<queue, state>> /\ mpc' = "cleared" /\ ipc' = "idle"
    BY <1>7 DEF ClearRewind, MainAt, MainRuns, IsrIdle, ControlInv, Alone, AtRest, Starting,
       segments, dma
  <2>2. \A a \in Axes : ~ax'[a].armed /\ ax'[a].inc = 0
    BY <1>0, <1>7, <2>1, ZenonT(60) DEF ClearRewind, Rewound, CoreTypeOK, AxisState, Blanked
  <2>3. Blanked'
    BY <1>7, <2>1, <2>2 DEF ClearRewind, Blanked, segments
  <2>. QED BY <2>1, <2>3
<1>8. CASE SubmitPush
  <2>1. UNCHANGED <<ring, staged, segValid, remaining, pending, moving, stalled, ax, frame,
                    running, flags, ipc, state>> /\ mpc = "push" /\ mpc' = "idle" /\ IsrIdle
    BY <1>8 DEF SubmitPush, positions, portVars, dma, facade, MainAt, MainRuns
  <2>2. Blanked => Blanked'
    BY <2>1 DEF Blanked
  <2>3. AtRest' => AtRest /\ IsrIdle'
    BY <2>1 DEF AtRest, Starting, IsrIdle
  <2>4. queue = <<>> => Len(queue') = 1
    <3>1. PICK x : queue' = Append(queue, x)
      BY <1>8 DEF SubmitPush
    <3>2. Append(<<>>, x) = <<x>> /\ Len(<<x>>) = 1
      OBVIOUS
    <3>. QED BY <3>1, <3>2
  <2>5. AtRest' => Blanked'
    BY <2>2, <2>3
  <2>6. ipc = "idle"
    BY <2>1 DEF IsrIdle
  <2>7. state' \notin {"READY", "RUNNING"} => Len(queue') <= 1
    <3>1. state \notin {"READY", "RUNNING"} => queue = <<>>
      BY <2>1
    <3>2. 1 <= 1
      OBVIOUS
    <3>. QED BY <2>1, <2>4, <3>1, <3>2
  <2>. QED BY <2>1, <2>3, <2>5, <2>6, <2>7
<1>9. CASE IsrOverrun \/ EStop \/ (IsrRefill /\ ~ready[1 - frame["isr"].half])
  <2>1. \E bits : CoreAbort(bits)
    BY <1>9 DEF IsrOverrun, EStop, IsrRefill
  <2>2. ipc # "fill" /\ mpc \notin {"fill0", "fill1"}
    BY <1>9 DEF IsrOverrun, EStop, IsrRefill, Missed, ControlInv, Alone
  <2>3. Blanked' /\ queue' = <<>> /\ Len(queue') = 0
    BY <2>1, <2>2, AbortBlanks, FramesAtLoop
  <2>. QED BY <2>3
<1>10. CASE IsrBoundary \/ IsrPlay \/ (IsrRefill /\ ready[1 - frame["isr"].half])
  <2>1. /\ UNCHANGED <<running, queue, mpc, state>>
        /\ ~IsrIdle /\ ipc' \in {"play", "refill", "fill"}
    BY <1>10 DEF IsrBoundary, IsrPlay, PortWriteDir, IsrRefill, segments, portVars, dma, facade,
       IsrIdle
  <2>2. ASSUME AtRest PROVE Blanked'
    BY <1>0, <1>10, <2>2, BoundaryAtRest
  <2>. QED BY <2>1, <2>2 DEF AtRest, Starting
<1>11. CASE IsrFillStep
  <2>1. /\ UNCHANGED <<running, mpc, ipc, state>> /\ ipc = "fill" /\ FillStep("isr")
    BY <1>11 DEF IsrFillStep, portVars, dma, facade
  <2>2. "isr" \in Caller /\ Len(queue') <= Len(queue) /\ (queue = <<>> => queue' = <<>>)
        /\ queue \in Seq(Segment) /\ queue' \in Seq(Segment)
    BY <1>0, <2>1, FillShortens DEF Caller, CoreTypeOK
  <2>3. AtRest => Blanked' /\ queue' = <<>>
    BY <1>0, <2>1, <2>2, FillAtRest DEF IsrIdle
  <2>. QED BY <2>1, <2>2, <2>3 DEF AtRest, Starting
<1>12. CASE DmaTick \/ DmaFails \/ UNCHANGED vars
  <2>1. UNCHANGED <<ring, staged, segValid, remaining, pending, moving, stalled, ax, frame,
                    queue, running, mpc, ipc, state>>
    BY <1>12 DEF DmaTick, DmaFails, PlayWord, DmaError, vars, coreVars, positions, segments,
       portVars, dma, facade
  <2>2. ~UNCHANGED vars => running
    BY <1>12 DEF DmaTick, DmaFails, PlayWord, DmaError
  <2>3. UNCHANGED vars => flags' = flags
    BY DEF vars, portVars, dma
  <2>. QED BY <2>1, <2>2, <2>3 DEF AtRest, Starting, Blanked, IsrIdle
<1>. QED
  BY <1>1, <1>2, <1>3, <1>4, <1>5, <1>6, <1>7, <1>8, <1>9, <1>10, <1>11, <1>12
     DEF Next, Main, Isr, CallStep, FlowStep

LEMMA NewerCorrect ==
    ASSUME EStopCuts = {}
    PROVE  Spec => [](AllNewer /\ AppliedInFill)
<1>1. Init => AllNewer /\ AppliedInFill
  BY NewerParts DEF Init, CoreInit, AllNewer, AppliedInFill, Caller
<1>2. TypeOK /\ ControlInv /\ AllNewer /\ AppliedInFill /\ [Next]_vars
        => AllNewer' /\ AppliedInFill'
  BY StepNewer
<1>3. "main" \notin EStopCuts
  OBVIOUS
<1>. QED BY <1>1, <1>2, <1>3, TypeCorrect, ControlCorrect, PTL DEF Spec

LEMMA CleanCorrect ==
    ASSUME EStopCuts = {}
    PROVE  Spec => []CleanInv
<1>1. TypeOK /\ ControlInv /\ AppliedInFill /\ CleanInv /\ [Next]_vars => CleanInv'
  BY StepClean
<1>2. "main" \notin EStopCuts
  OBVIOUS
<1>. QED BY <1>1, <1>2, InitClean, TypeCorrect, ControlCorrect, NewerCorrect, PTL DEF Spec

(* SAFE_IDLE, however it was reached, holds nothing that would move a motor *)
(* at the next start, but for one segment that was on its way into the      *)
(* queue: an abort, a boundary interrupt left pending by it and the clears  *)
(* leave the ring, the counters and the current segment as at boot.         *)
THEOREM SafeIdleIsClean ==
    ASSUME EStopCuts = {}
    PROVE  Spec => []SafeIdleClean
<1>1. TypeOK /\ ControlInv /\ CleanInv => SafeIdleClean
  <2> SUFFICES ASSUME TypeOK, ControlInv, CleanInv, Quiet, state = "SAFE_IDLE"
               PROVE  /\ ring = Blank /\ staged = NoSteps
                      /\ ~segValid /\ pending = <<>> /\ frame["isr"].incoming = <<>>
                      /\ Len(queue) <= 1
                      /\ \A a \in Axes : ~ax[a].armed /\ ax[a].inc = 0
    BY DEF SafeIdleClean
  <2>1. AtRest
    BY DEF AtRest, Starting, Quiet, ControlInv
  <2>2. frame["isr"].incoming = <<>>
    BY <2>1, TypeParts DEF CleanInv, Blanked, CoreTypeOK, Caller, Frame
  <2>. QED BY <2>1, <2>2 DEF CleanInv, Blanked
<1>2. "main" \notin EStopCuts
  OBVIOUS
<1>. QED BY <1>1, <1>2, TypeCorrect, ControlCorrect, CleanCorrect, PTL

---------------------------------------------------------------------------
(* Signs and levels.                                                       *)

(* The level an axis will have when the steps it now plans are put out. *)
Heading(a) == IF ax[a].armed THEN ax[a].armedLevel ELSE ax[a].dirLevel

(* A level that is known is the level of the pin, and an axis that moves    *)
(* plans its steps for the level it is heading for.                         *)
SignInv == \A a \in Axes :
    /\ ax[a].dirKnown => pin[a] = ax[a].dirLevel
    /\ ax[a].inc # 0 => /\ ax[a].dirSign = MotionOf(a, Heading(a))
                        /\ ax[a].armed \/ ax[a].dirKnown

(* A segment about to be applied does not conflict, and there is room. *)
ApplyInv == \A c \in Caller : frame[c].at = "apply" =>
    ~Conflicts(Head(frame[c].incoming)) /\ frame[c].done < HalfTicks

(* What apply_segment() leaves of an axis. *)
LEMMA AppliedFields ==
    ASSUME CoreTypeOK, NEW a \in Axes, NEW r \in -RateMax .. RateMax, NEW now
    PROVE  LET y == Applied(a, r, now)
               x == ax[a]
               target == IF now # HalfStart(fillHalf) \/ x.armed THEN NextHalf(fillHalf)
                         ELSE fillHalf
           IN  /\ y.phase = x.phase /\ y.dirLevel = x.dirLevel /\ y.dirKnown = x.dirKnown
               /\ y.inc = Magnitude(r) /\ y.dirSign = SignOf(r)
               /\ \/ /\ y.armed = x.armed /\ y.armedLevel = x.armedLevel
                     /\ y.armedHalf = x.armedHalf /\ y.blockUntil = x.blockUntil
                     /\ r # 0 => \/ x.armed /\ x.armedLevel = LevelFor(a, r)
                                 \/ ~x.armed /\ x.dirKnown /\ x.dirLevel = LevelFor(a, r)
                  \/ /\ r # 0 /\ y.armed /\ y.armedLevel = LevelFor(a, r)
                     /\ x.armed => x.armedLevel # LevelFor(a, r)
                     /\ y.armedHalf = target /\ y.blockUntil = GuardOf(target)
<1> DEFINE x0 == ax[a]
           x  == [ax[a] EXCEPT !.inc = Magnitude(r), !.dirSign = SignOf(r)]
           want == LevelFor(a, r)
           target == IF now # HalfStart(fillHalf) \/ x.armed THEN NextHalf(fillHalf)
                     ELSE fillHalf
           z == [x EXCEPT !.armed = TRUE, !.armedLevel = want, !.armedHalf = target,
                          !.blockUntil = (HalfStart(target) + GuardTicks) % TickMod]
           keep == \/ r = 0
                   \/ x.dirKnown /\ want = x.dirLevel /\ ~x.armed
                   \/ x.armed /\ x.armedLevel = want
<1>1. ax[a] \in AxisState
  BY DEF CoreTypeOK
<1>2. /\ x.phase = x0.phase /\ x.dirLevel = x0.dirLevel /\ x.dirKnown = x0.dirKnown
      /\ x.inc = Magnitude(r) /\ x.dirSign = SignOf(r) /\ x.armed = x0.armed
      /\ x.armedLevel = x0.armedLevel /\ x.armedHalf = x0.armedHalf
      /\ x.blockUntil = x0.blockUntil
  BY <1>1 DEF AxisState
<1>3. /\ z.phase = x0.phase /\ z.dirLevel = x0.dirLevel /\ z.dirKnown = x0.dirKnown
      /\ z.inc = Magnitude(r) /\ z.dirSign = SignOf(r) /\ z.armed
      /\ z.armedLevel = want /\ z.armedHalf = target /\ z.blockUntil = GuardOf(target)
  BY <1>1 DEF AxisState, GuardOf
<1>4. Applied(a, r, now) = IF keep THEN x ELSE z
  BY DEF Applied
<1>5. target = IF now # HalfStart(fillHalf) \/ x0.armed THEN NextHalf(fillHalf) ELSE fillHalf
  BY <1>2
<1> HIDE DEF x, z, target, want
<1>6. CASE keep
  <2>1. Applied(a, r, now) = x
    BY <1>4, <1>6
  <2>. QED BY <1>2, <1>6, <2>1 DEF want
<1>7. CASE ~keep
  <2>1. Applied(a, r, now) = z
    BY <1>4, <1>7
  <2>. QED BY <1>2, <1>3, <1>5, <1>7, <2>1 DEF want
<1>. QED BY <1>6, <1>7

(* What taking the DIR write of a half leaves of an axis. *)
LEMMA AfterTakeFields ==
    ASSUME CoreTypeOK, NEW a \in Axes, NEW h
    PROVE  LET y == AfterTake(h)[a]
               x == ax[a]
           IN  /\ y.phase = x.phase /\ y.inc = x.inc /\ y.dirSign = x.dirSign
               /\ y.armedLevel = x.armedLevel /\ y.armedHalf = x.armedHalf
               /\ y.blockUntil = x.blockUntil
               /\ IF x.armed /\ x.armedHalf = h
                  THEN ~y.armed /\ y.dirKnown /\ y.dirLevel = x.armedLevel
                  ELSE y.armed = x.armed /\ y.dirKnown = x.dirKnown /\ y.dirLevel = x.dirLevel
<1>1. ax[a] \in AxisState
  BY DEF CoreTypeOK
<1>2. AfterTake(h)[a] = IF ax[a].armed /\ ax[a].armedHalf = h
                        THEN [ax[a] EXCEPT !.dirLevel = ax[a].armedLevel, !.dirKnown = TRUE,
                                           !.armed = FALSE]
                        ELSE ax[a]
  BY DEF AfterTake, TakenFor
<1>. QED BY <1>1, <1>2 DEF AxisState

(* The motion of the level for a rate has the sign of the rate. *)
LEMMA LevelIsMotion ==
    ASSUME NEW a \in Axes, NEW r \in -RateMax .. RateMax, r # 0
    PROVE  MotionOf(a, LevelFor(a, r)) = SignOf(r) /\ SignOf(r) \in {-1, 1}
<1>1. r > 0 \/ r < 0
  BY RateAssumption
<1>2. DirInvert[a] \in BOOLEAN
  BY InvertAssumption
<1>3. CASE r > 0
  BY <1>2, <1>3, RateAssumption DEF MotionOf, LevelFor, SignOf
<1>4. CASE r < 0
  BY <1>2, <1>4, RateAssumption DEF MotionOf, LevelFor, SignOf
<1>. QED BY <1>1, <1>3, <1>4

(* The segment of a frame, and the one that is next, are segments. *)
LEMMA IncomingType ==
    ASSUME CoreTypeOK, NEW c \in Caller, frame[c].at = "apply"
    PROVE  /\ Head(frame[c].incoming) \in Segment
           /\ Head(frame[c].incoming).rate \in [Axes -> -RateMax .. RateMax]
           /\ Head(frame[c].incoming).dur \in 1 .. MaxDuration
           /\ Len(frame[c].incoming) = 1
<1>1. frame[c] \in Frame
  BY DEF CoreTypeOK
<1>2. Head(frame[c].incoming) \in Segment /\ Len(frame[c].incoming) = 1
  <2>1. frame[c].incoming \in Seq(Segment) /\ Len(frame[c].incoming) <= 1
        /\ frame[c].incoming # <<>>
    BY <1>1 DEF Frame, AtMostOne
  <2>2. ASSUME NEW T, NEW q \in Seq(T), q # <<>>, Len(q) <= 1
        PROVE  Head(q) \in T /\ Len(q) = 1
    <3> DEFINE n == Len(q)
    <3>1. n \in Nat /\ n # 0 /\ n <= 1
      BY <2>2
    <3>2. Head(q) \in T
      BY <2>2
    <3>. HIDE DEF n
    <3>3. n = 1
      BY <3>1
    <3>. QED BY <3>2, <3>3 DEF n
  <2>. QED BY <2>1, <2>2
<1>. QED BY <1>2 DEF Segment

(* What one run leaves of an axis: the phase only changes. *)
LEMMA EmitFields ==
    ASSUME CoreTypeOK, NEW c \in Caller, NEW k \in 1 .. HalfTicks, EmitRun(c, k),
           NEW a \in Axes
    PROVE  /\ ax'[a] = [ax[a] EXCEPT !.phase = (ax[a].phase + Rate(a, Now(c)) * k) % PhaseMod]
           /\ ax'[a].inc = ax[a].inc /\ ax'[a].dirSign = ax[a].dirSign
           /\ ax'[a].dirLevel = ax[a].dirLevel /\ ax'[a].dirKnown = ax[a].dirKnown
           /\ ax'[a].armed = ax[a].armed /\ ax'[a].armedLevel = ax[a].armedLevel
           /\ ax'[a].armedHalf = ax[a].armedHalf /\ ax'[a].blockUntil = ax[a].blockUntil
           /\ ax'[a].phase = (ax[a].phase + Rate(a, Now(c)) * k) % PhaseMod
<1>1. ax[a] \in AxisState
  BY DEF CoreTypeOK
<1>2. ax'[a] = [ax[a] EXCEPT !.phase = (ax[a].phase + Rate(a, Now(c)) * k) % PhaseMod]
  BY DEF EmitRun
<1>. QED BY <1>1, <1>2 DEF AxisState

(* The steps that leave the core alone. *)
Passive == CallStep \/ FlowStep \/ StartPort \/ Stop \/ DmaTick \/ DmaFails \/ UNCHANGED vars

LEMMA PassiveSteps ==
    ASSUME Passive
    PROVE  /\ UNCHANGED coreVars
           /\ UNCHANGED <<ax, ring, staged, posPlanned, posOutput, queue, pending, segValid,
                          remaining, lastSeq, moving, faults, fillHalf, playHalf, frame,
                          stalled>>
           /\ UNCHANGED pin
<1>1. UNCHANGED coreVars
  BY CallSteps, FlowSteps
     DEF Passive, StartPort, Stop, DmaTick, DmaFails, vars
<1>2. UNCHANGED pin
  BY CallSteps, FlowSteps
     DEF Passive, StartPort, PortStart, Stop, PortStop, DmaTick, PlayWord, DmaFails, DmaError,
         vars, portVars
<1>. QED BY <1>1, <1>2 DEF coreVars, positions, segments

(* The aborts, from any of the three contexts. *)
AbortStep == StopAbort \/ IsrOverrun \/ EStop \/ (IsrRefill /\ ~ready[1 - frame["isr"].half])

LEMMA AbortSteps ==
    ASSUME TypeOK, AbortStep
    PROVE  /\ \E bits : CoreAbort(bits)
           /\ \A a \in Axes :
                 /\ ~ax'[a].armed /\ ax'[a].inc = 0
                 /\ ax'[a].dirLevel = ax[a].dirLevel /\ ax'[a].dirKnown = ax[a].dirKnown
           /\ UNCHANGED <<pin, frame, fillHalf, playHalf, posPlanned, posOutput, idx, motion>>
           /\ ring' = Blank /\ staged' = NoSteps /\ ~segValid' /\ pending' = <<>>
           /\ remaining' = 0 /\ stalled' = 0 /\ queue' = <<>>
<1>1. PICK bits : CoreAbort(bits)
  BY DEF AbortStep, StopAbort, IsrOverrun, EStop, IsrRefill
<1>2. UNCHANGED <<pin, idx, motion>>
  BY DEF AbortStep, StopAbort, IsrOverrun, EStop, IsrRefill, PortEmergencyStop, portVars, dma
<1>3. ASSUME NEW a \in Axes
      PROVE  /\ ~ax'[a].armed /\ ax'[a].inc = 0
             /\ ax'[a].dirLevel = ax[a].dirLevel /\ ax'[a].dirKnown = ax[a].dirKnown
  BY <1>1, TypeParts DEF CoreAbort, CoreTypeOK, AxisState
<1>. QED BY <1>1, <1>2, <1>3 DEF CoreAbort

(* Entering a fill and the end of the played half leave the axes alone. *)
LEMMA FillSigns ==
    ASSUME CoreTypeOK, SignInv, NEW c \in Caller, FillStep(c), UNCHANGED pin
    PROVE  SignInv'
<1>1. CASE FillTake(c) \/ FillHold(c)
  BY <1>1 DEF FillTake, FillHold, SignInv, Heading
<1>2. CASE FillStarve(c)
  <2>1. ASSUME NEW a \in Axes
        PROVE  ax'[a].inc = 0 /\ ax'[a].dirKnown = ax[a].dirKnown
               /\ ax'[a].dirLevel = ax[a].dirLevel
    BY <1>2 DEF FillStarve, CoreTypeOK, AxisState
  <2>. QED BY <2>1 DEF SignInv
<1>3. CASE FillApply(c)
  <2> SUFFICES ASSUME NEW a \in Axes
               PROVE  /\ ax'[a].dirKnown => pin[a] = ax'[a].dirLevel
                      /\ ax'[a].inc # 0 => /\ ax'[a].dirSign = MotionOf(a, Heading(a)')
                                           /\ ax'[a].armed \/ ax'[a].dirKnown
    BY DEF SignInv
  <2> DEFINE r == Head(frame[c].incoming).rate[a]
  <2>1. r \in -RateMax .. RateMax
    BY <1>3, IncomingType DEF FillApply
  <2>2. ax'[a] = Applied(a, r, Now(c))
    BY <1>3 DEF FillApply
  <2>3. Magnitude(r) # 0 => r # 0
    BY <2>1, RateAssumption DEF Magnitude
  <2>. HIDE DEF r
  <2>4. r # 0 => MotionOf(a, LevelFor(a, r)) = SignOf(r)
    BY <2>1, LevelIsMotion
  <2>5. /\ ax'[a].dirLevel = ax[a].dirLevel /\ ax'[a].dirKnown = ax[a].dirKnown
        /\ ax'[a].inc = Magnitude(r) /\ ax'[a].dirSign = SignOf(r)
        /\ r # 0 => \/ ax'[a].armed /\ ax'[a].armedLevel = LevelFor(a, r)
                    \/ ~ax'[a].armed /\ ax'[a].dirKnown /\ ax'[a].dirLevel = LevelFor(a, r)
    BY <2>1, <2>2, AppliedFields
  <2>. QED BY <2>3, <2>4, <2>5 DEF SignInv, Heading
<1>4. CASE FillEmit(c)
  <2>1. PICK k \in 1 .. HalfTicks : EmitRun(c, k)
    BY <1>4 DEF FillEmit
  <2>. QED BY <2>1, EmitFields, ZenonT(60) DEF SignInv, Heading
<1>. QED BY <1>1, <1>2, <1>3, <1>4 DEF FillStep

LEMMA TakeSigns ==
    ASSUME CoreTypeOK, SignInv, NEW h, ax' = AfterTake(h),
           IF TakenFor(h) # {} THEN pin' = DirWord(AfterTake(h)) ELSE pin' = pin
    PROVE  SignInv'
<1> SUFFICES ASSUME NEW a \in Axes
             PROVE  /\ ax'[a].dirKnown => pin'[a] = ax'[a].dirLevel
                    /\ ax'[a].inc # 0 => /\ ax'[a].dirSign = MotionOf(a, Heading(a)')
                                         /\ ax'[a].armed \/ ax'[a].dirKnown
  BY DEF SignInv
<1>1. TakenFor(h) # {} => pin'[a] = ax'[a].dirLevel
  BY DEF DirWord
<1>2. TakenFor(h) = {} => ~(ax[a].armed /\ ax[a].armedHalf = h)
  BY DEF TakenFor
<1>. QED BY <1>1, <1>2, AfterTakeFields DEF SignInv, Heading

LEMMA StepSigns ==
    ASSUME TypeOK, ControlInv, CleanInv, SignInv, [Next]_vars
    PROVE  SignInv'
<1>0. CoreTypeOK
  BY TypeParts
<1>1. CASE Passive
  BY <1>1, PassiveSteps DEF SignInv, Heading
<1>2. CASE AbortStep
  BY <1>2, AbortSteps DEF SignInv
<1>3. CASE StartFill1 \/ SubmitPush \/ IsrBoundary \/ (IsrRefill /\ ready[1 - frame["isr"].half])
  <2>1. UNCHANGED <<ax, pin>>
    BY <1>3 DEF StartFill1, SubmitPush, IsrBoundary, IsrRefill, portVars
  <2>. QED BY <2>1 DEF SignInv, Heading
<1>4. CASE StartFill0 \/ ClearRewind
  <2>1. ax' = Rewound /\ pin' = pin /\ AtRest
    BY <1>4 DEF StartFill0, ClearRewind, portVars, MainAt, ControlInv, Alone, AtRest, Starting
  <2>2. ASSUME NEW a \in Axes
        PROVE  ax'[a].inc = ax[a].inc /\ ax'[a].dirKnown = ax[a].dirKnown
               /\ ax'[a].dirLevel = ax[a].dirLevel
    BY <1>0, <2>1 DEF Rewound, CoreTypeOK, AxisState
  <2>. QED BY <2>1, <2>2 DEF SignInv, CleanInv, Blanked
<1>5. CASE StartDir \/ IsrPlay
  <2>1. PICK h : /\ ax' = AfterTake(h)
                 /\ IF TakenFor(h) # {} THEN pin' = DirWord(AfterTake(h)) ELSE pin' = pin
    BY <1>5 DEF StartDir, IsrPlay, PortWriteDir, portVars
  <2>. QED BY <1>0, <2>1, TakeSigns
<1>6. CASE IsrFillStep \/ MainFillStep
  <2>1. UNCHANGED pin /\ \E c \in Caller : FillStep(c)
    BY <1>6 DEF IsrFillStep, MainFillStep, portVars, Caller
  <2>. QED BY <1>0, <2>1, FillSigns
<1>. QED
  BY <1>1, <1>2, <1>3, <1>4, <1>5, <1>6 DEF Next, Main, Isr, Passive, AbortStep, CallStep, FlowStep

(* Between taking a segment and applying it, nothing happens to the core. *)
LEMMA ApplyAlone ==
    ASSUME EStopCuts = {}, TypeOK, ControlInv, AppliedInFill, [Next]_vars,
           NEW c \in Caller, frame[c].at = "apply"
    PROVE  FillStep(c) \/ Passive
<1>1. CASE c = "isr"
  <2>1. ipc = "fill" /\ ~IsrIdle
    BY <1>1 DEF AppliedInFill, IsrIdle
  <2>2. ~Main
    BY <2>1 DEF Main, EnableCheck, EnableDrives, EnableReady, StartFill0, StartFill1, StartDir,
       StartRun, StartPort, MainFillStep, Stop, StopAbort, StopCheck, StopReady, ClearEStopCheck,
       ClearEStopDemote, ClearCheck, ClearRewind, ClearIdle, SubmitCheck, SubmitPush,
       SubmitRefused, MainAt, MainRuns
  <2>3. ~EStop /\ ~IsrOverrun /\ ~IsrBoundary /\ ~IsrPlay /\ ~IsrRefill
    BY <2>1 DEF EStop, IsrOverrun, IsrBoundary, IsrPlay, IsrRefill
  <2>. QED BY <1>1, <2>2, <2>3 DEF Next, Isr, IsrFillStep, Passive, FlowStep
<1>2. CASE c = "main"
  <2>1. mpc \in {"fill0", "fill1"} /\ ipc = "idle" /\ flags = {}
    BY <1>2 DEF AppliedInFill, ControlInv, Alone
  <2>2. ~Isr /\ ~EStop
    BY <2>1 DEF Isr, IsrOverrun, Missed, IsrBoundary, IsrPlay, IsrRefill, IsrFillStep, IsrDone,
       IsrFaultCheck, IsrFault, EStop
  <2>3. ~StartFill0 /\ ~StopAbort /\ ~ClearRewind /\ ~SubmitPush
    BY <2>1 DEF StartFill0, StopAbort, ClearRewind, SubmitPush, MainAt
  <2>4. ~StartFill1 /\ ~StartDir
    BY <1>2 DEF StartFill1, StartDir, Filled
  <2>. QED BY <1>2, <2>2, <2>3, <2>4 DEF Next, Main, MainFillStep, Passive, CallStep
<1>. QED BY <1>1, <1>2 DEF Caller

LEMMA StepApply ==
    ASSUME EStopCuts = {}, TypeOK, ControlInv, AppliedInFill, ApplyInv, [Next]_vars
    PROVE  ApplyInv'
<1>0. CoreTypeOK
  BY TypeParts
<1> SUFFICES ASSUME NEW c \in Caller, frame'[c].at = "apply"
             PROVE  ~Conflicts(Head(frame[c].incoming))' /\ frame'[c].done < HalfTicks
  BY DEF ApplyInv
<1>1. CASE Passive
  BY <1>1, PassiveSteps DEF ApplyInv, Conflicts
<1>2. CASE frame[c].at = "apply" /\ ~Passive
  <2>1. FillStep(c) /\ frame[c] \in Frame
    BY <1>0, <1>2, ApplyAlone DEF CoreTypeOK
  <2>2. FillApply(c)
    BY <1>2, <2>1 DEF FillStep, FillTake, FillHold, FillStarve, FillEmit, NeedsSegment
  <2>3. frame' = [frame EXCEPT ![c].at = "loop", ![c].incoming = <<>>]
    BY <2>2 DEF FillApply
  <2>. QED BY <1>0, <2>1, <2>3 DEF CoreTypeOK, Frame
<1>3. CASE frame[c].at # "apply" /\ ~Passive
  <2>1. \A b \in Caller : FillStep(b) /\ ~FillTake(b) => frame'[c].at # "apply"
    <3> SUFFICES ASSUME NEW b \in Caller, FillHold(b) \/ FillStarve(b) \/ FillApply(b) \/ FillEmit(b)
                 PROVE  frame'[c].at # "apply"
      BY DEF FillStep
    <3>1. frame \in [Caller -> Frame]
      BY <1>0 DEF CoreTypeOK
    <3>2. \/ frame' = [frame EXCEPT ![b].done = HalfTicks]
          \/ frame' = [frame EXCEPT ![b].at = "loop", ![b].incoming = <<>>]
          \/ \E k : frame' = [frame EXCEPT ![b].done = @ + k]
      BY DEF FillHold, FillStarve, FillApply, FillEmit, SilenceRest, EmitRun
    <3>. QED BY <1>3, <3>1, <3>2 DEF Frame
  <2>2. PICK b \in Caller : FillTake(b)
    <3>1. frame \in [Caller -> Frame]
      BY <1>0 DEF CoreTypeOK
    <3>2. CASE AbortStep
      BY <1>3, <3>2, AbortSteps
    <3>3. CASE StartFill0 \/ StartFill1 \/ StartDir \/ ClearRewind \/ SubmitPush
      <4>1. frame' = frame \/ \E f : f.at = "loop" /\ frame' = [frame EXCEPT !["main"] = f]
        BY <3>3 DEF StartFill0, StartFill1, BeginFill, StartDir, ClearRewind, SubmitPush
      <4>. QED BY <1>3, <3>1, <4>1
    <3>4. CASE IsrBoundary \/ IsrPlay \/ (IsrRefill /\ ready[1 - frame["isr"].half])
      <4>1. \/ frame' = frame \/ \E f : f.at = "loop" /\ frame' = [frame EXCEPT !["isr"] = f]
            \/ \E h : frame' = [frame EXCEPT !["isr"].half = h]
        BY <3>4 DEF IsrBoundary, IsrPlay, IsrRefill, BeginFill
      <4>. QED BY <1>3, <3>1, <4>1 DEF Frame
    <3>5. CASE IsrFillStep \/ MainFillStep
      BY <2>1, <3>5 DEF IsrFillStep, MainFillStep, Caller, FillStep
    <3>. QED
      BY <1>3, <3>2, <3>3, <3>4, <3>5
         DEF Next, Main, Isr, Passive, AbortStep, CallStep, FlowStep
  <2>3. frame' = [frame EXCEPT ![b].at = "apply", ![b].incoming = <<Head(Candidates)>>]
        /\ ~Conflicts(Head(Candidates)) /\ ax' = ax /\ frame[b].done < HalfTicks
    BY <2>2 DEF FillTake, NeedsSegment
  <2>4. frame \in [Caller -> Frame]
    BY <1>0 DEF CoreTypeOK
  <2>5. c = b
    BY <1>3, <2>3, <2>4 DEF Frame
  <2>6. frame'[c].incoming = <<Head(Candidates)>> /\ frame'[c].done = frame[c].done
    BY <2>3, <2>4, <2>5 DEF Frame
  <2>7. Head(frame'[c].incoming) = Head(Candidates)
    BY <2>6
  <2>. QED BY <2>3, <2>5, <2>6, <2>7 DEF Conflicts
<1>. QED BY <1>1, <1>2, <1>3

LEMMA SignsCorrect ==
    ASSUME EStopCuts = {}
    PROVE  Spec => [](SignInv /\ ApplyInv)
<1>1. Init => SignInv /\ ApplyInv
  BY DEF Init, CoreInit, SignInv, ApplyInv, Caller
<1>2. TypeOK /\ ControlInv /\ CleanInv /\ AppliedInFill /\ SignInv /\ ApplyInv /\ [Next]_vars
        => SignInv' /\ ApplyInv'
  BY StepSigns, StepApply
<1>3. "main" \notin EStopCuts
  OBVIOUS
<1>. QED
  BY <1>1, <1>2, <1>3, TypeCorrect, ControlCorrect, CleanCorrect, NewerCorrect, PTL DEF Spec

---------------------------------------------------------------------------
(* The half that was not played is ready.                                  *)

(* g_half_ready[] is FALSE only from the DIR write of a boundary to the end *)
(* of its refill, and only for the half being refilled.                     *)
ReadyInv ==
    IF ipc \in {"refill", "fill"} THEN ready[1 - frame["isr"].half] = TRUE
    ELSE \A h \in Half : ready[h] = TRUE

LEMMA StepReady ==
    ASSUME TypeOK, AppliedInFill, ReadyInv, [Next]_vars
    PROVE  ReadyInv'
<1>0. frame \in [Caller -> Frame] /\ ready \in [Half -> BOOLEAN]
      /\ frame["isr"].half \in Half /\ 1 - frame["isr"].half \in Half
  BY TypeParts DEF CoreTypeOK, FacadeTypeOK, Caller, Frame, Half
<1>1. CASE Main
  <2>1. ipc = "idle" /\ ipc' = "idle"
    BY <1>1 DEF Main, EnableCheck, EnableDrives, EnableReady, StartFill0, StartFill1, StartDir,
       StartRun, StartPort, MainFillStep, Stop, StopAbort, StopCheck, StopReady, ClearEStopCheck,
       ClearEStopDemote, ClearCheck, ClearRewind, ClearIdle, SubmitCheck, SubmitPush,
       SubmitRefused, MainAt, MainRuns, IsrIdle
  <2>2. ready' = ready \/ ready' = [h \in Half |-> TRUE]
    BY <1>1 DEF Main, EnableCheck, EnableDrives, EnableReady, StartFill0, StartFill1, StartDir,
       StartRun, StartPort, MainFillStep, Stop, StopAbort, StopCheck, StopReady, ClearEStopCheck,
       ClearEStopDemote, ClearCheck, ClearRewind, ClearIdle, SubmitCheck, SubmitPush,
       SubmitRefused, facade
  <2>. QED BY <2>1, <2>2 DEF ReadyInv
<1>2. CASE IsrOverrun \/ IsrBoundary \/ IsrFaultCheck \/ IsrFault
  BY <1>2 DEF IsrOverrun, IsrBoundary, IsrFaultCheck, IsrFault, ReadyInv, facade
<1>3. CASE IsrPlay
  <2>1. ready' = [ready EXCEPT ![frame["isr"].half] = FALSE] /\ frame' = frame
        /\ ipc = "play" /\ ipc' = "refill"
    BY <1>3 DEF IsrPlay
  <2>2. \A h \in Half : ready[h] = TRUE
    BY <2>1 DEF ReadyInv
  <2>3. 1 - frame["isr"].half # frame["isr"].half
    BY <1>0 DEF Half
  <2>. QED BY <1>0, <2>1, <2>2, <2>3 DEF ReadyInv
<1>4. CASE IsrRefill
  <2>1. ready[1 - frame["isr"].half] /\ ready' = ready /\ ipc' = "fill"
        /\ BeginFill("isr", frame["isr"].half, NextHalf(playHalf))
    BY <1>0, <1>4 DEF IsrRefill, ReadyInv, facade
  <2>2. frame'["isr"].half = frame["isr"].half
    BY <1>0, <2>1 DEF BeginFill, Caller
  <2>. QED BY <1>4, <2>1, <2>2 DEF ReadyInv, IsrRefill
<1>5. CASE IsrFillStep
  <2>1. FillStep("isr") /\ ready' = ready /\ ipc' = ipc
    BY <1>5 DEF IsrFillStep, facade
  <2>2. frame'["isr"].half = frame["isr"].half
    <3>1. \/ frame' = [frame EXCEPT !["isr"].at = "apply", !["isr"].incoming = <<Head(Candidates)>>]
          \/ frame' = [frame EXCEPT !["isr"].at = "loop", !["isr"].incoming = <<>>]
          \/ frame' = [frame EXCEPT !["isr"].done = HalfTicks]
          \/ \E k : frame' = [frame EXCEPT !["isr"].done = @ + k]
      BY <2>1 DEF FillStep, FillTake, FillHold, FillStarve, FillApply, FillEmit, SilenceRest, EmitRun
    <3>. QED BY <1>0, <3>1 DEF Caller, Frame
  <2>. QED BY <2>1, <2>2 DEF ReadyInv
<1>6. CASE IsrDone
  BY <1>0, <1>6 DEF IsrDone, ReadyInv, Half
<1>7. CASE EStop \/ DmaTick \/ DmaFails \/ UNCHANGED vars
  <2>1. UNCHANGED <<ready, ipc, frame>>
    BY <1>7 DEF EStop, CoreAbort, DmaTick, DmaFails, vars, facade, coreVars
  <2>. QED BY <2>1 DEF ReadyInv
<1>. QED BY <1>1, <1>2, <1>3, <1>4, <1>5, <1>6, <1>7 DEF Next, Isr

LEMMA ReadyCorrect ==
    ASSUME EStopCuts = {}
    PROVE  Spec => []ReadyInv
<1>1. Init => ReadyInv
  BY DEF Init, ReadyInv
<1>2. TypeOK /\ AppliedInFill /\ ReadyInv /\ [Next]_vars => ReadyInv'
  BY StepReady
<1>. QED BY <1>1, <1>2, TypeCorrect, NewerCorrect, PTL DEF Spec

---------------------------------------------------------------------------
(* Which half is filled, and for which half an axis may be armed.          *)

(* The ring turns: the timebase runs, or a stop has halted it with its last *)
(* boundary interrupt still to be served.                                   *)
Turning == running \/ (mpc = "abort" /\ ~IsrIdle)

(* The half filled last is the one after the half being played; between the *)
(* two parts of the boundary interrupt the half being played.               *)
FillPlace ==
    /\ Starting => playHalf = 0
    /\ mpc = "fill0" => fillHalf = 0 /\ frame["main"].half = 0
    /\ mpc = "fill1" => frame["main"].half = 1
    /\ mpc \in {"fill1", "run", "port"} => fillHalf = NextHalf(0)
    /\ mpc \in {"fill0", "fill1"} => frame["main"].index = fillHalf
    /\ Turning => fillHalf = IF ipc = "refill" THEN playHalf ELSE NextHalf(playHalf)
    /\ ipc = "fill" => frame["isr"].index = fillHalf

(* A reversal is armed for the half that plays next, or for the one after   *)
(* it once some word of the half before that has been filled.               *)
ArmedPlace == \A a \in Axes : ax[a].armed =>
    /\ ax[a].blockUntil = GuardOf(ax[a].armedHalf)
    /\ mpc = "fill0" => \/ ax[a].armedHalf = 0
                        \/ ax[a].armedHalf = NextHalf(0) /\ frame["main"].done > 0
    /\ mpc = "fill1" => \/ ax[a].armedHalf \in {0, NextHalf(0)}
                        \/ ax[a].armedHalf = Next2(0) /\ frame["main"].done > 0
    /\ mpc \in {"run", "port"} => ax[a].armedHalf \in {NextHalf(0), Next2(0)}
    /\ Turning => \/ ax[a].armedHalf = NextHalf(playHalf)
                  \/ /\ ax[a].armedHalf = Next2(playHalf)
                     /\ ipc # "refill" /\ (ipc = "fill" => frame["isr"].done > 0)

(* The caller that fills, and what the processor does meanwhile. *)
Filler(c) ==
    \/ c = "main" /\ mpc \in {"fill0", "fill1"} /\ ipc = "idle" /\ flags = {} /\ ~running
    \/ c = "isr" /\ ipc = "fill" /\ ~Starting

LEMMA Fillers ==
    ASSUME ControlInv, IsrFillStep \/ MainFillStep
    PROVE  \E c \in Caller : /\ Filler(c) /\ FillStep(c)
                             /\ UNCHANGED <<portVars, facade, mpc, ipc, history>>
<1>1. CASE IsrFillStep
  <2>1. Filler("isr") /\ FillStep("isr") /\ UNCHANGED <<portVars, facade, mpc, ipc, history>>
    BY <1>1 DEF IsrFillStep, Filler, Starting, ControlInv, Alone
  <2>. QED BY <2>1 DEF Caller
<1>2. CASE MainFillStep
  <2>1. Filler("main") /\ FillStep("main") /\ UNCHANGED <<portVars, facade, mpc, ipc, history>>
    BY <1>2 DEF MainFillStep, Filler, MainAt, MainRuns, IsrIdle, ControlInv, Alone
  <2>. QED BY <2>1 DEF Caller
<1>. QED BY <1>1, <1>2

(* A fill keeps its arguments and goes forward. *)
LEMMA FillFrames ==
    ASSUME CoreTypeOK, NEW c \in Caller, FillStep(c)
    PROVE  /\ \A b \in Caller : /\ frame'[b].half = frame[b].half
                                /\ frame'[b].index = frame[b].index
                                /\ frame'[b].done >= frame[b].done
                                /\ b # c => frame'[b] = frame[b]
           /\ UNCHANGED <<fillHalf, playHalf, posOutput>>
<1>1. frame \in [Caller -> Frame]
  BY DEF CoreTypeOK
<1>2. UNCHANGED <<fillHalf, playHalf, posOutput>>
  BY DEF FillStep, FillTake, FillHold, FillStarve, FillApply, FillEmit, positions
<1>3. \/ frame' = [frame EXCEPT ![c].at = "apply", ![c].incoming = <<Head(Candidates)>>]
      \/ frame' = [frame EXCEPT ![c].at = "loop", ![c].incoming = <<>>]
      \/ frame' = [frame EXCEPT ![c].done = HalfTicks]
      \/ \E k \in 1 .. HalfTicks : frame' = [frame EXCEPT ![c].done = @ + k]
  BY DEF FillStep, FillTake, FillHold, FillStarve, FillApply, FillEmit, SilenceRest, EmitRun
<1>4. ASSUME NEW b \in Caller
      PROVE  /\ frame'[b].half = frame[b].half
             /\ frame'[b].index = frame[b].index
             /\ frame'[b].done >= frame[b].done
             /\ b # c => frame'[b] = frame[b]
  <2>1. frame[b] \in Frame /\ frame[b].done \in 0 .. HalfTicks /\ frame[c] \in Frame
    BY <1>1 DEF Frame
  <2>2. CASE frame' = [frame EXCEPT ![c].at = "apply", ![c].incoming = <<Head(Candidates)>>]
    BY <1>1, <2>1, <2>2, HalfTicksAssumption DEF Frame
  <2>3. CASE frame' = [frame EXCEPT ![c].at = "loop", ![c].incoming = <<>>]
    BY <1>1, <2>1, <2>3, HalfTicksAssumption DEF Frame
  <2>4. CASE frame' = [frame EXCEPT ![c].done = HalfTicks]
    BY <1>1, <2>1, <2>4, HalfTicksAssumption DEF Frame
  <2>5. CASE \E k \in 1 .. HalfTicks : frame' = [frame EXCEPT ![c].done = @ + k]
    BY <1>1, <2>1, <2>5, HalfTicksAssumption DEF Frame
  <2>. QED BY <1>3, <2>2, <2>3, <2>4, <2>5
<1>. QED BY <1>2, <1>4

(* A fill arms an axis only as it applies a segment, one that is not armed, *)
(* and for the half it fills only at the first tick of that.                *)
LEMMA FillArms ==
    ASSUME WideIndices, CoreTypeOK, ApplyInv, NEW c \in Caller, FillStep(c),
           frame[c].index = fillHalf, NEW a \in Axes
    PROVE  /\ ax'[a].dirLevel = ax[a].dirLevel /\ ax'[a].dirKnown = ax[a].dirKnown
           /\ \/ /\ ax'[a].armed = ax[a].armed /\ ax'[a].armedLevel = ax[a].armedLevel
                 /\ ax'[a].armedHalf = ax[a].armedHalf /\ ax'[a].blockUntil = ax[a].blockUntil
              \/ /\ FillApply(c) /\ ~ax[a].armed /\ ax'[a].armed
                 /\ ax'[a].armedHalf = IF frame[c].done = 0 THEN fillHalf ELSE NextHalf(fillHalf)
                 /\ ax'[a].blockUntil = GuardOf(ax'[a].armedHalf)
<1>1. CASE FillTake(c) \/ FillHold(c)
  BY <1>1 DEF FillTake, FillHold
<1>2. CASE FillStarve(c)
  <2>1. ax[a] \in AxisState /\ ax' = [b \in Axes |-> [ax[b] EXCEPT !.inc = 0, !.dirSign = 0]]
    BY <1>2 DEF CoreTypeOK, FillStarve
  <2>. QED BY <2>1 DEF AxisState
<1>3. CASE FillEmit(c)
  <2>1. PICK k \in 1 .. HalfTicks : EmitRun(c, k)
    BY <1>3 DEF FillEmit
  <2>. QED BY <2>1, EmitFields
<1>4. CASE FillApply(c)
  <2> DEFINE r == Head(frame[c].incoming).rate[a]
             target == IF Now(c) # HalfStart(fillHalf) \/ ax[a].armed THEN NextHalf(fillHalf)
                       ELSE fillHalf
  <2>1. r \in -RateMax .. RateMax /\ frame[c].at = "apply"
    BY <1>4, IncomingType DEF FillApply
  <2>2. ax'[a] = Applied(a, r, Now(c))
    BY <1>4 DEF FillApply
  <2>3. r # 0 /\ ax[a].armed => ax[a].armedLevel = LevelFor(a, r)
    BY <2>1 DEF ApplyInv, Conflicts
  <2>4. Now(c) = HalfStart(fillHalf) <=> frame[c].done = 0
    <3>1. frame[c].index \in HalfIx /\ frame[c].done \in 0 .. HalfTicks - 1
      BY <2>1, HalfTicksAssumption DEF ApplyInv, CoreTypeOK, Frame
    <3>. QED BY <3>1, NowAtStart
  <2>. HIDE DEF r
  <2>. QED BY <1>4, <2>1, <2>2, <2>3, <2>4, AppliedFields
<1>. QED BY <1>1, <1>2, <1>3, <1>4 DEF FillStep

LEMMA StepFillPlace ==
    ASSUME EStopCuts = {}, TypeOK, ControlInv, ReadyInv, FillPlace, [Next]_vars
    PROVE  FillPlace'
<1>0. CoreTypeOK /\ frame \in [Caller -> Frame]
  BY TypeParts DEF CoreTypeOK
<1> USE DEF FillPlace, Turning, Starting
<1>1. CASE CallStep
  <2>1. UNCHANGED <<fillHalf, playHalf, frame, running, ipc, flags>>
    BY <1>1, CallSteps DEF coreVars, dma
  <2>. QED BY <1>1, <2>1, CallSteps DEF IsrIdle
<1>2. CASE FlowStep
  <2>1. UNCHANGED <<fillHalf, playHalf, frame, running, mpc>>
    BY <1>2, FlowSteps DEF coreVars, portVars, dma
  <2>. QED BY <1>2, <2>1, FlowSteps DEF IsrIdle
<1>3. CASE StartPort \/ Stop \/ DmaTick \/ DmaFails \/ UNCHANGED vars
  <2>1. UNCHANGED <<fillHalf, playHalf, frame, ipc>>
    BY <1>3 DEF StartPort, Stop, DmaTick, DmaFails, vars, coreVars
  <2>2. CASE StartPort
    BY <2>1, <2>2 DEF StartPort, MainAt, MainRuns, IsrIdle
  <2>3. CASE Stop
    <3>1. mpc = "idle" /\ mpc' = "abort" /\ ~running' /\ ipc = "idle" /\ flags = {}
          /\ (~running => flags' = {})
      BY <2>3 DEF Stop, MainAt, MainRuns, IsrIdle, PortStop, FlagsOfStop
    <3>. QED BY <2>1, <3>1 DEF IsrIdle
  <2>4. CASE DmaTick \/ DmaFails
    <3>1. running /\ running' /\ mpc' = mpc
      BY <2>4 DEF DmaTick, PlayWord, DmaFails, DmaError
    <3>. QED BY <2>1, <3>1
  <2>5. CASE UNCHANGED vars
    BY <2>1, <2>5 DEF vars, portVars, dma, IsrIdle
  <2>. QED BY <1>3, <2>2, <2>3, <2>4, <2>5
<1>4. CASE AbortStep
  <2>1. UNCHANGED <<fillHalf, playHalf, frame>>
    BY <1>4, AbortSteps
  <2>2. CASE StopAbort
    BY <2>1, <2>2 DEF StopAbort, ControlInv, MainAt, MainRuns, IsrIdle, portVars, dma
  <2>3. CASE IsrOverrun
    BY <2>1, <2>3 DEF IsrOverrun, IsrIdle, Missed, ControlInv, Alone
  <2>4. CASE EStop
    <3>1. mpc = "idle" /\ mpc' = mpc /\ ipc' = ipc /\ ipc = "idle" /\ ~running'
      BY <2>4 DEF EStop, PortEmergencyStop
    <3>. QED BY <2>1, <3>1
  <2>5. ~(IsrRefill /\ ~ready[1 - frame["isr"].half])
    BY DEF IsrRefill, ReadyInv
  <2>. QED BY <1>4, <2>2, <2>3, <2>4, <2>5 DEF AbortStep
<1>5. CASE StartFill0
  <2>1. /\ mpc' = "fill0" /\ fillHalf' = 0 /\ playHalf' = 0 /\ ipc = "idle" /\ ipc' = "idle"
        /\ running' = running /\ state = "READY"
    BY <1>5 DEF StartFill0, MainAt, MainRuns, IsrIdle, portVars, dma
  <2>2. frame'["main"].half = 0 /\ frame'["main"].index = 0
    BY <1>0, <1>5 DEF StartFill0, Caller
  <2>. QED BY <2>1, <2>2 DEF ControlInv
<1>6. CASE StartFill1
  <2>1. /\ mpc = "fill0" /\ mpc' = "fill1" /\ ipc = "idle" /\ ipc' = "idle"
        /\ running' = running /\ playHalf' = playHalf
        /\ BeginFill("main", 1, NextHalf(0))
    BY <1>6 DEF StartFill1, MainAt, MainRuns, IsrIdle, portVars, dma
  <2>2. frame'["main"].half = 1 /\ frame'["main"].index = NextHalf(0) /\ fillHalf' = NextHalf(0)
    BY <1>0, <2>1 DEF BeginFill, Caller
  <2>. QED BY <2>1, <2>2 DEF ControlInv, Alone
<1>7. CASE StartDir
  <2>1. /\ mpc = "fill1" /\ mpc' = "run" /\ ipc = "idle" /\ ipc' = "idle" /\ ~running
        /\ running' = running /\ playHalf' = 0 /\ fillHalf' = fillHalf
    BY <1>7 DEF StartDir, PortWriteDir, MainAt, MainRuns, IsrIdle, portVars, dma, ControlInv, Alone
  <2>. QED BY <2>1
<1>8. CASE ClearRewind \/ SubmitPush
  <2>1. /\ ipc = "idle" /\ ipc' = "idle" /\ running' = running /\ mpc' \in {"cleared", "idle"}
        /\ (ClearRewind => ~running)
    BY <1>8 DEF ClearRewind, SubmitPush, MainAt, MainRuns, IsrIdle, portVars, dma, ControlInv, Alone
  <2>2. SubmitPush => UNCHANGED <<fillHalf, playHalf>>
    BY DEF SubmitPush
  <2>. QED BY <1>8, <2>1, <2>2
<1>9. CASE IsrBoundary
  <2>1. /\ UNCHANGED <<fillHalf, playHalf, running, mpc>> /\ ipc = "idle" /\ ipc' = "play"
        /\ flags # {}
    BY <1>9 DEF IsrBoundary
  <2>2. mpc \notin {"fill0", "fill1", "run", "port"}
    BY <2>1 DEF ControlInv, Alone
  <2>. QED BY <2>1, <2>2 DEF IsrIdle
<1>10. CASE IsrPlay
  <2>1. /\ UNCHANGED <<fillHalf, running, mpc>> /\ playHalf' = NextHalf(playHalf)
        /\ ipc = "play" /\ ipc' = "refill"
    BY <1>10 DEF IsrPlay, PortWriteDir, portVars, dma
  <2>2. mpc \notin {"fill0", "fill1", "run", "port"}
    BY <2>1 DEF ControlInv, Alone
  <2>. QED BY <2>1, <2>2 DEF IsrIdle
<1>11. CASE IsrRefill /\ ready[1 - frame["isr"].half]
  <2>1. /\ UNCHANGED <<playHalf, running, mpc>> /\ ipc = "refill" /\ ipc' = "fill"
        /\ BeginFill("isr", frame["isr"].half, NextHalf(playHalf))
    BY <1>11 DEF IsrRefill, portVars, dma
  <2>2. fillHalf' = NextHalf(playHalf) /\ frame'["isr"].index = fillHalf'
    BY <1>0, <2>1 DEF BeginFill, Caller
  <2>3. mpc \notin {"fill0", "fill1", "run", "port"}
    BY <2>1 DEF ControlInv, Alone
  <2>. QED BY <2>1, <2>2, <2>3 DEF IsrIdle
<1>12. CASE IsrFillStep \/ MainFillStep
  <2>1. PICK c \in Caller : FillStep(c) /\ UNCHANGED <<portVars, facade, mpc, ipc, history>>
    BY <1>12, Fillers
  <2>2. UNCHANGED <<running, flags, mpc, ipc, fillHalf, playHalf>>
        /\ \A b \in Caller : frame'[b].half = frame[b].half /\ frame'[b].index = frame[b].index
    BY <1>0, <2>1, FillFrames DEF portVars, dma
  <2>. QED BY <2>2 DEF IsrIdle, Caller
<1>. QED
  BY <1>1, <1>2, <1>3, <1>4, <1>5, <1>6, <1>7, <1>8, <1>9, <1>10, <1>11, <1>12
     DEF Next, Main, Isr, AbortStep, CallStep, FlowStep

LEMMA FillPlaceCorrect ==
    ASSUME EStopCuts = {}
    PROVE  Spec => []FillPlace
<1>1. Init => FillPlace
  BY DEF Init, PortInit, FillPlace, Turning, Starting
<1>2. TypeOK /\ ControlInv /\ ReadyInv /\ FillPlace /\ [Next]_vars => FillPlace'
  BY StepFillPlace
<1>3. "main" \notin EStopCuts
  OBVIOUS
<1>. QED BY <1>1, <1>2, <1>3, TypeCorrect, ControlCorrect, ReadyCorrect, PTL DEF Spec

(* What a step does to an armed axis. *)
LEMMA FillArmedPlace ==
    ASSUME WideIndices, TypeOK, ControlInv, ApplyInv, FillPlace, ArmedPlace, CleanInv,
           NEW c \in Caller, Filler(c), FillStep(c),
           UNCHANGED <<portVars, facade, mpc, ipc, history>>
    PROVE  ArmedPlace'
<1>0. CoreTypeOK /\ fillHalf \in HalfIx /\ playHalf \in HalfIx /\ frame[c] \in Frame
      /\ UNCHANGED <<running, flags, mpc, ipc>>
  BY TypeParts DEF CoreTypeOK, portVars, dma
<1>1. frame[c].index = fillHalf
  BY DEF FillPlace, Filler
<1>2. UNCHANGED <<fillHalf, playHalf>> /\ frame'[c].done >= frame[c].done
      /\ \A b \in Caller : frame'[b].done \in Int /\ frame[b].done \in Nat
                           /\ frame'[b].done >= frame[b].done
  <2>1. CoreTypeOK'
    BY <1>0, FillStepType
  <2>2. \A b \in Caller : frame'[b].done \in Int /\ frame[b].done \in Nat
    BY <1>0, <2>1, HalfTicksAssumption DEF CoreTypeOK, Frame
  <2>. QED BY <1>0, <2>2, FillFrames
<1> SUFFICES ASSUME NEW a \in Axes, ax'[a].armed
             PROVE  /\ ax'[a].blockUntil = GuardOf(ax'[a].armedHalf)
                    /\ mpc = "fill0" =>
                          \/ ax'[a].armedHalf = 0
                          \/ ax'[a].armedHalf = NextHalf(0) /\ frame'["main"].done > 0
                    /\ mpc = "fill1" =>
                          \/ ax'[a].armedHalf \in {0, NextHalf(0)}
                          \/ ax'[a].armedHalf = Next2(0) /\ frame'["main"].done > 0
                    /\ mpc \in {"run", "port"} => ax'[a].armedHalf \in {NextHalf(0), Next2(0)}
                    /\ Turning => \/ ax'[a].armedHalf = NextHalf(playHalf)
                                  \/ /\ ax'[a].armedHalf = Next2(playHalf)
                                     /\ ipc # "refill" /\ (ipc = "fill" => frame'["isr"].done > 0)
  BY <1>0, <1>2 DEF ArmedPlace, Turning, IsrIdle, GuardOf
<1>3. "main" \in Caller /\ "isr" \in Caller
  BY DEF Caller
<1>4. CASE ax[a].armed /\ ax'[a].armedHalf = ax[a].armedHalf /\ ax'[a].blockUntil = ax[a].blockUntil
  <2>1. /\ ax[a].blockUntil = GuardOf(ax[a].armedHalf)
        /\ mpc = "fill0" => \/ ax[a].armedHalf = 0
                            \/ ax[a].armedHalf = NextHalf(0) /\ frame["main"].done > 0
        /\ mpc = "fill1" => \/ ax[a].armedHalf \in {0, NextHalf(0)}
                            \/ ax[a].armedHalf = Next2(0) /\ frame["main"].done > 0
        /\ mpc \in {"run", "port"} => ax[a].armedHalf \in {NextHalf(0), Next2(0)}
        /\ Turning => \/ ax[a].armedHalf = NextHalf(playHalf)
                      \/ /\ ax[a].armedHalf = Next2(playHalf)
                         /\ ipc # "refill" /\ (ipc = "fill" => frame["isr"].done > 0)
    BY <1>4 DEF ArmedPlace
  <2>2. \A b \in Caller : frame[b].done > 0 => frame'[b].done > 0
    BY <1>2
  <2>. QED BY <1>3, <1>4, <2>1, <2>2
<1>5. CASE /\ ax'[a].armedHalf = IF frame[c].done = 0 THEN fillHalf ELSE NextHalf(fillHalf)
           /\ ax'[a].blockUntil = GuardOf(ax'[a].armedHalf)
  <2>1. frame[c].done # 0 => frame'[c].done > 0
    BY <1>2
  <2>2. CASE c = "main"
    <3>1. mpc \in {"fill0", "fill1"} /\ ~Turning
      BY <2>2 DEF Filler, Turning
    <3>2. fillHalf = IF mpc = "fill0" THEN 0 ELSE NextHalf(0)
      BY <3>1 DEF FillPlace
    <3>. QED BY <1>5, <2>1, <2>2, <3>1, <3>2 DEF Next2
  <2>3. CASE c = "isr"
    <3>1. ipc = "fill" /\ mpc \notin {"fill0", "fill1", "run", "port"}
      BY <2>3 DEF Filler, Starting
    <3>2. Turning => fillHalf = NextHalf(playHalf)
      BY <3>1 DEF FillPlace
    <3>. QED BY <1>5, <2>1, <2>3, <3>1, <3>2 DEF Next2
  <2>. QED BY <2>2, <2>3 DEF Caller
<1>. QED BY <1>0, <1>1, <1>4, <1>5, FillArms

LEMMA StepArmedPlace ==
    ASSUME EStopCuts = {}, WideIndices, TypeOK, ControlInv, ReadyInv, ApplyInv, CleanInv,
           FillPlace, ArmedPlace, [Next]_vars
    PROVE  ArmedPlace'
<1>0. CoreTypeOK /\ frame \in [Caller -> Frame] /\ playHalf \in HalfIx /\ "main" \in Caller
  BY TypeParts DEF CoreTypeOK, Caller
<1> USE DEF ArmedPlace, GuardOf
<1>1. CASE CallStep
  <2>1. UNCHANGED <<ax, playHalf, frame, running, ipc, flags>>
    BY <1>1, CallSteps DEF coreVars, dma
  <2>. QED BY <1>1, <2>1, CallSteps DEF Turning, IsrIdle
<1>2. CASE FlowStep
  <2>1. UNCHANGED <<ax, playHalf, frame, running, mpc>>
    BY <1>2, FlowSteps DEF coreVars, portVars, dma
  <2>. QED BY <1>2, <2>1, FlowSteps DEF Turning, IsrIdle
<1>3. CASE StartPort
  <2>1. UNCHANGED <<ax, playHalf>> /\ mpc = "port" /\ mpc' = "idle" /\ ipc' = "idle"
    BY <1>3 DEF StartPort, MainAt, MainRuns, IsrIdle, coreVars
  <2>2. playHalf = 0
    BY <2>1 DEF FillPlace, Starting
  <2>. QED BY <2>1, <2>2
<1>4. CASE Stop
  <2>1. /\ UNCHANGED <<ax, playHalf, frame>> /\ mpc' = "abort" /\ ~running'
        /\ ipc = "idle" /\ ipc' = "idle" /\ flags = {} /\ (~running => flags' = {})
    BY <1>4 DEF Stop, MainAt, MainRuns, IsrIdle, PortStop, FlagsOfStop, coreVars
  <2>2. Turning' => Turning
    BY <2>1 DEF Turning, IsrIdle
  <2>. QED BY <2>1, <2>2
<1>5. CASE DmaTick \/ DmaFails \/ UNCHANGED vars
  <2>1. UNCHANGED <<ax, playHalf, frame, mpc, ipc>> /\ (Turning' => Turning)
    <3>1. CASE DmaTick \/ DmaFails
      BY <3>1 DEF DmaTick, PlayWord, DmaFails, DmaError, coreVars, Turning
    <3>2. CASE UNCHANGED vars
      BY <3>2 DEF vars, coreVars, portVars, dma, Turning, IsrIdle
    <3>. QED BY <1>5, <3>1, <3>2
  <2>. QED BY <2>1
<1>6. CASE AbortStep
  BY <1>6, AbortSteps
<1>7. CASE StartFill0 \/ ClearRewind
  <2>1. ax' = Rewound
    BY <1>7 DEF StartFill0, ClearRewind
  <2>2. \A a \in Axes : ~ax'[a].armed
    BY <1>0, <2>1 DEF Rewound, CoreTypeOK, AxisState
  <2>. QED BY <2>2
<1>8. CASE StartFill1
  <2>1. /\ ax' = ax /\ mpc = "fill0" /\ mpc' = "fill1" /\ running' = running
    BY <1>8 DEF StartFill1, MainAt, portVars, dma
  <2>2. ~running
    BY <2>1 DEF ControlInv
  <2>. QED BY <2>1, <2>2 DEF Turning
<1>9. CASE StartDir
  <2>1. /\ ax' = AfterTake(0) /\ mpc = "fill1" /\ mpc' = "run" /\ running' = running
    BY <1>9 DEF StartDir, PortWriteDir, MainAt, portVars, dma
  <2>2. ~running
    BY <2>1 DEF ControlInv
  <2>. QED BY <1>0, <2>1, <2>2, AfterTakeFields DEF Turning
<1>10. CASE SubmitPush \/ IsrBoundary
  <2>1. UNCHANGED <<ax, playHalf, running>>
    BY <1>10 DEF SubmitPush, IsrBoundary, portVars, dma
  <2>2. CASE SubmitPush
    BY <2>1, <2>2 DEF SubmitPush, MainAt, MainRuns, IsrIdle, Turning
  <2>3. CASE IsrBoundary
    <3>1. ipc = "idle" /\ ipc' = "play" /\ flags # {} /\ mpc' = mpc
      BY <2>3 DEF IsrBoundary
    <3>2. mpc \notin {"fill0", "fill1", "run", "port"}
      BY <3>1 DEF ControlInv, Alone
    <3>. QED BY <2>1, <3>1, <3>2 DEF Turning, IsrIdle
  <2>. QED BY <1>10, <2>2, <2>3
<1>11. CASE IsrPlay
  <2>1. /\ ax' = AfterTake(NextHalf(playHalf)) /\ playHalf' = NextHalf(playHalf)
        /\ ipc = "play" /\ ipc' = "refill" /\ running' = running /\ mpc' = mpc
    BY <1>11 DEF IsrPlay, PortWriteDir, portVars, dma
  <2>2. mpc \notin {"fill0", "fill1", "run", "port"} /\ (Turning' => Turning)
    BY <2>1 DEF ControlInv, Alone, Turning, IsrIdle
  <2>. QED BY <1>0, <2>1, <2>2, AfterTakeFields DEF Next2
<1>12. CASE IsrRefill /\ ready[1 - frame["isr"].half]
  <2>1. /\ UNCHANGED <<ax, playHalf, running, mpc>> /\ ipc = "refill" /\ ipc' = "fill"
    BY <1>12 DEF IsrRefill, portVars, dma
  <2>2. mpc \notin {"fill0", "fill1", "run", "port"} /\ (Turning' => Turning)
    BY <2>1 DEF ControlInv, Alone, Turning, IsrIdle
  <2>. QED BY <2>1, <2>2
<1>13. CASE IsrFillStep \/ MainFillStep
  <2>1. PICK c \in Caller : Filler(c) /\ FillStep(c)
                            /\ UNCHANGED <<portVars, facade, mpc, ipc, history>>
    BY <1>13, Fillers
  <2>. QED BY <2>1, FillArmedPlace
<1>. QED
  BY <1>1, <1>2, <1>3, <1>4, <1>5, <1>6, <1>7, <1>8, <1>9, <1>10, <1>11, <1>12, <1>13
     DEF Next, Main, Isr, AbortStep, CallStep, FlowStep

LEMMA ArmedPlaceCorrect ==
    ASSUME EStopCuts = {}, WideIndices
    PROVE  Spec => []ArmedPlace
<1>1. Init => ArmedPlace
  BY DEF Init, CoreInit, ArmedPlace
<1>2. TypeOK /\ ControlInv /\ ReadyInv /\ ApplyInv /\ CleanInv /\ FillPlace /\ ArmedPlace
        /\ [Next]_vars => ArmedPlace'
  BY StepArmedPlace
<1>3. "main" \notin EStopCuts
  OBVIOUS
<1>. QED
  BY <1>1, <1>2, <1>3, TypeCorrect, ControlCorrect, ReadyCorrect, SignsCorrect, CleanCorrect,
     FillPlaceCorrect, PTL DEF Spec

(* An armed reversal is for the half that plays next or the one after it:   *)
(* whatever was submitted and however the interrupt cut in, the boundary    *)
(* that writes its DIR line is still to come.                               *)
THEOREM ReversalIsReachable ==
    ASSUME EStopCuts = {}, WideIndices
    PROVE  Spec => []ReversalReachable
<1>1. ArmedPlace => ReversalReachable
  BY DEF ArmedPlace, ReversalReachable, Turning
<1>. QED BY <1>1, ArmedPlaceCorrect, PTL

---------------------------------------------------------------------------
(* How long a segment is held back.                                        *)

Exhausted == ~segValid \/ remaining = 0
FillingAt(d) == \/ mpc \in {"fill0", "fill1"} /\ frame["main"].done = d
                \/ ipc = "fill" /\ frame["isr"].done = d
Filling == mpc \in {"fill0", "fill1"} \/ ipc = "fill"
AllAtLoop == \A c \in Caller : frame[c].at = "loop"

(* While a segment is held back, it waits for nothing but its reversal: it  *)
(* is held from one beginning of a half to the next, for a second half only *)
(* if that plays before the reversal, and then no further.                  *)
Held ==
    /\ pending # <<>> /\ Exhausted
    /\ Filling => FillingAt(0) \/ FillingAt(HalfTicks)
    /\ mpc = "fill0" \/ (mpc = "fill1" /\ FillingAt(0)) => stalled < HalfTicks
    /\ \/ stalled < HalfTicks
       \/ \A a \in Axes : ax[a].armed =>
             ax[a].armedHalf # IF FillingAt(0) THEN fillHalf ELSE NextHalf(fillHalf)

StallInv ==
    /\ stalled < 2 * HalfTicks
    /\ mpc = "fill0" /\ frame["main"].done = 0 /\ frame["main"].at = "loop" /\ Exhausted =>
          \A a \in Axes : ~ax[a].armed
    /\ (Starting \/ Turning) /\ stalled > 0 /\ AllAtLoop => Held

(* The candidate for the next segment is one that was submitted. *)
LEMMA CandidateType ==
    ASSUME CoreTypeOK, Candidates # <<>>
    PROVE  Head(Candidates) \in Segment /\ ValidSegment(Head(Candidates))
<1>1. pending \in Seq(Segment) /\ queue \in Seq(Segment)
  BY DEF CoreTypeOK, AtMostOne
<1>2. Candidates \in Seq(Segment)
  BY <1>1 DEF Candidates
<1>3. \A T : \A q \in Seq(T) : q # <<>> => Head(q) \in T
  OBVIOUS
<1>4. Head(Candidates) \in Segment
  BY <1>2, <1>3
<1>. QED BY <1>4, BoundAssumption, RateAssumption DEF Segment, ValidSegment

(* A fill outside a turning or starting ring is at rest. *)
LEMMA FillerIsBusy ==
    ASSUME ControlInv, CleanInv, NEW c \in Caller, Filler(c), ~(Starting \/ Turning)
    PROVE  Blanked /\ queue = <<>>
  BY DEF Filler, Starting, Turning, CleanInv, AtRest, IsrIdle, ControlInv

(* A hold: the segment stays pending, and the rest of the half is silent. *)
LEMMA HoldSteps ==
    ASSUME CoreTypeOK, NEW c \in Caller, FillHold(c)
    PROVE  /\ Conflicts(Head(Candidates)) /\ pending' # <<>>
           /\ Exhausted /\ frame[c].at = "loop" /\ frame[c].done \in 0 .. HalfTicks - 1
           /\ UNCHANGED <<ax, segValid, remaining, fillHalf, playHalf>>
           /\ frame'[c].done = HalfTicks /\ frame'[c].at = "loop"
           /\ \A b \in Caller : b # c => frame'[b] = frame[b]
           /\ stalled' = IF stalled + HalfTicks - frame[c].done > 2 * HalfTicks
                         THEN 2 * HalfTicks ELSE stalled + HalfTicks - frame[c].done
<1>1. /\ Candidates # <<>> /\ NeedsSegment(c) /\ SilenceRest(c)
      /\ ValidSegment(Head(Candidates)) => Conflicts(Head(Candidates))
  BY DEF FillHold
<1>2. Conflicts(Head(Candidates)) /\ ValidSegment(Head(Candidates))
  BY <1>1, CandidateType
<1>3. frame \in [Caller -> Frame]
  BY DEF CoreTypeOK
<1>4. frame[c].done \in 0 .. HalfTicks - 1 /\ frame[c].at = "loop" /\ Exhausted
  BY <1>1, <1>3, HalfTicksAssumption DEF NeedsSegment, Frame, Exhausted
<1>5. frame' = [frame EXCEPT ![c].done = HalfTicks]
  BY <1>1 DEF SilenceRest
<1>6. /\ frame'[c].done = HalfTicks /\ frame'[c].at = "loop"
      /\ \A b \in Caller : b # c => frame'[b] = frame[b]
  BY <1>3, <1>4, <1>5 DEF Frame
<1>7. pending' # <<>>
  BY <1>2 DEF FillHold
<1>. QED BY <1>2, <1>4, <1>6, <1>7 DEF FillHold

LEMMA HoldStall ==
    ASSUME WideIndices, TypeOK, ControlInv, AppliedInFill, CleanInv, FillPlace, ArmedPlace, StallInv,
           NEW c \in Caller, Filler(c), FillHold(c),
           UNCHANGED <<portVars, facade, mpc, ipc, history>>
    PROVE  StallInv'
<1> DEFINE d == frame[c].done
<1>0. CoreTypeOK /\ UNCHANGED <<running, flags, mpc, ipc>> /\ HalfTicks \in Nat \ {0}
      /\ stalled \in Nat /\ fillHalf \in HalfIx /\ playHalf \in HalfIx /\ 0 \in HalfIx
  BY TypeParts, HalfTicksAssumption, WrapAssumption DEF portVars, dma, CoreTypeOK, HalfIx
<1>1. /\ Conflicts(Head(Candidates)) /\ pending' # <<>>
      /\ Exhausted /\ Exhausted' /\ frame[c].at = "loop" /\ d \in 0 .. HalfTicks - 1
      /\ UNCHANGED <<ax, fillHalf, playHalf>>
      /\ frame'[c].done = HalfTicks /\ frame'[c].at = "loop"
      /\ \A b \in Caller : b # c => frame'[b] = frame[b]
      /\ stalled' = IF stalled + HalfTicks - d > 2 * HalfTicks
                    THEN 2 * HalfTicks ELSE stalled + HalfTicks - d
  BY <1>0, HoldSteps DEF Exhausted
<1>2. PICK e \in Axes : ax[e].armed
  BY <1>1 DEF Conflicts
<1>3. Starting \/ Turning
  <2>1. Candidates # <<>>
    BY DEF FillHold
  <2>2. Blanked /\ queue = <<>> => Candidates = <<>>
    BY DEF Blanked, Candidates
  <2>. QED BY <2>1, <2>2, FillerIsBusy
<1>4. AllAtLoop
  <2>1. \A b \in Caller : b # c => frame[b].at = "loop"
    BY <1>0 DEF Filler, AppliedInFill, Starting, Caller, CoreTypeOK, Frame
  <2>. QED BY <1>1, <2>1 DEF AllAtLoop
<1>5. /\ \A n : FillingAt(n) <=> d = n
      /\ FillingAt(HalfTicks)' /\ ~FillingAt(0)' /\ Filling
      /\ mpc = "fill0" => c = "main"
  <2>1. \A n : FillingAt(n) <=> d = n
    BY DEF Filler, FillingAt, Starting
  <2>2. FillingAt(HalfTicks)' /\ ~FillingAt(0)'
    BY <1>0, <1>1 DEF Filler, FillingAt, Starting
  <2>. QED BY <2>1, <2>2 DEF Filler, Filling, Starting
<1>6. stalled > 0 => d = 0 /\ Held
  BY <1>1, <1>3, <1>4, <1>5, <1>0 DEF StallInv, Held
<1>7. d = 0 => mpc # "fill0"
  BY <1>1, <1>2, <1>5 DEF StallInv
<1>8. d = 0 => \A a \in Axes : ax[a].armed =>
         \/ ax[a].armedHalf = fillHalf
         \/ mpc = "fill1" /\ ax[a].armedHalf = 0
  <2>1. CASE c = "main"
    BY <1>7, <2>1, <1>0 DEF Filler, ArmedPlace, FillPlace
  <2>2. CASE c = "isr"
    BY <1>3, <2>2, <1>0 DEF Filler, ArmedPlace, FillPlace
  <2>. QED BY <2>1, <2>2 DEF Caller
<1>9. stalled > 0 => stalled < HalfTicks
  BY <1>2, <1>5, <1>6, <1>8 DEF Held
<1>10. stalled' = stalled + HalfTicks - d /\ stalled' < 2 * HalfTicks /\ stalled' > 0
  BY <1>0, <1>1, <1>6, <1>9
<1>11. mpc = "fill0" => stalled' < HalfTicks
  BY <1>0, <1>1, <1>6, <1>7, <1>10
<1>12. ~(stalled' < HalfTicks) => \A a \in Axes : ax'[a].armed => ax'[a].armedHalf # NextHalf(fillHalf)
  <2>1. ~(stalled' < HalfTicks) => d = 0
    BY <1>0, <1>1, <1>6, <1>10
  <2>2. NextHalf(fillHalf) # fillHalf
    BY <1>0, NextHalves
  <2>3. mpc = "fill1" => NextHalf(fillHalf) # 0
    BY <1>0, NextHalves DEF FillPlace, Next2
  <2>. QED BY <1>1, <1>8, <2>1, <2>2, <2>3
<1>13. Held'
  BY <1>0, <1>1, <1>5, <1>11, <1>12 DEF Held, Filling
<1>14. (mpc = "fill0" /\ frame["main"].done = 0 /\ frame["main"].at = "loop" /\ Exhausted =>
          \A a \in Axes : ~ax[a].armed)'
  BY <1>0, <1>1, <1>5
<1>. QED BY <1>10, <1>13, <1>14 DEF StallInv

LEMMA FillStall ==
    ASSUME WideIndices, TypeOK, ControlInv, AppliedInFill, CleanInv, FillPlace, ArmedPlace, StallInv,
           NEW c \in Caller, Filler(c), FillStep(c),
           UNCHANGED <<portVars, facade, mpc, ipc, history>>
    PROVE  StallInv'
<1>0. CoreTypeOK /\ UNCHANGED <<running, flags, mpc, ipc>> /\ HalfTicks \in Nat \ {0}
      /\ stalled \in Nat /\ frame \in [Caller -> Frame]
  BY TypeParts, HalfTicksAssumption DEF portVars, dma, CoreTypeOK
<1>1. CASE FillHold(c)
  BY <1>1, HoldStall
<1>2. CASE FillTake(c)
  <2>1. frame'[c].at = "apply" /\ stalled' = stalled
        /\ \A b \in Caller : b # c => frame'[b] = frame[b]
    BY <1>0, <1>2 DEF FillTake, Frame
  <2>2. ~AllAtLoop'
    BY <2>1 DEF AllAtLoop
  <2>3. mpc = "fill0" => c = "main"
    BY DEF Filler, Starting
  <2>. QED BY <1>0, <2>1, <2>2, <2>3 DEF StallInv
<1>3. CASE FillApply(c)
  <2>1. stalled' = 0 /\ segValid' /\ remaining' # 0
    BY <1>0, <1>3, IncomingType DEF FillApply
  <2>. QED BY <1>0, <2>1 DEF StallInv, Exhausted
<1>4. CASE FillStarve(c)
  <2>1. /\ Candidates = <<>> /\ pending = <<>> /\ stalled' = stalled
        /\ frame[c].at = "loop" /\ frame' = [frame EXCEPT ![c].done = HalfTicks]
    <3>1. /\ Candidates = <<>> /\ stalled' = stalled
          /\ frame[c].at = "loop" /\ frame' = [frame EXCEPT ![c].done = HalfTicks]
      BY <1>4 DEF FillStarve, NeedsSegment, SilenceRest
    <3>2. pending = <<>>
      <4>1. pending \in Seq(Segment) /\ queue \in Seq(Segment) /\ pending \o queue = <<>>
        BY <1>0, <3>1 DEF Candidates, CoreTypeOK, AtMostOne
      <4>2. \A T : \A p, q \in Seq(T) : p \o q = <<>> => p = <<>>
        OBVIOUS
      <4>. QED BY <4>1, <4>2
    <3>. QED BY <3>1, <3>2
  <2>2. AllAtLoop
    <3>1. \A b \in Caller : b # c => frame[b].at = "loop"
      BY <1>0 DEF Filler, AppliedInFill, Starting, Caller, Frame
    <3>. QED BY <2>1, <3>1 DEF AllAtLoop
  <2>3. stalled = 0
    <3>1. CASE Starting \/ Turning
      BY <1>0, <2>1, <2>2, <3>1 DEF StallInv, Held
    <3>2. CASE ~(Starting \/ Turning)
      BY <3>2, FillerIsBusy DEF Blanked
    <3>. QED BY <3>1, <3>2
  <2>4. mpc = "fill0" => frame'["main"].done # 0
    BY <1>0, <2>1 DEF Filler, Starting, Frame
  <2>. QED BY <1>0, <2>1, <2>3, <2>4 DEF StallInv
<1>5. CASE FillEmit(c)
  <2>1. PICK k \in 1 .. HalfTicks : frame' = [frame EXCEPT ![c].done = @ + k]
    BY <1>5 DEF FillEmit, EmitRun
  <2>2. segValid /\ remaining > 0 /\ frame[c].at = "loop" /\ stalled' = stalled
    BY <1>5 DEF FillEmit
  <2>3. AllAtLoop /\ ~Exhausted
    <3>1. \A b \in Caller : b # c => frame[b].at = "loop"
      BY <1>0 DEF Filler, AppliedInFill, Starting, Caller, Frame
    <3>. QED BY <2>2, <3>1, <1>0 DEF AllAtLoop, Exhausted, CoreTypeOK
  <2>4. stalled = 0
    <3>1. CASE Starting \/ Turning
      BY <1>0, <2>3, <3>1 DEF StallInv, Held
    <3>2. CASE ~(Starting \/ Turning)
      BY <3>2, FillerIsBusy DEF Blanked
    <3>. QED BY <3>1, <3>2
  <2>5. mpc = "fill0" => frame'["main"].done # 0
    BY <1>0, <2>1 DEF Filler, Starting, Frame
  <2>. QED BY <1>0, <2>2, <2>4, <2>5 DEF StallInv
<1>. QED BY <1>1, <1>2, <1>3, <1>4, <1>5 DEF FillStep

LEMMA StepStall ==
    ASSUME EStopCuts = {}, WideIndices, TypeOK, ControlInv, ReadyInv, AppliedInFill, CleanInv,
           FillPlace, ArmedPlace, StallInv, [Next]_vars
    PROVE  StallInv'
<1>0. /\ CoreTypeOK /\ HalfTicks \in Nat \ {0} /\ stalled \in Nat
      /\ frame \in [Caller -> Frame] /\ "main" \in Caller /\ "isr" \in Caller
  BY TypeParts, HalfTicksAssumption DEF CoreTypeOK, Caller
<1>1. CASE CallStep
  <2>1. UNCHANGED <<ax, pending, segValid, remaining, fillHalf, frame, stalled, running, ipc, flags>>
    BY <1>1, CallSteps DEF coreVars, segments, dma
  <2>2. IsrIdle /\ IsrIdle'
    BY <1>1, <2>1, CallSteps DEF IsrIdle
  <2>3. mpc \notin {"fill0", "fill1"} /\ mpc' \notin {"fill0", "fill1"}
        /\ ipc # "fill" /\ ipc' # "fill" /\ (Starting' \/ Turning' => Starting \/ Turning)
    BY <1>1, <2>1, <2>2, CallSteps DEF Starting, Turning, IsrIdle
  <2>. QED
    BY <2>1, <2>3 DEF StallInv, Held, AllAtLoop, Exhausted, Filling, FillingAt
<1>2. CASE FlowStep
  <2>1. UNCHANGED <<ax, pending, segValid, remaining, fillHalf, frame, stalled, running, mpc>>
    BY <1>2, FlowSteps DEF coreVars, segments, portVars, dma
  <2>2. /\ ipc = "fill" => frame["isr"].done = HalfTicks
        /\ ipc' # "fill" /\ (Turning' => Turning)
        /\ mpc \notin {"fill0", "fill1"} /\ ipc # "idle"
    BY <1>2, <2>1, FlowSteps DEF Filled, Turning, IsrIdle, ControlInv, Alone
  <2>3. ~FillingAt(0) /\ ~FillingAt(0)' /\ ~Filling'
    BY <1>0, <2>1, <2>2 DEF FillingAt, Filling
  <2>. QED
    BY <2>1, <2>2, <2>3 DEF StallInv, Held, AllAtLoop, Exhausted, Starting
<1>3. CASE StartPort \/ Stop \/ DmaTick \/ DmaFails \/ UNCHANGED vars
  <2>1. UNCHANGED <<ax, pending, segValid, remaining, fillHalf, frame, stalled, ipc>>
    BY <1>3 DEF StartPort, Stop, DmaTick, DmaFails, vars, coreVars, segments
  <2>2. /\ mpc \in {"fill0", "fill1"} <=> mpc' \in {"fill0", "fill1"}
        /\ mpc = "fill0" <=> mpc' = "fill0"
        /\ mpc = "fill1" <=> mpc' = "fill1"
    BY <1>3 DEF StartPort, Stop, DmaTick, DmaFails, vars, MainAt
  <2>3. Starting' \/ Turning' => Starting \/ Turning
    <3>1. CASE StartPort
      BY <3>1 DEF StartPort, MainAt, Starting
    <3>2. CASE Stop
      BY <3>2 DEF Stop, MainAt, MainRuns, IsrIdle, PortStop, FlagsOfStop, Turning, Starting
    <3>3. CASE DmaTick \/ DmaFails
      BY <3>3 DEF DmaTick, PlayWord, DmaFails, DmaError, Turning
    <3>4. CASE UNCHANGED vars
      BY <3>4 DEF vars, portVars, dma, Turning, IsrIdle, Starting
    <3>. QED BY <1>3, <3>1, <3>2, <3>3, <3>4
  <2>4. \A n : FillingAt(n)' <=> FillingAt(n)
    BY <2>1, <2>2 DEF FillingAt
  <2>. QED
    BY <2>1, <2>2, <2>3, <2>4 DEF StallInv, Held, AllAtLoop, Exhausted, Filling
<1>4. CASE AbortStep
  <2>1. stalled' = 0 /\ \A a \in Axes : ~ax'[a].armed
    BY <1>4, AbortSteps
  <2>. QED BY <1>0, <2>1 DEF StallInv
<1>5. CASE StartFill0 \/ ClearRewind
  <2>1. AtRest /\ ax' = Rewound /\ stalled' = stalled
    BY <1>5 DEF StartFill0, ClearRewind, MainAt, ControlInv, Alone, AtRest, Starting
  <2>2. stalled = 0
    BY <2>1 DEF CleanInv, Blanked
  <2>3. \A a \in Axes : ~ax'[a].armed
    BY <1>0, <2>1 DEF Rewound, CoreTypeOK, AxisState
  <2>. QED BY <1>0, <2>1, <2>2, <2>3 DEF StallInv
<1>6. CASE StartFill1
  <2>1. /\ mpc = "fill0" /\ mpc' = "fill1" /\ ipc = "idle" /\ ipc' = "idle" /\ Filled("main")
        /\ UNCHANGED <<ax, pending, segValid, remaining, stalled>>
        /\ BeginFill("main", 1, NextHalf(0))
    BY <1>6 DEF StartFill1, MainAt, MainRuns, IsrIdle, segments
  <2>2. /\ frame'["main"].done = 0 /\ frame'["main"].at = "loop"
        /\ frame'["isr"] = frame["isr"] /\ fillHalf' = NextHalf(0)
        /\ frame["main"].done = HalfTicks /\ frame["main"].at = "loop"
    BY <1>0, <2>1 DEF BeginFill, Filled
  <2>3. AllAtLoop' => AllAtLoop
    BY <2>2 DEF AllAtLoop, Caller
  <2>4. ~FillingAt(0) /\ FillingAt(0)' /\ fillHalf = 0
    BY <1>0, <2>1, <2>2 DEF FillingAt, FillPlace
  <2>. QED
    BY <2>1, <2>2, <2>3, <2>4 DEF StallInv, Held, Exhausted, Filling, Starting
<1>7. CASE StartDir
  <2>1. /\ mpc = "fill1" /\ mpc' = "run" /\ ipc = "idle" /\ ipc' = "idle" /\ Filled("main")
        /\ UNCHANGED <<pending, segValid, remaining, stalled, frame, fillHalf>>
        /\ ax' = AfterTake(0)
    BY <1>7 DEF StartDir, MainAt, MainRuns, IsrIdle, segments
  <2>2. ~FillingAt(0) /\ ~FillingAt(0)' /\ ~Filling'
    BY <1>0, <2>1 DEF FillingAt, Filling, Filled
  <2>3. \A a \in Axes : ax'[a].armed => ax[a].armed /\ ax'[a].armedHalf = ax[a].armedHalf
    BY <1>0, <2>1, AfterTakeFields
  <2>. QED
    BY <2>1, <2>2, <2>3 DEF StallInv, Held, Exhausted, AllAtLoop, Starting
<1>8. CASE SubmitPush \/ IsrBoundary
  <2>1. /\ UNCHANGED <<ax, pending, segValid, remaining, stalled, fillHalf, running>>
        /\ ipc = "idle" /\ ipc' # "fill"
        /\ \A c \in Caller : frame'[c].at = frame[c].at
    <3>1. CASE SubmitPush
      BY <3>1 DEF SubmitPush, MainAt, MainRuns, IsrIdle, portVars, dma
    <3>2. CASE IsrBoundary
      BY <1>0, <3>2 DEF IsrBoundary, segments, Frame
    <3>. QED BY <1>8, <3>1, <3>2
  <2>2. /\ mpc \notin {"fill0", "fill1"} /\ mpc' \notin {"fill0", "fill1"}
        /\ (Starting' \/ Turning' => Starting \/ Turning)
    <3>1. CASE SubmitPush
      BY <2>1, <3>1 DEF SubmitPush, MainAt, MainRuns, Starting, Turning
    <3>2. CASE IsrBoundary
      BY <2>1, <3>2 DEF IsrBoundary, ControlInv, Alone, Starting, Turning, IsrIdle
    <3>. QED BY <1>8, <3>1, <3>2
  <2>. QED
    BY <2>1, <2>2 DEF StallInv, Held, Exhausted, AllAtLoop, Filling, FillingAt
<1>9. CASE IsrPlay
  <2>1. /\ UNCHANGED <<pending, segValid, remaining, stalled, fillHalf, running, frame, mpc>>
        /\ ipc = "play" /\ ipc' = "refill" /\ ax' = AfterTake(NextHalf(playHalf))
    BY <1>9 DEF IsrPlay, segments, PortWriteDir, portVars, dma
  <2>2. mpc \notin {"fill0", "fill1"} /\ (Starting' \/ Turning' => Starting \/ Turning)
    BY <2>1 DEF ControlInv, Alone, Starting, Turning, IsrIdle
  <2>3. \A a \in Axes : ax'[a].armed => ax[a].armed /\ ax'[a].armedHalf = ax[a].armedHalf
    BY <1>0, <2>1, AfterTakeFields
  <2>. QED
    BY <2>1, <2>2, <2>3 DEF StallInv, Held, Exhausted, AllAtLoop, Filling, FillingAt
<1>10. CASE IsrRefill /\ ready[1 - frame["isr"].half]
  <2>1. /\ UNCHANGED <<ax, pending, segValid, remaining, stalled, running, mpc, flags>>
        /\ ipc = "refill" /\ ipc' = "fill"
        /\ BeginFill("isr", frame["isr"].half, NextHalf(playHalf))
    BY <1>10 DEF IsrRefill, segments, portVars, dma
  <2>2. mpc \notin {"fill0", "fill1"} /\ (Starting' \/ Turning' => Turning)
    BY <2>1 DEF ControlInv, Alone, Starting, Turning, IsrIdle
  <2>3. /\ frame'["isr"].done = 0 /\ frame'["isr"].at = "loop"
        /\ frame'["main"] = frame["main"] /\ fillHalf' = NextHalf(playHalf)
    BY <1>0, <2>1 DEF BeginFill
  <2>4. AllAtLoop' => AllAtLoop
    <3>1. frame["isr"].at = "loop"
      BY <1>0, <2>1 DEF AppliedInFill, Frame
    <3>. QED BY <2>3, <3>1 DEF AllAtLoop, Caller
  <2>5. Turning => fillHalf = playHalf
    BY <2>1 DEF FillPlace
  <2>6. ~FillingAt(0) /\ FillingAt(0)' /\ Filling'
    BY <1>0, <2>1, <2>2, <2>3 DEF FillingAt, Filling
  <2>. QED
    BY <2>1, <2>2, <2>3, <2>4, <2>5, <2>6 DEF StallInv, Held, Exhausted
<1>11. CASE IsrFillStep \/ MainFillStep
  <2>1. PICK c \in Caller : Filler(c) /\ FillStep(c)
                            /\ UNCHANGED <<portVars, facade, mpc, ipc, history>>
    BY <1>11, Fillers
  <2>. QED BY <2>1, FillStall
<1>. QED
  BY <1>1, <1>2, <1>3, <1>4, <1>5, <1>6, <1>7, <1>8, <1>9, <1>10, <1>11
     DEF Next, Main, Isr, AbortStep, CallStep, FlowStep

(* A segment held back behind an armed reversal waits for less than a whole *)
(* ring: the half it asked in, and one more at the most.                    *)
THEOREM StallsEnd ==
    ASSUME EStopCuts = {}, WideIndices
    PROVE  Spec => []StallWithinRing
<1>1. Init => StallInv
  BY HalfTicksAssumption DEF Init, CoreInit, StallInv
<1>2. TypeOK /\ ControlInv /\ ReadyInv /\ AppliedInFill /\ CleanInv /\ FillPlace /\ ArmedPlace
        /\ StallInv /\ [Next]_vars => StallInv'
  BY StepStall
<1>3. "main" \notin EStopCuts
  OBVIOUS
<1>4. StallInv => StallWithinRing
  BY DEF StallInv, StallWithinRing
<1>. QED
  BY <1>1, <1>2, <1>3, <1>4, TypeCorrect, ControlCorrect, ReadyCorrect, NewerCorrect, CleanCorrect,
     FillPlaceCorrect, ArmedPlaceCorrect, PTL DEF Spec
=============================================================================
