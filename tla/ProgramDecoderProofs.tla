------------------------ MODULE ProgramDecoderProofs ------------------------
(***************************************************************************)
(* Proofs about OpenSprinklerProgram's decoding (ProgramDecoder) for every *)
(* set of pd records satisfying ProgramInputsAssumption.  The core is one  *)
(* arithmetic fact: the code's mask test `x & m` (Mask) is nonzero exactly *)
(* when the spec's bit is set (BitSet), for every integer x.               *)
(***************************************************************************)
EXTENDS ProgramDecoder, NaturalsInduction, WellFoundedInduction, TLAPS

(* The powers of two the decoder's masks are written with.                 *)
LEMMA Pow2 ==
  /\ 2^0 = 1 /\ 2^1 = 2 /\ 2^2 = 4 /\ 2^3 = 8 /\ 2^4 = 16 /\ 2^5 = 32 /\ 2^6 = 64
  /\ 2^11 = 2048 /\ 2^12 = 4096 /\ 2^13 = 8192
BY SMT

(* The code's truth test and the spec's bit test are Boolean-valued.      *)
LEMMA BooleanTests ==
  ASSUME NEW v, NEW x, NEW k
  PROVE  Truthy(v) \in BOOLEAN /\ BitSet(x, k) \in BOOLEAN
BY DEF Truthy, BitSet

(* The weekday masks 2^(i-1), i in 1..7, are positive.                     *)
LEMMA WeekdayMaskPositive ==
  ASSUME NEW i \in 1..7
  PROVE  2^(i - 1) \in Nat \ {0}
<1> DEFINE j == i - 1
<1>1. j \in {0, 1, 2, 3, 4, 5, 6}
  OBVIOUS
<1>2. \A n \in {0, 1, 2, 3, 4, 5, 6} : 2^n \in Nat \ {0}
  <2> SUFFICES ASSUME NEW n \in {0, 1, 2, 3, 4, 5, 6} PROVE 2^n \in Nat \ {0}
    OBVIOUS
  <2>1. CASE n = 0  BY <2>1, Pow2
  <2>2. CASE n = 1  BY <2>2, Pow2
  <2>3. CASE n = 2  BY <2>3, Pow2
  <2>4. CASE n = 3  BY <2>4, Pow2
  <2>5. CASE n = 4  BY <2>5, Pow2
  <2>6. CASE n = 5  BY <2>6, Pow2
  <2>7. CASE n = 6  BY <2>7, Pow2
  <2>. QED  BY <2>1, <2>2, <2>3, <2>4, <2>5, <2>6, <2>7
<1>. QED
  BY <1>1, <1>2

(* Division with remainder by a positive n.                               *)
LEMMA DivMod ==
  ASSUME NEW x \in Int, NEW n \in Nat \ {0}
  PROVE  x = (x \div n) * n + (x % n) /\ x % n \in 0..(n - 1) /\ x \div n \in Int
BY SMT

(* x mod n is the remainder of any division of x by n.                    *)
LEMMA ModUnique ==
  ASSUME NEW x \in Int, NEW n \in Nat \ {0}, NEW k \in Int, NEW y \in 0..(n - 1),
         x = k * n + y
  PROVE  x % n = y
<1> DEFINE d == x \div n  e == d - k
<1>1. x = d * n + (x % n) /\ x % n \in 0..(n - 1) /\ d \in Int
  BY DivMod
<1>2. e * n = y - (x % n) /\ e \in Int
  BY <1>1, SMT
<1>3. e >= 1 => e * n >= n
  BY SMT
<1>4. e <= -1 => e * n <= -n
  BY SMT
<1>5. e = 0
  BY <1>1, <1>2, <1>3, <1>4, SMT
<1>. QED
  BY <1>1, <1>2, <1>5, SMT

(* x & m for m a positive power of two, as Mask computes it: x mod 2m     *)
(* minus x mod m is m times bit log2(m) of x, so it is nonzero exactly    *)
(* when that bit is set.                                                   *)
LEMMA MaskBit ==
  ASSUME NEW x \in Int, NEW m \in Nat \ {0}
  PROVE  Truthy(Mask(x, m)) <=> (x \div m) % 2 = 1
<1> DEFINE q == x \div m  r == x % m  b == q % 2  a == q \div 2
<1>1. x = q * m + r /\ r \in 0..(m - 1) /\ q \in Int
  BY DivMod
<1>2. q = 2 * a + b /\ b \in {0, 1} /\ a \in Int
  BY <1>1, SMT
<1>3. x = a * (2 * m) + (b * m + r) /\ b * m + r \in 0..(2 * m - 1)
  BY <1>1, <1>2, SMT
<1>4. x % (2 * m) = b * m + r
  <2>1. 2 * m \in Nat \ {0}
    OBVIOUS
  <2>. QED
    BY <1>2, <1>3, <2>1, ModUnique
<1>. QED
  BY <1>1, <1>2, <1>4, SMT DEF Mask, Truthy
(* The mask the code writes for bit k (`flags & 4`, `2**idx`) tests bit k. *)
LEMMA BitTest ==
  ASSUME NEW x \in Int, NEW k \in Nat, NEW m \in Nat \ {0}, m = 2^k
  PROVE  Truthy(Mask(x, m)) <=> BitSet(x, k)
BY MaskBit DEF BitSet

(* The bits the constructor tests, each by its literal mask.              *)
LEMMA FlagBits ==
  ASSUME NEW x \in Int
  PROVE  /\ Truthy(Mask(x, 1)) <=> BitSet(x, 0)
         /\ Truthy(Mask(x, 2)) <=> BitSet(x, 1)
         /\ Truthy(Mask(x, 4)) <=> BitSet(x, 2)
         /\ Truthy(Mask(x, 8)) <=> BitSet(x, 3)
         /\ Truthy(Mask(x, 16)) <=> BitSet(x, 4)
         /\ Truthy(Mask(x, 32)) <=> BitSet(x, 5)
         /\ Truthy(Mask(x, 64)) <=> BitSet(x, 6)
         /\ Truthy(Mask(x, 2048)) <=> BitSet(x, 11)
         /\ Truthy(Mask(x, 4096)) <=> BitSet(x, 12)
         /\ Truthy(Mask(x, 8192)) <=> BitSet(x, 13)
<1>1. Truthy(Mask(x, 1)) <=> BitSet(x, 0)
  <2>1. Truthy(Mask(x, 1)) <=> (x \div 1) % 2 = 1
    BY MaskBit
  <2>2. BitSet(x, 0) <=> (x \div 1) % 2 = 1
    BY Pow2 DEF BitSet
  <2>. QED
    BY <2>1, <2>2
<1>2. Truthy(Mask(x, 2)) <=> BitSet(x, 1)
  <2>1. Truthy(Mask(x, 2)) <=> (x \div 2) % 2 = 1
    BY MaskBit
  <2>2. BitSet(x, 1) <=> (x \div 2) % 2 = 1
    BY Pow2 DEF BitSet
  <2>. QED
    BY <2>1, <2>2
<1>3. Truthy(Mask(x, 4)) <=> BitSet(x, 2)
  <2>1. Truthy(Mask(x, 4)) <=> (x \div 4) % 2 = 1
    BY MaskBit
  <2>2. BitSet(x, 2) <=> (x \div 4) % 2 = 1
    BY Pow2 DEF BitSet
  <2>. QED
    BY <2>1, <2>2
<1>4. Truthy(Mask(x, 8)) <=> BitSet(x, 3)
  <2>1. Truthy(Mask(x, 8)) <=> (x \div 8) % 2 = 1
    BY MaskBit
  <2>2. BitSet(x, 3) <=> (x \div 8) % 2 = 1
    BY Pow2 DEF BitSet
  <2>. QED
    BY <2>1, <2>2
<1>5. Truthy(Mask(x, 16)) <=> BitSet(x, 4)
  <2>1. Truthy(Mask(x, 16)) <=> (x \div 16) % 2 = 1
    BY MaskBit
  <2>2. BitSet(x, 4) <=> (x \div 16) % 2 = 1
    BY Pow2 DEF BitSet
  <2>. QED
    BY <2>1, <2>2
<1>6. Truthy(Mask(x, 32)) <=> BitSet(x, 5)
  <2>1. Truthy(Mask(x, 32)) <=> (x \div 32) % 2 = 1
    BY MaskBit
  <2>2. BitSet(x, 5) <=> (x \div 32) % 2 = 1
    BY Pow2 DEF BitSet
  <2>. QED
    BY <2>1, <2>2
<1>7. Truthy(Mask(x, 64)) <=> BitSet(x, 6)
  <2>1. Truthy(Mask(x, 64)) <=> (x \div 64) % 2 = 1
    BY MaskBit
  <2>2. BitSet(x, 6) <=> (x \div 64) % 2 = 1
    BY Pow2 DEF BitSet
  <2>. QED
    BY <2>1, <2>2
<1>8. Truthy(Mask(x, 2048)) <=> BitSet(x, 11)
  <2>1. Truthy(Mask(x, 2048)) <=> (x \div 2048) % 2 = 1
    BY MaskBit
  <2>2. BitSet(x, 11) <=> (x \div 2048) % 2 = 1
    BY Pow2 DEF BitSet
  <2>. QED
    BY <2>1, <2>2
<1>9. Truthy(Mask(x, 4096)) <=> BitSet(x, 12)
  <2>1. Truthy(Mask(x, 4096)) <=> (x \div 4096) % 2 = 1
    BY MaskBit
  <2>2. BitSet(x, 12) <=> (x \div 4096) % 2 = 1
    BY Pow2 DEF BitSet
  <2>. QED
    BY <2>1, <2>2
<1>10. Truthy(Mask(x, 8192)) <=> BitSet(x, 13)
  <2>1. Truthy(Mask(x, 8192)) <=> (x \div 8192) % 2 = 1
    BY MaskBit
  <2>2. BitSet(x, 13) <=> (x \div 8192) % 2 = 1
    BY Pow2 DEF BitSet
  <2>. QED
    BY <2>1, <2>2
<1>. QED
  BY <1>1, <1>2, <1>3, <1>4, <1>5, <1>6, <1>7, <1>8, <1>9, <1>10

(* setWeekdaySchedule: day i is scheduled iff bit i-1 of days0.            *)
LEMMA WeekdayBits ==
  ASSUME NEW d0 \in Int
  PROVE  setWeekdaySchedule(d0) = [d \in 1..7 |-> [day |-> week[d], scheduled |-> BitSet(d0, d - 1)]]
<1>2. \A i \in 1..7 : Truthy(Mask(d0, 2^(i - 1))) = BitSet(d0, i - 1)
  <2> SUFFICES ASSUME NEW i \in 1..7 PROVE Truthy(Mask(d0, 2^(i - 1))) = BitSet(d0, i - 1)
    OBVIOUS
  <2>1. 2^(i - 1) \in Nat \ {0} /\ i - 1 \in Nat
    <3>1. 2^(i - 1) \in Nat \ {0}
      BY WeekdayMaskPositive, Zenon
    <3>2. i - 1 \in Nat
      OBVIOUS
    <3>. QED
      BY <3>1, <3>2, Zenon
  <2>2. Truthy(Mask(d0, 2^(i - 1))) <=> BitSet(d0, i - 1)
    BY <2>1, BitTest
  <2>. QED
    BY <2>2, BooleanTests
<1>. QED
  BY <1>2 DEF setWeekdaySchedule

(* One repeating start time decodes as the spec's layout, for every        *)
(* integer: bit 13 Sunset, else bit 12 Sunrise, else Midnight; bit 11      *)
(* plus; the low 11 bits the offset.                                       *)
LEMMA RepeatingStartTimeLayout ==
  ASSUME NEW x \in Int
  PROVE  DecodesAsSpecified(x, RepeatingStartTime(x))
<1>1. /\ Truthy(Mask(x, 2048)) <=> BitSet(x, 11)
      /\ Truthy(Mask(x, 4096)) <=> BitSet(x, 12)
      /\ Truthy(Mask(x, 8192)) <=> BitSet(x, 13)
  BY FlagBits
<1>2. x = (x % 2048) + 2048 * (x \div 2048) /\ x % 2048 \in 0..2047
  BY DivMod
<1>3. /\ RepeatingStartTime(x).basis = IF Truthy(Mask(x, 8192)) THEN "Sunset"
                                      ELSE IF Truthy(Mask(x, 4096)) THEN "Sunrise"
                                      ELSE "Midnight"
      /\ RepeatingStartTime(x).sign = IF Truthy(Mask(x, 2048)) THEN "plus" ELSE "minus"
  BY DEF RepeatingStartTime
<1>4. RepeatingStartTime(x).basis = CASE BitSet(x, 13) -> "Sunset"
                                      [] ~BitSet(x, 13) /\ BitSet(x, 12) -> "Sunrise"
                                      [] OTHER -> "Midnight"
  <2>1. CASE BitSet(x, 13)
    BY <1>1, <1>3, <2>1
  <2>2. CASE ~BitSet(x, 13) /\ BitSet(x, 12)
    BY <1>1, <1>3, <2>2
  <2>3. CASE ~BitSet(x, 13) /\ ~BitSet(x, 12)
    BY <1>1, <1>3, <2>3
  <2>. QED
    BY <2>1, <2>2, <2>3, BooleanTests
<1>5. (RepeatingStartTime(x).sign = "plus") = BitSet(x, 11)
  <2>1. (RepeatingStartTime(x).sign = "plus") <=> BitSet(x, 11)
    BY <1>1, <1>3
  <2>. QED
    BY <2>1, BooleanTests
<1>. QED
  BY <1>2, <1>4, <1>5 DEF RepeatingStartTime, DecodesAsSpecified
-----------------------------------------------------------------------------
-----------------------------------------------------------------------------
(* A nonempty set of naturals has a least element: the least-number        *)
(* principle, from the well-foundedness of < on Nat.                       *)
LEMMA LeastNat ==
  ASSUME NEW T, T \subseteq Nat, T # {}
  PROVE  \E x \in T : \A y \in T : ~(y < x)
<1>1. \E x \in T : \A y \in T : ~(<<y, x>> \in OpToRel(<, Nat))
  BY NatLessThanWellFounded, WFMin
<1>. QED
  BY <1>1 DEF OpToRel

(* One iteration of the loop of setRepeatingStartTimes on what it has kept. *)
KeepPositive(s, v, i) == IF s[i] > 0 THEN Append(v, s[i]) ELSE v

(* What the loop has kept after its n-th iteration, v, is the list of the *)
(* non-zero slots among the first n, in order: f numbers them.            *)
KeptSlots(s, v, n) ==
  \E f \in [1..Len(v) -> 1..n] :
     /\ \A k, l \in 1..Len(v) : k < l => f[k] < f[l]
     /\ {f[k] : k \in 1..Len(v)} = {j \in 1..n : s[j] # 0}
     /\ \A k \in 1..Len(v) : v[k] = s[f[k]]

(* One iteration keeps KeptSlots: a positive slot i is appended and f is  *)
(* extended by i, which exceeds every slot before it; a zero slot leaves  *)
(* both the list and the non-zero slots as they were.                     *)
LEMMA KeepPositiveSlots ==
  ASSUME NEW s \in Seq(Nat), NEW i \in 1..Len(s), NEW v \in Seq(Nat),
         KeptSlots(s, v, i - 1)
  PROVE  KeepPositive(s, v, i) \in Seq(Nat) /\ KeptSlots(s, KeepPositive(s, v, i), i)
<1>1. PICK f \in [1..Len(v) -> 1..(i - 1)] :
             /\ \A k, l \in 1..Len(v) : k < l => f[k] < f[l]
             /\ {f[k] : k \in 1..Len(v)} = {j \in 1..(i - 1) : s[j] # 0}
             /\ \A k \in 1..Len(v) : v[k] = s[f[k]]
  BY DEF KeptSlots
<1>0. s[i] \in Nat
  OBVIOUS
<1>2. CASE s[i] > 0
  <2> DEFINE w == Append(v, s[i])
             g == [k \in 1..Len(v) + 1 |-> IF k <= Len(v) THEN f[k] ELSE i]
  <2>0. Len(v) \in Nat /\ i \in Nat
    OBVIOUS
  <2>1. KeepPositive(s, v, i) = w /\ w \in Seq(Nat) /\ Len(w) = Len(v) + 1
    BY <1>0, <1>2 DEF KeepPositive
  <2>2. g \in [1..Len(w) -> 1..i]
    BY <1>1, <2>1
  <2>3. \A k, l \in 1..Len(w) : k < l => g[k] < g[l]
    <3> SUFFICES ASSUME NEW k \in 1..Len(w), NEW l \in 1..Len(w), k < l
                 PROVE  g[k] < g[l]
      OBVIOUS
    <3>1. k \in 1..Len(v) /\ g[k] = f[k] /\ f[k] \in 1..(i - 1)
      BY <2>0, <2>1, <1>1
    <3>2. CASE l <= Len(v)
      <4>1. l \in 1..Len(v) /\ g[l] = f[l]
        BY <2>0, <2>1, <3>2
      <4>. QED
        BY <1>1, <3>1, <4>1
    <3>3. CASE ~(l <= Len(v))
      <4>1. g[l] = i
        BY <2>0, <2>1, <3>3
      <4>. QED
        BY <2>0, <3>1, <4>1
    <3>. QED
      BY <3>2, <3>3
  <2>4. {g[k] : k \in 1..Len(w)} = {j \in 1..i : s[j] # 0}
    <3>1. {g[k] : k \in 1..Len(w)} = {f[k] : k \in 1..Len(v)} \cup {i}
      <4>1. \A k \in 1..Len(w) : g[k] \in {f[m] : m \in 1..Len(v)} \cup {i}
        BY <2>0, <2>1
      <4>2. \A k \in 1..Len(v) : f[k] = g[k] /\ k \in 1..Len(w)
        BY <2>0, <2>1
      <4>3. i = g[Len(v) + 1] /\ Len(v) + 1 \in 1..Len(w)
        BY <2>0, <2>1
      <4>. QED
        BY <4>1, <4>2, <4>3
    <3>2. {j \in 1..i : s[j] # 0} = {j \in 1..(i - 1) : s[j] # 0} \cup {i}
      BY <1>2, <2>0
    <3>. QED
      BY <1>1, <3>1, <3>2
  <2>5. \A k \in 1..Len(w) : w[k] = s[g[k]]
    BY <1>1, <2>0, <2>1
  <2>6. /\ g \in [1..Len(w) -> 1..i]
        /\ \A k, l \in 1..Len(w) : k < l => g[k] < g[l]
        /\ {g[k] : k \in 1..Len(w)} = {j \in 1..i : s[j] # 0}
        /\ \A k \in 1..Len(w) : w[k] = s[g[k]]
    BY <2>2, <2>3, <2>4, <2>5
  <2>7. KeptSlots(s, w, i)
    BY <2>6, Zenon DEF KeptSlots
  <2>. QED
    BY <2>1, <2>7
<1>3. CASE ~(s[i] > 0)
  <2>1. KeepPositive(s, v, i) = v /\ s[i] = 0
    BY <1>0, <1>3 DEF KeepPositive
  <2>2. f \in [1..Len(v) -> 1..i]
    BY <1>1
  <2>3. {j \in 1..i : s[j] # 0} = {j \in 1..(i - 1) : s[j] # 0}
    BY <2>1
  <2>4. KeptSlots(s, v, i)
    BY <1>1, <2>2, <2>3, Zenon DEF KeptSlots
  <2>. QED
    BY <2>1, <2>4
<1>. QED
  BY <1>2, <1>3

(* The loop of setRepeatingStartTimes (and of setFixedStartTimes' intent) *)
(* keeps exactly the non-zero slots of a start-time array, in slot order: *)
(* used[i] is the i-th iterate (FiniteNatInductiveDef), and a least i     *)
(* whose iterate broke KeptSlots would follow one that keeps it           *)
(* (KeepPositiveSlots).                                                    *)
LEMMA UsedStartTimesSlots ==
  ASSUME NEW s \in Seq(Nat)
  PROVE  /\ UsedStartTimes(s) \in Seq(Nat)
         /\ KeptSlots(s, UsedStartTimes(s), Len(s))
<1> DEFINE F == CHOOSE g : g = [i \in 0..Len(s) |-> IF i = 0 THEN << >>
                                   ELSE IF s[i] > 0 THEN Append(g[i - 1], s[i]) ELSE g[i - 1]]
           Good(i) == F[i] \in Seq(Nat) /\ KeptSlots(s, F[i], i)
<1>0. Len(s) \in Nat /\ 0 \in Nat
  OBVIOUS
<1>1. UsedStartTimes(s) = F[Len(s)]
  BY DEF UsedStartTimes
<1>2. FiniteNatInductiveDefConclusion(F, << >>, LAMBDA v, i : KeepPositive(s, v, i), 0, Len(s))
  <2>1. FiniteNatInductiveDefHypothesis(F, << >>, LAMBDA v, i : KeepPositive(s, v, i), 0, Len(s))
    BY DEF FiniteNatInductiveDefHypothesis, KeepPositive
  <2>. QED
    BY <1>0, <2>1, FiniteNatInductiveDef, Zenon
<1>3. F = [i \in 0..Len(s) |-> IF i = 0 THEN << >> ELSE KeepPositive(s, F[i - 1], i)]
  BY <1>2, Zenon DEF FiniteNatInductiveDefConclusion
<1>4. Good(0)
  <2>0. 0 \in 0..Len(s)
    BY <1>0
  <2>1. F[0] = << >>
    BY <2>0, <1>3, Zenon
  <2>2. KeptSlots(s, << >>, 0)
    <3>1. /\ [k \in {} |-> 0] \in [1..Len(<< >>) -> 1..0]
          /\ 1..Len(<< >>) = {} /\ {j \in 1..0 : s[j] # 0} = {}
      OBVIOUS
    <3>. QED
      BY <3>1, Zenon DEF KeptSlots
  <2>3. << >> \in Seq(Nat)
    OBVIOUS
  <2>. QED
    BY <2>1, <2>2, <2>3, Zenon
<1>5. \A i \in 0..Len(s) : Good(i)
  <2> DEFINE Bad == {i \in 0..Len(s) : ~Good(i)}
  <2> SUFFICES ASSUME Bad # {} PROVE FALSE
    BY DEF Bad
  <2>0. Bad \subseteq Nat
    BY DEF Bad
  <2>2. PICK i \in Bad : \A j \in Bad : ~(j < i)
    BY <2>0, LeastNat, Zenon
  <2>3. i # 0
    BY <1>4, <2>2 DEF Bad
  <2>4. i - 1 \in 0..Len(s) /\ i \in 1..Len(s) /\ ~(i - 1 \in Bad)
    <3>1. i \in 0..Len(s)
      BY DEF Bad
    <3>2. i - 1 \in 0..Len(s) /\ i \in 1..Len(s) /\ i - 1 < i
      BY <2>3, <3>1
    <3>. QED
      BY <2>2, <3>2
  <2>5. Good(i - 1)
    BY <2>4 DEF Bad
  <2>6. F[i] = KeepPositive(s, F[i - 1], i)
    BY <1>3, <2>3, <2>4
  <2>7. Good(i)
    BY <2>4, <2>5, <2>6, KeepPositiveSlots
  <2>. QED
    BY <2>2, <2>7 DEF Bad
<1>6. Len(s) \in 0..Len(s)
  OBVIOUS
<1>. QED
  BY <1>1, <1>5, <1>6

-----------------------------------------------------------------------------
(* What one constructor call builds from a pd record, field by field.      *)
LEMMA ConstructFields ==
  ASSUME NEW a \in ProgramInputs, Construct(a)
  PROVE  /\ call' = a /\ a[1] \in Int /\ a[2] \in Int
         /\ program'.program_enabled = Truthy(Mask(a[1], 1))
         /\ program'.program_use_weather_adjustment = Truthy(Mask(a[1], 2))
         /\ program'.program_restriction = Restriction(a[1])
         /\ program'.program_schedule_type = ScheduleType(a[1])
         /\ program'.program_start_time_type = StartTimeType(a[1])
         /\ program'.program_schedule = setSchedule(ScheduleType(a[1]), a[2], a[3])
         /\ program'.program_repeating_start_times =
              IF StartTimeType(a[1]) = "Fixed" THEN << >> ELSE setRepeatingStartTimes(a[4])
<1>1. a[1] \in Int /\ a[2] \in Int
  BY ProgramInputsAssumption
<1>. QED
  BY <1>1 DEF Construct, NewProgram

(* A program, once built, is well formed for every pd record: its flags    *)
(* are booleans, its restriction, schedule type and start-time type take  *)
(* the values the setters allow, and every repeating start time has a     *)
(* basis.  TypeOK is inductive as it stands: each call rebuilds the whole *)
(* object from its own record.                                             *)
THEOREM TypeCorrect == Spec => []TypeOK
<1>1. Init => TypeOK
  BY DEF Init, TypeOK
<1>2. TypeOK /\ [Next]_vars => TypeOK'
  <2> SUFFICES ASSUME TypeOK, [Next]_vars PROVE TypeOK'
    OBVIOUS
  <2>1. ASSUME NEW a \in ProgramInputs, Construct(a) PROVE TypeOK'
    <3>1. \A x : RepeatingStartTime(x).basis \in Basis
      BY DEF RepeatingStartTime, Basis
    <3>2. \A i \in DOMAIN program'.program_repeating_start_times :
            program'.program_repeating_start_times[i].basis \in Basis
      <4>1. CASE StartTimeType(a[1]) = "Fixed"
        BY <2>1, <4>1, ConstructFields
      <4>2. CASE StartTimeType(a[1]) # "Fixed"
        <5> DEFINE used == UsedStartTimes(a[4])
        <5>1. program'.program_repeating_start_times =
                [i \in 1..Len(used) |-> RepeatingStartTime(used[i])]
          BY <2>1, <4>2, ConstructFields DEF setRepeatingStartTimes
        <5>. QED
          BY <5>1, <3>1, Zenon
      <4>. QED
        BY <4>1, <4>2
    <3>3. /\ Restriction(a[1]) \in {"Odd", "Even", "None"}
          /\ ScheduleType(a[1]) \in {"Weekday", "Interval"}
          /\ StartTimeType(a[1]) \in {"Fixed", "Repeating"}
      BY DEF Restriction, ScheduleType, StartTimeType
    <3>. QED
      BY <2>1, <3>2, <3>3, ConstructFields DEF TypeOK, Truthy
  <2>2. CASE UNCHANGED vars
    BY <2>2 DEF TypeOK, vars
  <2>. QED
    BY <2>1, <2>2 DEF Next
<1>. QED
  BY <1>1, <1>2, PTL DEF Spec

(* The flag byte and the weekday mask decode as the spec's bit table says  *)
(* for every integer flags and days0 (FlagsDecodedAsSpecified): Odd wins  *)
(* over Even, bit 4 or bit 5 makes an Interval program, bit 6 a Fixed one, *)
(* and day d is scheduled iff bit d-1 of days0.                            *)
THEOREM FlagsDecoded == Spec => []FlagsDecodedAsSpecified
<1>1. Init => FlagsDecodedAsSpecified
  BY DEF Init, FlagsDecodedAsSpecified
<1>2. [Next]_vars /\ FlagsDecodedAsSpecified => FlagsDecodedAsSpecified'
  <2> SUFFICES ASSUME [Next]_vars, FlagsDecodedAsSpecified PROVE FlagsDecodedAsSpecified'
    OBVIOUS
  <2>1. ASSUME NEW a \in ProgramInputs, Construct(a) PROVE FlagsDecodedAsSpecified'
    <3> DEFINE f == a[1]  d0 == a[2]  p == program'
    <3>1. f \in Int /\ d0 \in Int /\ call' = a
      BY <2>1, ConstructFields
    <3>2. /\ p.program_enabled = BitSet(f, 0)
          /\ p.program_use_weather_adjustment = BitSet(f, 1)
      <4>1. /\ p.program_enabled = Truthy(Mask(f, 1))
            /\ p.program_use_weather_adjustment = Truthy(Mask(f, 2))
        BY <2>1, ConstructFields
      <4>2. (Truthy(Mask(f, 1)) <=> BitSet(f, 0)) /\ (Truthy(Mask(f, 2)) <=> BitSet(f, 1))
        BY <3>1, FlagBits
      <4>. QED
        BY <4>1, <4>2, BooleanTests
    <3>3. p.program_restriction = CASE BitSet(f, 2) -> "Odd"
                                    [] ~BitSet(f, 2) /\ BitSet(f, 3) -> "Even"
                                    [] OTHER -> "None"
      <4>1. p.program_restriction = Restriction(f)
        BY <2>1, ConstructFields
      <4>2. (Truthy(Mask(f, 4)) <=> BitSet(f, 2)) /\ (Truthy(Mask(f, 8)) <=> BitSet(f, 3))
        BY <3>1, FlagBits
      <4>. QED
        BY <4>1, <4>2, Zenon DEF Restriction
    <3>4. /\ (p.program_schedule_type = "Interval") = (BitSet(f, 4) \/ BitSet(f, 5))
          /\ (p.program_start_time_type = "Fixed") = BitSet(f, 6)
      <4>1. /\ p.program_schedule_type = ScheduleType(f)
            /\ p.program_start_time_type = StartTimeType(f)
        BY <2>1, ConstructFields
      <4>2. /\ Truthy(Mask(f, 16)) <=> BitSet(f, 4)
            /\ Truthy(Mask(f, 32)) <=> BitSet(f, 5)
            /\ Truthy(Mask(f, 64)) <=> BitSet(f, 6)
        BY <3>1, FlagBits
      <4>3. /\ (ScheduleType(f) = "Interval") <=> (BitSet(f, 4) \/ BitSet(f, 5))
            /\ (StartTimeType(f) = "Fixed") <=> BitSet(f, 6)
        BY <4>2 DEF ScheduleType, StartTimeType
      <4>. QED
        BY <4>1, <4>3, BooleanTests
    <3>5. p.program_schedule_type = "Weekday" =>
            p.program_schedule = [d \in 1..7 |-> [day |-> week[d], scheduled |-> BitSet(d0, d - 1)]]
      <4>1. p.program_schedule = setSchedule(ScheduleType(f), d0, a[3])
            /\ p.program_schedule_type = ScheduleType(f)
        BY <2>1, ConstructFields
      <4>. QED
        BY <3>1, <4>1, WeekdayBits DEF setSchedule
    <3>6. p # NoProgram => FlagsDecodedAsSpecified'
      BY <3>1, <3>2, <3>3, <3>4, <3>5 DEF FlagsDecodedAsSpecified
    <3>. QED
      BY <3>6 DEF FlagsDecodedAsSpecified
  <2>2. CASE UNCHANGED vars
    BY <2>2 DEF FlagsDecodedAsSpecified, vars
  <2>. QED
    BY <2>1, <2>2 DEF Next
<1>. QED
  BY <1>1, <1>2, PTL DEF Spec

(* The repeating start times of every program built decode as spec 4.3  *)
(* says (StartTimesDecodedAsSpecified): one entry per non-zero slot of    *)
(* the start array, in slot order, entry k decoding its slot's bit 13 to  *)
(* Sunset, else bit 12 to Sunrise, else Midnight, bit 11 to plus, and     *)
(* its low 11 bits to the offset.  The slots are numbered by the witness  *)
(* UsedStartTimesSlots gives for the loop of setRepeatingStartTimes.      *)
THEOREM StartTimesDecoded == Spec => []StartTimesDecodedAsSpecified
<1>1. Init => StartTimesDecodedAsSpecified
  BY DEF Init, StartTimesDecodedAsSpecified
<1>2. [Next]_vars /\ StartTimesDecodedAsSpecified => StartTimesDecodedAsSpecified'
  <2> SUFFICES ASSUME [Next]_vars, StartTimesDecodedAsSpecified
               PROVE  StartTimesDecodedAsSpecified'
    OBVIOUS
  <2>1. ASSUME NEW a \in ProgramInputs, Construct(a) PROVE StartTimesDecodedAsSpecified'
    <3> DEFINE s == a[4]  u == UsedStartTimes(s)  p == program'
               rst == p.program_repeating_start_times
    <3>1. s \in Seq(Nat) /\ call' = a
      BY <2>1, ProgramInputsAssumption, ConstructFields
    <3>2. u \in Seq(Nat) /\ KeptSlots(s, u, Len(s))
      BY <3>1, UsedStartTimesSlots
    <3> SUFFICES ASSUME p # NoProgram, p.program_start_time_type = "Repeating"
                 PROVE  \E f \in [1..Len(rst) -> 1..Len(s)] :
                           /\ ListsNonZeroSlots(f, s)
                           /\ \A k \in 1..Len(rst) : DecodesAsSpecified(s[f[k]], rst[k])
      BY <3>1 DEF StartTimesDecodedAsSpecified
    <3>3. rst = [k \in 1..Len(u) |-> RepeatingStartTime(u[k])]
      <4>1. /\ p.program_start_time_type = StartTimeType(a[1])
            /\ rst = IF StartTimeType(a[1]) = "Fixed" THEN << >> ELSE setRepeatingStartTimes(s)
        BY <2>1, ConstructFields
      <4>. QED
        BY <4>1 DEF setRepeatingStartTimes
    <3>4. PICK f \in [1..Len(u) -> 1..Len(s)] :
             /\ \A k, l \in 1..Len(u) : k < l => f[k] < f[l]
             /\ {f[k] : k \in 1..Len(u)} = {j \in 1..Len(s) : s[j] # 0}
             /\ \A k \in 1..Len(u) : u[k] = s[f[k]]
      BY <3>2 DEF KeptSlots
    <3>5. Len(rst) = Len(u) /\ DOMAIN f = 1..Len(u)
      BY <3>2, <3>3, <3>4
    <3>6. ListsNonZeroSlots(f, s)
      BY <3>4, <3>5 DEF ListsNonZeroSlots
    <3>7. ASSUME NEW k \in 1..Len(rst) PROVE DecodesAsSpecified(s[f[k]], rst[k])
      <4>1. k \in 1..Len(u) /\ rst[k] = RepeatingStartTime(u[k]) /\ u[k] \in Int
        BY <3>2, <3>3, <3>5
      <4>2. u[k] = s[f[k]]
        BY <3>4, <4>1
      <4>. QED
        BY <4>1, <4>2, RepeatingStartTimeLayout
    <3>. QED
      BY <3>4, <3>5, <3>6, <3>7
  <2>2. CASE UNCHANGED vars
    BY <2>2 DEF StartTimesDecodedAsSpecified, vars
  <2>. QED
    BY <2>1, <2>2 DEF Next
<1>. QED
  BY <1>1, <1>2, PTL DEF Spec
=============================================================================
