------------------------ MODULE SequenceContractProofs ------------------------
(***************************************************************************)
(* Proofs about SequenceContract, for every width of a byte and of a       *)
(* bitmap, every distance and every set of sequence numbers.               *)
(*                                                                         *)
(* The bisection of trySetDone is right because the list is ascending,     *)
(* which is what the assertion of add is there for; the bytes written by   *)
(* setExecuted stand for the sets of AlephiumSequence because a flag is    *)
(* or-ed in only where it was clear.  Both are recursions over data: what  *)
(* holds of them is shown by induction, for every list and every word.     *)
(***************************************************************************)
EXTENDS SequenceContract, WellFoundedInduction, SequenceTheorems, TLAPS

-----------------------------------------------------------------------------
(* Induction: the library's theorem about minimal elements of a well-founded *)
(* set needs no operator as a parameter, so induction is over sets.          *)

LEMMA LessIsInOrder ==
    ASSUME NEW x \in Nat, NEW y \in Nat, y < x
    PROVE  <<y, x>> \in OpToRel(<, Nat)
BY DEF OpToRel

LEMMA Least ==
    ASSUME NEW T, T \subseteq Nat, T # {}
    PROVE  \E n \in T : \A m \in T : n <= m
<1>1. \E x \in T : \A y \in T : ~ (<<y, x>> \in OpToRel(<, Nat))
  BY WFMin, NatLessThanWellFounded
<1>2. \E x \in T : \A y \in T : ~ (y < x)
  BY <1>1, LessIsInOrder
<1> QED
  BY <1>2

LEMMA Induction ==
    ASSUME NEW T, 0 \in T, \A n \in Nat : n \in T => n + 1 \in T
    PROVE  \A n \in Nat : n \in T
<1> DEFINE U == { n \in Nat : n \notin T }
<1> SUFFICES ASSUME U # {} PROVE FALSE
  OBVIOUS
<1>1. PICK n \in U : \A m \in U : n <= m
  BY Least
<1>2. n - 1 \in Nat /\ n - 1 \in T
  BY <1>1
<1> QED
  BY <1>1, <1>2

-----------------------------------------------------------------------------
(* Quotients. *)

LEMMA DivOf ==
    ASSUME NEW a \in Nat, NEW b \in Nat \ {0}
    PROVE  /\ a \div b \in Nat /\ a % b \in Nat /\ a % b < b
           /\ a = b * (a \div b) + (a % b)
OBVIOUS

LEMMA DivIs ==
    ASSUME NEW a \in Nat, NEW b \in Nat \ {0}, NEW q \in Nat, NEW r \in Nat,
           r < b, a = b * q + r
    PROVE  a \div b = q /\ a % b = r
OBVIOUS

LEMMA TimesMonotonic ==
    ASSUME NEW a \in Nat, NEW b \in Nat, NEW c \in Nat, a <= b
    PROVE  c * a <= c * b
OBVIOUS

LEMMA DivDiv ==
    ASSUME NEW a \in Nat, NEW b \in Nat \ {0}, NEW c \in Nat \ {0}
    PROVE  (a \div b) \div c = a \div (b * c)
<1> DEFINE q == a \div b   r == a % b   p == q \div c   t == q % c
<1>1. q \in Nat /\ r \in Nat /\ r < b /\ a = b * q + r
  BY DivOf
<1>2. p \in Nat /\ t \in Nat /\ t < c /\ q = c * p + t
  BY <1>1, DivOf
<1> HIDE DEF q, r, p, t
<1>3. b * t <= b * (c - 1)
  BY <1>2, TimesMonotonic, c - 1 \in Nat
<1>4. b * (c - 1) = b * c - b
  OBVIOUS
<1>5. b * q = (b * c) * p + b * t
  BY <1>1, <1>2
<1>6. b * t \in Nat /\ b * c \in Nat \ {0}
  BY <1>2
<1>7. a = (b * c) * p + (b * t + r) /\ b * t + r \in Nat /\ b * t + r < b * c
  BY <1>1, <1>2, <1>3, <1>4, <1>5, <1>6
<1>8. a \div (b * c) = p
  BY <1>2, <1>6, <1>7, DivIs
<1> QED
  BY <1>8 DEF p, q

LEMMA DivProduct ==
    ASSUME NEW a \in Nat, NEW b \in Nat \ {0}, NEW c \in Nat \ {0}, NEW d, d = b * c
    PROVE  a \div d = (a \div b) \div c
BY DivDiv

-----------------------------------------------------------------------------
(* Powers of two. *)

LEMMA PowIsDefined ==
    \A n \in Nat : \E g : g = [k \in 0 .. n |-> IF k = 0 THEN 1 ELSE 2 * g[k - 1]]
<1> DEFINE P(n) == \E g : g = [k \in 0 .. n |-> IF k = 0 THEN 1 ELSE 2 * g[k - 1]]
           T == { n \in Nat : P(n) }
<1>1. P(0)
  <2> DEFINE g == [k \in 0 .. 0 |-> 1]
  <2>1. g = [k \in 0 .. 0 |-> IF k = 0 THEN 1 ELSE 2 * g[k - 1]]
    OBVIOUS
  <2> QED
    BY <2>1
<1>2. ASSUME NEW n \in Nat, P(n) PROVE P(n + 1)
  <2>1. PICK g : g = [k \in 0 .. n |-> IF k = 0 THEN 1 ELSE 2 * g[k - 1]]
    BY <1>2
  <2> DEFINE h == [k \in 0 .. n + 1 |-> IF k = 0 THEN 1 ELSE 2 * g[k - 1]]
  <2>2. ASSUME NEW k \in 0 .. n PROVE h[k] = g[k]
    BY <2>1
  <2>3. ASSUME NEW k \in 0 .. n + 1, k # 0 PROVE h[k] = 2 * h[k - 1]
    <3>1. k - 1 \in 0 .. n
      BY <2>3
    <3> QED
      BY <2>2, <2>3, <3>1
  <2>4. h = [k \in 0 .. n + 1 |-> IF k = 0 THEN 1 ELSE 2 * h[k - 1]]
    BY <2>3
  <2> HIDE DEF h
  <2> QED
    BY <2>4
<1> HIDE DEF P
<1>3. 0 \in T /\ \A n \in Nat : n \in T => n + 1 \in T
  BY <1>1, <1>2
<1> HIDE DEF T
<1>4. \A n \in Nat : n \in T
  BY <1>3, Induction
<1> QED
  BY <1>4 DEF P, T

LEMMA WindowType == Window \in Nat \ {0} /\ ByteBits <= Window
BY BitAssumption DEF Window

LEMMA PowSteps ==
    /\ Pow2[0] = 1
    /\ \A k \in 0 .. Window - 1 : Pow2[k + 1] = 2 * Pow2[k]
<1>1. Pow2 = [k \in 0 .. Window |-> IF k = 0 THEN 1 ELSE 2 * Pow2[k - 1]]
  BY PowIsDefined, WindowType DEF Pow2
<1>2. 0 \in 0 .. Window /\ \A k \in 0 .. Window - 1 : k + 1 \in 0 .. Window /\ k + 1 # 0
  BY WindowType
<1> QED
  BY <1>1, <1>2, WindowType

LEMMA PowType == \A k \in 0 .. Window : Pow2[k] \in Nat \ {0}
<1> DEFINE T == { n \in Nat : n <= Window => Pow2[n] \in Nat \ {0} }
<1>1. 0 \in T
  BY PowSteps
<1>2. ASSUME NEW n \in Nat, n \in T PROVE n + 1 \in T
  BY <1>2, PowSteps, WindowType
<1> HIDE DEF T
<1>3. \A n \in Nat : n \in T
  BY <1>1, <1>2, Induction
<1> QED
  BY <1>3, WindowType DEF T

LEMMA PowAdd ==
    ASSUME NEW a \in Nat
    PROVE  \A b \in Nat : a + b <= Window => Pow2[a + b] = Pow2[a] * Pow2[b]
<1> DEFINE T == { b \in Nat : a + b <= Window => Pow2[a + b] = Pow2[a] * Pow2[b] }
<1>1. 0 \in T
  BY PowSteps, PowType, WindowType
<1>2. ASSUME NEW n \in Nat, n \in T PROVE n + 1 \in T
  <2> SUFFICES ASSUME a + (n + 1) <= Window
               PROVE  Pow2[a + (n + 1)] = Pow2[a] * Pow2[n + 1]
    OBVIOUS
  <2>1. Pow2[a + n] = Pow2[a] * Pow2[n]
    BY <1>2, WindowType
  <2>2. Pow2[a + (n + 1)] = 2 * Pow2[a + n] /\ Pow2[n + 1] = 2 * Pow2[n]
    BY PowSteps, WindowType
  <2>3. Pow2[a] \in Nat /\ Pow2[n] \in Nat
    BY PowType, WindowType
  <2> QED
    BY <2>1, <2>2, <2>3
<1> HIDE DEF T
<1>3. \A n \in Nat : n \in T
  BY <1>1, <1>2, Induction
<1> QED
  BY <1>3 DEF T

-----------------------------------------------------------------------------
(* Bits of a number. *)

Words == 0 .. WordMax

LEMMA PowSplit ==
    ASSUME NEW j \in Nat, NEW i \in 0 .. Window, j < i
    PROVE  \E m \in Nat \ {0} :
              /\ Pow2[i - j] = 2 * m /\ Pow2[i] = Pow2[j] * (2 * m)
              /\ Pow2[j] \in Nat \ {0} /\ Pow2[i] \in Nat \ {0}
<1> DEFINE m == Pow2[(i - j) - 1]
<1>1. m \in Nat \ {0} /\ Pow2[((i - j) - 1) + 1] = 2 * m
  BY PowSteps, PowType, WindowType
<1>2. ((i - j) - 1) + 1 = i - j /\ j + (i - j) = i
  BY WindowType
<1>3. Pow2[j + (i - j)] = Pow2[j] * Pow2[i - j]
  BY PowAdd, WindowType
<1>4. Pow2[j] \in Nat \ {0} /\ Pow2[i] \in Nat \ {0}
  BY PowType, WindowType
<1> HIDE DEF m
<1> QED
  BY <1>1, <1>2, <1>3, <1>4

LEMMA PowIsEven ==
    ASSUME NEW j \in Nat, NEW i \in 0 .. Window, j < i
    PROVE  \E m \in Nat \ {0} : Pow2[i] = Pow2[j] * (2 * m)
BY PowSplit

LEMMA EvenPart ==
    ASSUME NEW x \in Nat, NEW z \in Nat
    PROVE  (2 * z + x) % 2 = x % 2
OBVIOUS

LEMMA OddPart ==
    ASSUME NEW x \in Nat
    PROVE  /\ x % 2 \in {0, 1}
           /\ x % 2 = 0 => (x + 1) % 2 = 1 /\ (x + 1) \div 2 = x \div 2
OBVIOUS

\* Adding a power does not change the bits below it.
LEMMA LowerBits ==
    ASSUME NEW w \in Nat, NEW i \in 0 .. Window, NEW j \in Nat, j < i
    PROVE  Bit(w + Pow2[i], j) = Bit(w, j)
<1>1. PICK m \in Nat \ {0} :
           /\ Pow2[i - j] = 2 * m /\ Pow2[i] = Pow2[j] * (2 * m)
           /\ Pow2[j] \in Nat \ {0} /\ Pow2[i] \in Nat \ {0}
  BY PowSplit
<1> DEFINE b == Pow2[j]   q == w \div b   r == w % b
<1>2. q \in Nat /\ r \in Nat /\ r < b /\ w = b * q + r
  BY <1>1, DivOf
<1> HIDE DEF q, r
<1>3. w + Pow2[i] = b * (2 * m + q) + r /\ 2 * m + q \in Nat
  BY <1>1, <1>2
<1>4. (w + Pow2[i]) \div b = 2 * m + q
  <2> DEFINE a == w + Pow2[i]   z == 2 * m + q
  <2>1. a \in Nat /\ z \in Nat /\ a = b * z + r /\ b \in Nat \ {0}
    BY <1>1, <1>3
  <2> HIDE DEF a, z, b
  <2>2. a \div b = z
    BY <1>2, <2>1, DivIs
  <2> QED
    BY <2>2 DEF a, z
<1>5. (2 * m + q) % 2 = q % 2
  BY <1>1, <1>2, EvenPart
<1> QED
  BY <1>4, <1>5 DEF Bit, q

\* Adding a power sets a bit that was unset, and leaves what is above it.
LEMMA HigherBits ==
    ASSUME NEW w \in Nat, NEW i \in 0 .. Window - 1, Bit(w, i) = 0
    PROVE  /\ Bit(w + Pow2[i], i) = 1
           /\ \A j \in i + 1 .. Window : (w + Pow2[i]) \div Pow2[j] = w \div Pow2[j]
<1> DEFINE b == Pow2[i]   q == w \div b   r == w % b
<1>1. b \in Nat \ {0}
  BY PowType, WindowType
<1>2. q \in Nat /\ r \in Nat /\ r < b /\ w = b * q + r
  BY <1>1, DivOf
<1>3. q % 2 = 0
  BY DEF Bit
<1> HIDE DEF q, r
<1>4. w + b \in Nat /\ w + b = b * (q + 1) + r
  BY <1>1, <1>2
<1>5. (w + b) \div b = q + 1
  BY <1>1, <1>2, <1>4, DivIs
<1>6. Bit(w + b, i) = 1
  BY <1>2, <1>3, <1>5, OddPart DEF Bit
<1>7. ASSUME NEW j \in i + 1 .. Window
      PROVE  (w + b) \div Pow2[j] = w \div Pow2[j]
  <2>1. j \in 0 .. Window /\ i \in Nat /\ i < j
    BY WindowType
  <2>2. PICK m \in Nat \ {0} : Pow2[j] = b * (2 * m)
    BY <2>1, PowIsEven
  <2> DEFINE c == 2 * m   a == w + b   z == q + 1
  <2>3. c \in Nat \ {0} /\ Pow2[j] = b * c /\ c = 2 * m /\ 2 \in Nat \ {0}
    BY <2>2
  <2>4. a \in Nat /\ z \in Nat /\ a \div b = z
    BY <1>2, <1>4, <1>5
  <2>5. w \div b = q
    BY DEF q
  <2>6. z \div 2 = q \div 2
    BY <1>2, <1>3, OddPart
  <2> HIDE DEF a, b, c, z
  <2>7. a \div Pow2[j] = z \div c /\ w \div Pow2[j] = q \div c
    <3>1. a \div Pow2[j] = (a \div b) \div c
      BY <1>1, <2>3, <2>4, DivProduct
    <3>2. w \div Pow2[j] = (w \div b) \div c
      BY <1>1, <2>3, DivProduct
    <3> QED
      BY <2>4, <2>5, <3>1, <3>2
  <2>8. z \div c = (z \div 2) \div m /\ q \div c = (q \div 2) \div m
    BY <1>2, <2>3, <2>4, DivProduct
  <2> QED
    BY <2>6, <2>7, <2>8 DEF a
<1> QED
  BY <1>6, <1>7

\* All bits of 2^n - 1 are set.
LEMMA AllOnes ==
    ASSUME NEW n \in 0 .. Window, NEW i \in Nat, i < n
    PROVE  Bit(Pow2[n] - 1, i) = 1
<1>1. PICK m \in Nat \ {0} :
           /\ Pow2[n] = Pow2[i] * (2 * m)
           /\ Pow2[i] \in Nat \ {0} /\ Pow2[n] \in Nat \ {0}
  BY PowSplit
<1> DEFINE b == Pow2[i]   q == 2 * (m - 1) + 1
<1>2. b * (2 * m) = b * q + b
  BY <1>1
<1>3. Pow2[n] - 1 = b * q + (b - 1) /\ q \in Nat /\ b - 1 \in Nat /\ Pow2[n] - 1 \in Nat
  BY <1>1, <1>2
<1>4. (Pow2[n] - 1) \div b = q
  <2> HIDE DEF q
  <2> QED
    BY <1>1, <1>3, DivIs
<1>5. q % 2 = 1
  OBVIOUS
<1> QED
  BY <1>4, <1>5 DEF Bit

LEMMA NoOnes ==
    ASSUME NEW i \in 0 .. Window - 1
    PROVE  Bit(0, i) = 0
<1>1. Pow2[i] \in Nat \ {0}
  BY PowType, WindowType
<1>2. 0 \div Pow2[i] = 0
  BY <1>1, DivIs
<1> QED
  BY <1>2 DEF Bit

LEMMA WordType ==
    /\ Words \subseteq Nat /\ 0 \in Words
    /\ \A w \in Nat : w \in Words <=> w < Pow2[Window]
BY PowType, WindowType DEF Words, WordMax

\* setExecuted, in terms of the bits of a word.
LEMMA SetBit ==
    ASSUME NEW w \in Words, NEW i \in 0 .. Window - 1, Bit(w, i) = 0
    PROVE  /\ w + Pow2[i] \in Words
           /\ BitsOf(w + Pow2[i]) = BitsOf(w) \cup {i}
<1>1. w \in Nat /\ w < Pow2[Window] /\ Pow2[Window] \in Nat \ {0}
      /\ Pow2[i] \in Nat /\ w + Pow2[i] \in Nat
  BY WordType, PowType, WindowType
<1>2. (w + Pow2[i]) \div Pow2[Window] = w \div Pow2[Window]
  BY <1>1, HigherBits, WindowType
<1>3. w \div Pow2[Window] = 0
  BY <1>1, DivIs
<1>4. w + Pow2[i] < Pow2[Window]
  BY <1>1, <1>2, <1>3, DivOf
<1>5. Bit(w + Pow2[i], i) = 1
  BY <1>1, HigherBits
<1>6. ASSUME NEW j \in 0 .. Window - 1, j # i
      PROVE  Bit(w + Pow2[i], j) = Bit(w, j)
  <2>1. CASE j < i
    BY <1>1, <2>1, LowerBits, WindowType
  <2>2. CASE j > i
    BY <1>1, <2>2, HigherBits, WindowType DEF Bit
  <2> QED
    BY <1>6, <2>1, <2>2, WindowType
<1>7. BitsOf(w + Pow2[i]) = BitsOf(w) \cup {i}
  BY <1>5, <1>6 DEF BitsOf
<1> QED
  BY <1>1, <1>4, <1>7, WordType

LEMMA BitsOfZero == BitsOf(0) = {}
BY NoOnes DEF BitsOf

LEMMA BitIsBinary ==
    ASSUME NEW w \in Nat, NEW i \in 0 .. Window - 1
    PROVE  Bit(w, i) \in {0, 1}
<1>1. w \div Pow2[i] \in Nat
  BY PowType, WindowType, DivOf
<1> QED
  BY <1>1, OddPart DEF Bit

-----------------------------------------------------------------------------
(* Bytes of a word. *)

LEMMA IndexSplits ==
    ASSUME NEW index \in Nat
    PROVE  LET pos == index \div ByteBits   offset == index % ByteBits
           IN  /\ pos \in Nat /\ offset \in 0 .. ByteBits - 1
               /\ index = pos * ByteBits + offset
               /\ index < Window => pos < Bytes
               /\ index >= Window => /\ pos >= Bytes
                                     /\ index - Window = (pos - Bytes) * ByteBits + offset
<1> DEFINE pos == index \div ByteBits   offset == index % ByteBits
<1>1. pos \in Nat /\ offset \in Nat /\ offset < ByteBits /\ index = ByteBits * pos + offset
  BY DivOf, BitAssumption
<1> HIDE DEF pos, offset
<1>2. ByteBits * pos = pos * ByteBits /\ Window = ByteBits * Bytes
  BY <1>1, BitAssumption DEF Window
<1>3. ASSUME index < Window PROVE pos < Bytes
  <2>1. SUFFICES ASSUME Bytes <= pos PROVE FALSE
    BY <1>1, BitAssumption
  <2>2. ByteBits * Bytes <= ByteBits * pos
    BY <1>1, <2>1, BitAssumption, TimesMonotonic
  <2> QED
    BY <1>1, <1>2, <1>3, <2>2, WindowType, BitAssumption, index < ByteBits * Bytes
<1>4. ASSUME index >= Window PROVE pos >= Bytes
  <2>1. SUFFICES ASSUME pos + 1 <= Bytes PROVE FALSE
    BY <1>1, BitAssumption
  <2>2. ByteBits * (pos + 1) <= ByteBits * Bytes
    BY <1>1, <2>1, BitAssumption, TimesMonotonic
  <2>3. ByteBits * (pos + 1) = ByteBits * pos + ByteBits
    BY <1>1, BitAssumption
  <2> QED
    BY <1>1, <1>2, <1>4, <2>2, <2>3, WindowType, BitAssumption
<1>5. index - Window = (pos - Bytes) * ByteBits + offset
  BY <1>1, <1>2, BitAssumption
<1>6. pos \in Nat /\ offset \in 0 .. ByteBits - 1 /\ index = pos * ByteBits + offset
  BY <1>1, <1>2, BitAssumption
<1> QED
  BY <1>3, <1>4, <1>5, <1>6 DEF pos, offset

LEMMA PositionType ==
    ASSUME NEW pos \in Nat, pos < Bytes, NEW offset \in 0 .. ByteBits - 1
    PROVE  pos * ByteBits \in 0 .. Window - ByteBits /\ pos * ByteBits + offset \in 0 .. Window - 1
<1>1. ByteBits * pos <= ByteBits * (Bytes - 1)
  BY BitAssumption, TimesMonotonic, Bytes - 1 \in Nat, pos <= Bytes - 1
<1>2. ByteBits * (Bytes - 1) = Window - ByteBits /\ ByteBits * pos = pos * ByteBits
  BY BitAssumption DEF Window
<1> QED
  BY <1>1, <1>2, BitAssumption, WindowType

LEMMA BitOfByte ==
    ASSUME NEW w \in Nat, NEW pos \in Nat, pos < Bytes, NEW offset \in 0 .. ByteBits - 1
    PROVE  Bit(Byte(w, pos), offset) = Bit(w, pos * ByteBits + offset)
<1> DEFINE s == pos * ByteBits   v == w \div Pow2[s]
           q == v \div Pow2[ByteBits]   r == v % Pow2[ByteBits]
           b == Pow2[offset]   x == r \div b   y == r % b
<1>1. s \in 0 .. Window - ByteBits /\ s + offset \in 0 .. Window - 1
  BY PositionType
<1>2. Pow2[s] \in Nat \ {0} /\ b \in Nat \ {0} /\ Pow2[ByteBits] \in Nat \ {0}
  BY <1>1, PowType, WindowType, BitAssumption
<1>3. PICK m \in Nat \ {0} : Pow2[ByteBits] = b * (2 * m)
  <2>1. ByteBits \in 0 .. Window /\ offset \in Nat /\ offset < ByteBits
    BY WindowType, BitAssumption
  <2> QED
    BY <2>1, PowIsEven
<1>4. v \in Nat
  BY <1>2, DivOf
<1> HIDE DEF v
<1>5. q \in Nat /\ r \in Nat /\ v = Pow2[ByteBits] * q + r
  BY <1>2, <1>4, DivOf
<1> HIDE DEF q, r
<1>6. x \in Nat /\ y \in Nat /\ y < b /\ r = b * x + y
  BY <1>2, <1>5, DivOf
<1> HIDE DEF x, y
<1>7. (b * (2 * m)) * q = b * (2 * (m * q)) /\ m * q \in Nat
  BY <1>2, <1>5
<1>8. v = b * (2 * (m * q) + x) + y /\ 2 * (m * q) + x \in Nat
  BY <1>2, <1>3, <1>5, <1>6, <1>7
<1>9. v \div b = 2 * (m * q) + x
  BY <1>2, <1>4, <1>6, <1>8, DivIs
<1>10. (v \div b) % 2 = x % 2
  BY <1>6, <1>7, <1>9, EvenPart
<1>11. v \div b = w \div Pow2[s + offset]
  <2>1. Pow2[s + offset] = Pow2[s] * b
    BY <1>1, PowAdd, WindowType
  <2> QED
    BY <1>2, <2>1, DivDiv DEF v
<1> QED
  BY <1>10, <1>11 DEF Bit, Byte, v, r, x

LEMMA SkippedIsSet ==
    ASSUME NEW w \in Nat, NEW index \in 0 .. Window - 1
    PROVE  IsSkipped(index, w) <=> Bit(w, index) = 1
<1> DEFINE pos == index \div ByteBits   offset == index % ByteBits
<1>1. pos \in Nat /\ pos < Bytes /\ offset \in 0 .. ByteBits - 1 /\ index = pos * ByteBits + offset
  BY IndexSplits, WindowType
<1> HIDE DEF pos, offset
<1>2. Bit(Byte(w, pos), offset) = Bit(w, index)
  BY <1>1, BitOfByte
<1>3. Bit(ByteMax, offset) = 1
  BY <1>1, AllOnes, WindowType, BitAssumption DEF ByteMax
<1> QED
  BY <1>2, <1>3 DEF IsSkipped, pos, offset

-----------------------------------------------------------------------------
(* Ascending lists. *)

Ascending(list) == \A i, j \in 1 .. Len(list) : i < j => list[i] < list[j]

LEMMA ToSetElements ==
    ASSUME NEW list \in Seq(Nat)
    PROVE  /\ \A i \in 1 .. Len(list) : list[i] \in ToSet(list)
           /\ \A x \in ToSet(list) : \E i \in 1 .. Len(list) : x = list[i]
           /\ ToSet(list) \subseteq Nat
BY DEF ToSet

LEMMA NeighboursAscend ==
    ASSUME NEW list \in Seq(Nat), \A i \in 2 .. Len(list) : list[i - 1] < list[i]
    PROVE  Ascending(list)
<1> DEFINE T == { d \in Nat : \A i \in 1 .. Len(list) :
                     i + (d + 1) <= Len(list) => list[i] < list[i + (d + 1)] }
<1>1. 0 \in T
  OBVIOUS
<1>2. ASSUME NEW d \in Nat, d \in T PROVE d + 1 \in T
  <2> SUFFICES ASSUME NEW i \in 1 .. Len(list), i + ((d + 1) + 1) <= Len(list)
               PROVE  list[i] < list[i + ((d + 1) + 1)]
    OBVIOUS
  <2>1. list[i] < list[i + (d + 1)]
    BY <1>2
  <2>2. list[(i + ((d + 1) + 1)) - 1] < list[i + ((d + 1) + 1)]
    OBVIOUS
  <2>3. (i + ((d + 1) + 1)) - 1 = i + (d + 1)
    OBVIOUS
  <2>4. list[i] \in Nat /\ list[i + (d + 1)] \in Nat /\ list[i + ((d + 1) + 1)] \in Nat
    BY ElementOfSeq
  <2> QED
    BY <2>1, <2>2, <2>3, <2>4
<1> HIDE DEF T
<1>3. \A n \in Nat : n \in T
  BY <1>1, <1>2, Induction
<1>4. ASSUME NEW i \in 1 .. Len(list), NEW j \in 1 .. Len(list), i < j
      PROVE  list[i] < list[j]
  <2>1. (j - i) - 1 \in T /\ i + (((j - i) - 1) + 1) = j
    BY <1>3, <1>4
  <2> QED
    BY <2>1 DEF T
<1> QED
  BY <1>4 DEF Ascending

LEMMA NoneIsAbove ==
    ASSUME NEW list \in Seq(Nat), Ascending(list),
           NEW i \in 1 .. Len(list), NEW j \in 1 .. Len(list), i <= j
    PROVE  list[i] \in Nat /\ list[j] \in Nat /\ list[i] <= list[j]
<1>1. list[i] \in Nat /\ list[j] \in Nat
  BY ElementOfSeq
<1>2. CASE i = j
  BY <1>1, <1>2
<1>3. CASE i < j
  <2>1. list[i] < list[j]
    BY <1>3 DEF Ascending
  <2> QED
    BY <1>1, <2>1
<1> QED
  BY <1>2, <1>3

LEMMA ConcatElements ==
    ASSUME NEW list \in Seq(Nat), NEW more \in Seq(Nat)
    PROVE  /\ list \o more \in Seq(Nat) /\ Len(list \o more) = Len(list) + Len(more)
           /\ \A i \in 1 .. Len(list) : (list \o more)[i] = list[i]
           /\ \A i \in 1 .. Len(more) : (list \o more)[Len(list) + i] = more[i]
           /\ ToSet(list \o more) = ToSet(list) \cup ToSet(more)
<1>1. /\ list \o more \in Seq(Nat) /\ Len(list \o more) = Len(list) + Len(more)
      /\ \A i \in 1 .. Len(list) : (list \o more)[i] = list[i]
      /\ \A i \in 1 .. Len(more) : (list \o more)[Len(list) + i] = more[i]
  OBVIOUS
<1>2. ASSUME NEW i \in 1 .. Len(list \o more)
      PROVE  \/ i \in 1 .. Len(list)
             \/ i - Len(list) \in 1 .. Len(more) /\ i = Len(list) + (i - Len(list))
  BY <1>1
<1>3. ToSet(list \o more) \subseteq ToSet(list) \cup ToSet(more)
  BY <1>1, <1>2 DEF ToSet
<1>4. ToSet(list) \subseteq ToSet(list \o more)
  BY <1>1 DEF ToSet
<1>5. ToSet(more) \subseteq ToSet(list \o more)
  <2> SUFFICES ASSUME NEW x \in ToSet(more) PROVE x \in ToSet(list \o more)
    OBVIOUS
  <2>o. PICK i \in 1 .. Len(more) : x = more[i]
    BY ToSetElements
  <2> DEFINE all == list \o more   k == Len(list) + i
  <2>1. k \in 1 .. Len(all) /\ all[k] = more[i] /\ all \in Seq(Nat)
    BY <1>1
  <2> HIDE DEF all, k
  <2>2. all[k] \in ToSet(all)
    BY <2>1, ToSetElements
  <2> QED
    BY <2>o, <2>1, <2>2 DEF all
<1> QED
  BY <1>1, <1>3, <1>4, <1>5

\* The assertion of add holds of all numbers exactly if they are in ascending
\* order and above those of the list.
LEMMA AddedInOrder ==
    ASSUME NEW list \in Seq(Nat), NEW more \in Seq(Nat), Ascending(list), Ascending(more)
    PROVE  /\ AddsInOrder(list, more) => Ascending(list \o more)
           /\ Ascending(list \o more) <=>
                \A x \in ToSet(list), y \in ToSet(more) : x < y
           /\ Ascending(list \o more) => AddsInOrder(list, more)
<1> DEFINE all == list \o more
<1>1. /\ all \in Seq(Nat) /\ Len(all) = Len(list) + Len(more)
      /\ \A i \in 1 .. Len(list) : all[i] = list[i]
      /\ \A i \in 1 .. Len(more) : all[Len(list) + i] = more[i]
      /\ Len(list) \in Nat /\ Len(more) \in Nat
  BY ConcatElements
<1> HIDE DEF all
<1>2. ASSUME AddsInOrder(list, more) PROVE Ascending(all)
  <2>1. ASSUME NEW i \in 2 .. Len(all) PROVE all[i - 1] < all[i]
    <3>1. CASE i <= Len(list)
      <4>1. i \in 1 .. Len(list) /\ i - 1 \in 1 .. Len(list) /\ i - 1 < i
        BY <1>1, <3>1
      <4> QED
        BY <1>1, <4>1 DEF Ascending
    <3>2. CASE i > Len(list)
      BY <1>1, <1>2, <3>2, ElementOfSeq DEF AddsInOrder, all
    <3> QED
      BY <1>1, <3>1, <3>2
  <2> QED
    BY <1>1, <2>1, NeighboursAscend
<1>3. ASSUME Ascending(all), NEW x \in ToSet(list), NEW y \in ToSet(more)
      PROVE  x < y
  <2>1. PICK i \in 1 .. Len(list) : x = list[i]
    BY DEF ToSet
  <2>2. PICK j \in 1 .. Len(more) : y = more[j]
    BY DEF ToSet
  <2> DEFINE l == Len(list)   m == Len(more)
  <2>3. l \in Nat /\ m \in Nat /\ Len(all) = l + m /\ i \in 1 .. l /\ j \in 1 .. m
    BY <1>1
  <2> HIDE DEF l, m
  <2>4. i \in 1 .. Len(all) /\ l + j \in 1 .. Len(all) /\ i < l + j
    BY <2>3
  <2>5. all[i] < all[l + j]
    BY <1>3, <2>4 DEF Ascending
  <2>6. all[i] = x /\ all[l + j] = y
    BY <1>1, <2>1, <2>2 DEF l
  <2> QED
    BY <2>5, <2>6
<1>4. ASSUME \A x \in ToSet(list), y \in ToSet(more) : x < y
      PROVE  Ascending(all)
  <2> SUFFICES ASSUME NEW i \in 1 .. Len(all), NEW j \in 1 .. Len(all), i < j
               PROVE  all[i] < all[j]
    BY DEF Ascending
  <2>1. CASE j <= Len(list)
    <3>1. i \in 1 .. Len(list) /\ j \in 1 .. Len(list)
      BY <1>1, <2>1
    <3> QED
      BY <1>1, <3>1 DEF Ascending
  <2>2. CASE i > Len(list)
    <3>1. /\ i - Len(list) \in 1 .. Len(more) /\ j - Len(list) \in 1 .. Len(more)
          /\ Len(list) + (i - Len(list)) = i /\ Len(list) + (j - Len(list)) = j
          /\ i - Len(list) < j - Len(list)
      BY <1>1, <2>2
    <3> QED
      BY <1>1, <3>1 DEF Ascending
  <2>3. CASE i <= Len(list) /\ j > Len(list)
    <3>1. /\ i \in 1 .. Len(list) /\ j - Len(list) \in 1 .. Len(more)
          /\ Len(list) + (j - Len(list)) = j
      BY <1>1, <2>3
    <3>2. list[i] \in ToSet(list) /\ more[j - Len(list)] \in ToSet(more)
      BY <3>1 DEF ToSet
    <3> QED
      BY <1>1, <1>4, <3>1, <3>2
  <2> QED
    BY <1>1, <2>1, <2>2, <2>3
<1>5. Ascending(all) => AddsInOrder(list, more)
  <2> SUFFICES ASSUME Ascending(all), NEW i \in Len(list) + 1 .. Len(all), i > 1
               PROVE  all[i] > all[i - 1]
    BY DEF AddsInOrder, all
  <2>1. i \in 1 .. Len(all) /\ i - 1 \in 1 .. Len(all) /\ i - 1 < i
    BY <1>1
  <2> QED
    BY <1>1, <2>1, ElementOfSeq DEF Ascending
<1> QED
  BY <1>2, <1>3, <1>4, <1>5 DEF all

LEMMA AppendAscends ==
    ASSUME NEW list \in Seq(Nat), Ascending(list), NEW n \in Nat,
           \A x \in ToSet(list) : x < n
    PROVE  /\ Append(list, n) \in Seq(Nat) /\ Ascending(Append(list, n))
           /\ ToSet(Append(list, n)) = ToSet(list) \cup {n}
<1>1. /\ Append(list, n) \in Seq(Nat) /\ Len(Append(list, n)) = Len(list) + 1
      /\ \A i \in 1 .. Len(list) : Append(list, n)[i] = list[i]
      /\ Append(list, n)[Len(list) + 1] = n
      /\ Len(list) \in Nat
  OBVIOUS
<1>2. \A i \in 1 .. Len(list) : list[i] < n
  BY DEF ToSet
<1>3. Ascending(Append(list, n))
  BY <1>1, <1>2 DEF Ascending
<1>4. ToSet(Append(list, n)) = ToSet(list) \cup {n}
  <2>1. \A i \in 1 .. Len(list) + 1 : i \in 1 .. Len(list) \/ i = Len(list) + 1
    BY <1>1
  <2>2. \A i \in 1 .. Len(list) : i \in 1 .. Len(list) + 1
    BY <1>1
  <2>3. Len(list) + 1 \in 1 .. Len(list) + 1
    BY <1>1
  <2> QED
    BY <1>1, <2>1, <2>2, <2>3 DEF ToSet
<1> QED
  BY <1>1, <1>3, <1>4

-----------------------------------------------------------------------------
(* The numbers compact adds. *)

AddedStep(current, bitMap, g, i) ==
    IF i = 0 THEN <<>>
    ELSE IF IsSkipped(i - 1, bitMap) THEN g[i - 1]
                                     ELSE Append(g[i - 1], current + i - 1)

LEMMA AddedIsDefined ==
    ASSUME NEW current, NEW bitMap
    PROVE  \A n \in Nat : \E g :
              g = [i \in 0 .. n |-> AddedStep(current, bitMap, g, i)]
<1> DEFINE Body(g, i) == AddedStep(current, bitMap, g, i)
           P(n) == \E g : g = [i \in 0 .. n |-> Body(g, i)]
           T == { n \in Nat : P(n) }
<1>1. P(0)
  <2> DEFINE g == [i \in 0 .. 0 |-> <<>>]
  <2>1. g = [i \in 0 .. 0 |-> Body(g, i)]
    BY DEF AddedStep
  <2> QED
    BY <2>1
<1>2. ASSUME NEW n \in Nat, P(n) PROVE P(n + 1)
  <2>1. PICK g : g = [i \in 0 .. n |-> Body(g, i)]
    BY <1>2
  <2> DEFINE h == [i \in 0 .. n + 1 |-> Body(g, i)]
  <2>2. ASSUME NEW i \in 0 .. n PROVE h[i] = g[i]
    <3> HIDE DEF Body
    <3>1. i \in 0 .. n + 1
      OBVIOUS
    <3> QED
      BY <2>1, <3>1
  <2>3. ASSUME NEW i \in 0 .. n + 1 PROVE Body(g, i) = Body(h, i)
    <3>1. CASE i = 0
      BY <3>1 DEF AddedStep
    <3>2. CASE i # 0
      <4>1. i - 1 \in 0 .. n
        BY <3>2
      <4>2. g[i - 1] = h[i - 1]
        BY <2>2, <4>1
      <4> HIDE DEF h
      <4> QED
        BY <4>2 DEF AddedStep
    <3> QED
      BY <3>1, <3>2
  <2>4. h = [i \in 0 .. n + 1 |-> Body(h, i)]
    <3> HIDE DEF Body
    <3> QED
      BY <2>3
  <2> HIDE DEF h, Body
  <2> QED
    BY <2>4
<1> HIDE DEF P
<1>3. 0 \in T /\ \A n \in Nat : n \in T => n + 1 \in T
  BY <1>1, <1>2
<1> HIDE DEF T
<1>4. \A n \in Nat : n \in T
  BY <1>3, Induction
<1> QED
  BY <1>4 DEF P, T

\* addToUndone adds the numbers of all unset bits, in ascending order.
LEMMA AddedNumbers ==
    ASSUME NEW current \in Nat, NEW bitMap \in Nat
    PROVE  LET list == addToUndone(current, bitMap)
           IN  /\ list \in Seq(Nat) /\ Ascending(list)
               /\ ToSet(list) = { current + i : i \in (0 .. Window - 1) \ BitsOf(bitMap) }
<1> DEFINE Body(g, i) == AddedStep(current, bitMap, g, i)
           added == CHOOSE g : g = [i \in 0 .. Window |-> Body(g, i)]
           Unset(n) == { current + i : i \in { k \in 0 .. n - 1 : Bit(bitMap, k) # 1 } }
           T == { n \in Nat : n <= Window =>
                    /\ added[n] \in Seq(Nat) /\ Ascending(added[n])
                    /\ ToSet(added[n]) = Unset(n) }
<1>1. addToUndone(current, bitMap) = added[Window]
  BY DEF addToUndone, AddedStep
<1>2. added = [i \in 0 .. Window |-> Body(added, i)]
  <2>1. \E g : g = [i \in 0 .. Window |-> Body(g, i)]
    BY AddedIsDefined, WindowType, ZenonT(40)
  <2> HIDE DEF Body
  <2> QED
    BY <2>1
<1> HIDE DEF added
<1>3. /\ added[0] = <<>>
      /\ \A i \in 0 .. Window - 1 :
           added[i + 1] = IF IsSkipped(i, bitMap) THEN added[i]
                                                  ELSE Append(added[i], current + i)
  <2>1. ASSUME NEW i \in 0 .. Window PROVE added[i] = Body(added, i)
    <3> HIDE DEF Body
    <3> QED
      BY <1>2
  <2>2. ASSUME NEW i \in 0 .. Window - 1 PROVE added[i + 1] = Body(added, i + 1)
    <3>1. i + 1 \in 0 .. Window
      BY WindowType
    <3> QED
      BY <2>1, <3>1
  <2>3. ASSUME NEW i \in 0 .. Window - 1
        PROVE  Body(added, i + 1) = IF IsSkipped(i, bitMap)
                                      THEN added[i] ELSE Append(added[i], current + i)
    <3>1. i + 1 # 0 /\ (i + 1) - 1 = i /\ current + (i + 1) - 1 = current + i
      BY WindowType
    <3> QED
      BY <3>1 DEF AddedStep
  <2>4. added[0] = <<>>
    BY <2>1, WindowType DEF AddedStep
  <2> QED
    BY <2>2, <2>3, <2>4
<1>4. 0 \in T
  <2>1. <<>> \in Seq(Nat) /\ Ascending(<<>>) /\ ToSet(<<>>) = {} /\ Unset(0) = {}
    BY DEF Ascending, ToSet
  <2> QED
    BY <1>3, <2>1
<1>5. ASSUME NEW n \in Nat, n \in T PROVE n + 1 \in T
  <2> SUFFICES ASSUME n + 1 <= Window
               PROVE  /\ added[n + 1] \in Seq(Nat) /\ Ascending(added[n + 1])
                      /\ ToSet(added[n + 1]) = Unset(n + 1)
    OBVIOUS
  <2>1. n \in 0 .. Window - 1
    BY WindowType
  <2>2. added[n] \in Seq(Nat) /\ Ascending(added[n]) /\ ToSet(added[n]) = Unset(n)
    BY <1>5, <2>1, WindowType
  <2>3. (0 .. (n + 1) - 1) = (0 .. n - 1) \cup {n}
    BY <2>1
  <2>4. IsSkipped(n, bitMap) <=> Bit(bitMap, n) = 1
    BY <2>1, SkippedIsSet
  <2>5. CASE IsSkipped(n, bitMap)
    <3>1. Unset(n + 1) = Unset(n)
      BY <2>3, <2>4, <2>5
    <3> QED
      BY <1>3, <2>1, <2>2, <2>5, <3>1
  <2>6. CASE ~IsSkipped(n, bitMap)
    <3>1. Unset(n + 1) = Unset(n) \cup {current + n}
      BY <2>3, <2>4, <2>6
    <3>2. \A x \in Unset(n) : x < current + n
      OBVIOUS
    <3>3. added[n + 1] = Append(added[n], current + n)
      BY <1>3, <2>1, <2>6
    <3> HIDE DEF Unset
    <3> QED
      BY <2>1, <2>2, <3>1, <3>2, <3>3, AppendAscends, current + n \in Nat
  <2> QED
    BY <2>5, <2>6
<1>6. \A n \in Nat : n \in T
  <2> HIDE DEF T
  <2> QED
    BY <1>4, <1>5, Induction
<1>7. /\ added[Window] \in Seq(Nat) /\ Ascending(added[Window])
      /\ ToSet(added[Window]) = Unset(Window)
  <2>1. Window \in T
    BY <1>6, WindowType
  <2> HIDE DEF Unset
  <2> QED
    BY <2>1, WindowType
<1>8. Unset(Window) = { current + i : i \in (0 .. Window - 1) \ BitsOf(bitMap) }
  BY DEF BitsOf
<1> QED
  BY <1>1, <1>7, <1>8

-----------------------------------------------------------------------------
(* What is taken from the list. *)

\* removeOldUndone leaves the recent numbers of an ascending list.
LEMMA RecentRemain ==
    ASSUME NEW list \in Seq(Nat), Ascending(list), NEW s \in Nat
    PROVE  /\ removeOldUndone(list, s) \in Seq(Nat)
           /\ Ascending(removeOldUndone(list, s))
           /\ ToSet(removeOldUndone(list, s)) = { x \in ToSet(list) : s <= x + Distance }
<1> DEFINE recent == { i \in DOMAIN list : s <= list[i] + Distance }
           all == recent \cup {Len(list) + 1}
           k == Min(all)
           rest == SubSeq(list, k, Len(list))
<1>1. Len(list) \in Nat /\ DOMAIN list = 1 .. Len(list)
  OBVIOUS
<1>2. all \subseteq Nat /\ all # {}
  BY <1>1
<1>3. k \in all /\ \A i \in all : k <= i
  <2>1. \E x \in all : \A y \in all : x <= y
    <3> HIDE DEF all
    <3> QED
      BY <1>2, Least
  <2> QED
    BY <2>1 DEF Min
<1> HIDE DEF k
<1>4. k \in 1 .. Len(list) + 1
  BY <1>1, <1>3
<1>5. rest = removeOldUndone(list, s)
  BY DEF removeOldUndone, k
<1>6. /\ rest \in Seq(Nat) /\ Len(rest) = (Len(list) - k) + 1
      /\ \A i \in 1 .. Len(rest) : rest[i] = list[(k + i) - 1]
  <2>1. \A i \in k .. Len(list) : list[i] \in Nat
    BY <1>4
  <2> QED
    BY <1>1, <1>4, <2>1
<1> HIDE DEF rest
<1>7. Ascending(rest)
  <2> SUFFICES ASSUME NEW i \in 1 .. Len(rest), NEW j \in 1 .. Len(rest), i < j
               PROVE  rest[i] < rest[j]
    BY DEF Ascending
  <2>1. /\ (k + i) - 1 \in 1 .. Len(list) /\ (k + j) - 1 \in 1 .. Len(list)
        /\ (k + i) - 1 < (k + j) - 1
    BY <1>1, <1>4, <1>6
  <2> QED
    BY <1>6, <2>1 DEF Ascending
<1>8. \A i \in 1 .. Len(list) : s <= list[i] + Distance <=> i >= k
  <2> SUFFICES ASSUME NEW i \in 1 .. Len(list)
               PROVE  s <= list[i] + Distance <=> i >= k
    OBVIOUS
  <2>1. s <= list[i] + Distance => i >= k
    BY <1>1, <1>3
  <2>2. ASSUME i >= k PROVE s <= list[i] + Distance
    <3>1. k \in recent
      BY <1>1, <1>3, <2>2
    <3>2. k \in 1 .. Len(list) /\ s <= list[k] + Distance
      BY <3>1
    <3>3. list[k] <= list[i] /\ list[k] \in Nat /\ list[i] \in Nat
      BY <2>2, <3>2, ElementOfSeq DEF Ascending
    <3> QED
      BY <3>2, <3>3, DistanceAssumption
  <2> QED
    BY <2>1, <2>2
<1>9. ToSet(rest) \subseteq { x \in ToSet(list) : s <= x + Distance }
  <2> SUFFICES ASSUME NEW i \in 1 .. Len(rest)
               PROVE  rest[i] \in ToSet(list) /\ s <= rest[i] + Distance
    BY <1>6 DEF ToSet
  <2>1. (k + i) - 1 \in 1 .. Len(list) /\ (k + i) - 1 >= k
    BY <1>1, <1>4, <1>6
  <2> QED
    BY <1>6, <1>8, <2>1 DEF ToSet
<1>10. ASSUME NEW x \in ToSet(list), s <= x + Distance PROVE x \in ToSet(rest)
  <2>1. PICK i \in 1 .. Len(list) : x = list[i]
    BY DEF ToSet
  <2>2. i >= k
    BY <1>8, <1>10, <2>1
  <2> DEFINE j == (i - k) + 1
  <2>3. j \in 1 .. Len(rest) /\ (k + j) - 1 = i
    BY <1>1, <1>4, <1>6, <2>2
  <2> HIDE DEF j
  <2>4. rest[j] = x
    BY <1>6, <2>1, <2>3
  <2> QED
    BY <1>6, <2>3, <2>4, ToSetElements
<1> QED
  BY <1>5, <1>6, <1>7, <1>9, <1>10

\* trySetDone cuts one number out of an ascending list.
LEMMA OneRemoved ==
    ASSUME NEW list \in Seq(Nat), Ascending(list), NEW k \in 1 .. Len(list)
    PROVE  /\ RemoveAt(list, k) \in Seq(Nat)
           /\ Ascending(RemoveAt(list, k))
           /\ ToSet(RemoveAt(list, k)) = ToSet(list) \ {list[k]}
<1> DEFINE front == SubSeq(list, 1, k - 1)   back == SubSeq(list, k + 1, Len(list))
<1>1. Len(list) \in Nat /\ \A i \in 1 .. Len(list) : list[i] \in Nat
  OBVIOUS
<1>2. /\ front \in Seq(Nat) /\ Len(front) = k - 1
      /\ \A i \in 1 .. k - 1 : front[i] = list[i]
  BY <1>1
<1>3. /\ back \in Seq(Nat) /\ Len(back) = Len(list) - k
      /\ \A i \in 1 .. Len(list) - k : back[i] = list[k + i]
  BY <1>1
<1>4. RemoveAt(list, k) = front \o back
  BY DEF RemoveAt
<1> HIDE DEF front, back
<1>5. Ascending(front)
  <2> SUFFICES ASSUME NEW i \in 1 .. Len(front), NEW j \in 1 .. Len(front), i < j
               PROVE  front[i] < front[j]
    BY DEF Ascending
  <2>1. /\ i \in 1 .. k - 1 /\ j \in 1 .. k - 1
        /\ i \in 1 .. Len(list) /\ j \in 1 .. Len(list)
    BY <1>1, <1>2
  <2> QED
    BY <1>2, <2>1 DEF Ascending
<1>6. Ascending(back)
  <2> SUFFICES ASSUME NEW i \in 1 .. Len(back), NEW j \in 1 .. Len(back), i < j
               PROVE  back[i] < back[j]
    BY DEF Ascending
  <2>1. k + i \in 1 .. Len(list) /\ k + j \in 1 .. Len(list) /\ k + i < k + j
    BY <1>1, <1>3
  <2> QED
    BY <1>3, <2>1 DEF Ascending
<1>7. /\ \A x \in ToSet(front) : \E i \in 1 .. k - 1 : x = list[i]
      /\ \A i \in 1 .. k - 1 : list[i] \in ToSet(front)
      /\ \A x \in ToSet(back) : \E i \in k + 1 .. Len(list) : x = list[i]
      /\ \A i \in k + 1 .. Len(list) : list[i] \in ToSet(back)
  <2>1. \A i \in 1 .. Len(list) - k : k + i \in k + 1 .. Len(list)
    BY <1>1
  <2>2. \A i \in k + 1 .. Len(list) : i - k \in 1 .. Len(list) - k /\ k + (i - k) = i
    BY <1>1
  <2>3. ASSUME NEW x \in ToSet(back) PROVE \E i \in k + 1 .. Len(list) : x = list[i]
    <3>1. PICK i \in 1 .. Len(back) : x = back[i]
      BY <1>3, ToSetElements
    <3>2. i \in 1 .. Len(list) - k
      BY <1>3
    <3> QED
      BY <1>3, <2>1, <3>1, <3>2
  <2>4. \A i \in k + 1 .. Len(list) : back[i - k] = list[i] /\ back[i - k] \in ToSet(back)
    BY <1>3, <2>2, ToSetElements
  <2>5. ASSUME NEW x \in ToSet(front) PROVE \E i \in 1 .. k - 1 : x = list[i]
    <3>1. PICK i \in 1 .. Len(front) : x = front[i]
      BY <1>2, ToSetElements
    <3> QED
      BY <1>2, <3>1
  <2>6. \A i \in 1 .. k - 1 : front[i] = list[i] /\ front[i] \in ToSet(front)
    BY <1>2, ToSetElements
  <2> QED
    BY <2>3, <2>4, <2>5, <2>6
<1>8. \A x \in ToSet(front), y \in ToSet(back) : x < y
  <2> SUFFICES ASSUME NEW x \in ToSet(front), NEW y \in ToSet(back) PROVE x < y
    OBVIOUS
  <2>1. PICK i \in 1 .. k - 1 : x = list[i]
    BY <1>7
  <2>2. PICK j \in k + 1 .. Len(list) : y = list[j]
    BY <1>7
  <2>3. i \in 1 .. Len(list) /\ j \in 1 .. Len(list) /\ i < j
    BY <1>1
  <2> QED
    BY <2>1, <2>2, <2>3 DEF Ascending
<1>9. Ascending(front \o back)
  BY <1>2, <1>3, <1>5, <1>6, <1>8, AddedInOrder
<1>10. ToSet(front \o back) = ToSet(front) \cup ToSet(back) /\ front \o back \in Seq(Nat)
  BY <1>2, <1>3, ConcatElements
<1>11. \A i \in 1 .. Len(list) : list[i] = list[k] <=> i = k
  BY <1>1 DEF Ascending
<1>12. ToSet(front) \cup ToSet(back) = ToSet(list) \ {list[k]}
  <2>1. \A i \in 1 .. Len(list) : i = k \/ i \in 1 .. k - 1 \/ i \in k + 1 .. Len(list)
    BY <1>1
  <2>2. ASSUME NEW x \in ToSet(list), x # list[k]
        PROVE  x \in ToSet(front) \cup ToSet(back)
    BY <1>7, <2>1, <2>2, ToSetElements
  <2>3. \A i \in (1 .. k - 1) \cup (k + 1 .. Len(list)) : i \in 1 .. Len(list) /\ i # k
    BY <1>1
  <2>4. ASSUME NEW x \in ToSet(front) \cup ToSet(back)
        PROVE  x \in ToSet(list) /\ x # list[k]
    <3>1. PICK i \in (1 .. k - 1) \cup (k + 1 .. Len(list)) : x = list[i]
      BY <1>7, <2>4
    <3> QED
      BY <1>11, <2>3, <3>1, ToSetElements
  <2> QED
    BY <2>2, <2>4
<1> QED
  BY <1>4, <1>9, <1>10, <1>12

-----------------------------------------------------------------------------
(* The bisection. *)

Spans(list) == (0 .. Len(list)) \X (-1 .. Len(list) - 1)

BisectStep(list, seq, g, p) ==
    LET mid == (p[1] + p[2]) \div 2
    IN  IF p[1] > p[2]             THEN -1
        ELSE IF seq = list[mid + 1] THEN mid
        ELSE IF seq > list[mid + 1] THEN g[<<mid + 1, p[2]>>]
                                    ELSE g[<<p[1], mid - 1>>]

\* Spans of at most n positions.
Short(list, n) == { p \in Spans(list) : p[2] - p[1] < n }

\* The loop goes on with less than half of a span, which lies within it.
LEMMA Halves ==
    ASSUME NEW list \in Seq(Nat), NEW p \in Spans(list), p[1] <= p[2],
           NEW n \in Nat, p[2] - p[1] < n + 1
    PROVE  LET mid == (p[1] + p[2]) \div 2
           IN  /\ mid \in p[1] .. p[2] /\ mid + 1 \in 1 .. Len(list)
               /\ <<mid + 1, p[2]>> \in Short(list, n)
               /\ <<p[1], mid - 1>> \in Short(list, n)
<1> DEFINE b == p[1]   e == p[2]   mid == (b + e) \div 2
<1>1. b \in 0 .. Len(list) /\ e \in -1 .. Len(list) - 1 /\ Len(list) \in Nat
  BY DEF Spans
<1>2. b <= e /\ e - b < n + 1
  OBVIOUS
<1> HIDE DEF b, e
<1>3. mid \in b .. e
  BY <1>1, <1>2
<1> HIDE DEF mid
<1>4. mid + 1 \in 1 .. Len(list) /\ mid - 1 \in -1 .. Len(list) - 1 /\ mid + 1 \in 0 .. Len(list)
  BY <1>1, <1>3
<1>5. e - (mid + 1) < n /\ (mid - 1) - b < n
  BY <1>1, <1>2, <1>3
<1>6. <<mid + 1, e>> \in Short(list, n) /\ <<b, mid - 1>> \in Short(list, n)
  BY <1>1, <1>4, <1>5 DEF Short, Spans
<1> QED
  BY <1>3, <1>4, <1>6 DEF b, e, mid

LEMMA BisectStepsDepend ==
    ASSUME NEW list \in Seq(Nat), NEW seq, NEW n \in Nat, NEW g, NEW h,
           \A p \in Short(list, n) : g[p] = h[p],
           NEW p \in Short(list, n + 1)
    PROVE  BisectStep(list, seq, g, p) = BisectStep(list, seq, h, p)
<1> DEFINE mid == (p[1] + p[2]) \div 2
<1>1. p \in Spans(list) /\ p[2] - p[1] < n + 1
  BY DEF Short
<1>2. CASE p[1] > p[2]
  BY <1>2 DEF BisectStep
<1>3. CASE ~(p[1] > p[2])
  <2>1. p[1] <= p[2]
    BY <1>1, <1>3 DEF Spans
  <2>2. <<mid + 1, p[2]>> \in Short(list, n) /\ <<p[1], mid - 1>> \in Short(list, n)
    BY <1>1, <2>1, Halves
  <2>3. g[<<mid + 1, p[2]>>] = h[<<mid + 1, p[2]>>] /\ g[<<p[1], mid - 1>>] = h[<<p[1], mid - 1>>]
    BY <2>2
  <2> QED
    BY <2>3 DEF BisectStep
<1> QED
  BY <1>2, <1>3

LEMMA ShortGrows ==
    ASSUME NEW list \in Seq(Nat), NEW n \in Nat
    PROVE  Short(list, n) \subseteq Short(list, n + 1)
BY DEF Short, Spans

LEMMA BisectIsDefined ==
    ASSUME NEW list \in Seq(Nat), NEW seq
    PROVE  \A n \in Nat : \E g :
              g = [p \in Short(list, n) |-> BisectStep(list, seq, g, p)]
<1> DEFINE P(n) == \E g : g = [p \in Short(list, n) |-> BisectStep(list, seq, g, p)]
           T == { n \in Nat : P(n) }
<1>1. P(0)
  <2> DEFINE g == [p \in Short(list, 0) |-> -1]
  <2>1. ASSUME NEW p \in Short(list, 0) PROVE BisectStep(list, seq, g, p) = -1
    <3>1. p[1] > p[2]
      BY DEF Short, Spans
    <3> QED
      BY <3>1 DEF BisectStep
  <2>2. g = [p \in Short(list, 0) |-> BisectStep(list, seq, g, p)]
    BY <2>1
  <2> HIDE DEF g
  <2> QED
    BY <2>2
<1>2. ASSUME NEW n \in Nat, P(n) PROVE P(n + 1)
  <2>1. PICK g : g = [p \in Short(list, n) |-> BisectStep(list, seq, g, p)]
    BY <1>2
  <2> DEFINE h == [p \in Short(list, n + 1) |-> BisectStep(list, seq, g, p)]
  <2>2. ASSUME NEW p \in Short(list, n) PROVE g[p] = h[p]
    BY <2>1, ShortGrows
  <2>3. ASSUME NEW p \in Short(list, n + 1)
        PROVE  BisectStep(list, seq, g, p) = BisectStep(list, seq, h, p)
    <3> HIDE DEF h
    <3> QED
      BY <2>2, BisectStepsDepend
  <2>4. h = [p \in Short(list, n + 1) |-> BisectStep(list, seq, h, p)]
    BY <2>3
  <2> HIDE DEF h
  <2> QED
    BY <2>4
<1> HIDE DEF P
<1>3. 0 \in T /\ \A n \in Nat : n \in T => n + 1 \in T
  BY <1>1, <1>2
<1> HIDE DEF T
<1>4. \A n \in Nat : n \in T
  BY <1>3, Induction
<1> QED
  BY <1>4 DEF P, T

\* The number is at the position pos of the span p, or pos is -1 and it is not in
\* the span.
Located(list, seq, p, pos) ==
    \/ pos \in p[1] .. p[2] /\ list[pos + 1] = seq
    \/ pos = -1 /\ \A k \in p[1] .. p[2] : list[k + 1] # seq

LEMMA SpanPositions ==
    ASSUME NEW list \in Seq(Nat), NEW p \in Spans(list), NEW k \in p[1] .. p[2]
    PROVE  k \in Int /\ k + 1 \in 1 .. Len(list)
<1> DEFINE b == p[1]   e == p[2]
<1>1. b \in 0 .. Len(list) /\ e \in -1 .. Len(list) - 1 /\ Len(list) \in Nat /\ k \in b .. e
  BY DEF Spans
<1> HIDE DEF b, e
<1> QED
  BY <1>1

LEMMA Splits ==
    ASSUME NEW b \in Int, NEW e \in Int, NEW mid \in b .. e
    PROVE  /\ \A k \in b .. e : k <= mid \/ k \in mid + 1 .. e
           /\ \A k \in mid + 1 .. e : k \in b .. e
           /\ \A k \in b .. e : k >= mid \/ k \in b .. mid - 1
           /\ \A k \in b .. mid - 1 : k \in b .. e
OBVIOUS

LEMMA StepLocates ==
    ASSUME NEW list \in Seq(Nat), Ascending(list), NEW seq \in Nat, NEW n \in Nat, NEW g,
           \A p \in Short(list, n) : Located(list, seq, p, g[p]),
           NEW p \in Short(list, n + 1)
    PROVE  Located(list, seq, p, BisectStep(list, seq, g, p))
<1> DEFINE mid == (p[1] + p[2]) \div 2
<1>1. p \in Spans(list) /\ p[2] - p[1] < n + 1 /\ p[1] \in Nat /\ p[2] \in Int
      /\ p[2] + 1 <= Len(list) /\ Len(list) \in Nat
  BY DEF Short, Spans
<1>2. CASE p[1] > p[2]
  BY <1>1, <1>2 DEF BisectStep, Located
<1>3. CASE ~(p[1] > p[2])
  <2>1. p[1] <= p[2]
    BY <1>1, <1>3
  <2>2. /\ mid \in p[1] .. p[2] /\ mid + 1 \in 1 .. Len(list)
        /\ <<mid + 1, p[2]>> \in Short(list, n) /\ <<p[1], mid - 1>> \in Short(list, n)
    BY <1>1, <2>1, Halves
  <2> DEFINE upper == <<mid + 1, p[2]>>   lower == <<p[1], mid - 1>>
  <2>3. BisectStep(list, seq, g, p) = IF seq = list[mid + 1] THEN mid
                                      ELSE IF seq > list[mid + 1] THEN g[upper] ELSE g[lower]
    BY <1>3 DEF BisectStep
  <2>4. Located(list, seq, upper, g[upper]) /\ Located(list, seq, lower, g[lower])
    BY <2>2
  <2>5. upper[1] = mid + 1 /\ upper[2] = p[2] /\ lower[1] = p[1] /\ lower[2] = mid - 1
    OBVIOUS
  <2> HIDE DEF mid, upper, lower
  <2>6. \A k \in 1 .. Len(list) : list[k] \in Nat
    BY ElementOfSeq
  <2>10. mid \in Int /\ \A k \in p[1] .. p[2] : k \in Int /\ k + 1 \in 1 .. Len(list)
    BY <1>1, <2>2, SpanPositions
  <2>11. p[1] \in Int /\ p[2] \in Int /\ mid \in p[1] .. p[2]
    BY <1>1, <2>2
  <2>7. CASE seq = list[mid + 1]
    BY <2>2, <2>3, <2>7 DEF Located
  <2>8. CASE seq > list[mid + 1]
    <3>1. \A k \in p[1] .. p[2] : k <= mid => list[k + 1] # seq
      <4> SUFFICES ASSUME NEW k \in p[1] .. p[2], k <= mid PROVE list[k + 1] # seq
        OBVIOUS
      <4>1. k + 1 \in 1 .. Len(list) /\ k + 1 <= mid + 1
        BY <2>10
      <4>2. list[k + 1] \in Nat /\ list[mid + 1] \in Nat /\ list[k + 1] <= list[mid + 1]
        BY <2>2, <4>1, NoneIsAbove
      <4> QED
        BY <2>8, <4>2
    <3>2. \A k \in p[1] .. p[2] : k <= mid \/ k \in mid + 1 .. p[2]
      BY <2>11, Splits
    <3>3. \A k \in mid + 1 .. p[2] : k \in p[1] .. p[2]
      BY <2>11, Splits
    <3>4. BisectStep(list, seq, g, p) = g[upper]
      BY <2>2, <2>3, <2>6, <2>8
    <3> QED
      BY <2>4, <2>5, <3>1, <3>2, <3>3, <3>4 DEF Located
  <2>9. CASE seq < list[mid + 1]
    <3>1. \A k \in p[1] .. p[2] : k >= mid => list[k + 1] # seq
      <4> SUFFICES ASSUME NEW k \in p[1] .. p[2], k >= mid PROVE list[k + 1] # seq
        OBVIOUS
      <4>1. k + 1 \in 1 .. Len(list) /\ mid + 1 <= k + 1
        BY <2>10
      <4>2. list[mid + 1] \in Nat /\ list[k + 1] \in Nat /\ list[mid + 1] <= list[k + 1]
        BY <2>2, <4>1, NoneIsAbove
      <4> QED
        BY <2>9, <4>2
    <3>2. \A k \in p[1] .. p[2] : k >= mid \/ k \in p[1] .. mid - 1
      BY <2>11, Splits
    <3>3. \A k \in p[1] .. mid - 1 : k \in p[1] .. p[2]
      BY <2>11, Splits
    <3>4. BisectStep(list, seq, g, p) = g[lower]
      BY <2>2, <2>3, <2>6, <2>9
    <3> QED
      BY <2>4, <2>5, <3>1, <3>2, <3>3, <3>4 DEF Located
  <2> QED
    BY <2>2, <2>6, <2>7, <2>8, <2>9
<1> QED
  BY <1>2, <1>3

\* In an ascending list the bisection finds a number exactly if it is there.
LEMMA FindLocates ==
    ASSUME NEW list \in Seq(Nat), Ascending(list), NEW seq \in Nat
    PROVE  Located(list, seq, <<0, Len(list) - 1>>, Find(list, seq))
<1> DEFINE found == CHOOSE g : g = [p \in Spans(list) |-> BisectStep(list, seq, g, p)]
           T == { n \in Nat : \A p \in Short(list, n) : Located(list, seq, p, found[p]) }
<1>1. Find(list, seq) = found[<<0, Len(list) - 1>>]
  BY DEF Find, Bisect, BisectStep, Spans
<1>2. Len(list) \in Nat
  OBVIOUS
<1>3. Spans(list) = Short(list, Len(list))
  BY <1>2 DEF Short, Spans
<1>4. found = [p \in Spans(list) |-> BisectStep(list, seq, found, p)]
  BY <1>2, <1>3, BisectIsDefined
<1> HIDE DEF found
<1>5. \A n \in Nat : Short(list, n) \subseteq Spans(list)
  BY DEF Short
<1>6. 0 \in T
  <2> SUFFICES ASSUME NEW p \in Short(list, 0) PROVE Located(list, seq, p, found[p])
    OBVIOUS
  <2>1. p \in Spans(list) /\ p[1] \in Int /\ p[2] \in Int /\ p[1] > p[2]
    BY DEF Short, Spans
  <2>2. found[p] = -1
    BY <1>4, <2>1 DEF BisectStep
  <2> QED
    BY <2>1, <2>2 DEF Located
<1>7. ASSUME NEW n \in Nat, n \in T PROVE n + 1 \in T
  <2> SUFFICES ASSUME NEW p \in Short(list, n + 1) PROVE Located(list, seq, p, found[p])
    OBVIOUS
  <2>1. found[p] = BisectStep(list, seq, found, p)
    BY <1>4, <1>5
  <2>2. \A q \in Short(list, n) : Located(list, seq, q, found[q])
    BY <1>7
  <2> QED
    BY <2>1, <2>2, StepLocates
<1>8. \A n \in Nat : n \in T
  <2> HIDE DEF T
  <2> QED
    BY <1>6, <1>7, Induction
<1>9. <<0, Len(list) - 1>> \in Short(list, Len(list))
  BY <1>2 DEF Short, Spans
<1> QED
  BY <1>1, <1>2, <1>8, <1>9

LEMMA FindExact ==
    ASSUME NEW list \in Seq(Nat), Ascending(list), NEW seq \in Nat
    PROVE  /\ Find(list, seq) # -1 <=> seq \in ToSet(list)
           /\ Find(list, seq) # -1 => /\ Find(list, seq) + 1 \in 1 .. Len(list)
                                      /\ list[Find(list, seq) + 1] = seq
<1> DEFINE pos == Find(list, seq)
<1>1. Len(list) \in Nat
  OBVIOUS
<1>2. \/ pos \in 0 .. Len(list) - 1 /\ list[pos + 1] = seq
      \/ pos = -1 /\ \A k \in 0 .. Len(list) - 1 : list[k + 1] # seq
  BY FindLocates DEF Located
<1> HIDE DEF pos
<1>3. ASSUME pos # -1
      PROVE  pos + 1 \in 1 .. Len(list) /\ list[pos + 1] = seq /\ seq \in ToSet(list)
  <2>1. pos + 1 \in 1 .. Len(list) /\ list[pos + 1] = seq
    BY <1>1, <1>2, <1>3
  <2> QED
    BY <2>1, ToSetElements
<1>4. ASSUME seq \in ToSet(list) PROVE pos # -1
  <2>1. PICK k \in 1 .. Len(list) : seq = list[k]
    BY <1>4, ToSetElements
  <2>2. k - 1 \in 0 .. Len(list) - 1 /\ (k - 1) + 1 = k
    BY <1>1
  <2> QED
    BY <1>1, <1>2, <2>1, <2>2
<1> QED
  BY <1>3, <1>4 DEF pos

-----------------------------------------------------------------------------
(* The calls. *)

IInv ==
    /\ next \in Nat /\ next1 \in Words /\ next2 \in Words
    /\ undone \in Seq(Nat) /\ Ascending(undone)

LEMMA InitIInv == Init => IInv
BY WordType DEF Init, IInv, Ascending

\* What the body of checkSequence does to a window and a list.
LEMMA InWindow ==
    ASSUME NEW n \in Nat, NEW n1 \in Words, NEW n2 \in Words, NEW s \in Nat,
           n <= s, s < n + 2 * Window, NEW u \in Seq(Nat), Ascending(u),
           SetInWindow(s, n, n1, n2, u)
    PROVE  /\ next' = n /\ next1' \in Words /\ next2' \in Words /\ Count(s)
           /\ undone' \in Seq(Nat) /\ Ascending(undone')
           /\ ToSet(undone') = { x \in ToSet(u) : s <= x + Distance }
           /\ \/ /\ s < n + Window
                 /\ s - n \notin BitsOf(n1)
                 /\ BitsOf(next1') = BitsOf(n1) \cup {s - n}
                 /\ next2' = n2
              \/ /\ n + Window <= s
                 /\ s - (n + Window) \notin BitsOf(n2)
                 /\ BitsOf(next2') = BitsOf(n2) \cup {s - (n + Window)}
                 /\ next1' = n1
<1> DEFINE index == s - n   pos == index \div ByteBits   offset == index % ByteBits
<1>1. /\ next' = n /\ undone' = removeOldUndone(u, s) /\ Count(s)
      /\ \/ /\ pos < Bytes
            /\ IsUnset(pos, offset, n1)
            /\ next1' = setExecuted(pos, offset, n1)
            /\ next2' = n2
         \/ /\ pos >= Bytes
            /\ IsUnset(pos - Bytes, offset, n2)
            /\ next1' = n1
            /\ next2' = setExecuted(pos - Bytes, offset, n2)
  BY DEF SetInWindow
<1>2. index \in Nat /\ index < 2 * Window
  BY WindowType
<1>3. /\ pos \in Nat /\ offset \in 0 .. ByteBits - 1
      /\ index = pos * ByteBits + offset
      /\ index < Window => pos < Bytes
      /\ index >= Window => /\ pos >= Bytes
                            /\ index - Window = (pos - Bytes) * ByteBits + offset
  BY <1>2, IndexSplits
<1>4. ASSUME NEW w \in Words, NEW p \in Nat, p < Bytes, IsUnset(p, offset, w)
      PROVE  LET i == p * ByteBits + offset
             IN  /\ i \in 0 .. Window - 1 /\ i \notin BitsOf(w)
                 /\ setExecuted(p, offset, w) \in Words
                 /\ BitsOf(setExecuted(p, offset, w)) = BitsOf(w) \cup {i}
  <2> DEFINE i == p * ByteBits + offset
  <2>1. i \in 0 .. Window - 1
    BY <1>3, <1>4, PositionType
  <2>2. Bit(w, i) = 0
    BY <1>3, <1>4, BitOfByte, WordType DEF IsUnset
  <2>3. setExecuted(p, offset, w) = w + Pow2[i]
    BY DEF setExecuted
  <2> HIDE DEF i
  <2>4. i \notin BitsOf(w)
    BY <2>2 DEF BitsOf
  <2>5. w + Pow2[i] \in Words /\ BitsOf(w + Pow2[i]) = BitsOf(w) \cup {i}
    BY <2>1, <2>2, SetBit
  <2> QED
    BY <2>1, <2>3, <2>4, <2>5 DEF i
<1> HIDE DEF index, pos, offset
<1>5. undone' \in Seq(Nat) /\ Ascending(undone')
      /\ ToSet(undone') = { x \in ToSet(u) : s <= x + Distance }
  BY <1>1, RecentRemain
<1>6. CASE pos < Bytes /\ IsUnset(pos, offset, n1)
           /\ next1' = setExecuted(pos, offset, n1) /\ next2' = n2
  <2>1. /\ index \in 0 .. Window - 1 /\ index \notin BitsOf(n1)
        /\ next1' \in Words /\ BitsOf(next1') = BitsOf(n1) \cup {index}
    BY <1>3, <1>4, <1>6
  <2>2. s < n + Window /\ index = s - n
    BY <2>1, WindowType DEF index
  <2> QED
    BY <1>1, <1>5, <1>6, <2>1, <2>2
<1>7. CASE pos >= Bytes /\ IsUnset(pos - Bytes, offset, n2)
           /\ next1' = n1 /\ next2' = setExecuted(pos - Bytes, offset, n2)
  <2> DEFINE p == pos - Bytes
  <2>1. p \in Nat
    BY <1>3, <1>7, BitAssumption
  <2>2. index >= Window /\ index - Window = p * ByteBits + offset
    BY <1>2, <1>3, <1>7, WindowType, BitAssumption
  <2>3. p < Bytes
    <3>1. SUFFICES ASSUME Bytes <= p PROVE FALSE
      BY <2>1, BitAssumption
    <3> HIDE DEF p
    <3>2. ByteBits * Bytes <= ByteBits * p
      BY <2>1, <3>1, TimesMonotonic, BitAssumption
    <3>3. ByteBits * p = p * ByteBits /\ ByteBits * Bytes = Window
      BY <2>1, BitAssumption DEF Window
    <3> QED
      BY <1>2, <1>3, <2>1, <2>2, <3>2, <3>3, WindowType, BitAssumption
  <2>4. /\ index - Window \in 0 .. Window - 1 /\ index - Window \notin BitsOf(n2)
        /\ next2' \in Words /\ BitsOf(next2') = BitsOf(n2) \cup {index - Window}
    BY <1>4, <1>7, <2>1, <2>2, <2>3
  <2>5. n + Window <= s /\ index - Window = s - (n + Window)
    BY <2>2, WindowType DEF index
  <2> QED
    BY <1>1, <1>5, <1>7, <2>4, <2>5
<1> QED
  BY <1>1, <1>6, <1>7

LEMMA CompactedNumbers ==
    ASSUME IInv
    PROVE  /\ Compacted \in Seq(Nat) /\ Ascending(Compacted)
           /\ ToSet(Compacted) = { next + i : i \in (0 .. Window - 1) \ BitsOf(next1) }
<1>1. CASE next1 = WordMax
  <2>1. BitsOf(next1) = 0 .. Window - 1
    BY <1>1, AllOnes, WindowType DEF BitsOf, WordMax
  <2>2. Compacted = <<>>
    BY <1>1 DEF Compacted
  <2>3. ToSet(<<>>) = {} /\ Ascending(<<>>) /\ <<>> \in Seq(Nat)
    BY DEF ToSet, Ascending
  <2> QED
    BY <2>1, <2>2, <2>3
<1>2. CASE next1 # WordMax
  BY <1>2, AddedNumbers, WordType DEF IInv, Compacted
<1> QED
  BY <1>1, <1>2

LEMMA UndoneStep ==
    ASSUME IInv, NEW s \in Numbers, trySetDone(s)
    PROVE  IInv' /\ Sets!CheckSequence(s)
<1> DEFINE k == Find(undone, s) + 1
<1>1. s \in Nat /\ undone \in Seq(Nat) /\ Ascending(undone)
  BY NumbersAssumption DEF IInv
<1>2. /\ s < next /\ Find(undone, s) # -1 /\ undone' = RemoveAt(undone, k) /\ Count(s)
      /\ next' = next /\ next1' = next1 /\ next2' = next2
  BY DEF trySetDone
<1>3. s \in ToSet(undone) /\ k \in 1 .. Len(undone) /\ undone[k] = s
  BY <1>1, <1>2, FindExact
<1> HIDE DEF k
<1>4. undone' \in Seq(Nat) /\ Ascending(undone') /\ ToSet(undone') = ToSet(undone) \ {s}
  BY <1>1, <1>2, <1>3, OneRemoved
<1>5. Sets!ExecuteUndone(s)
  BY <1>2, <1>3, <1>4 DEF Sets!ExecuteUndone, Count, Sets!Count
<1> QED
  BY <1>2, <1>4, <1>5 DEF IInv, Sets!CheckSequence

LEMMA WithinStep ==
    ASSUME IInv, NEW s \in Numbers, SetWithin(s)
    PROVE  IInv' /\ Sets!CheckSequence(s)
<1>1. s \in Nat /\ next <= s /\ s < next + 2 * Window /\ SetInWindow(s, next, next1, next2, undone)
  BY NumbersAssumption DEF SetWithin
<1>2. /\ next' = next /\ next1' \in Words /\ next2' \in Words /\ Count(s)
      /\ undone' \in Seq(Nat) /\ Ascending(undone')
      /\ ToSet(undone') = { x \in ToSet(undone) : s <= x + Distance }
      /\ \/ /\ s < next + Window
            /\ s - next \notin BitsOf(next1)
            /\ BitsOf(next1') = BitsOf(next1) \cup {s - next}
            /\ next2' = next2
         \/ /\ next + Window <= s
            /\ s - (next + Window) \notin BitsOf(next2)
            /\ BitsOf(next2') = BitsOf(next2) \cup {s - (next + Window)}
            /\ next1' = next1
  BY <1>1, InWindow DEF IInv
<1>3. Sets!ExecuteLower(s) \/ Sets!ExecuteUpper(s)
  BY <1>1, <1>2 DEF Sets!ExecuteLower, Sets!ExecuteUpper, Sets!Recent, Count, Sets!Count
<1> QED
  BY <1>2, <1>3 DEF IInv, Sets!CheckSequence

LEMMA CompactStep ==
    ASSUME IInv, NEW s \in Numbers, CompactAndSet(s)
    PROVE  IInv' /\ Sets!CheckSequence(s)
<1> DEFINE list == undone \o Compacted   n == next + Window
<1>1. /\ s \in Nat /\ s >= next + 2 * Window /\ s < next + 3 * Window
      /\ AddsInOrder(undone, Compacted) /\ SetInWindow(s, n, next2, 0, list)
  BY NumbersAssumption DEF CompactAndSet
<1>2. /\ Compacted \in Seq(Nat) /\ Ascending(Compacted)
      /\ ToSet(Compacted) = Sets!Unexecuted
  BY CompactedNumbers DEF Sets!Unexecuted, Sets!Positions
<1>3. Ascending(list) /\ \A x \in ToSet(undone), y \in ToSet(Compacted) : x < y
  BY <1>1, <1>2, AddedInOrder DEF IInv
<1>4. list \in Seq(Nat) /\ ToSet(list) = ToSet(undone) \cup Sets!Unexecuted
  BY <1>2, ConcatElements DEF IInv
<1> HIDE DEF list
<1>5. n \in Nat /\ n <= s /\ s < n + 2 * Window /\ n + Window <= s /\ next2 \in Words
  BY <1>1, WindowType DEF IInv
<1>6. /\ next' = n /\ next1' \in Words /\ next2' \in Words /\ Count(s)
      /\ undone' \in Seq(Nat) /\ Ascending(undone')
      /\ ToSet(undone') = { x \in ToSet(list) : s <= x + Distance }
      /\ BitsOf(next2') = BitsOf(0) \cup {s - (n + Window)}
      /\ next1' = next2
  <2> HIDE DEF n
  <2>1. ~(s < n + Window)
    BY <1>1, <1>5, WindowType
  <2> QED
    BY <1>1, <1>3, <1>4, <1>5, <2>1, InWindow, WordType
<1>7. s - (n + Window) = s - (next + 2 * Window)
  BY <1>1, WindowType DEF IInv
<1>8. BitsOf(next2') = {s - (next + 2 * Window)}
  BY <1>6, <1>7, BitsOfZero
<1>9. Sets!ExecuteBeyond(s)
  BY <1>1, <1>2, <1>3, <1>4, <1>6, <1>8
     DEF Sets!ExecuteBeyond, Sets!AppendsInOrder, Sets!Recent, Count, Sets!Count
<1> QED
  BY <1>5, <1>6, <1>9 DEF IInv, Sets!CheckSequence

LEMMA CallStep ==
    ASSUME IInv, [Next]_vars
    PROVE  IInv' /\ [Sets!Next]_(Sets!vars)
<1>1. ASSUME NEW s \in Numbers, checkSequence(s) PROVE IInv' /\ Sets!Next
  BY <1>1, UndoneStep, WithinStep, CompactStep DEF checkSequence, Sets!Next
<1>2. CASE UNCHANGED vars
  BY <1>2 DEF vars, IInv, Sets!vars
<1> QED
  BY <1>1, <1>2 DEF Next

LEMMA Invariance == Spec => []IInv
BY InitIInv, CallStep, PTL DEF Spec

\* The bisection of trySetDone finds exactly the numbers of the list, whatever
\* was submitted.
THEOREM BisectionExact == Spec => []BisectionIsExact
<1>1. IInv => BisectionIsExact
  BY FindExact, NumbersAssumption DEF IInv, BisectionIsExact
<1> QED
  BY <1>1, Invariance, PTL

\* The integers, bytes and list of the contract implement the sets of
\* AlephiumSequence, call by call.
THEOREM BytesImplementSets == Spec => ImplementsSets
<1>1. Init => Sets!Init
  BY BitsOfZero DEF Init, Sets!Init, ToSet
<1> QED
  BY <1>1, CallStep, Invariance, PTL DEF Spec, ImplementsSets, Sets!Spec

-----------------------------------------------------------------------------
(* What the contract keeps of what AlephiumSequence promises. *)

SetsP ==
    INSTANCE AlephiumSequenceProofs
        WITH Sequences <- Numbers, next1 <- BitsOf(next1), next2 <- BitsOf(next2),
             undone <- ToSet(undone)

\* The theorems about AlephiumSequence are about the sets the contract implements.
LEMMA SetsAreSame == Sets!Init /\ [][Sets!Next]_(Sets!vars) => SetsP!Spec
<1>1. Sets!Init => SetsP!Init
  BY DEF Sets!Init, SetsP!Init
<1>2. [Sets!Next]_(Sets!vars) => [SetsP!Next]_(SetsP!vars)
  BY DEF Sets!Next, Sets!CheckSequence, Sets!ExecuteUndone, Sets!ExecuteLower,
     Sets!ExecuteUpper, Sets!ExecuteBeyond, Sets!Recent, Sets!Count, Sets!Unexecuted,
     Sets!Positions, Sets!AppendsInOrder, Sets!vars,
     SetsP!Next, SetsP!CheckSequence, SetsP!ExecuteUndone, SetsP!ExecuteLower,
     SetsP!ExecuteUpper, SetsP!ExecuteBeyond, SetsP!Recent, SetsP!Count,
     SetsP!Unexecuted, SetsP!Positions, SetsP!AppendsInOrder, SetsP!vars
<1> QED
  BY <1>1, <1>2, PTL DEF SetsP!Spec

\* The constants are as AlephiumSequence assumes them.
LEMMA SetsAssumptions == Window \in Nat \ {0} /\ Distance \in Nat /\ Numbers \subseteq Nat
BY WindowType, DistanceAssumption, NumbersAssumption

LEMMA ImplementsTheirs == Spec => SetsP!Spec
BY BytesImplementSets, SetsAreSame, PTL DEF ImplementsSets, Sets!Spec

\* No VAA is executed twice by the contract as it stands, with its integers, its
\* bytes and its list (checkSequence).
THEOREM BytesExecuteOnce == Spec => [](\A s \in Numbers : executions[s] <= 1)
<1>1. SetsP!Spec => []SetsP!AtMostOnce
  BY SetsP!ExecutedOnce, SetsAssumptions
<1>2. SetsP!AtMostOnce => \A s \in Numbers : executions[s] <= 1
  BY DEF SetsP!AtMostOnce
<1> QED
  BY <1>1, <1>2, ImplementsTheirs, PTL

\* A number is given up by the contract only after one more than Distance above
\* it was executed (removeOldUndone), and at no other time is the history of a
\* number touched: the promise of ReplayProtection, kept by the bytes.
THEOREM BytesKeepPromise == Spec => SetsP!PromiseKept
BY SetsP!KeepsPromise, SetsAssumptions, ImplementsTheirs, PTL

\* The list lies below the window.
Below == \A x \in ToSet(undone) : x < next

LEMMA Contents == Spec => [](IInv /\ Below /\ SetsP!MarksAreTrue)
<1>1. SetsP!Spec => []SetsP!UndoneIsShort
  BY SetsP!ListIsShort, SetsAssumptions
<1>2. SetsP!UndoneIsShort => Below
  BY DEF SetsP!UndoneIsShort, Below
<1>3. SetsP!Spec => []SetsP!MarksAreTrue
  BY SetsP!MarksTrue, SetsAssumptions
<1> QED
  BY <1>1, <1>2, <1>3, ImplementsTheirs, Invariance, PTL

\* add never fails: what compact takes out of the bitmap is above the list, and
\* in ascending order (the assertion of UndoneSequence.add).
LEMMA CompactedIsAbove ==
    ASSUME IInv, Below
    PROVE  AddsInOrder(undone, Compacted)
<1>1. /\ Compacted \in Seq(Nat) /\ Ascending(Compacted)
      /\ ToSet(Compacted) = { next + i : i \in (0 .. Window - 1) \ BitsOf(next1) }
  BY CompactedNumbers
<1>2. undone \in Seq(Nat) /\ Ascending(undone) /\ next \in Nat
  BY DEF IInv
<1>3. \A y \in ToSet(Compacted) : y \in Nat /\ next <= y
  BY <1>1, <1>2
<1>4. \A x \in ToSet(undone) : x \in Nat /\ x < next
  BY <1>2, ToSetElements DEF Below
<1>5. \A x \in ToSet(undone), y \in ToSet(Compacted) : x < y
  BY <1>2, <1>3, <1>4
<1> QED
  BY <1>1, <1>2, <1>5, AddedInOrder

\* The flag that checkSequence looks at for a number of the window.
FlagUnset(s) ==
    LET index  == s - next
        pos    == index \div ByteBits
        offset == index % ByteBits
    IN  IF pos < Bytes THEN IsUnset(pos, offset, next1)
                       ELSE IsUnset(pos - Bytes, offset, next2)

\* None of the checks that a call with s meets fails: the bisection finds it,
\* its flag is clear, or compact can move the window (trySetDone, setExecuted,
\* UndoneSequence.add).
Accepts(s) ==
    /\ s < next => Find(undone, s) # -1
    /\ next <= s /\ s < next + 2 * Window => FlagUnset(s)
    /\ next + 2 * Window <= s => AddsInOrder(undone, Compacted)

LEMMA UnsetWord ==
    ASSUME NEW w \in Words, NEW pos \in Nat, pos < Bytes, NEW offset \in 0 .. ByteBits - 1,
           pos * ByteBits + offset \notin BitsOf(w)
    PROVE  IsUnset(pos, offset, w)
<1> DEFINE i == pos * ByteBits + offset
<1>1. i \in 0 .. Window - 1
  BY PositionType
<1>2. w \in Nat
  BY WordType
<1>3. Bit(Byte(w, pos), offset) = Bit(w, i)
  BY <1>2, BitOfByte
<1> HIDE DEF i
<1>4. Bit(w, i) \in {0, 1}
  BY <1>1, <1>2, BitIsBinary
<1>5. Bit(w, i) # 1
  BY <1>1 DEF BitsOf, i
<1> QED
  BY <1>3, <1>4, <1>5 DEF IsUnset

LEMMA UnexecutedIsUnset ==
    ASSUME IInv, SetsP!MarksAreTrue, NEW s \in Numbers, executions[s] = 0,
           next <= s, s < next + 2 * Window
    PROVE  FlagUnset(s)
<1> DEFINE index == s - next   pos == index \div ByteBits   offset == index % ByteBits
<1>1. s \in Nat /\ next \in Nat /\ next1 \in Words /\ next2 \in Words /\ s >= next
  BY NumbersAssumption DEF IInv
<1>2. index \in Nat /\ index < 2 * Window
  BY <1>1, WindowType
<1>3. /\ pos \in Nat /\ offset \in 0 .. ByteBits - 1
      /\ index = pos * ByteBits + offset
      /\ index < Window => pos < Bytes
      /\ index >= Window => /\ pos >= Bytes
                            /\ index - Window = (pos - Bytes) * ByteBits + offset
  BY <1>2, IndexSplits
<1>4. index \notin BitsOf(next1) /\ s - (next + Window) \notin BitsOf(next2)
  BY <1>1 DEF SetsP!MarksAreTrue, SetsP!Set
<1>5. s - (next + Window) = index - Window
  BY <1>1, WindowType
<1> HIDE DEF index
<1>6. FlagUnset(s) <=> IF pos < Bytes THEN IsUnset(pos, offset, next1)
                                      ELSE IsUnset(pos - Bytes, offset, next2)
  BY DEF FlagUnset, index
<1> HIDE DEF pos, offset
<1>7. CASE pos < Bytes
  BY <1>1, <1>3, <1>4, <1>6, <1>7, UnsetWord
<1>8. CASE pos >= Bytes
  <2> DEFINE p == pos - Bytes
  <2>1. p \in Nat
    BY <1>3, <1>8, BitAssumption
  <2>2. index >= Window
    <3>1. SUFFICES ASSUME index < Window PROVE FALSE
      BY <1>2, WindowType
    <3> QED
      BY <1>3, <1>8, <3>1, BitAssumption
  <2>3. index - Window = p * ByteBits + offset
    BY <1>3, <2>2
  <2>4. p < Bytes
    <3>1. SUFFICES ASSUME Bytes <= p PROVE FALSE
      BY <2>1, BitAssumption
    <3> HIDE DEF p
    <3>2. ByteBits * Bytes <= ByteBits * p
      BY <2>1, <3>1, TimesMonotonic, BitAssumption
    <3>3. ByteBits * p = p * ByteBits /\ ByteBits * Bytes = Window
      BY <2>1, BitAssumption DEF Window
    <3> QED
      BY <1>2, <1>3, <2>1, <2>3, <3>2, <3>3, WindowType, BitAssumption
  <2>5. p * ByteBits + offset \notin BitsOf(next2)
    BY <1>4, <1>5, <2>3
  <2> HIDE DEF p
  <2>6. IsUnset(p, offset, next2)
    BY <1>1, <1>3, <2>1, <2>4, <2>5, UnsetWord
  <2>7. ~(pos < Bytes)
    BY <1>3, <1>8, BitAssumption
  <2> QED
    BY <1>6, <2>6, <2>7 DEF p
<1> QED
  BY <1>3, <1>7, <1>8, BitAssumption

\* An unexecuted number that was not given up is accepted by the contract as it
\* stands, up to one half above the window: the bisection finds it, its flag is
\* clear, the list stays in order, so that no assertion of checkSequence fails.
THEOREM BytesAcceptDue ==
    Spec => [](\A s \in Numbers :
                  executions[s] = 0 /\ s < next + 3 * Window
                  /\ (s < next => s \in ToSet(undone)) => Accepts(s))
<1> DEFINE Due(s) == executions[s] = 0 /\ s < next + 3 * Window
                     /\ (s < next => s \in ToSet(undone))
<1>1. ASSUME IInv, Below, SetsP!MarksAreTrue, NEW s \in Numbers, Due(s)
      PROVE  Accepts(s)
  <2>1. s < next => Find(undone, s) # -1
    BY <1>1, FindExact, NumbersAssumption DEF IInv
  <2>2. next <= s /\ s < next + 2 * Window => FlagUnset(s)
    BY <1>1, UnexecutedIsUnset
  <2>3. AddsInOrder(undone, Compacted)
    BY <1>1, CompactedIsAbove
  <2> QED
    BY <2>1, <2>2, <2>3 DEF Accepts
<1>2. IInv /\ Below /\ SetsP!MarksAreTrue => \A s \in Numbers : Due(s) => Accepts(s)
  BY <1>1
<1> HIDE DEF Due
<1>3. Spec => [](\A s \in Numbers : Due(s) => Accepts(s))
  BY <1>2, Contents, PTL
<1> QED
  BY <1>3 DEF Due
=============================================================================
