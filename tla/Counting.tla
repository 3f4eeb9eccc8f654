------------------------------ MODULE Counting ------------------------------
(***************************************************************************)
(* Facts about numbers that the other proofs rest on: least and greatest   *)
(* elements, which give induction for one predicate at a time, and the     *)
(* remainders of ring buffers and of counters that overflow.               *)
(***************************************************************************)
EXTENDS Integers, WellFoundedInduction, TLAPS

\* A non-empty set of naturals has a least element, and a bounded one a
\* greatest.
LEMMA LeastNat ==
  ASSUME NEW T, T \subseteq Nat, T # {}
  PROVE  \E x \in T : \A y \in T : x <= y
<1>. DEFINE R == {ss \in Nat \X Nat : ss[1] < ss[2]}
<1>1. IsWellFoundedOn(R, Nat)
  BY NatLessThanWellFounded, Zenon DEF OpToRel
<1>2. PICK x \in T : \A y \in T : <<y, x>> \notin R
  <2>. HIDE DEF R
  <2>. QED  BY <1>1, WFMin, Zenon
<1>3. \A y \in T : x <= y
  <2>. SUFFICES ASSUME NEW y \in T  PROVE ~(y < x)
    OBVIOUS
  <2>1. <<y, x>> \in Nat \X Nat
    OBVIOUS
  <2>2. <<y, x>>[1] = y /\ <<y, x>>[2] = x
    OBVIOUS
  <2>. QED  BY <1>2, <2>1, <2>2, Zenon
<1>. QED  BY <1>3, Zenon

LEMMA GreatestNat ==
  ASSUME NEW n \in Nat, NEW T, T \subseteq 1..n, T # {}
  PROVE  \E x \in T : \A y \in T : y <= x
<1>. DEFINE U == {u \in Nat : \E k \in T : u = n - k}
<1>1. U # {}
  <2>1. PICK k \in T : TRUE
    BY Zenon
  <2>2. n - k \in U
    BY <2>1
  <2>. QED  BY <2>2, Zenon
<1>2. PICK u \in U : \A v \in U : u <= v
  <2>1. U \subseteq Nat
    OBVIOUS
  <2>. HIDE DEF U
  <2>. QED  BY <1>1, <2>1, LeastNat, Zenon
<1>3. PICK k \in T : u = n - k
  OBVIOUS
<1>4. \A y \in T : y <= k
  <2>. SUFFICES ASSUME NEW y \in T  PROVE y <= k
    OBVIOUS
  <2>1. n - y \in U
    OBVIOUS
  <2>2. n - k <= n - y
    BY <1>2, <1>3, <2>1, Zenon
  <2>. QED  BY <2>2
<1>. QED  BY <1>4, Zenon

\* Remainders.
LEMMA ModRange ==
  ASSUME NEW n \in Int, NEW m \in Nat \ {0}
  PROVE  n % m \in 0..(m - 1)
OBVIOUS

LEMMA ModSmall ==
  ASSUME NEW m \in Nat \ {0}, NEW n \in 0..(m - 1)
  PROVE  n % m = n
OBVIOUS

LEMMA Quotient ==
  ASSUME NEW n \in Int, NEW m \in Nat \ {0}
  PROVE  \E q \in Int : n = (q * m) + (n % m)
<1>1. n \div m \in Int
  OBVIOUS
<1>2. n = ((n \div m) * m) + (n % m)
  OBVIOUS
<1>. QED  BY <1>1, <1>2, Zenon

LEMMA Remainder ==
  ASSUME NEW n \in Int, NEW m \in Nat \ {0}, NEW q \in Int, NEW r \in 0..(m - 1), n = (q * m) + r
  PROVE  n % m = r
OBVIOUS

\* Multiples of m make no difference.
LEMMA ModShift ==
  ASSUME NEW a \in Int, NEW b \in Int, NEW m \in Nat \ {0}, NEW c \in Int, a = (c * m) + b
  PROVE  a % m = b % m
<1>1. PICK q \in Int : b = (q * m) + (b % m)
  BY Quotient, Zenon
<1>2. PICK r \in 0..(m - 1) : r = b % m
  BY ModRange, Zenon
<1>3. a = ((c + q) * m) + r
  <2>1. b = (q * m) + r
    BY <1>1, <1>2, Zenon
  <2>. QED  BY <2>1
<1>4. c + q \in Int
  OBVIOUS
<1>5. a % m = r
  BY <1>3, <1>4, Remainder, Zenon
<1>. QED  BY <1>2, <1>5, Zenon

LEMMA ModShifted ==
  ASSUME NEW m \in Nat \ {0}
  PROVE  \A a, b, c \in Int : a = (c * m) + b => a % m = b % m
BY ModShift, ZenonT(40)

LEMMA ModAdd ==
  ASSUME NEW a \in Int, NEW b \in Int, NEW m \in Nat \ {0}
  PROVE  ((a % m) + b) % m = (a + b) % m
<1>1. PICK q \in Int : a = (q * m) + (a % m)
  BY Quotient, Zenon
<1>2. PICK r \in 0..(m - 1) : r = a % m
  BY ModRange, Zenon
<1>3. PICK x \in Int, y \in Int : x = a + b /\ y = r + b
  OBVIOUS
<1>4. x = (q * m) + y
  <2>1. PICK t \in Int : t = q * m
    OBVIOUS
  <2>2. a = t + r
    BY <1>1, <1>2, <2>1, Zenon
  <2>3. x = t + y
    BY <1>3, <2>2
  <2>. QED  BY <2>1, <2>3, Zenon
<1>5. x % m = y % m
  BY <1>4, ModShifted, Zenon
<1>. QED  BY <1>2, <1>3, <1>5, Zenon

LEMMA ModSub ==
  ASSUME NEW a \in Int, NEW b \in Int, NEW m \in Nat \ {0}
  PROVE  (b - (a % m)) % m = (b - a) % m
<1>1. PICK q \in Int : a = (q * m) + (a % m)
  BY Quotient, Zenon
<1>2. PICK r \in 0..(m - 1) : r = a % m
  BY ModRange, Zenon
<1>3. a = (q * m) + r
  BY <1>1, <1>2, Zenon
<1>4. PICK x \in Int, y \in Int : x = b - r /\ y = b - a
  OBVIOUS
<1>5. x = (q * m) + y
  <2>1. PICK t \in Int : t = q * m
    OBVIOUS
  <2>2. a = t + r
    BY <1>3, <2>1, Zenon
  <2>3. x = t + y
    BY <1>4, <2>2
  <2>. QED  BY <2>1, <2>3, Zenon
<1>6. x % m = y % m
  BY <1>5, ModShifted, Zenon
<1>. QED  BY <1>2, <1>4, <1>6, Zenon

\* A counter that overflows at a multiple of m can be taken modulo m.
LEMMA ModMod ==
  ASSUME NEW n \in Int, NEW m \in Nat \ {0}, NEW w \in Nat \ {0}, w % m = 0
  PROVE  (n % w) % m = n % m
<1>1. PICK q \in Int : n = (q * w) + (n % w)
  BY Quotient, Zenon
<1>2. w \in Int
  OBVIOUS
<1>3. PICK c \in Int : w = (c * m) + (w % m)
  BY <1>2, Quotient, Zenon
<1>4. PICK r \in 0..(w - 1) : r = n % w
  BY ModRange, Zenon
<1>5. w = c * m
  BY <1>3
<1>6. n = (q * w) + r
  BY <1>1, <1>4, Zenon
<1>7. PICK d \in Int : d = q * c
  OBVIOUS
<1>8. n = (d * m) + r
  BY <1>5, <1>6, <1>7
<1>9. n % m = r % m
  <2>1. r \in Int
    OBVIOUS
  <2>. QED  BY <1>8, <2>1, ModShifted, Zenon
<1>. QED  BY <1>4, <1>9, Zenon

\* Fewer than m positions of a ring of m slots are in different slots.
LEMMA ModDistinct ==
  ASSUME NEW a \in Int, NEW b \in Int, NEW m \in Nat \ {0}, a < b, b - a < m
  PROVE  a % m # b % m
<1>. SUFFICES ASSUME a % m = b % m  PROVE FALSE
  OBVIOUS
<1>1. (b - (a % m)) % m = (b - a) % m
  BY ModSub, Zenon
<1>2. (b - (b % m)) % m = (b - b) % m
  BY ModSub, Zenon
<1>3. b - a \in 0..(m - 1) /\ b - b \in 0..(m - 1) /\ b - b = 0
  OBVIOUS
<1>4. (b - a) % m = b - a /\ (b - b) % m = 0
  BY <1>3, ModSmall, Zenon
<1>. QED  BY <1>1, <1>2, <1>4
=============================================================================
