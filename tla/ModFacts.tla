------------------------------- MODULE ModFacts -------------------------------
(***************************************************************************)
(* Facts about remainders, and about a queue of D slots whose pointers run   *)
(* modulo 2 * D: its level is their difference, its slots are their         *)
(* remainders modulo D.                                                     *)
(***************************************************************************)
EXTENDS Integers, TLAPS

(* Quotient and remainder make up the number.                                *)
LEMMA DivMod == ASSUME NEW a \in Int, NEW n \in Nat \ {0}
  PROVE /\ a % n \in 0 .. n-1 /\ a \div n \in Int /\ a = n * (a \div n) + (a % n)
  OBVIOUS

(* The one multiple of n between -n and n is 0.                              *)
LEMMA MulSmall == ASSUME NEW n \in Nat \ {0}, NEW q \in Int, n * q < n, n * q > -n
  PROVE q = 0
  <1>1. CASE q >= 1
    <2>1. n * q >= n
      BY <1>1, SMT
    <2> QED
      BY <2>1
  <1>2. CASE q <= -1
    <2>1. n * q <= -n
      BY <1>2, SMT
    <2> QED
      BY <2>1
  <1> QED
    BY <1>1, <1>2

(* A remainder is known by its range.                                         *)
LEMMA ModIs ==
    ASSUME NEW n \in Nat \ {0}, NEW q \in Int, NEW r \in 0 .. n-1, NEW a \in Int, a = n * q + r
    PROVE a % n = r
  <1> DEFINE p == a \div n
             s == a % n
  <1>1. p \in Int /\ s \in 0 .. n-1 /\ a = n * p + s
    BY DivMod
  <1> HIDE DEF p, s
  <1>2. n * (p - q) = r - s
    BY <1>1, SMT
  <1>3. p - q = 0
    BY <1>1, <1>2, MulSmall, SMT
  <1>4. r = s
    BY <1>1, <1>3, SMT
  <1> QED
    BY <1>4 DEF s

(* Multiples of n do not change a remainder.                                  *)
LEMMA ModAdd == ASSUME NEW n \in Nat \ {0}, NEW a \in Int, NEW q \in Int
  PROVE (a + n * q) % n = a % n
  <1> DEFINE p == a \div n
             s == a % n
  <1>1. p \in Int /\ s \in 0 .. n-1 /\ a = n * p + s
    BY DivMod
  <1> HIDE DEF p, s
  <1>2. a + n * q = n * (p + q) + s
    BY <1>1, SMT
  <1>3. (a + n * q) % n = s
    BY <1>1, <1>2, ModIs
  <1> QED
    BY <1>3 DEF s

(* Numbers that differ by a multiple of n have the same remainder.             *)
LEMMA ModSame ==
    ASSUME NEW n \in Nat \ {0}, NEW a \in Int, NEW b \in Int, NEW q \in Int, a = b + n * q
    PROVE a % n = b % n
  BY ModAdd

(* What is added to a remainder might as well be added before.                 *)
LEMMA ModPlus == ASSUME NEW n \in Nat \ {0}, NEW a \in Int, NEW b \in Int
  PROVE ((a % n) + b) % n = (a + b) % n /\ (b - (a % n)) % n = (b - a) % n
  <1> DEFINE p == a \div n
             s == a % n
  <1>1. p \in Int /\ s \in Int /\ a = n * p + s
    BY DivMod
  <1> HIDE DEF p, s
  <1>2. a + b \in Int /\ s + b \in Int /\ b - a \in Int /\ b - s \in Int /\ -p \in Int
    BY <1>1
  <1>3. a + b = (s + b) + n * p
    BY <1>1, SMT
  <1>4. b - a = (b - s) + n * (-p)
    BY <1>1, SMT
  <1>5. (a + b) % n = (s + b) % n
    BY <1>1, <1>2, <1>3, ModSame, Zenon
  <1>6. (b - a) % n = (b - s) % n
    BY <1>1, <1>2, <1>4, ModSame, Zenon
  <1> QED
    BY <1>5, <1>6 DEF s

(* Numbers that are less than n apart have different remainders.               *)
LEMMA ModApart == ASSUME NEW n \in Nat \ {0}, NEW a \in Int, NEW b \in Int, a < b, b - a < n
  PROVE a % n # b % n
  <1> SUFFICES ASSUME a % n = b % n PROVE FALSE
    OBVIOUS
  <1> DEFINE p == a \div n
             q == b \div n
             s == a % n
  <1>1. p \in Int /\ q \in Int /\ s \in 0 .. n-1 /\ a = n * p + s /\ b = n * q + s
    BY DivMod
  <1> HIDE DEF p, q, s
  <1>2. b - a = n * (q - p)
    BY <1>1, SMT
  <1>3. q - p \in Int /\ n * (q - p) < n /\ n * (q - p) > -n
    BY <1>1, <1>2
  <1>4. q - p = 0
    BY <1>3, MulSmall
  <1>5. n * (q - p) = 0
    BY <1>4
  <1> QED
    BY <1>2, <1>5

(* The level follows the pointers.                                            *)
LEMMA LevelMoves ==
    ASSUME NEW n \in Nat \ {0}, NEW w \in Int, NEW r \in Int
    PROVE /\ (w - r) % n \in 0 .. n - 1
          /\ ((w - r) % n) + 1 < n => (((w + 1) % n) - r) % n = ((w - r) % n) + 1
          /\ (w - r) % n > 0 => (w - ((r + 1) % n)) % n = ((w - r) % n) - 1
          /\ (((w + 1) % n) - ((r + 1) % n)) % n = (w - r) % n
  <1> DEFINE p == (w - r) \div n
             L == (w - r) % n
             x == (w + 1) % n
             y == (r + 1) % n
  <1>1. p \in Int /\ L \in 0 .. n - 1 /\ w - r = n * p + L
    BY DivMod
  <1>2. x \in Int /\ y \in Int /\ w + 1 \in Int /\ r + 1 \in Int /\ -r \in Int /\ -y \in Int
    BY DivMod
  <1>3. (x + (-r)) % n = ((w + 1) + (-r)) % n
    BY <1>2, ModPlus
  <1>4. (w - y) % n = (w - (r + 1)) % n
    BY <1>2, ModPlus
  <1>5. (x + (-y)) % n = ((w + 1) + (-y)) % n
    BY <1>2, ModPlus
  <1>6. ((w + 1) - y) % n = ((w + 1) - (r + 1)) % n
    BY <1>2, ModPlus
  <1> HIDE DEF p, L, x, y
  <1>7. x + (-r) = x - r /\ x + (-y) = x - y /\ (w + 1) + (-y) = (w + 1) - y
    BY <1>2
  <1>8. ASSUME L + 1 < n PROVE ((w + 1) + (-r)) % n = L + 1
    <2>1. (w + 1) + (-r) = n * p + (L + 1)
      BY <1>1
    <2>2. L + 1 \in 0 .. n - 1 /\ (w + 1) + (-r) \in Int
      BY <1>1, <1>8
    <2> DEFINE a == (w + 1) + (-r)
               k == L + 1
    <2>3. a \in Int /\ k \in 0 .. n - 1 /\ a = n * p + k /\ p \in Int
      BY <1>1, <2>1, <2>2
    <2> HIDE DEF a, k
    <2>4. a % n = k
      BY <2>3, ModIs
    <2> QED
      BY <2>4 DEF a, k
  <1>9. ASSUME L > 0 PROVE (w - (r + 1)) % n = L - 1
    <2>1. w - (r + 1) = n * p + (L - 1)
      BY <1>1
    <2>2. L - 1 \in 0 .. n - 1 /\ w - (r + 1) \in Int
      BY <1>1, <1>9
    <2> DEFINE a == w - (r + 1)
               k == L - 1
    <2>3. a \in Int /\ k \in 0 .. n - 1 /\ a = n * p + k /\ p \in Int
      BY <1>1, <2>1, <2>2
    <2> HIDE DEF a, k
    <2>4. a % n = k
      BY <2>3, ModIs
    <2> QED
      BY <2>4 DEF a, k
  <1>10. (w + 1) - (r + 1) = w - r
    OBVIOUS
  <1>11. L + 1 < n => (x - r) % n = L + 1
    BY <1>3, <1>7, <1>8
  <1>12. L > 0 => (w - y) % n = L - 1
    BY <1>4, <1>9
  <1>13. (x - y) % n = L
    BY <1>5, <1>6, <1>7, <1>10 DEF L
  <1> QED
    BY <1>1, <1>11, <1>12, <1>13, Zenon DEF L, x, y

(* The slots of the queue are the remainders modulo D.                         *)
LEMMA SlotMoves ==
    ASSUME NEW D \in Nat \ {0}, NEW a \in Int, NEW i \in Int
    PROVE ((a % (2 * D)) + i) % D = (a + i) % D
  <1> DEFINE p == a \div (2 * D)
             s == a % (2 * D)
  <1>1. 2 * D \in Nat \ {0}
    OBVIOUS
  <1>2. p \in Int /\ s \in 0 .. (2 * D) - 1 /\ a = (2 * D) * p + s
    BY <1>1, DivMod, Zenon
  <1> HIDE DEF p, s
  <1>3. a + i = (s + i) + D * (2 * p)
    BY <1>2, SMT
  <1>4. a + i \in Int /\ s + i \in Int /\ 2 * p \in Int
    BY <1>2
  <1>5. (a + i) % D = (s + i) % D
    BY <1>3, <1>4, ModSame, Zenon
  <1> QED
    BY <1>5 DEF s

(* The next free slot is as many places after the next to be read as the level  *)
(* says.                                                                    *)
LEMMA SlotAtLevel ==
    ASSUME NEW D \in Nat \ {0}, NEW w \in Int, NEW r \in Int
    PROVE w % D = (r + ((w - r) % (2 * D))) % D
  <1> DEFINE L == (w - r) % (2 * D)
  <1>1. w - r \in Int /\ (w - r) + r = w /\ 2 * D \in Nat \ {0}
    OBVIOUS
  <1>2. (L + r) % D = ((w - r) + r) % D
    BY <1>1, SlotMoves, Zenon
  <1>3. L \in Int
    BY <1>1, DivMod
  <1> HIDE DEF L
  <1>4. L + r = r + L
    BY <1>3
  <1> QED
    BY <1>1, <1>2, <1>4 DEF L
=============================================================================
