--------------------------- MODULE FletcherProofs ---------------------------
(* Why the checksum's accumulators of 32 bits are wide enough.               *)
EXTENDS FletcherLoop, TLAPS

(* What k words can bring the accumulators to.                               *)
Bounded(k) == /\ s.a \in 0 .. (Base - 1) * (k + 1)
              /\ s.b \in Nat /\ 2 * s.b <= (Base - 1) * (k * k + 3 * k + 2)

IInv == /\ words \in Seq(Word16) /\ Len(words) <= WordsMax
        /\ t \in 0 .. Len(words)
        /\ s \in [a : Nat, b : Nat]
        /\ Bounded(t)

LEMMA BaseType == Base \in Nat /\ Base > 40000
  BY SMT DEF Base

(* Two folds are enough for any 32 bits: the first leaves at most 17.         *)
LEMMA TwoFolds == ASSUME NEW x \in Ulong PROVE FoldedTwice(x) \in Word16
  <1>1. Folded(x) \in 0 .. 2 * Base - 2
    <2>1. x % Base \in 0 .. Base - 1
      BY BaseType, SMT DEF Ulong
    <2>2. x \div Base \in Int /\ x = Base * (x \div Base) + (x % Base)
      BY BaseType, SMT DEF Ulong
    <2>3. x \div Base \in 0 .. Base - 1
      BY BaseType, <2>1, <2>2, SMT DEF Ulong
    <2> QED BY BaseType, <2>1, <2>3, SMT DEF Folded
  <1>2. ASSUME NEW y \in 0 .. 2 * Base - 2 PROVE Folded(y) \in Word16
    <2>1. y % Base \in 0 .. Base - 1
      BY BaseType, SMT
    <2>2. y \div Base \in Int /\ y = Base * (y \div Base) + (y % Base)
      BY BaseType, SMT
    <2>3. y \div Base \in {0, 1}
      BY BaseType, <2>1, <2>2, SMT
    <2> QED BY BaseType, <2>1, <2>2, <2>3, SMT DEF Folded, Word16
  <1> QED BY <1>1, <1>2 DEF FoldedTwice

(* The bound of k words becomes that of k + 1 with the next word.            *)
LEMMA OneWord ==
  ASSUME NEW k \in Nat, NEW a \in 0 .. (Base - 1) * (k + 1), NEW w \in Word16,
         NEW b \in Nat, 2 * b <= (Base - 1) * (k * k + 3 * k + 2)
  PROVE  /\ a + w \in 0 .. (Base - 1) * (k + 2)
         /\ 2 * (b + a + w) <= (Base - 1) * ((k + 1) * (k + 1) + 3 * (k + 1) + 2)
  <1> DEFINE m == Base - 1
  <1>1. m \in Nat /\ w \in 0 .. m /\ a \in 0 .. m * (k + 1)
        /\ 2 * b <= m * (k * k + 3 * k + 2)
    BY BaseType, SMT DEF Word16
  <1> HIDE DEF m
  <1>2. a + w \in 0 .. m * (k + 2)
    BY <1>1, SMT
  <1>3. m * ((k + 1) * (k + 1) + 3 * (k + 1) + 2) = m * (k * k + 3 * k + 2) + 2 * (m * (k + 2))
    BY <1>1, SMT
  <1>4. 2 * (b + a + w) <= m * (k * k + 3 * k + 2) + 2 * (m * (k + 2))
    BY <1>1, <1>2, SMT
  <1> QED BY <1>2, <1>3, <1>4 DEF m

(* 256 words keep both sums under 2^32.                                      *)
LEMMA EnoughBits == IInv => SumsFit
  <1> SUFFICES ASSUME IInv PROVE SumsFit
    OBVIOUS
  <1> DEFINE m == Base - 1
  <1>1. t \in 0 .. 256 /\ m \in Nat /\ m >= 39999 /\ Base = m + 1
    BY BaseType, SMT DEF IInv, WordsMax
  <1>2. s.a \in 0 .. m * (t + 1) /\ s.b \in Nat /\ 2 * s.b <= m * (t * t + 3 * t + 2)
    BY DEF IInv, Bounded
  <1> HIDE DEF m
  <1>3. t * t + 3 * t + 2 \in 0 .. 2 * m
    BY <1>1, SMT
  <1>4. m * (t + 1) <= m * m /\ m * (t * t + 3 * t + 2) <= 2 * (m * m)
    BY <1>1, <1>3, SMT
  <1>5. m * m <= Base * Base - 1
    BY <1>1, SMT
  <1>6. s.a \in Ulong /\ s.b \in Ulong
    BY <1>1, <1>2, <1>4, <1>5, SMT DEF Ulong
  <1> QED BY <1>6, TwoFolds DEF SumsFit

(* However bad a sector is, its sums fit the registers they are kept in and   *)
(* two folds bring them into a word: Checksum.cpp:45-58.                     *)
THEOREM ChecksumFits == Spec => []SumsFit
  <1>1. Init => IInv
    <2> SUFFICES ASSUME Init PROVE IInv
      OBVIOUS
    <2>1. t = 0 /\ s = [a |-> Base - 1, b |-> Base - 1] /\ Len(words) \in Nat
      BY DEF Init, Start
    <2> QED BY <2>1, BaseType, SMT DEF Init, IInv, Bounded
  <1>2. IInv /\ [Add]_<<words, t, s>> => IInv'
    <2> SUFFICES ASSUME IInv, [Add]_<<words, t, s>> PROVE IInv'
      OBVIOUS
    <2>1. CASE Add
      <3>1. t \in Nat /\ t' = t + 1 /\ t' \in 0 .. Len(words)
        BY <2>1 DEF IInv, Add
      <3>2. words[t + 1] \in Word16
        BY <2>1, <3>1 DEF IInv, Add
      <3>3. /\ s' \in [a : Nat, b : Nat]
            /\ s'.a = s.a + words[t + 1] /\ s'.b = s.b + s.a + words[t + 1]
        BY <2>1, <3>2, BaseType DEF IInv, Add, Added, Word16
      <3>4. Bounded(t)'
        <4>1. s'.a \in 0 .. (Base - 1) * (t + 2)
              /\ 2 * s'.b <= (Base - 1) * ((t + 1) * (t + 1) + 3 * (t + 1) + 2)
          BY <3>1, <3>2, <3>3, OneWord DEF IInv, Bounded
        <4>2. t + 2 = t' + 1 /\ t + 1 = t'
          BY <3>1
        <4> QED BY <3>3, <4>1, <4>2 DEF Bounded
      <3> QED BY <2>1, <3>1, <3>3, <3>4 DEF IInv, Add
    <2>2. CASE UNCHANGED <<words, t, s>>
      BY <2>2 DEF IInv, Bounded
    <2> QED BY <2>1, <2>2
  <1> QED BY <1>1, <1>2, EnoughBits, PTL DEF Spec
=============================================================================
