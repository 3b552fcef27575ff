---------------------------- MODULE ChecksumTest ----------------------------
(***************************************************************************)
(* library/Checksum.cpp: the checksum of the serial protocol, and the       *)
(* program that compares it with three others.  Sums have the width they    *)
(* have in the code; a buffer is short, and its random contents come from a *)
(* small set.                                                              *)
(***************************************************************************)
EXTENDS Fletcher, SequencesExt, FiniteSetsExt, Bitwise

CONSTANTS
    Length,      \* BBUFF_LENGTH: bytes of the buffer, 512 in the code
    BitTest,     \* BITTEST: 16 in the code
    Iterations,  \* numbers of iterations the user asks for; -1 stands for none
    Contents,    \* what randomize_buff may leave in the buffer
    Bits         \* the bits <<byte, bit>> of it that may be changed

ASSUME LengthAssumption == Length % 2 = 0 /\ BitTest \in Nat \ {0}
ASSUME ContentsAssumption == /\ Contents \subseteq [1 .. Length -> 0 .. 254]
                             /\ Bits \subseteq (1 .. Length) \X (0 .. 7)

(* The words of a buffer on a host that puts the low byte first.            *)
WordsOf(bytes) == [i \in 1 .. Len(bytes) \div 2 |-> bytes[2 * i - 1] + 256 * bytes[2 * i]]

(* Of each sum, its two bytes are put together by exclusive or.             *)
HalvesOf(x) == (x % 256) ^^ (x \div 256)
checksum(w) == LET s == FoldLeft(Added, Start, w)
               IN  256 * HalvesOf(FoldedTwice(s.a)) + HalvesOf(FoldedTwice(s.b))

Crc16Polynomial == 40961  \* 0xA001
ShiftedBare(v, odd) == IF odd THEN Crc16Polynomial ELSE v \div 2
Shifted(v, odd) == (v \div 2) ^^ (IF odd THEN Crc16Polynomial ELSE 0)
Crc16Table == [i \in 0 .. 255 |->
    LET Step(v, j) == Shifted(v, (v % 2) # (i \div 2^j) % 2)
    IN  FoldLeft(Step, 0, <<0, 1, 2, 3, 4, 5, 6, 7>>)]
Crc16(bytes) ==
    LET Step(crc, d) == (crc \div 256) ^^ Crc16Table[(crc % 256) ^^ d]
    IN  FoldLeft(Step, 0, bytes)

BasicSum(bytes) == FoldLeft(LAMBDA sum, d : (sum + d) % 65536, 0, bytes)

Fletcher16(bytes) ==
    LET Step(s, d) == [one |-> (s.one + d) % 255, two |-> (s.two + s.one + d) % 255]
        s == FoldLeft(Step, [one |-> 0, two |-> 0], bytes)
    IN  256 * s.two + s.one

FoldedFletcher32(bytes) == checksum(WordsOf(bytes))

Sum(alg, bytes) == CASE alg = "basic"     -> BasicSum(bytes)
                     [] alg = "crc-16"    -> Crc16(bytes)
                     [] alg = "f-16"      -> Fletcher16(bytes)
                     [] alg = "fold-f-32" -> FoldedFletcher32(bytes)
Algorithms == {"basic", "crc-16", "f-16", "fold-f-32"}

-----------------------------------------------------------------------------
VARIABLES
    pc, iterations, t,
    first,    \* the buffer as it was randomized
    flipped,  \* the bits <<byte, bit>> of it that have been changed since
    b,        \* the bit test's inner loop
    a         \* the objects of class algorithm

vars == <<pc, iterations, t, first, flipped, b, a>>

Zeros == [i \in 1 .. Length |-> 0]
FlipIn(bytes, off) == [i \in 1 .. Length |->
    bytes[i] ^^ MapThenSumSet(LAMBDA x : 2^x[2], {x \in off : x[1] = i})]
Bbuff == FlipIn(first, flipped)

(* found[] is kept as a function on the sums that have been seen, and of     *)
(* bittest[] the two that are compared: the first, and the one of round b.   *)
NoSums == [start |-> 0, now |-> 0]
NewAlgorithm == [found |-> <<>>, zero |-> 0, total |-> 0, empty |-> 0, min |-> 0, max |-> 0,
                 bittest |-> NoSums,
                 missed |-> [x \in 0 .. BitTest - 1 |-> 0]]

Init == /\ pc = "main" /\ iterations = 0 /\ t = 0 /\ b = 0
        /\ first = Zeros /\ flipped = {}
        /\ a = [alg \in Algorithms |-> NewAlgorithm]

Usage == /\ pc = "main" /\ -1 \in Iterations /\ pc' = "exit"
         /\ UNCHANGED <<iterations, t, first, flipped, b, a>>

ZeroRow == /\ pc = "main"
           /\ iterations' \in Iterations \ {-1}
           /\ a' = [alg \in Algorithms |-> [a[alg] EXCEPT !.zero = Sum(alg, Bbuff),
                                                          !.min = iterations' + 1]]
           /\ pc' = "distribution"
           /\ UNCHANGED <<t, first, flipped, b>>

Seen(f, x) == x \in DOMAIN f
CountedOnce(f, x) == [y \in DOMAIN f \cup {x} |-> IF y = x THEN 1 ELSE f[y]]
Counted(f, x) == [y \in DOMAIN f \cup {x} |->
    IF y # x THEN f[y] ELSE IF Seen(f, x) THEN f[x] + 1 ELSE 1]

RandomizeBuff == first' \in Contents /\ flipped' = {}

Distribution ==
    /\ pc = "distribution" /\ t < iterations
    /\ RandomizeBuff
    /\ a' = [alg \in Algorithms |-> [a[alg] EXCEPT !.found = Counted(@, Sum(alg, first'))]]
    /\ t' = t + 1
    /\ UNCHANGED <<pc, iterations, b>>

(* The 65536 buckets are gone through: those that nothing fell in are empty.  *)
Tallied(x) ==
    LET counts == {x.found[y] : y \in DOMAIN x.found}
    IN  [x EXCEPT !.total = MapThenSumSet(LAMBDA y : x.found[y], DOMAIN x.found),
                  !.empty = 65536 - Cardinality(DOMAIN x.found),
                  !.max = Max(counts \cup {0}),
                  !.min = Min(counts \cup {x.min, 0})]
Tally == /\ pc = "distribution" /\ t = iterations
         /\ a' = [alg \in Algorithms |-> Tallied(a[alg])]
         /\ pc' = "randomize" /\ t' = 0
         /\ UNCHANGED <<iterations, first, flipped, b>>

Randomize == /\ pc = "randomize"
             /\ IF t = iterations
                THEN pc' = "exit" /\ UNCHANGED <<first, flipped>>
                ELSE pc' = "sum" /\ RandomizeBuff
             /\ b' = 0
             /\ a' = [alg \in Algorithms |-> [a[alg] EXCEPT !.bittest = NoSums]]
             /\ UNCHANGED <<iterations, t>>

Tested(sums, x) == [start |-> IF b = 0 THEN x ELSE sums.start, now |-> x]
SumAll == /\ pc = "sum"
          /\ a' = [alg \in Algorithms |-> [a[alg] EXCEPT !.bittest = Tested(@, Sum(alg, Bbuff))]]
          /\ pc' = "flip"
          /\ UNCHANGED <<iterations, t, first, flipped, b>>

(* One bit of the buffer is changed, the sums before it are compared.         *)
Missed(x) == IF b > 0 /\ x.bittest.start = x.bittest.now
             THEN [x EXCEPT !.missed[b] = @ + 1] ELSE x
BitChange(bit) ==
    /\ pc = "flip"
    /\ flipped' = SymDiff(flipped, {bit})
    /\ a' = [alg \in Algorithms |-> Missed(a[alg])]
    /\ b' = b + 1
    /\ IF b + 1 < BitTest THEN pc' = "sum" /\ UNCHANGED t
                          ELSE pc' = "randomize" /\ t' = t + 1
    /\ UNCHANGED <<iterations, first>>

(* The program has printed its table.                                        *)
Done == pc = "exit" /\ UNCHANGED vars

Next == Usage \/ ZeroRow \/ Distribution \/ Tally \/ Randomize \/ SumAll
        \/ (\E bit \in Bits : BitChange(bit)) \/ Done
Spec == Init /\ [][Next]_vars

-----------------------------------------------------------------------------
(* The distribution test adds up: no row is "Bad", every bucket is counted as *)
(* empty or not, and a bucket holds between min and max.  (Checksum.cpp:     *)
(* 302-326)                                                                 *)
NothingIsBad ==
    \A alg \in Algorithms :
        LET x == a[alg]
        IN  /\ \A y \in DOMAIN x.found : y \in Word16
            /\ pc \in {"randomize", "sum", "flip"} =>
                 /\ x.total = iterations
                 /\ x.empty + Cardinality(DOMAIN x.found) = 65536
                 /\ x.min <= x.max /\ x.max <= x.total
                 /\ x.max * Cardinality(DOMAIN x.found) >= x.total

Told(alg) == a[alg].bittest.now # a[alg].bittest.start

(* What each sum must tell from the contents it started with: crc-16 one, two  *)
(* and three changed bits, the plain sum and Fletcher's of bytes one.  The     *)
(* folded sum promises none: folding may hide what the sums show.             *)
(* (Checksum.cpp:155-212, 334-356)                                          *)
SmallErrorsSeen ==
    pc = "flip" /\ flipped # {} =>
        /\ Told("crc-16")
        /\ Cardinality(flipped) = 1 =>
             /\ \A alg \in {"basic", "f-16"} : Told(alg)
             /\ LET Unfolded(bytes) == FoldLeft(Added, Start, WordsOf(bytes)).a % (Base - 1)
                IN  Unfolded(Bbuff) # Unfolded(first)
=============================================================================
