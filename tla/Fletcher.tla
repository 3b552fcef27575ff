------------------------------ MODULE Fletcher ------------------------------
(***************************************************************************)
(* The checksum of the serial protocol (library/Checksum.cpp) up to the     *)
(* folding of its bytes: two accumulators over the words of a sector or of  *)
(* a command.                                                              *)
(***************************************************************************)
EXTENDS Integers

Base == 65536
Word16 == 0 .. Base - 1

Start == [a |-> Base - 1, b |-> Base - 1]
Added(s, w) == [a |-> s.a + w, b |-> s.b + s.a + w]
Folded(x) == (x % Base) + (x \div Base)
FoldedTwice(x) == Folded(Folded(x))
=============================================================================
