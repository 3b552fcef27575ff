---------------------------- MODULE FletcherLoop ----------------------------
(***************************************************************************)
(* The checksum's loop, one step per word: what its variables hold.         *)
(***************************************************************************)
EXTENDS Fletcher, Sequences

WordsMax == 256      \* words of a sector; a command has 3
Ulong == 0 .. Base * Base - 1

VARIABLES words, t, s

Init == /\ words \in Seq(Word16) /\ Len(words) <= WordsMax
        /\ t = 0 /\ s = Start
Add == /\ t < Len(words)
       /\ t' = t + 1 /\ s' = Added(s, words[t + 1])
       /\ UNCHANGED words
Spec == Init /\ [][Add]_<<words, t, s>>

(* No sector is so bad that an accumulator passes 32 bits, or that two folds  *)
(* leave more than 16 bits of it.  (Checksum.cpp:45-58)                      *)
SumsFit == /\ s.a \in Ulong /\ s.b \in Ulong
           /\ FoldedTwice(s.a) \in Word16 /\ FoldedTwice(s.b) \in Word16
=============================================================================
