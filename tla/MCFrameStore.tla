----------------------------- MODULE MCFrameStore -----------------------------
(***************************************************************************)
(* Pictures of two lines of two words, of which the source's may be short,  *)
(* full or too long, with resets; and of four lines of one word, so that a  *)
(* field fetches lines one after the other, with reads that come up short.  *)
(* Pages of three words make the bursts of two meet their edges.           *)
(***************************************************************************)
EXTENDS FrameStoreProps

MCSetups == {[words |-> 2, lines |-> 2, lengths |-> {1, 2, 3}, most |-> 2, field |-> 3,
              faults |-> FALSE, resets |-> TRUE],
             [words |-> 1, lines |-> 4, lengths |-> {1, 2}, most |-> 4, field |-> 4,
              faults |-> TRUE, resets |-> FALSE]}
=============================================================================
