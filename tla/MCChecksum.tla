----------------------------- MODULE MCChecksum -----------------------------
EXTENDS ChecksumTest

(* The last contents are those of which the folded sum misses a changed bit.  *)
MCContents == {<<0, 0, 0, 0, 0, 0>>, <<254, 254, 254, 254, 254, 254>>, <<1, 1, 253, 253, 0, 129>>}
(* That bit, <<5, 0>>, and bits around it and in every other byte.           *)
MCBits == {<<1, 0>>, <<2, 7>>, <<3, 4>>, <<4, 3>>, <<5, 0>>, <<5, 1>>, <<5, 7>>, <<6, 0>>, <<6, 7>>}
MCIterations == {-1, 0, 1, 2}
=============================================================================
