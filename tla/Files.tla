-------------------------------- MODULE Files --------------------------------
(***************************************************************************)
(* A file of the host: its size in sectors, whether bytes are left over,    *)
(* and, for the properties, whether the server made it and whether a client *)
(* has written to it.                                                       *)
(***************************************************************************)
EXTENDS Integers

NoFile == [exists |-> FALSE, size |-> 0, odd |-> FALSE, made |-> FALSE,
           written |-> FALSE]
Foreign(size, odd) ==
    [exists |-> TRUE, size |-> size, odd |-> odd, made |-> FALSE, written |-> FALSE]
Empty == [exists |-> TRUE, size |-> 0, odd |-> FALSE, made |-> TRUE, written |-> FALSE]

(* Sectors written up to this one, by a client or while it is being made.    *)
Extended(f, size) == [f EXCEPT !.size = IF size > @ THEN size ELSE @]
Written(f, lba) == [Extended(f, lba + 1) EXCEPT !.written = TRUE]
Outcome(says, f) == [says |-> says, file |-> f]
=============================================================================
