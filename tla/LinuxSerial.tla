----------------------------- MODULE LinuxSerial -----------------------------
(***************************************************************************)
(* SerialAccess of linux/LinuxSerial.h: a terminal device named on the      *)
(* command line.  There is no search for a port, and no pipe.               *)
(***************************************************************************)
EXTENDS Integers

New == [pipe |-> "none", emulation |-> FALSE, reset |-> FALSE]

Exit == [says |-> "exit", serial |-> New]

(* No name (NULL) is a port that cannot be accessed.                        *)
Connect(serial, name, ports) ==
    {Exit} \cup (IF name \in ports
                 THEN {[says |-> "open", serial |-> [serial EXCEPT !.pipe = "open"]]} ELSE {})
(* The number of a closed port is -1, which Disconnect would close again.    *)
Disconnect(serial) ==
    IF serial.pipe = "none" THEN serial ELSE [serial EXCEPT !.pipe = "stale"]

(* read's length is unsigned, so an error is never noticed: the buffer       *)
(* offset moves back by one and the request under way is lost.               *)
ReadCharacters == {"data", "closed", "garbled"}
(* write's length is unsigned too, and a short write is not looked at.       *)
WriteCharacters == {"sent"}
=============================================================================
