------------------------------ MODULE MCSerial ------------------------------
EXTENDS SerialServer
CONSTANTS d1, d2

(* The second byte of a command is its drive and head, 0xA0 or 0xB0 where   *)
(* CHS is used: it passes for a header.                                    *)
MCHeaderAt == {<<d1, 1>>, <<d2, SecLen>>} \cup ({"inquire", "read", "write"} \X {2})
MCAckAt == {<<d2, 1>>}

(* One drive and exchanges of two sectors; and two drives, one of them        *)
(* read-only, without the timeout and with a client that does not wait.       *)
MCSetups == {
    [images |-> {0}, readOnly |-> {}, timeout |-> TRUE, patient |-> TRUE,
     operations |-> {"inquire", "read", "write"}, lba |-> {0, 1}, count |-> 2],
    [images |-> {0, 1}, readOnly |-> {1}, timeout |-> FALSE, patient |-> FALSE,
     operations |-> {"write"}, lba |-> {0}, count |-> 1]}
=============================================================================
