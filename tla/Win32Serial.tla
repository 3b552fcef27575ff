----------------------------- MODULE Win32Serial -----------------------------
(***************************************************************************)
(* SerialAccess of win32/Win32Serial.h: a COM port, the first one found if  *)
(* none is named, or a named pipe that an emulator opens.                   *)
(***************************************************************************)
EXTENDS Integers

New == [pipe |-> "none", emulation |-> FALSE, reset |-> FALSE]

Exit == [says |-> "exit", serial |-> New]

(* The ports in the order COM1 to COM30 are tried, "" when there is none.    *)
FirstFound(tried, ports) ==
    LET found == {i \in DOMAIN tried : tried[i] \in ports}
    IN  IF found = {} THEN "" ELSE tried[CHOOSE i \in found : \A j \in found : i <= j]

(* Only Connect to a pipe sets what a pipe needs, and nothing takes it back.  *)
Pipe(divisor) == IF divisor > 128 THEN Exit
                 ELSE [says |-> "open",
                       serial |-> [pipe |-> "open", emulation |-> TRUE, reset |-> TRUE]]
Com(serial, name, ports) ==
    IF name \in ports THEN [says |-> "open", serial |-> [serial EXCEPT !.pipe = "open"]]
    ELSE Exit
Connect(serial, name, divisor, tried, ports) ==
    {Exit, IF name = "pipe" THEN Pipe(divisor)
           ELSE Com(serial, IF name = "" THEN FirstFound(tried, ports) ELSE name, ports)}
Disconnect(serial) == [serial EXCEPT !.pipe = "none"]

ReadCharacters == {"data", "closed", "exit"}
WriteCharacters == {"sent", "closed", "exit"}
=============================================================================
