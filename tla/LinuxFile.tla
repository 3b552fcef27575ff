------------------------------ MODULE LinuxFile ------------------------------
(***************************************************************************)
(* FileAccess of linux/LinuxFile.h.  Every operation is the set of its      *)
(* outcomes: what it says, and the file after it; "exit" ends the program.  *)
(***************************************************************************)
EXTENDS Integers, Files

MaxSectors == 268435455

(* The handle of a file: none, open, or the number of one that is closed.   *)
NewHandle == "none"
Close(handle) == IF handle = "open" THEN "stale" ELSE handle

(* Created without O_EXCL.                                                  *)
CreateOver(f) == {Outcome("made", Empty), Outcome("exit", f)}
Create(f) == IF f.exists THEN {Outcome("exists", f)}
             ELSE {Outcome("made", Empty), Outcome("exit", f)}

Open(f) == IF f.exists THEN {Outcome("ok", f), Outcome("exit", f)}
           ELSE {Outcome("exit", f)}

(* 0 where the program ends; so it does with an empty image.                *)
SizeSectors(f) == IF f.odd \/ f.size \div 2 ^ 23 > 31 THEN 0 ELSE f.size

Read(f, lba) == {Outcome(IF lba < f.size THEN "ok" ELSE "exit", f)}
Write(f, lba) == {Outcome("ok", Written(f, lba)), Outcome("exit", f)}
=============================================================================
