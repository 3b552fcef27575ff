------------------------------ MODULE Win32File ------------------------------
(***************************************************************************)
(* FileAccess of win32/Win32File.h, in the form of LinuxFile.  A file that  *)
(* is open is shared with nobody.                                           *)
(***************************************************************************)
EXTENDS Integers, Files

MaxSectors == 268435455

NewHandle == "none"
Close(handle) == IF handle = "open" THEN "stale" ELSE handle

Create(f) == IF f.exists THEN {Outcome("exists", f)}
             ELSE {Outcome("made", Empty), Outcome("exit", f)}

Open(f, inUse) ==
    IF f.exists /\ ~inUse THEN {Outcome("ok", f), Outcome("exit", f)}
    ELSE {Outcome("exit", f)}

(* The size in two words of 32 bits, high and low.                          *)
HighUnit == 8388608
HighPart(f) == f.size \div HighUnit
LowSectors(f) == f.size % HighUnit
SizeSectors(f) == IF f.odd \/ HighPart(f) > 31 THEN 0
                  ELSE HighPart(f) * HighUnit + LowSectors(f)

Read(f, lba) == {Outcome(IF lba < f.size THEN "ok" ELSE "exit", f)}
Write(f, lba) == {Outcome("ok", Written(f, lba)), Outcome("exit", f)}
=============================================================================
