------------------------------- MODULE StdFile -------------------------------
(***************************************************************************)
(* FileAccess of library/File.h, which a system other than Linux and        *)
(* Windows gets: standard input and output, files of 2 GB at most, and a    *)
(* creation in two steps.                                                   *)
(***************************************************************************)
EXTENDS Integers, Files

MaxSectors == 4194303

NewHandle == "none"
Close(handle) == "none"

Look(f) == {Outcome(IF f.exists THEN "exists" ELSE "absent", f)}
Create(f) == {Outcome("made", Empty), Outcome("exit", f)}

Open(f) == IF f.exists THEN {Outcome("ok", f), Outcome("exit", f)}
           ELSE {Outcome("exit", f)}

SizeSectors(f) == IF f.odd \/ f.size > MaxSectors THEN 0 ELSE f.size

Read(f, lba) == {Outcome(IF lba < f.size THEN "ok" ELSE "exit", f)}
Write(f, lba) == {Outcome("ok", Written(f, lba)), Outcome("exit", f)}
=============================================================================
