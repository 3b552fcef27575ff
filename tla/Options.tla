------------------------------- MODULE Options -------------------------------
(***************************************************************************)
(* The command line of the serial drive server, as main of linux/Linux.cpp  *)
(* and win32/Win32.cpp reads it.  Every operator gives the set of states    *)
(* the process may be in after one argument.                                *)
(*                                                                         *)
(* A word of the command line is what main asks of it: how it begins, its   *)
(* letter, its value as a number (0 where atol finds none), as a size in    *)
(* thousandths and as a geometry.                                           *)
(***************************************************************************)
EXTENDS Integers, Sequences, TLC, Geometry, Baud

Plain(w) == [lead |-> "", opt |-> "", word |-> w, digit |-> FALSE, num |-> 0,
             milli |-> 0, kilo |-> FALSE, parts |-> <<>>]
NoWord == Plain("")

Off == [pc |-> "off", line |-> 0, t |-> 1, readOnly |-> FALSE, create |-> FALSE,
        g |-> NoGeometry, useCHS |-> FALSE, baud |-> 0, port |-> "",
        timeout |-> TRUE, images |-> <<>>, cf |-> "none", lastScan |-> FALSE,
        serial |-> [pipe |-> "none", emulation |-> FALSE, reset |-> FALSE]]

(* The usage text, and the end.                                              *)
Usage == Off

Next1(p) == [p EXCEPT !.t = @ + 1]
Next2(p, taken) == [p EXCEPT !.t = @ + IF taken THEN 2 ELSE 1]

Number(p, next, prefix) ==
    IF next.num < 1 THEN Usage
    ELSE [Next2(p, TRUE) EXCEPT !.port = prefix \o ToString(next.num)]
LinuxPort(p, next) ==
    {IF next = NoWord THEN Usage
     ELSE IF next.digit THEN Number(p, next, "/dev/ttyS")
     ELSE [Next2(p, TRUE) EXCEPT !.port = next.word]}
Win32Port(p, next) == {IF next = NoWord THEN Usage ELSE Number(p, next, "COM")}

Verbose(p, next) == {Next2(p, next.num # 0)}
ReadOnly(p) == {[Next1(p) EXCEPT !.readOnly = TRUE]}
PipeRate == 115200
PipeMode(p, next) ==
    {[Next2(p, next.word = "pipe") EXCEPT !.port = "pipe",
         !.baud = IF @ = 0 THEN PipeRate ELSE @]}
GeometryOption(p, next) ==
    {IF next.num # 0 /\ parseGeometry(next.parts) = NoGeometry THEN Usage
     ELSE [Next2(p, next.num # 0) EXCEPT !.useCHS = TRUE,
              !.g = IF next.num # 0 THEN parseGeometry(next.parts) ELSE @]}

(* 512-byte sectors of a size in megabytes of 1000 K, or in K.  Less than a  *)
(* cylinder of 16 heads and 63 sectors, and no floppy, leaves no cylinder.   *)
SizeOf(w) == IF w.kilo THEN (2 * w.milli) \div 1000 ELSE 2 * w.milli
GeometryOf(size) ==
    LET f == FindFloppyInfoBySize(size)
    IN  IF f # 0 THEN [cyl |-> floppyInfos[f].cyl, head |-> floppyInfos[f].head,
                       sect |-> floppyInfos[f].sect]
        ELSE [cyl |-> size \div (16 * 63), head |-> 16, sect |-> 63]
NewDisk(p, next) ==
    {[Next2(p, next.num # 0) EXCEPT !.create = TRUE,
         !.g = IF next.num # 0 THEN GeometryOf(SizeOf(next)) ELSE @]}
NoTimeout(p) == {[Next1(p) EXCEPT !.timeout = FALSE]}
BaudRate(p, next) ==
    IF next = NoWord THEN {Usage}
    ELSE {IF r = 0 THEN Off ELSE [Next2(p, TRUE) EXCEPT !.baud = r] :
             r \in baudRateMatchString(next.num)}

Option(p, opt, next) ==
    CASE opt = "v" -> Verbose(p, next)
      [] opt = "r" -> ReadOnly(p)
      [] opt = "p" -> PipeMode(p, next)
      [] opt = "g" -> GeometryOption(p, next)
      [] opt = "n" -> NewDisk(p, next)
      [] opt = "t" -> NoTimeout(p)
      [] opt = "b" -> BaudRate(p, next)
      [] opt = "h" -> {Usage}
      [] OTHER     -> {Off}
LinuxOption(p, opt, next) == IF opt = "c" THEN LinuxPort(p, next) ELSE Option(p, opt, next)
Win32Option(p, opt, next) == IF opt = "c" THEN Win32Port(p, next) ELSE Option(p, opt, next)

(* An image: a new one without a size gets 65 cylinders.                     *)
ImageName(p) ==
    IF Len(p.images) = 2 THEN {Usage}
    ELSE {[p EXCEPT !.pc = IF p.create THEN "create" ELSE "open",
              !.g = IF p.create /\ @.cyl = 0
                    THEN [cyl |-> 65, head |-> 16, sect |-> 63] ELSE @]}

(* The options are forgotten with the image they were given for.             *)
ServedKeeping(p, i) == [Next1(p) EXCEPT !.pc = "parse", !.images = Append(@, i),
                           !.create = FALSE, !.readOnly = FALSE]
Served(p, i) == [Next1(p) EXCEPT !.pc = "parse", !.images = Append(@, i),
                    !.create = FALSE, !.readOnly = FALSE,
                    !.g = NoGeometry, !.useCHS = FALSE]

LinuxIsOption(a) == a.lead = "-"
Win32IsOption(a) == a.lead \in {"-", "/"}

LinuxArgument(p, a, next) ==
    IF LinuxIsOption(a) THEN LinuxOption(p, a.opt, next) ELSE ImageName(p)
Win32Argument(p, a, next) ==
    IF Win32IsOption(a) THEN Win32Option(p, a.opt, next) ELSE ImageName(p)

(* After the last argument.                                                  *)
DefaultRate == 9600
Ready(p) == IF p.images = <<>> THEN Usage
            ELSE [p EXCEPT !.pc = "connect", !.baud = IF @ = 0 THEN DefaultRate ELSE @]
=============================================================================
