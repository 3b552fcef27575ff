------------------------------ MODULE Geometry ------------------------------
(***************************************************************************)
(* The serial server's disk images: the geometry an image is given when it  *)
(* is opened, the identity it answers an inquiry with, and where a          *)
(* command's cylinder, head and sector lie in it.  Sizes are in sectors.    *)
(***************************************************************************)
EXTENDS Integers, SequencesExt

Floppy(real, size, type, cyl, head, sect) ==
    [real |-> real, size |-> size, type |-> type,
     cyl |-> cyl, head |-> head, sect |-> sect]

floppyInfos == <<
    Floppy(TRUE, 5760, 6, 80, 2, 36), Floppy(FALSE, 5600, 6, 80, 2, 36),
    Floppy(FALSE, 5800, 6, 80, 2, 36), Floppy(TRUE, 2880, 4, 80, 2, 18),
    Floppy(FALSE, 2800, 4, 80, 2, 18), Floppy(TRUE, 2400, 2, 80, 2, 15),
    Floppy(TRUE, 1440, 3, 80, 1, 18), Floppy(TRUE, 720, 1, 40, 2, 9),
    Floppy(TRUE, 640, 0, 40, 2, 8), Floppy(TRUE, 360, 0, 40, 1, 9),
    Floppy(TRUE, 320, 0, 40, 1, 8)>>

(* The index of the first entry, or 0.                                      *)
FindFloppyInfoBySize(size) ==
    SelectInSeq(floppyInfos, LAMBDA f : size + 5 > f.size /\ size - 5 < f.size)
FindFloppy(size) ==
    SelectInSeq(floppyInfos, LAMBDA f : f.size = size /\ f.real)

LBA28 == 268435455
ChsLimit == 65536 * 16 * 63

NoGeometry == [cyl |-> 0, head |-> 0, sect |-> 0]

(* "cyl:head:sect"; a part that is missing or zero is refused.              *)
parseGeometry(g) == IF Len(g) = 3 /\ \A i \in 1 .. 3 : g[i] # 0
                    THEN [cyl |-> g[1], head |-> g[2], sect |-> g[3]] ELSE NoGeometry

MaxCylinders == 65536
InRange(g) == g.sect \in 1 .. 255 /\ g.head \in 1 .. 16 /\ g.cyl \in 1 .. MaxCylinders

(* What Image::init makes of a file of this many sectors: the size of a     *)
(* floppy decides, then the geometry asked for, then 16 heads of 63 sectors.*)
(* An image that fits none of them ends the program.                        *)
NoImage == [fits |-> FALSE, floppy |-> 0, useCHS |-> TRUE, total |-> 0,
            cyl |-> 0, head |-> 0, sect |-> 0]
Fitted(total, g, floppy, useCHS) ==
    [fits |-> TRUE, floppy |-> floppy, useCHS |-> useCHS, total |-> total,
     cyl |-> g.cyl, head |-> g.head, sect |-> g.sect]

(* A geometry is taken without comparing its product with the size.         *)
FittedToUnchecked(total, g, floppy, useCHS) ==
    IF InRange(g) THEN Fitted(total, g, floppy, useCHS) ELSE NoImage
FittedTo(total, g, floppy, useCHS) ==
    IF InRange(g) /\ total = g.cyl * g.head * g.sect
    THEN Fitted(total, g, floppy, useCHS) ELSE NoImage

Derived(total) ==
    [cyl |-> IF total > ChsLimit THEN MaxCylinders ELSE total \div (16 * 63),
     head |-> 16, sect |-> 63]

init(total, g, useCHS) ==
    LET f == FindFloppy(total)
    IN  IF total > LBA28 \/ total = 0 THEN NoImage
        ELSE IF f # 0 THEN FittedTo(total, [cyl |-> floppyInfos[f].cyl,
                 head |-> floppyInfos[f].head, sect |-> floppyInfos[f].sect], f, TRUE)
        ELSE IF g.cyl # 0 THEN FittedTo(total, g, 0, useCHS)
        ELSE IF total > ChsLimit \/ total % (16 * 63) = 0
             THEN Fitted(total, Derived(total), 0, useCHS) ELSE NoImage

CountWords(img) == IF img.useCHS THEN <<0, 0>>
                   ELSE <<img.total % 65536, img.total \div 65536>>
FloppyType(img) == IF img.floppy = 0 THEN -1 ELSE floppyInfos[img.floppy].type
IdentityOf(img, cyl) ==
    [cyl |-> cyl, head |-> img.head, sect |-> img.sect, lba |-> ~img.useCHS,
     count |-> CountWords(img), floppy |-> FloppyType(img)]

(* The identity: words of 16 bits, the number of sectors in two of them.    *)
respondInquire(img) == IdentityOf(img, img.cyl % 65536)

(* What the name of a drive ends in when the client scans for drives: the    *)
(* port it asked on, by its place among the ports known (0: none of them),    *)
(* and the server's rate.                                                   *)
supportedComPorts == <<1016, 760, 1000, 744, 752, 992, 736, 608, 872, 616, 864, 624>>
NoLabel == [com |-> 0, rate |-> 0]
Label(scan, port, rate) ==
    IF scan THEN [com |-> SelectInSeq(supportedComPorts, LAMBDA p : p = port), rate |-> rate]
    ELSE NoLabel

Count(id) == id.count[1] + 65536 * id.count[2]

(* The first and the last sector an identity tells of, by cylinder, head and *)
(* sector and, where it offers that, by number.                             *)
Chs(c, h, s) == [lba |-> FALSE, c |-> c, h |-> h, s |-> s]
Corners(id) ==
    (IF id.cyl = 0 THEN {} ELSE {Chs(0, 0, 1), Chs(id.cyl - 1, id.head - 1, id.sect)})
    \cup (IF id.lba THEN {[lba |-> TRUE, c |-> n, h |-> 0, s |-> 0] : n \in {0, Count(id) - 1}}
          ELSE {})

(* mylba of a command.                                                      *)
Sector(img, a) == IF a.lba THEN a.c ELSE (a.c * img.head + a.h) * img.sect + a.s - 1
=============================================================================
