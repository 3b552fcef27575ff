---------------------------- MODULE SerDriveProps ----------------------------
(***************************************************************************)
(* What the user of the serial drive server relies on.                      *)
(***************************************************************************)
EXTENDS SerDrive, FiniteSets

(* What a command line asks for, said of its words and not of a process that   *)
(* goes through them.  pl is the platform; heads are the words that are looked  *)
(* at: all but the values the options before them take.                     *)
IsOption(pl, w) == IF pl = "win32" THEN Win32IsOption(w) ELSE LinuxIsOption(w)
WordAfter(argv, t) == IF t + 1 \in DOMAIN argv THEN argv[t + 1] ELSE NoWord
TakesValue(pl, w, next) ==
    /\ IsOption(pl, w)
    /\ \/ w.opt \in {"c", "b"}
       \/ w.opt \in {"v", "g", "n"} /\ next.num # 0
       \/ w.opt = "p" /\ next.word = "pipe"
IsReading(pl, argv, heads) ==
    \A t \in DOMAIN argv :
        t \in heads <=> ~(t - 1 \in heads /\ TakesValue(pl, argv[t - 1], WordAfter(argv, t - 1)))

Before(heads, t) == {o \in heads : o < t}
ImageWords(pl, argv, S) == {o \in S : ~IsOption(pl, argv[o])}
Given(pl, argv, S, opt) == {o \in S : IsOption(pl, argv[o]) /\ argv[o].opt = opt}

(* The options for the image at t are those since the image before it.       *)
OptionsFor(pl, argv, heads, t) ==
    {o \in Before(heads, t) : \A i \in ImageWords(pl, argv, Before(heads, t)) : i < o}

RefusedOption(pl, w, next) ==
    CASE w.opt = "c" -> next = NoWord \/ ((pl = "win32" \/ next.digit) /\ next.num < 1)
      [] w.opt = "g" -> next.num # 0 /\ parseGeometry(next.parts) = NoGeometry
      [] w.opt = "b" -> next = NoWord \/ baudRateMatchString(next.num) = {0}
      [] OTHER -> w.opt \notin {"v", "r", "p", "n", "t"}
Refuses(pl, argv, heads, t) ==
    IF IsOption(pl, argv[t]) THEN RefusedOption(pl, argv[t], WordAfter(argv, t))
    ELSE Cardinality(ImageWords(pl, argv, Before(heads, t))) = 2

(* The last size or geometry counts; a new image that is left without a      *)
(* cylinder is the default disk.                                            *)
Sizes(pl, argv, S) == {o \in Given(pl, argv, S, "g") \cup Given(pl, argv, S, "n") :
                          WordAfter(argv, o).num # 0}
SizeAt(argv, o) == IF argv[o].opt = "g" THEN parseGeometry(WordAfter(argv, o).parts)
                   ELSE GeometryOf(SizeOf(WordAfter(argv, o)))
SizeGiven(pl, argv, S) == LET sizes == Sizes(pl, argv, S)
                          IN  IF sizes = {} THEN NoGeometry ELSE SizeAt(argv, Max(sizes))
DefaultDisk == [cyl |-> 65, head |-> 16, sect |-> 63]
GeometryAsked(pl, argv, S) ==
    IF Given(pl, argv, S, "n") # {} /\ SizeGiven(pl, argv, S).cyl = 0 THEN DefaultDisk
    ELSE SizeGiven(pl, argv, S)

ImageAsked(pl, argv, heads, t) ==
    LET S == OptionsFor(pl, argv, heads, t)
    IN  [file |-> argv[t].word, readOnly |-> Given(pl, argv, S, "r") # {},
         g |-> GeometryAsked(pl, argv, S), chs |-> Given(pl, argv, S, "g") # {}]
RatesAsked(pl, argv, heads) ==
    LET rated == Given(pl, argv, heads, "b")
    IN  IF rated # {} THEN baudRateMatchString(WordAfter(argv, Max(rated)).num) \ {0}
        ELSE IF Given(pl, argv, heads, "p") # {} THEN {PipeRate} ELSE {DefaultRate}

(* A line with something to refuse asks for the images before it only.       *)
AsksFor(pl, l, heads) ==
    /\ \A t \in ImageWords(pl, l.argv, heads) :
          (\A o \in heads : o <= t => ~Refuses(pl, l.argv, heads, o)) =>
              LET nth == Cardinality(ImageWords(pl, l.argv, Before(heads, t))) + 1
              IN  /\ nth \in DOMAIN l.asked
                  /\ l.asked[nth] = ImageAsked(pl, l.argv, heads, t)
    /\ /\ ImageWords(pl, l.argv, heads) # {}
       /\ \A o \in heads : ~Refuses(pl, l.argv, heads, o)
       => /\ Len(l.asked) = Cardinality(ImageWords(pl, l.argv, heads))
          /\ RatesAsked(pl, l.argv, heads) \subseteq l.bauds
          /\ l.timeout = (Given(pl, l.argv, heads, "t") = {})

ASSUME AskedAssumption ==
    \A l \in DOMAIN Lines :
        /\ DOMAIN Lines[l].argv = 1 .. Len(Lines[l].argv) /\ Len(Lines[l].argv) \in Nat
        /\ \A pl \in Lines[l].on :
              \E heads \in SUBSET DOMAIN Lines[l].argv :
                  IsReading(pl, Lines[l].argv, heads) /\ AsksFor(pl, Lines[l], heads)

-----------------------------------------------------------------------------
Asked == Lines[p.line].asked
SameGeometry(img, g) == img.cyl = g.cyl /\ img.head = g.head /\ img.sect = g.sect

(* Every image the server opens is the one asked for at its place of the     *)
(* command line, with its own options and not those of the image before:      *)
(* writable or not, by cylinder or by number, with the geometry asked for.    *)
(* A file the server left half made by an earlier run is not served in the    *)
(* place of the disk asked for.  Only a size that is exactly a floppy's has   *)
(* its own geometry.  (Linux.cpp:246-257, FlatImage.h:37-75, Image.cpp:101)  *)
ServedAsAsked ==
    /\ \A i \in DOMAIN p.images :
         /\ i \in DOMAIN Asked
         /\ p.images[i].file = Asked[i].file
         /\ p.images[i].readOnly = Asked[i].readOnly
         /\ LET img == p.images[i].img
            IN  \/ img.floppy # 0
                \/ /\ img.useCHS = Asked[i].chs
                   /\ Asked[i].g # NoGeometry => /\ SameGeometry(img, Asked[i].g)
                                                 /\ img.total = img.cyl * img.head * img.sect
    /\ p.pc \in {"connect", "serve"} =>
         /\ Len(p.images) = Len(Asked)
         /\ p.baud \in Lines[p.line].bauds /\ p.timeout = Lines[p.line].timeout

(* Every sector a client may learn of from an inquiry, up to the last one by  *)
(* cylinder, head and sector or by number, is in the file, however large the   *)
(* file is and whatever other runs have left of it.  (Image.cpp:95-149, 301-310)*)
AddressableIsStored ==
    \A i \in DOMAIN p.images :
        \A a \in Corners(respondInquire(p.images[i].img)) :
            Sector(p.images[i].img, a) \in 0 .. fs[p.images[i].file].size - 1

(* A client that scans for drives is shown the port and the rate it asked on,  *)
(* and one that does not is shown the plain name, whatever an earlier client    *)
(* asked and however the server was started again.  (Process.cpp:362-371)     *)
LabelIsTrue ==
    \A d \in {0, 1} : label[d] # NoLabel =>
        /\ client.scan /\ label[d].com = Label(TRUE, client.port, 0).com
        /\ Divisor(label[d].rate) = client.divisor

AskedWritable(f) == \E i \in DOMAIN Asked : Asked[i].file = f /\ ~Asked[i].readOnly
Serves(d, f) == Provided(d) /\ Drive(d).file = f

(* A file that exists is never emptied or cut; a step changes it only to fill  *)
(* the file this server has just made, or because a client writes to a drive   *)
(* that was not asked to be read-only; and it grows only under a client that   *)
(* holds the identity of another disk.  The exception is the portable file     *)
(* access, which looks and creates in two steps.  (LinuxFile.h:38-56,         *)
(* Process.cpp:235-236, 378-379, File.h:36-53)                                   *)
NoFileIsLost ==
    [][\A f \in Names : fs[f].exists /\ fs'[f] # fs[f] =>
          \/ p.pc = "fill" /\ File = f /\ fs[f].made /\ fs'[f].size > fs[f].size
          \/ /\ p.pc = "serve" /\ AskedWritable(f) /\ fs'[f].made = fs[f].made
             /\ fs'[f].size >= fs[f].size
             /\ fs'[f].size > fs[f].size =>
                  \E d \in {0, 1} : /\ Serves(d, f)
                                    /\ told[d] # respondInquire(Drive(d).img)
          \/ platform = "stdio" /\ p.pc = "make" /\ File = f]_vars

=============================================================================
