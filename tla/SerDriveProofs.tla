--------------------------- MODULE SerDriveProofs ---------------------------
(***************************************************************************)
(* Whatever the command lines, the files and the clients are: a client can  *)
(* address no sector an image does not have, its drives' labels are those   *)
(* of its own scan, the server serves what its command line asks for, and   *)
(* costs nobody a file.                                                     *)
(***************************************************************************)
EXTENDS SerDriveProps, FiniteSetTheorems, WellFoundedInduction, TLAPS

(* An image a server may serve: its geometry does not exceed its sectors.    *)
ImageFits(img) ==
    /\ img.total \in Nat /\ img.total > 0
    /\ img.cyl \in Nat /\ img.head \in Nat /\ img.sect \in Nat
    /\ img.cyl > 0 /\ img.head > 0 /\ img.sect > 0
    /\ (img.cyl * img.head) * img.sect <= img.total

Geometries == [cyl : Nat, head : Nat, sect : Nat]
Identity(id) == /\ id.cyl \in Int /\ id.head \in Int /\ id.sect \in Int
                /\ id.count[1] \in Int /\ id.count[2] \in Int

-----------------------------------------------------------------------------
LEMMA Grows == ASSUME NEW a \in Nat, NEW b \in Nat, a <= b, NEW k \in Nat
               PROVE  a * k <= b * k
  <1> DEFINE d == b - a
  <1>1. d \in Nat /\ b = a + d
    OBVIOUS
  <1> HIDE DEF d
  <1>2. b * k = a * k + d * k
    BY <1>1, SMT
  <1>3. d * k >= 0 /\ a * k \in Int /\ d * k \in Int
    BY <1>1, SMT
  <1> QED BY <1>2, <1>3, SMT

LEMMA CountIsTotal ==
  ASSUME NEW n \in Nat PROVE (n % 65536) + 65536 * (n \div 65536) = n
  BY SMT

(* The last cylinder, head and sector of a geometry.                         *)
LEMMA LastOfGeometry ==
  ASSUME NEW c \in Nat, NEW h \in Nat, NEW s \in Nat, c > 0, h > 0, s > 0
  PROVE  ((c - 1) * h + (h - 1)) * s + s - 1 = (c * h) * s - 1
  <1>1. (c - 1) * h + (h - 1) = c * h - 1
    BY SMT
  <1>2. c * h \in Int
    BY SMT
  <1>3. ASSUME NEW x \in Int PROVE (x - 1) * s + s - 1 = x * s - 1
    BY SMT
  <1> QED BY <1>1, <1>2, <1>3

(* No corner an identity tells of is outside the image.                      *)
LEMMA CornersAreInside ==
  ASSUME NEW img, ImageFits(img), NEW a \in Corners(respondInquire(img))
  PROVE  Sector(img, a) \in 0 .. img.total - 1
  <1> DEFINE id == respondInquire(img)
             c  == img.cyl % 65536
  <1>1. /\ id.cyl = c /\ id.head = img.head /\ id.sect = img.sect
        /\ id.lba = ~img.useCHS /\ id.count = CountWords(img)
    BY DEF respondInquire, IdentityOf
  <1>2. c \in Nat /\ c <= img.cyl
    BY SMT DEF ImageFits
  <1>3. CASE a = Chs(0, 0, 1)
    <2>1. Sector(img, a) = (0 * img.head + 0) * img.sect + 1 - 1
      BY <1>3 DEF Sector, Chs
    <2> QED BY <2>1, SMT DEF ImageFits
  <1>4. CASE c # 0 /\ a = Chs(c - 1, img.head - 1, img.sect)
    <2>1. Sector(img, a) = ((c - 1) * img.head + (img.head - 1)) * img.sect + img.sect - 1
      BY <1>4 DEF Sector, Chs
    <2>2. c > 0
      BY <1>2, <1>4, SMT
    <2>3. Sector(img, a) = (c * img.head) * img.sect - 1
      BY <1>2, <2>1, <2>2, LastOfGeometry DEF ImageFits
    <2>4. c * img.head <= img.cyl * img.head
      BY <1>2, Grows DEF ImageFits
    <2>5. c * img.head \in Nat /\ img.cyl * img.head \in Nat
      BY <1>2, SMT DEF ImageFits
    <2>6. (c * img.head) * img.sect <= (img.cyl * img.head) * img.sect
      BY <2>4, <2>5, Grows DEF ImageFits
    <2>7. c * img.head > 0
      BY <1>2, <2>2, SMT DEF ImageFits
    <2>8. (c * img.head) * img.sect > 0
      BY <2>5, <2>7, SMT DEF ImageFits
    <2>9. (c * img.head) * img.sect \in Int /\ (img.cyl * img.head) * img.sect \in Int
      BY <2>5, SMT DEF ImageFits
    <2> HIDE DEF c
    <2> DEFINE last == (c * img.head) * img.sect
               all  == (img.cyl * img.head) * img.sect
    <2>10. last \in Int /\ all \in Int /\ last > 0 /\ last <= all /\ all <= img.total
      BY <2>6, <2>8, <2>9 DEF ImageFits
    <2>11. Sector(img, a) = last - 1
      BY <2>3
    <2> HIDE DEF last, all
    <2> QED BY <2>10, <2>11, SMT DEF ImageFits
  <1>5. CASE /\ ~img.useCHS
             /\ \E n \in {0, Count(id) - 1} : a = [lba |-> TRUE, c |-> n, h |-> 0, s |-> 0]
    <2>1. Count(id) = img.total
      <3>1. Count(id) = (img.total % 65536) + 65536 * (img.total \div 65536)
        BY <1>1, <1>5 DEF Count, CountWords
      <3> QED BY <3>1, CountIsTotal DEF ImageFits
    <2>2. Sector(img, a) \in {0, img.total - 1}
      BY <1>5, <2>1 DEF Sector
    <2> QED BY <2>2, SMT DEF ImageFits
  <1>6. \/ a = Chs(0, 0, 1)
        \/ c # 0 /\ a = Chs(c - 1, img.head - 1, img.sect)
        \/ /\ ~img.useCHS
           /\ \E n \in {0, Count(id) - 1} : a = [lba |-> TRUE, c |-> n, h |-> 0, s |-> 0]
    <2> DEFINE byChs == IF id.cyl = 0 THEN {}
                        ELSE {Chs(0, 0, 1), Chs(id.cyl - 1, id.head - 1, id.sect)}
               byLba == IF id.lba THEN {[lba |-> TRUE, c |-> n, h |-> 0, s |-> 0] : n \in {0, Count(id) - 1}}
                        ELSE {}
    <2>1. a \in byChs \/ a \in byLba
      BY DEF Corners
    <2>2. ASSUME a \in byChs
          PROVE  id.cyl # 0 /\ a \in {Chs(0, 0, 1), Chs(id.cyl - 1, id.head - 1, id.sect)}
      BY <2>2, Zenon
    <2>3. ASSUME a \in byLba
          PROVE  /\ id.lba
                 /\ \E n \in {0, Count(id) - 1} : a = [lba |-> TRUE, c |-> n, h |-> 0, s |-> 0]
      BY <2>3, Zenon
    <2> HIDE DEF c, byChs, byLba, id
    <2>4. ASSUME a \in byChs
          PROVE  a = Chs(0, 0, 1) \/ (c # 0 /\ a = Chs(c - 1, img.head - 1, img.sect))
      <3>1. id.cyl = c /\ id.head = img.head /\ id.sect = img.sect
        BY <1>1
      <3>2. Chs(id.cyl - 1, id.head - 1, id.sect) = Chs(c - 1, img.head - 1, img.sect)
        BY <3>1
      <3> QED BY <2>2, <2>4, <3>1, <3>2, Zenon
    <2> QED BY <2>1, <2>3, <2>4, <1>1, Zenon
  <1> QED BY <1>3, <1>4, <1>5, <1>6

-----------------------------------------------------------------------------
LEMMA HasLeast == ASSUME NEW S \in SUBSET Nat, S # {} PROVE Min(S) \in S
  <1> DEFINE less == OpToRel(<, Nat)
  <1>1. \E x \in S : \A y \in S : ~ (<<y, x>> \in less)
    <2> HIDE DEF less
    <2>1. IsWellFoundedOn(less, Nat)
      BY NatLessThanWellFounded DEF less
    <2> QED BY <2>1, WFMin
  <1>2. \A x, y \in Nat : <<y, x>> \in less <=> y < x
    BY DEF OpToRel
  <1> HIDE DEF less
  <1>3. PICK x \in S : \A y \in S : ~ (<<y, x>> \in less)
    BY <1>1
  <1>4. \A y \in S : ~ (y < x)
    BY <1>2, <1>3
  <1>5. \A y \in S : x <= y
    BY <1>4, SMT
  <1> QED BY <1>5 DEF Min

(* A floppy is found in the table, or not at all.                            *)
LEMMA FoundInTable ==
  ASSUME NEW size
  PROVE  /\ FindFloppyInfoBySize(size) \in 0 .. 11
         /\ FindFloppy(size) \in 0 .. 11
  <1>1. Len(floppyInfos) = 11
    BY DEF floppyInfos
  <1> DEFINE near  == {i \in 1 .. Len(floppyInfos) :
                          size + 5 > floppyInfos[i].size /\ size - 5 < floppyInfos[i].size}
             exact == {i \in 1 .. Len(floppyInfos) :
                          floppyInfos[i].size = size /\ floppyInfos[i].real}
  <1>2. FindFloppyInfoBySize(size) = IF near # {} THEN Min(near) ELSE 0
    BY DEF FindFloppyInfoBySize, SelectInSeq
  <1>3. FindFloppy(size) = IF exact # {} THEN Min(exact) ELSE 0
    BY DEF FindFloppy, SelectInSeq
  <1>4. near \in SUBSET (1 .. 11) /\ exact \in SUBSET (1 .. 11)
    BY <1>1
  <1> HIDE DEF near, exact
  <1>5. near \in SUBSET Nat /\ exact \in SUBSET Nat
    BY <1>4
  <1>6. near # {} => Min(near) \in 1 .. 11
    BY <1>4, <1>5, HasLeast, Zenon
  <1>7. exact # {} => Min(exact) \in 1 .. 11
    BY <1>4, <1>5, HasLeast, Zenon
  <1> QED BY <1>2, <1>3, <1>6, <1>7

LEMMA FloppyGeometry ==
  ASSUME NEW f \in 1 .. 11
  PROVE  floppyInfos[f].cyl \in Nat /\ floppyInfos[f].head \in Nat /\ floppyInfos[f].sect \in Nat
  BY SMT DEF floppyInfos, Floppy

(* What is opened as an image has the sectors its geometry needs.            *)
LEMMA InitFits ==
  ASSUME NEW total \in Nat, NEW g, NEW useCHS, init(total, g, useCHS).fits
  PROVE  /\ ImageFits(init(total, g, useCHS))
         /\ init(total, g, useCHS).total = total
  <1> DEFINE img == init(total, g, useCHS)
  <1>1. ~NoImage.fits
    BY DEF NoImage
  <1>2. total > 0
    <2>1. total = 0 => init(total, g, useCHS) = NoImage
      BY Zenon DEF init
    <2>2. total # 0
      BY <1>1, <2>1
    <2> QED BY <2>2, SMT
  <1>3. ASSUME NEW h, NEW f, NEW chs, img = FittedTo(total, h, f, chs)
        PROVE  ImageFits(img) /\ img.total = total
    <2> HIDE DEF img
    <2>1. InRange(h) /\ total = h.cyl * h.head * h.sect /\ img = Fitted(total, h, f, chs)
      BY <1>1, <1>3 DEF FittedTo, img
    <2>2. /\ img.total = total /\ img.cyl = h.cyl /\ img.head = h.head /\ img.sect = h.sect
      BY <2>1 DEF Fitted
    <2>3. InRange(h)
      BY <2>1
    <2>4. h.cyl \in 1 .. MaxCylinders /\ h.head \in 1 .. 16 /\ h.sect \in 1 .. 255
      BY <2>3 DEF InRange
    <2>5. /\ h.cyl \in Nat /\ h.head \in Nat /\ h.sect \in Nat
          /\ h.cyl > 0 /\ h.head > 0 /\ h.sect > 0
      <3>1. \A n \in Nat : \A x \in 1 .. n : x \in Nat /\ x > 0
        BY SMT
      <3>2. h.cyl \in Nat /\ h.cyl > 0
        <4>1. MaxCylinders \in Nat
          BY DEF MaxCylinders
        <4> QED BY <2>4, <3>1, <4>1
      <3>3. h.head \in Nat /\ h.head > 0
        BY <2>4, SMT
      <3>4. h.sect \in Nat /\ h.sect > 0
        BY <2>4, SMT
      <3> QED BY <3>2, <3>3, <3>4
    <2>6. /\ img.cyl \in Nat /\ img.head \in Nat /\ img.sect \in Nat
          /\ img.cyl > 0 /\ img.head > 0 /\ img.sect > 0
      BY <2>2, <2>5, Zenon
    <2>7. img.cyl * img.head * img.sect = total
      BY <2>1, <2>2, Zenon
    <2>8. total <= total
      OBVIOUS
    <2> QED BY <1>2, <2>2, <2>6, <2>7, <2>8 DEF ImageFits
  <1>4. ASSUME img = Fitted(total, Derived(total), 0, useCHS),
               total > ChsLimit \/ total % (16 * 63) = 0
        PROVE  ImageFits(img) /\ img.total = total
    <2>1. /\ img.total = total /\ img.cyl = Derived(total).cyl
          /\ img.head = 16 /\ img.sect = 63
      BY <1>4 DEF Fitted, Derived
    <2>2. Derived(total).cyl = IF total > ChsLimit THEN MaxCylinders ELSE total \div 1008
      BY DEF Derived
    <2>3. total > ChsLimit \/ total % 1008 = 0
      BY <1>4
    <2> HIDE DEF img
    <2>4. CASE total > ChsLimit
      BY <1>2, <2>1, <2>2, <2>4, SMT DEF ImageFits, ChsLimit, MaxCylinders
    <2>5. CASE ~(total > ChsLimit)
      <3>1. total % 1008 = 0 /\ img.cyl = total \div 1008
        BY <2>1, <2>2, <2>3, <2>5
      <3>2. img.cyl \in Nat /\ total = 1008 * img.cyl
        BY <3>1, SMT
      <3> QED BY <1>2, <2>1, <3>2, SMT DEF ImageFits
    <2> QED BY <2>4, <2>5
  <1>5. \/ \E h, f, chs : img = FittedTo(total, h, f, chs)
        \/ /\ img = Fitted(total, Derived(total), 0, useCHS)
           /\ total > ChsLimit \/ total % (16 * 63) = 0
    <2>1. img # NoImage
      BY <1>1
    <2> QED BY <2>1, Zenon DEF init
  <1> QED BY <1>3, <1>4, <1>5

-----------------------------------------------------------------------------
(* What may become of a file that an image is served from.                   *)
Grown(f, h) == /\ h \in HostFiles
               /\ f.exists => h.exists /\ f.size <= h.size

LEMMA FilesStay == ASSUME NEW f \in HostFiles PROVE Grown(f, f)
  <1>1. f.size \in Nat
    BY DEF HostFiles
  <1>2. f.size <= f.size
    BY <1>1, SMT
  <1> QED BY <1>2 DEF Grown

LEMMA ExtendedGrows ==
  ASSUME NEW f \in HostFiles, NEW size \in Int
  PROVE  /\ Grown(f, Extended(f, size))
         /\ Grown(f, Written(f, size))
         /\ Extended(f, size) \in HostFiles /\ Written(f, size) \in HostFiles
  <1>1. f.size \in Nat
    BY DEF HostFiles
  <1>2. ASSUME NEW n \in Int
        PROVE  /\ Extended(f, n) \in HostFiles /\ Extended(f, n).exists = f.exists
               /\ f.size <= Extended(f, n).size
    <2>1. (IF n > f.size THEN n ELSE f.size) \in Nat /\ f.size <= IF n > f.size THEN n ELSE f.size
      BY <1>1, <1>2, SMT
    <2> QED BY <2>1 DEF Extended, HostFiles
  <1>3. /\ Written(f, size) \in HostFiles
        /\ Written(f, size).exists = Extended(f, size + 1).exists
        /\ Written(f, size).size = Extended(f, size + 1).size
    <2>1. Extended(f, size + 1) \in HostFiles
      BY <1>2
    <2> QED BY <2>1 DEF Written, HostFiles
  <1>4. size + 1 \in Int
    BY SMT
  <1> QED BY <1>2, <1>3, <1>4 DEF Grown

LEMMA OutcomeIs ==
  ASSUME NEW says, NEW f PROVE Outcome(says, f).says = says /\ Outcome(says, f).file = f
  BY DEF Outcome

LEMMA NewFiles == NoFile \in HostFiles /\ Empty \in HostFiles
  BY DEF NoFile, Empty, HostFiles

LEMMA SizeIsHonest ==
  ASSUME NEW f \in HostFiles
  PROVE  SizeSectors(f) \in Nat /\ SizeSectors(f) <= f.size
  <1>1. f.size \in Nat
    BY DEF HostFiles
  <1>2. LF!SizeSectors(f) \in Nat /\ LF!SizeSectors(f) <= f.size
    <2>1. LF!SizeSectors(f) \in {0, f.size}
      BY DEF LF!SizeSectors
    <2> QED BY <1>1, <2>1, SMT
  <1>3. SF!SizeSectors(f) \in Nat /\ SF!SizeSectors(f) <= f.size
    <2>1. SF!SizeSectors(f) \in {0, f.size}
      BY DEF SF!SizeSectors
    <2> QED BY <1>1, <2>1, SMT
  <1>4. WF!SizeSectors(f) \in Nat /\ WF!SizeSectors(f) <= f.size
    <2>1. WF!SizeSectors(f) \in {0, WF!HighPart(f) * WF!HighUnit + WF!LowSectors(f)}
      BY DEF WF!SizeSectors
    <2>2. WF!HighPart(f) * WF!HighUnit + WF!LowSectors(f) = f.size
      BY <1>1, SMT DEF WF!HighPart, WF!HighUnit, WF!LowSectors
    <2> QED BY <1>1, <2>1, <2>2, SMT
  <1> QED BY <1>2, <1>3, <1>4 DEF SizeSectors

LEMMA OpenedIsThere ==
  ASSUME NEW f, NEW inUse, NEW o \in Opened(f, inUse)
  PROVE  o.file = f /\ (o.says = "ok" => f.exists)
  <1>1. /\ \A says, h : LF!Outcome(says, h) = Outcome(says, h)
        /\ \A says, h : WF!Outcome(says, h) = Outcome(says, h)
        /\ \A says, h : SF!Outcome(says, h) = Outcome(says, h)
    BY Zenon DEF LF!Outcome, WF!Outcome, SF!Outcome, Outcome
  <1>2. o \in LF!Open(f) => (f.exists /\ o = Outcome("ok", f)) \/ o = Outcome("exit", f)
    BY <1>1 DEF LF!Open
  <1>3. o \in WF!Open(f, inUse) => (f.exists /\ o = Outcome("ok", f)) \/ o = Outcome("exit", f)
    BY <1>1 DEF WF!Open
  <1>4. o \in SF!Open(f) => (f.exists /\ o = Outcome("ok", f)) \/ o = Outcome("exit", f)
    BY <1>1 DEF SF!Open
  <1>5. o \in LF!Open(f) \/ o \in WF!Open(f, inUse) \/ o \in SF!Open(f)
    BY DEF Opened
  <1>6. "ok" # "exit"
    OBVIOUS
  <1> QED BY <1>2, <1>3, <1>4, <1>5, <1>6, OutcomeIs

LEMMA TransferGrows ==
  ASSUME NEW f \in HostFiles, NEW lba \in Int,
         NEW o, o \in SectorRead(f, lba) \/ o \in SectorWritten(f, lba)
  PROVE  Grown(f, o.file)
  <1>1. o \in SectorRead(f, lba) => o.file = f
    <2>1. o \in LF!Read(f, lba) => o.file = f
      BY DEF LF!Read, LF!Outcome
    <2>2. o \in WF!Read(f, lba) => o.file = f
      BY DEF WF!Read, WF!Outcome
    <2>3. o \in SF!Read(f, lba) => o.file = f
      BY DEF SF!Read, SF!Outcome
    <2> QED BY <2>1, <2>2, <2>3, Zenon DEF SectorRead
  <1>2. o \in SectorWritten(f, lba) => o.file \in {f, Written(f, lba)}
    <2>1. o \in LF!Write(f, lba) => o.file \in {f, Written(f, lba)}
      BY DEF LF!Write, LF!Outcome, LF!Written, Written, LF!Extended, Extended
    <2>2. o \in WF!Write(f, lba) => o.file \in {f, Written(f, lba)}
      BY DEF WF!Write, WF!Outcome, WF!Written, Written, WF!Extended, Extended
    <2>3. o \in SF!Write(f, lba) => o.file \in {f, Written(f, lba)}
      BY DEF SF!Write, SF!Outcome, SF!Written, Written, SF!Extended, Extended
    <2> QED BY <2>1, <2>2, <2>3, Zenon DEF SectorWritten
  <1> QED BY <1>1, <1>2, FilesStay, ExtendedGrows

-----------------------------------------------------------------------------
Fields == {"pc", "line", "t", "readOnly", "create", "g", "useCHS", "baud", "port",
           "timeout", "images", "cf", "lastScan", "serial"}

(* What a word of the command line leaves of the process, whatever it says.  *)
Parsed(q, r) == /\ DOMAIN r = Fields /\ r.g \in Geometries
                /\ r.images = q.images \/ r.images = <<>>
                /\ r.pc = q.pc \/ r.pc \in {"off", "create", "open"}
                /\ r.lastScan = q.lastScan \/ r.lastScan = FALSE
                /\ r.pc = "off" \/ r.line = q.line

LEMMA OffIsAProcess ==
  /\ DOMAIN Off = Fields /\ Off.g \in Geometries /\ Off.images = <<>>
  /\ Off.pc = "off" /\ Off.lastScan = FALSE
  BY DEF Off, Fields, Geometries, NoGeometry

LEMMA EndIsParsed == ASSUME NEW q PROVE Parsed(q, Off)
  BY OffIsAProcess DEF Parsed

LEMMA GeometriesParsed ==
  ASSUME NEW w, w.parts \in Seq(Nat), w.milli \in Nat
  PROVE  parseGeometry(w.parts) \in Geometries /\ GeometryOf(SizeOf(w)) \in Geometries
  <1>1. parseGeometry(w.parts) \in Geometries
    <2>1. NoGeometry \in Geometries
      BY DEF NoGeometry, Geometries
    <2>2. CASE Len(w.parts) = 3
      <3>1. w.parts[1] \in Nat /\ w.parts[2] \in Nat /\ w.parts[3] \in Nat
        BY <2>2
      <3> QED BY <2>1, <3>1 DEF parseGeometry, Geometries
    <2>3. CASE Len(w.parts) # 3
      BY <2>1, <2>3 DEF parseGeometry
    <2> QED BY <2>2, <2>3
  <1>2. SizeOf(w) \in Nat
    <2>1. (2 * w.milli) \div 1000 \in Nat /\ 2 * w.milli \in Nat
      BY SMT
    <2> QED BY <2>1 DEF SizeOf
  <1>3. GeometryOf(SizeOf(w)) \in Geometries
    <2> DEFINE size == SizeOf(w)
               f    == FindFloppyInfoBySize(size)
    <2>1. f = 0 \/ f \in 1 .. 11
      BY FoundInTable
    <2>2. CASE f = 0
      <3>1. GeometryOf(size) = [cyl |-> size \div (16 * 63), head |-> 16, sect |-> 63]
        BY <2>2, Zenon DEF GeometryOf
      <3>2. size \div (16 * 63) \in Nat
        <4> HIDE DEF size
        <4>1. size \div 1008 \in Nat
          BY <1>2, SMT DEF size
        <4> QED BY <4>1
      <3> QED BY <3>1, <3>2 DEF Geometries
    <2>3. CASE f \in 1 .. 11
      <3>1. f # 0
        BY <2>3
      <3>2. GeometryOf(size) = [cyl |-> floppyInfos[f].cyl, head |-> floppyInfos[f].head,
                                sect |-> floppyInfos[f].sect]
        BY <3>1, Zenon DEF GeometryOf
      <3> HIDE DEF f
      <3>3. floppyInfos[f].cyl \in Nat /\ floppyInfos[f].head \in Nat /\ floppyInfos[f].sect \in Nat
        BY <2>3, FloppyGeometry
      <3> QED BY <3>2, <3>3 DEF Geometries
    <2> QED BY <2>1, <2>2, <2>3
  <1> QED BY <1>1, <1>3

(* Fields set on the way, none of which the invariants are about.            *)
Quiet(q, r) == /\ DOMAIN r = Fields /\ r.images = q.images /\ r.pc = q.pc
               /\ r.lastScan = q.lastScan /\ r.line = q.line

LEMMA QuietIsParsed ==
  ASSUME NEW q, NEW r, Quiet(q, r), r.g \in Geometries
  PROVE  Parsed(q, r)
  BY DEF Quiet, Parsed

LEMMA OptionParsed ==
  ASSUME NEW q, DOMAIN q = Fields, q.g \in Geometries,
         NEW w, w.parts \in Seq(Nat), w.milli \in Nat, NEW opt,
         NEW r, r \in Option(q, opt, w) \/ r \in LinuxPort(q, w) \/ r \in Win32Port(q, w)
  PROVE  Parsed(q, r)
  <1> USE DEF Usage
  <1>1. \A b : Quiet(q, Next2(q, b)) /\ Next2(q, b).g = q.g
    BY DEF Quiet, Fields, Next2
  <1>2. Quiet(q, Next1(q)) /\ Next1(q).g = q.g
    BY DEF Quiet, Fields, Next1
  <1>3. ASSUME NEW prefix PROVE Parsed(q, Number(q, w, prefix))
    <2>1. CASE w.num < 1
      BY <2>1, EndIsParsed DEF Number
    <2>2. CASE ~(w.num < 1)
      <3>1. Quiet(q, Number(q, w, prefix)) /\ Number(q, w, prefix).g = q.g
        BY <1>1, <2>2 DEF Number, Quiet, Fields
      <3> QED BY <3>1, QuietIsParsed
    <2> QED BY <2>1, <2>2
  <1>4. r \in LinuxPort(q, w) => Parsed(q, r)
    <2>1. Quiet(q, [Next2(q, TRUE) EXCEPT !.port = w.word])
          /\ [Next2(q, TRUE) EXCEPT !.port = w.word].g = q.g
      BY <1>1 DEF Quiet, Fields
    <2> QED BY <1>3, <2>1, EndIsParsed, QuietIsParsed DEF LinuxPort
  <1>5. r \in Win32Port(q, w) => Parsed(q, r)
    BY <1>3, EndIsParsed DEF Win32Port
  <1>6. r \in Verbose(q, w) => Parsed(q, r)
    BY <1>1, QuietIsParsed DEF Verbose
  <1>7. r \in ReadOnly(q) => Parsed(q, r)
    <2>1. Quiet(q, [Next1(q) EXCEPT !.readOnly = TRUE])
          /\ [Next1(q) EXCEPT !.readOnly = TRUE].g = q.g
      BY <1>2 DEF Quiet, Fields
    <2> QED BY <2>1, QuietIsParsed DEF ReadOnly
  <1>8. r \in NoTimeout(q) => Parsed(q, r)
    <2>1. Quiet(q, [Next1(q) EXCEPT !.timeout = FALSE])
          /\ [Next1(q) EXCEPT !.timeout = FALSE].g = q.g
      BY <1>2 DEF Quiet, Fields
    <2> QED BY <2>1, QuietIsParsed DEF NoTimeout
  <1>9. r \in PipeMode(q, w) => Parsed(q, r)
    <2>1. r \in PipeMode(q, w) => Quiet(q, r) /\ r.g = q.g
      BY DEF PipeMode, Next2, Quiet, Fields
    <2> QED BY <2>1, QuietIsParsed
  <1>10. r \in BaudRate(q, w) => Parsed(q, r)
    <2>1. \A rate : Quiet(q, [Next2(q, TRUE) EXCEPT !.baud = rate])
                    /\ [Next2(q, TRUE) EXCEPT !.baud = rate].g = q.g
      BY <1>1 DEF Quiet, Fields
    <2>2. \A rate : Parsed(q, [Next2(q, TRUE) EXCEPT !.baud = rate])
      BY <2>1, QuietIsParsed
    <2>3. r \in BaudRate(q, w) =>
             r = Off \/ \E rate : r = [Next2(q, TRUE) EXCEPT !.baud = rate]
      BY Zenon DEF BaudRate
    <2> QED BY <2>2, <2>3, EndIsParsed
  <1>11. r \in GeometryOption(q, w) => Parsed(q, r)
    <2>1. ASSUME NEW b, NEW g \in Geometries
          PROVE  Parsed(q, [Next2(q, b) EXCEPT !.useCHS = TRUE, !.g = g])
      <3>1. /\ Quiet(q, [Next2(q, b) EXCEPT !.useCHS = TRUE, !.g = g])
            /\ [Next2(q, b) EXCEPT !.useCHS = TRUE, !.g = g].g = g
        BY <1>1 DEF Quiet, Fields
      <3> QED BY <3>1, QuietIsParsed
    <2>2. ASSUME r \in GeometryOption(q, w)
          PROVE  \/ r = Off
                 \/ \E b : \E g \in {parseGeometry(w.parts), q.g} :
                       r = [Next2(q, b) EXCEPT !.useCHS = TRUE, !.g = g]
      <3> DEFINE b == w.num # 0
                 g == IF b THEN parseGeometry(w.parts) ELSE Next2(q, b).g
      <3>1. r = Off \/ r = [Next2(q, b) EXCEPT !.useCHS = TRUE, !.g = g]
        BY <2>2, Zenon DEF GeometryOption
      <3>2. g \in {parseGeometry(w.parts), q.g}
        BY <1>1, Zenon
      <3> QED BY <3>1, <3>2, Zenon
    <2>3. {parseGeometry(w.parts), q.g} \subseteq Geometries
      BY GeometriesParsed
    <2>4. \A b : \A g \in {parseGeometry(w.parts), q.g} :
             Parsed(q, [Next2(q, b) EXCEPT !.useCHS = TRUE, !.g = g])
      BY <2>1, <2>3
    <2> QED BY <2>2, <2>4, EndIsParsed
  <1>12. r \in NewDisk(q, w) => Parsed(q, r)
    <2>1. ASSUME NEW b, NEW g \in Geometries
          PROVE  Parsed(q, [Next2(q, b) EXCEPT !.create = TRUE, !.g = g])
      <3>1. /\ Quiet(q, [Next2(q, b) EXCEPT !.create = TRUE, !.g = g])
            /\ [Next2(q, b) EXCEPT !.create = TRUE, !.g = g].g = g
        BY <1>1 DEF Quiet, Fields
      <3> QED BY <3>1, QuietIsParsed
    <2>2. ASSUME r \in NewDisk(q, w)
          PROVE  \E b : \E g \in {GeometryOf(SizeOf(w)), q.g} :
                    r = [Next2(q, b) EXCEPT !.create = TRUE, !.g = g]
      <3> DEFINE b == w.num # 0
                 g == IF b THEN GeometryOf(SizeOf(w)) ELSE Next2(q, b).g
      <3>1. r = [Next2(q, b) EXCEPT !.create = TRUE, !.g = g]
        BY <2>2, Zenon DEF NewDisk
      <3>2. g \in {GeometryOf(SizeOf(w)), q.g}
        BY <1>1, Zenon
      <3> QED BY <3>1, <3>2, Zenon
    <2>3. {GeometryOf(SizeOf(w)), q.g} \subseteq Geometries
      BY GeometriesParsed
    <2>4. \A b : \A g \in {GeometryOf(SizeOf(w)), q.g} :
             Parsed(q, [Next2(q, b) EXCEPT !.create = TRUE, !.g = g])
      BY <2>1, <2>3
    <2> QED BY <2>2, <2>4
  <1>13. r \in Option(q, opt, w) =>
            \/ r \in Verbose(q, w) \/ r \in ReadOnly(q) \/ r \in PipeMode(q, w)
            \/ r \in GeometryOption(q, w) \/ r \in NewDisk(q, w) \/ r \in NoTimeout(q)
            \/ r \in BaudRate(q, w) \/ r = Off
    BY Zenon DEF Option
  <1> QED BY <1>4, <1>5, <1>6, <1>7, <1>8, <1>9, <1>10, <1>11, <1>12, <1>13, EndIsParsed

LEMMA ArgumentParsed ==
  ASSUME NEW q, DOMAIN q = Fields, q.g \in Geometries,
         NEW a, NEW w, w.parts \in Seq(Nat), w.milli \in Nat,
         NEW r, r \in LinuxArgument(q, a, w) \/ r \in Win32Argument(q, a, w)
  PROVE  Parsed(q, r)
  <1>1. r \in ImageName(q) => Parsed(q, r)
    <2>1. r \in ImageName(q) =>
             \/ r = Off
             \/ /\ DOMAIN r = Fields /\ r.images = q.images /\ r.pc \in {"create", "open"}
                /\ r.lastScan = q.lastScan /\ r.line = q.line
                /\ r.g \in {q.g, [cyl |-> 65, head |-> 16, sect |-> 63]}
      BY DEF ImageName, Usage, Fields
    <2>2. [cyl |-> 65, head |-> 16, sect |-> 63] \in Geometries
      BY DEF Geometries
    <2> QED BY <2>1, <2>2, EndIsParsed DEF Parsed
  <1>2. \/ r \in ImageName(q)
        \/ \E opt : r \in Option(q, opt, w)
        \/ r \in LinuxPort(q, w) \/ r \in Win32Port(q, w)
    BY Zenon DEF LinuxArgument, Win32Argument, LinuxOption, Win32Option
  <1> QED BY <1>1, <1>2, OptionParsed

-----------------------------------------------------------------------------
Stored(i, files) == /\ i.file \in Names /\ ImageFits(i.img)
                    /\ files[i.file].exists /\ i.img.total <= files[i.file].size
Images(images, files) == /\ images \in Seq({images[i] : i \in DOMAIN images})
                         /\ \A i \in DOMAIN images : Stored(images[i], files)

(* The server: every image in use has its sectors, and the file that is      *)
(* about to be emptied by the portable creation is none of theirs.           *)
ServerInv ==
    /\ fs \in [Names -> HostFiles]
    /\ DOMAIN p = Fields /\ p.g \in Geometries
    /\ Images(p.images, fs)
    /\ p.pc # "off" => p.line \in DOMAIN Lines
    /\ p.pc = "make" => \A i \in DOMAIN p.images : p.images[i].file # File

(* The client: a server that remembers a scan was asked by a client that     *)
(* scans, or by one whose identities are gone.                               *)
ClientInv ==
    /\ client \in Clients
    /\ DOMAIN told = {0, 1} /\ \A d \in {0, 1} : Identity(told[d])
    /\ DOMAIN label = {0, 1} /\ LabelIsTrue
    /\ p.lastScan \in BOOLEAN
    /\ told[0] # NoIdentity /\ p.lastScan => client.scan

IInv == ServerInv /\ ClientInv

-----------------------------------------------------------------------------
LEMMA NoImages == ASSUME NEW files PROVE Images(<<>>, files)
  BY DEF Images

LEMMA StoredGrows ==
  ASSUME NEW i, NEW files \in [Names -> HostFiles], NEW after \in [Names -> HostFiles],
         Stored(i, files), Grown(files[i.file], after[i.file])
  PROVE  Stored(i, after)
  <1>1. i.file \in Names /\ i.img.total \in Nat
    BY DEF Stored, ImageFits
  <1>2. files[i.file].size \in Nat /\ after[i.file].size \in Nat
    BY <1>1 DEF HostFiles
  <1>3. /\ after[i.file].exists
        /\ i.img.total <= files[i.file].size /\ files[i.file].size <= after[i.file].size
    BY DEF Stored, Grown
  <1>4. i.img.total <= after[i.file].size
    BY <1>1, <1>2, <1>3, SMT
  <1> QED BY <1>3, <1>4 DEF Stored

LEMMA ImagesGrow ==
  ASSUME NEW images, NEW files \in [Names -> HostFiles], NEW after \in [Names -> HostFiles],
         Images(images, files),
         \A i \in DOMAIN images : Grown(files[images[i].file], after[images[i].file])
  PROVE  Images(images, after)
  BY StoredGrows DEF Images

(* One file changes.                                                         *)
LEMMA FileChanges ==
  ASSUME NEW files \in [Names -> HostFiles], NEW f \in Names, NEW h \in HostFiles,
         NEW images, Images(images, files),
         Grown(files[f], h) \/ \A i \in DOMAIN images : images[i].file # f
  PROVE  /\ [files EXCEPT ![f] = h] \in [Names -> HostFiles]
         /\ Images(images, [files EXCEPT ![f] = h])
  <1> DEFINE after == [files EXCEPT ![f] = h]
  <1>1. after \in [Names -> HostFiles]
    OBVIOUS
  <1>2. ASSUME NEW i \in DOMAIN images
        PROVE  Grown(files[images[i].file], after[images[i].file])
    <2>1. images[i].file \in Names
      BY DEF Images, Stored
    <2>2. CASE images[i].file = f
      BY <2>2
    <2>3. CASE images[i].file # f
      <3>1. after[images[i].file] = files[images[i].file] /\ files[images[i].file] \in HostFiles
        BY <2>1, <2>3
      <3> QED BY <3>1, FilesStay
    <2> QED BY <2>2, <2>3
  <1> QED BY <1>1, <1>2, ImagesGrow

LEMMA ClientKept ==
  ASSUME ClientInv, UNCHANGED others, p'.lastScan \in {p.lastScan, FALSE}
  PROVE  ClientInv'
  <1>1. client' = client /\ told' = told /\ label' = label
    BY DEF others
  <1>2. LabelIsTrue'
    BY <1>1 DEF ClientInv, LabelIsTrue
  <1> QED BY <1>1, <1>2, Zenon DEF ClientInv

LEMMA InitHolds == Init => IInv
  <1> SUFFICES ASSUME Init PROVE IInv
    OBVIOUS
  <1>1. ServerInv
    <2>1. fs \in [Names -> HostFiles]
      BY FilesAssumption DEF Init
    <2> QED BY <2>1, OffIsAProcess, NoImages DEF Init, ServerInv
  <1>2. Identity(NoIdentity)
    BY SMT DEF Identity, NoIdentity, respondInquire, IdentityOf, NoImage, CountWords
  <1>3. LabelIsTrue
    BY DEF Init, LabelIsTrue
  <1>4. ClientInv
    BY <1>2, <1>3, OffIsAProcess DEF Init, ClientInv
  <1> QED BY <1>1, <1>4 DEF IInv

-----------------------------------------------------------------------------
(* The words of a command line and what they do to the process.              *)
LEMMA WordIsKnown ==
  ASSUME p.line \in DOMAIN Lines, NEW t
  PROVE  Word(t).parts \in Seq(Nat) /\ Word(t).milli \in Nat
  <1>1. CASE t \in DOMAIN Argv
    <2>1. Word(t) = Lines[p.line].argv[t] /\ t \in DOMAIN Lines[p.line].argv
      BY <1>1 DEF Word, Argv
    <2> QED BY <2>1, LinesAssumption
  <1>2. CASE t \notin DOMAIN Argv
    <2>1. Word(t).parts = <<>> /\ Word(t).milli = 0
      BY <1>2 DEF Word, NoWord, Plain
    <2> QED BY <2>1
  <1> QED BY <1>1, <1>2

(* A step of the server that opens no image and is not the portable creation. *)
Advanced(q, r) == /\ DOMAIN r = Fields /\ r.g \in Geometries
                  /\ r.images = q.images \/ r.images = <<>>
                  /\ r.pc = "off" \/ r.line = q.line
                  /\ r.pc # "make"
                  /\ r.lastScan \in {q.lastScan, FALSE}

LEMMA EndIsAdvanced == ASSUME NEW q PROVE Advanced(q, Off)
  BY OffIsAProcess DEF Advanced

LEMMA AdvancedKept ==
  ASSUME IInv, UNCHANGED others, p.pc # "off", Advanced(p, p'),
         fs' \in [Names -> HostFiles], Images(p.images, fs')
  PROVE  IInv'
  <1>1. Images(p'.images, fs')
    BY NoImages DEF Advanced
  <1>2. p'.pc = "off" \/ p'.line \in DOMAIN Lines
    BY DEF IInv, ServerInv, Advanced
  <1>3. ServerInv'
    BY <1>1, <1>2 DEF ServerInv, Advanced
  <1>4. ClientInv'
    BY ClientKept DEF IInv, Advanced
  <1> QED BY <1>3, <1>4 DEF IInv

LEMMA ArgumentKept ==
  ASSUME IInv, Argument \/ LastArgument
  PROVE  IInv'
  <1>1. /\ p.pc = "parse" /\ DOMAIN p = Fields /\ p.g \in Geometries /\ p.line \in DOMAIN Lines
        /\ fs' = fs /\ UNCHANGED others
    BY DEF IInv, ServerInv, Argument, LastArgument
  <1>2. Advanced(p, p')
    <2>1. CASE Argument
      <3>1. p' \in LinuxArgument(p, Word(p.t), Word(p.t + 1)) \/ p' \in Win32Argument(p, Word(p.t), Word(p.t + 1))
        BY <2>1 DEF Argument
      <3>2. Word(p.t + 1).parts \in Seq(Nat) /\ Word(p.t + 1).milli \in Nat
        BY <1>1, WordIsKnown
      <3>3. Parsed(p, p')
        BY <1>1, <3>1, <3>2, ArgumentParsed
      <3> QED BY <1>1, <3>3 DEF Parsed, Advanced
    <2>2. CASE LastArgument
      <3>1. p' = Ready(p)
        BY <2>2 DEF LastArgument
      <3>2. CASE p.images = <<>>
        BY <3>1, <3>2, EndIsAdvanced DEF Ready, Usage
      <3>3. CASE p.images # <<>>
        <4>1. \E rate : p' = [p EXCEPT !.pc = "connect", !.baud = rate]
          BY <3>1, <3>3 DEF Ready
        <4> QED BY <1>1, <4>1 DEF Fields, Advanced
      <3> QED BY <3>2, <3>3
    <2> QED BY <2>1, <2>2
  <1> QED BY <1>1, <1>2, AdvancedKept DEF IInv, ServerInv

LEMMA StartKept == ASSUME IInv, NEW l \in DOMAIN Lines, Start(l) PROVE IInv'
  <1>1. p' = [Off EXCEPT !.pc = "parse", !.line = l, !.serial = Serial]
    BY DEF Start
  <1>2. /\ DOMAIN p' = Fields /\ p'.g = Off.g /\ p'.images = Off.images
        /\ p'.pc = "parse" /\ p'.line = l /\ p'.lastScan = Off.lastScan
    BY <1>1, OffIsAProcess DEF Fields
  <1>3. fs' = fs /\ UNCHANGED others
    BY DEF Start
  <1>4. ServerInv'
    BY <1>2, <1>3, OffIsAProcess, NoImages DEF IInv, ServerInv
  <1>5. ClientInv'
    BY <1>2, <1>3, OffIsAProcess, ClientKept DEF IInv
  <1> QED BY <1>4, <1>5 DEF IInv

LEMMA KillKept == ASSUME IInv, Kill PROVE IInv'
  BY EndIsAdvanced, AdvancedKept DEF IInv, ServerInv, Kill

-----------------------------------------------------------------------------
(* The creation of an image.                                                 *)
LEMMA CreationIsSafe ==
  ASSUME NEW f \in HostFiles, NEW o, o \in LF!Create(f) \/ o \in WF!Create(f) \/ o \in SF!Look(f)
  PROVE  /\ o.file \in HostFiles /\ Grown(f, o.file)
         /\ o.says \in {"made", "exists", "absent", "exit"}
         /\ o.says = "absent" => ~f.exists
  <1>1. /\ \A says, h : LF!Outcome(says, h) = Outcome(says, h)
        /\ \A says, h : WF!Outcome(says, h) = Outcome(says, h)
        /\ \A says, h : SF!Outcome(says, h) = Outcome(says, h)
    BY Zenon DEF LF!Outcome, WF!Outcome, SF!Outcome, Outcome
  <1>2. LF!Empty = Empty /\ WF!Empty = Empty
    BY DEF LF!Empty, WF!Empty, Empty
  <1>3. \/ f.exists /\ o = Outcome("exists", f)
        \/ ~f.exists /\ o = Outcome("made", Empty)
        \/ ~f.exists /\ o = Outcome("exit", f)
        \/ ~f.exists /\ o = Outcome("absent", f)
    <2>1. CASE o \in LF!Create(f)
      BY <1>1, <1>2, <2>1 DEF LF!Create
    <2>2. CASE o \in WF!Create(f)
      BY <1>1, <1>2, <2>2 DEF WF!Create
    <2>3. CASE o \in SF!Look(f)
      BY <1>1, <2>3 DEF SF!Look
    <2> QED BY <2>1, <2>2, <2>3
  <1>4. ~f.exists => Grown(f, Empty)
    BY NewFiles DEF Grown
  <1>5. Empty \in HostFiles /\ Grown(f, f)
    BY NewFiles, FilesStay
  <1> QED BY <1>3, <1>4, <1>5, OutcomeIs

LEMMA MakeIs ==
  ASSUME NEW outcomes, Make(outcomes), DOMAIN p = Fields, p.g \in Geometries,
         \A o \in outcomes : o.says \in {"made", "exists", "absent", "exit"}
  PROVE  \E o \in outcomes :
            /\ fs' = [fs EXCEPT ![File] = o.file]
            /\ IF o.says = "absent" THEN p' = [p EXCEPT !.pc = "make"] ELSE Advanced(p, p')
  <1>1. PICK o \in outcomes :
           /\ fs' = [fs EXCEPT ![File] = o.file]
           /\ o.says = "made" => p' = [p EXCEPT !.pc = "fill", !.cf = "open"]
           /\ o.says = "exists" => p' = [p EXCEPT !.pc = "open", !.cf = NewHandle]
           /\ o.says = "absent" => p' = [p EXCEPT !.pc = "make"]
           /\ o.says = "exit" => p' = Off
    BY Zenon DEF Make
  <1>2. IF o.says = "absent" THEN p' = [p EXCEPT !.pc = "make"] ELSE Advanced(p, p')
    <2>1. o.says \in {"made", "exists", "absent", "exit"}
      OBVIOUS
    <2>2. o.says = "made" => Advanced(p, p')
      BY <1>1 DEF Advanced, Fields
    <2>3. o.says = "exists" => Advanced(p, p')
      BY <1>1 DEF Advanced, Fields
    <2>4. o.says = "exit" => Advanced(p, p')
      BY <1>1, EndIsAdvanced
    <2> QED BY <1>1, <2>1, <2>2, <2>3, <2>4
  <1> QED BY <1>1, <1>2, Zenon

LEMMA CreateKept == ASSUME IInv, CreateImage PROVE IInv'
  <1>1. /\ p.pc = "create" /\ DOMAIN p = Fields /\ p.g \in Geometries /\ p.line \in DOMAIN Lines
        /\ fs \in [Names -> HostFiles] /\ Images(p.images, fs) /\ UNCHANGED others
    BY DEF IInv, ServerInv, CreateImage
  <1>2. CASE p' = Off /\ fs' = fs
    BY <1>1, <1>2, EndIsAdvanced, AdvancedKept
  <1>3. CASE ~(p' = Off /\ fs' = fs)
    <2> DEFINE made == CASE platform = "linux" -> LF!Create(fs[File])
                         [] platform = "win32" -> WF!Create(fs[File])
                         [] OTHER -> SF!Look(fs[File])
    <2>1. File \in Names /\ Make(made)
      BY <1>3, Zenon DEF CreateImage
    <2>2. \A o \in made : o \in LF!Create(fs[File]) \/ o \in WF!Create(fs[File]) \/ o \in SF!Look(fs[File])
      BY Zenon
    <2> HIDE DEF made
    <2>3. fs[File] \in HostFiles
      BY <1>1, <2>1
    <2>4. \A o \in made : /\ o.file \in HostFiles /\ Grown(fs[File], o.file)
                          /\ o.says \in {"made", "exists", "absent", "exit"}
                          /\ o.says = "absent" => ~fs[File].exists
      BY <2>2, <2>3, CreationIsSafe
    <2>5. PICK o \in made : /\ fs' = [fs EXCEPT ![File] = o.file]
                            /\ IF o.says = "absent" THEN p' = [p EXCEPT !.pc = "make"] ELSE Advanced(p, p')
      BY <1>1, <2>1, <2>4, MakeIs
    <2>6. fs' \in [Names -> HostFiles] /\ Images(p.images, fs')
      BY <1>1, <2>1, <2>4, <2>5, FileChanges
    <2>7. CASE o.says # "absent"
      BY <1>1, <2>5, <2>6, <2>7, AdvancedKept
    <2>8. CASE o.says = "absent"
      <3>1. p' = [p EXCEPT !.pc = "make"]
        BY <2>5, <2>8
      <3>2. /\ DOMAIN p' = Fields /\ p'.g = p.g /\ p'.images = p.images /\ p'.pc = "make"
            /\ p'.line = p.line /\ p'.lastScan = p.lastScan /\ p'.t = p.t
        BY <1>1, <3>1 DEF Fields
      <3>3. \A i \in DOMAIN p.images : p.images[i].file # File
        BY <1>1, <2>4, <2>8 DEF Images, Stored
      <3>4. File' = File
        BY <3>2 DEF File, Argv
      <3>5. ServerInv'
        BY <1>1, <2>6, <3>2, <3>3, <3>4 DEF ServerInv
      <3>6. ClientInv'
        BY <1>1, <3>2, ClientKept DEF IInv
      <3> QED BY <3>5, <3>6 DEF IInv
    <2> QED BY <2>7, <2>8
  <1> QED BY <1>2, <1>3

LEMMA MakeKept == ASSUME IInv, MakeImage PROVE IInv'
  <1>1. /\ p.pc = "make" /\ DOMAIN p = Fields /\ p.g \in Geometries
        /\ fs \in [Names -> HostFiles] /\ Images(p.images, fs) /\ UNCHANGED others
        /\ \A i \in DOMAIN p.images : p.images[i].file # File
        /\ Make(SF!Create(fs[File]))
    BY DEF IInv, ServerInv, MakeImage
  <1>2. \A o \in SF!Create(fs[File]) :
           o.says \in {"made", "exit"} /\ o.file \in {Empty, fs[File]}
    BY DEF SF!Create, SF!Outcome, SF!Empty, Empty
  <1>3. PICK o \in SF!Create(fs[File]) :
           fs' = [fs EXCEPT ![File] = o.file] /\ Advanced(p, p')
    <2>1. \A o \in SF!Create(fs[File]) :
             o.says \in {"made", "exists", "absent", "exit"} /\ o.says # "absent"
      BY <1>2
    <2> QED BY <1>1, <2>1, MakeIs
  <1>4. fs' \in [Names -> HostFiles] /\ Images(p.images, fs')
    <2>1. CASE File \in Names
      <3>1. o.file \in HostFiles
        BY <1>1, <1>2, <2>1, NewFiles
      <3> QED BY <1>1, <1>3, <2>1, <3>1, FileChanges
    <2>2. CASE File \notin Names
      <3>1. fs' = fs
        BY <1>1, <1>3, <2>2
      <3> QED BY <1>1, <3>1
    <2> QED BY <2>1, <2>2
  <1> QED BY <1>1, <1>3, <1>4, AdvancedKept

LEMMA FillKept == ASSUME IInv, FillImage PROVE IInv'
  <1>1. /\ p.pc = "fill" /\ DOMAIN p = Fields /\ p.g \in Geometries
        /\ fs \in [Names -> HostFiles] /\ Images(p.images, fs) /\ UNCHANGED others
    BY DEF IInv, ServerInv, FillImage
  <1>2. Goal \in Int
    <2>1. p.g.cyl \in Nat /\ p.g.head \in Nat /\ p.g.sect \in Nat
      BY <1>1 DEF Geometries
    <2>2. p.g.cyl * p.g.sect \in Nat
      BY <2>1, SMT
    <2>3. (p.g.cyl * p.g.sect) * p.g.head \in Nat
      BY <2>1, <2>2, SMT
    <2> QED BY <2>3 DEF Goal
  <1>3. PICK size \in {m \in Milestones : fs[File].size < m /\ m < Goal} \cup {Goal} :
           /\ fs' = [fs EXCEPT ![File] = Extended(fs[File], size)]
           /\ p' \in {Off, IF size = Goal THEN [p EXCEPT !.pc = "open", !.cf = Closed(p.cf)] ELSE p}
    BY Zenon DEF FillImage
  <1>4. size \in Int
    BY <1>2, FilesAssumption
  <1>5. fs' \in [Names -> HostFiles] /\ Images(p.images, fs')
    <2>1. CASE File \in Names
      <3>1. Extended(fs[File], size) \in HostFiles /\ Grown(fs[File], Extended(fs[File], size))
        BY <1>1, <1>4, <2>1, ExtendedGrows
      <3> QED BY <1>1, <1>3, <2>1, <3>1, FileChanges
    <2>2. CASE File \notin Names
      <3>1. fs' = fs
        BY <1>1, <1>3, <2>2
      <3> QED BY <1>1, <3>1
    <2> QED BY <2>1, <2>2
  <1>6. Advanced(p, p')
    <2>1. p' = Off \/ p' = p \/ p' = [p EXCEPT !.pc = "open", !.cf = Closed(p.cf)]
      BY <1>3
    <2>2. Advanced(p, p) /\ Advanced(p, [p EXCEPT !.pc = "open", !.cf = Closed(p.cf)])
      BY <1>1 DEF Advanced, Fields
    <2> QED BY <2>1, <2>2, EndIsAdvanced
  <1> QED BY <1>1, <1>5, <1>6, AdvancedKept

-----------------------------------------------------------------------------
LEMMA OwnElements ==
  ASSUME NEW S, NEW s \in Seq(S) PROVE s \in Seq({s[j] : j \in DOMAIN s})
  <1> DEFINE T == {s[j] : j \in DOMAIN s}
  <1>1. Len(s) \in Nat /\ DOMAIN s = 1 .. Len(s) /\ s = [j \in 1 .. Len(s) |-> s[j]]
    OBVIOUS
  <1>2. \A j \in 1 .. Len(s) : s[j] \in T
    BY <1>1
  <1> HIDE DEF T
  <1>3. [j \in 1 .. Len(s) |-> s[j]] \in Seq(T)
    BY <1>1, <1>2
  <1>4. s \in Seq(T)
    BY <1>1, <1>3, Zenon
  <1> QED BY <1>4 DEF T

LEMMA OneMore ==
  ASSUME NEW images, NEW files, Images(images, files), NEW i, Stored(i, files)
  PROVE  Images(Append(images, i), files)
  <1> DEFINE S    == {images[j] : j \in DOMAIN images} \cup {i}
             more == Append(images, i)
  <1>1. images \in Seq(S)
    BY DEF Images
  <1>2. more \in Seq(S) /\ DOMAIN more = 1 .. Len(images) + 1
    BY <1>1
  <1>3. \A j \in DOMAIN more : more[j] = i \/ \E k \in DOMAIN images : more[j] = images[k]
    BY <1>1, <1>2
  <1>4. more \in Seq({more[j] : j \in DOMAIN more})
    BY <1>2, OwnElements
  <1> QED BY <1>3, <1>4 DEF Images

LEMMA OpenKept == ASSUME IInv, OpenImage PROVE IInv'
  <1>1. /\ p.pc = "open" /\ DOMAIN p = Fields /\ p.g \in Geometries /\ p.line \in DOMAIN Lines
        /\ fs \in [Names -> HostFiles] /\ Images(p.images, fs) /\ UNCHANGED others /\ fs' = fs
    BY DEF IInv, ServerInv, OpenImage
  <1>2. PICK o \in Opened(FileOf(File), InUse(File)) :
           LET img == init(SizeSectors(o.file), p.g, p.useCHS)
           IN  p' = IF o.says = "ok" /\ img.fits
                    THEN Served([p EXCEPT !.cf = NewHandle], [file |-> File, readOnly |-> p.readOnly, img |-> img])
                    ELSE Off
    BY Zenon DEF OpenImage
  <1> DEFINE img == init(SizeSectors(o.file), p.g, p.useCHS)
             i   == [file |-> File, readOnly |-> p.readOnly, img |-> img]
  <1>3. CASE ~(o.says = "ok" /\ img.fits)
    BY <1>1, <1>2, <1>3, EndIsAdvanced, AdvancedKept
  <1>4. CASE o.says = "ok" /\ img.fits
    <2>1. p' = Served([p EXCEPT !.cf = NewHandle], i)
      BY <1>2, <1>4
    <2>2. o.file = FileOf(File) /\ FileOf(File).exists
      BY <1>4, OpenedIsThere
    <2>3. File \in Names /\ o.file = fs[File] /\ fs[File].exists /\ fs[File] \in HostFiles
      BY <1>1, <2>2 DEF FileOf, NoFile
    <2>4. SizeSectors(o.file) \in Nat /\ SizeSectors(o.file) <= fs[File].size
      BY <2>3, SizeIsHonest
    <2>5. ImageFits(img) /\ img.total = SizeSectors(o.file)
      BY <1>4, <2>4, InitFits
    <2>6. i.file = File /\ i.img = img
      OBVIOUS
    <2> HIDE DEF i, img
    <2>7. Stored(i, fs)
      BY <2>3, <2>4, <2>5, <2>6 DEF Stored
    <2>8. /\ DOMAIN p' = Fields /\ p'.g = NoGeometry /\ p'.images = Append(p.images, i)
          /\ p'.pc = "parse" /\ p'.line = p.line /\ p'.lastScan = p.lastScan
      BY <1>1, <2>1 DEF Served, Next1, Fields
    <2>9. NoGeometry \in Geometries
      BY DEF NoGeometry, Geometries
    <2>10. ServerInv'
      BY <1>1, <2>7, <2>8, <2>9, OneMore DEF ServerInv
    <2>11. ClientInv'
      BY <1>1, <2>8, ClientKept DEF IInv
    <2> QED BY <2>10, <2>11 DEF IInv
  <1> QED BY <1>3, <1>4

-----------------------------------------------------------------------------
(* A port, and the requests of a client.                                     *)
LEMMA AfterIs ==
  ASSUME NEW q, NEW says
  PROVE  After(q, says) \in {q, Off, [p EXCEPT !.pc = "connect", !.serial = Disconnect]}
  BY Zenon DEF After, Disconnected

LEMMA ConnectKept == ASSUME IInv, Connect PROVE IInv'
  <1>1. /\ p.pc = "connect" /\ DOMAIN p = Fields /\ p.g \in Geometries
        /\ fs \in [Names -> HostFiles] /\ Images(p.images, fs) /\ UNCHANGED others /\ fs' = fs
    BY DEF IInv, ServerInv, Connect
  <1>2. p' = Off \/ \E serial : p' = [p EXCEPT !.pc = "serve", !.serial = serial, !.lastScan = FALSE]
    BY Zenon DEF Connect
  <1>3. Advanced(p, p')
    <2>1. \A serial : Advanced(p, [p EXCEPT !.pc = "serve", !.serial = serial, !.lastScan = FALSE])
      BY <1>1 DEF Advanced, Fields
    <2> QED BY <1>2, <2>1, EndIsAdvanced
  <1> QED BY <1>1, <1>3, AdvancedKept

LEMMA AfterAdvances ==
  ASSUME DOMAIN p = Fields, p.g \in Geometries, p.pc # "make",
         NEW q, Advanced(p, q), NEW says
  PROVE  Advanced(p, After(q, says))
  <1>1. Advanced(p, [p EXCEPT !.pc = "connect", !.serial = Disconnect])
    BY DEF Advanced, Fields
  <1> QED BY <1>1, AfterIs, EndIsAdvanced

LEMMA HangupKept == ASSUME IInv, Hangup PROVE IInv'
  <1>1. /\ p.pc = "serve" /\ DOMAIN p = Fields /\ p.g \in Geometries
        /\ fs \in [Names -> HostFiles] /\ Images(p.images, fs) /\ UNCHANGED others /\ fs' = fs
        /\ \E says : p' = After(p, says)
    BY DEF IInv, ServerInv, Hangup
  <1>2. Advanced(p, p)
    BY <1>1 DEF Advanced
  <1>3. Advanced(p, p')
    BY <1>1, <1>2, AfterAdvances
  <1> QED BY <1>1, <1>3, AdvancedKept

LEMMA DriveIsStored ==
  ASSUME Images(p.images, fs), NEW d \in {0, 1}, Provided(d)
  PROVE  Stored(Drive(d), fs)
  <1>1. DOMAIN p.images = 1 .. Len(p.images) /\ Len(p.images) \in Nat
    BY DEF Images
  <1>2. d + 1 \in DOMAIN p.images
    BY <1>1 DEF Provided
  <1>3. \/ Drive(d) = p.images[d + 1]
        \/ Len(p.images) = 2 /\ Drive(d) = <<p.images[2], p.images[1]>>[d + 1]
    BY DEF Drive, Drives
  <1>4. \E i \in DOMAIN p.images : Drive(d) = p.images[i]
    <2>1. CASE Drive(d) = p.images[d + 1]
      BY <1>2, <2>1
    <2>2. CASE Len(p.images) = 2 /\ Drive(d) = <<p.images[2], p.images[1]>>[d + 1]
      <3>1. Drive(d) = p.images[2] \/ Drive(d) = p.images[1]
        BY <2>2
      <3> QED BY <1>1, <2>2, <3>1
    <2> QED BY <1>3, <2>1, <2>2
  <1> QED BY <1>4 DEF Images

LEMMA IdentityIsTyped ==
  ASSUME NEW img, ImageFits(img) PROVE Identity(respondInquire(img))
  <1> DEFINE id == respondInquire(img)
  <1>1. id.cyl = img.cyl % 65536 /\ id.head = img.head /\ id.sect = img.sect /\ id.count = CountWords(img)
    BY DEF respondInquire, IdentityOf
  <1>2. CountWords(img)[1] \in Int /\ CountWords(img)[2] \in Int
    <2>1. img.total % 65536 \in Int /\ img.total \div 65536 \in Int
      BY SMT DEF ImageFits
    <2> QED BY <2>1 DEF CountWords
  <1>3. img.cyl % 65536 \in Int
    BY SMT DEF ImageFits
  <1> QED BY <1>1, <1>2, <1>3 DEF Identity, ImageFits

LEMMA SectorIsTyped ==
  ASSUME NEW img, ImageFits(img), NEW id, Identity(id), NEW a \in Corners(id)
  PROVE  Sector(img, a) \in Int
  <1>1. ASSUME NEW c \in Int, NEW h \in Int, NEW s \in Int
        PROVE  (c * img.head + h) * img.sect + s - 1 \in Int
    <2>1. c * img.head + h \in Int
      BY SMT DEF ImageFits
    <2>2. (c * img.head + h) * img.sect \in Int
      BY <2>1, SMT DEF ImageFits
    <2> QED BY <2>2, SMT
  <1>2. Count(id) - 1 \in Int
    BY SMT DEF Count, Identity
  <1>3. /\ a.lba => a.c \in Int
        /\ ~a.lba => a.c \in Int /\ a.h \in Int /\ a.s \in Int
    <2>1. \/ a = Chs(0, 0, 1) \/ a = Chs(id.cyl - 1, id.head - 1, id.sect)
          \/ \E n \in {0, Count(id) - 1} : a = [lba |-> TRUE, c |-> n, h |-> 0, s |-> 0]
      BY Zenon DEF Corners
    <2>2. CASE a = Chs(0, 0, 1)
      BY <2>2 DEF Chs
    <2>3. CASE a = Chs(id.cyl - 1, id.head - 1, id.sect)
      BY <2>3 DEF Chs, Identity
    <2>4. CASE \E n \in {0, Count(id) - 1} : a = [lba |-> TRUE, c |-> n, h |-> 0, s |-> 0]
      BY <1>2, <2>4
    <2> QED BY <2>1, <2>2, <2>3, <2>4
  <1>4. CASE a.lba
    BY <1>3, <1>4 DEF Sector
  <1>5. CASE ~a.lba
    BY <1>1, <1>3, <1>5 DEF Sector
  <1> QED BY <1>4, <1>5

LEMMA TransferKept ==
  ASSUME IInv, NEW d \in {0, 1}, NEW write \in BOOLEAN, NEW a \in Corners(told[d]), Transfer(d, write, a)
  PROVE  IInv'
  <1>1. /\ p.pc = "serve" /\ DOMAIN p = Fields /\ p.g \in Geometries
        /\ fs \in [Names -> HostFiles] /\ Images(p.images, fs) /\ UNCHANGED others
        /\ Provided(d) /\ Identity(told[d])
    BY DEF IInv, ServerInv, ClientInv, Transfer
  <1> DEFINE f   == Drive(d).file
             lba == Sector(Drive(d).img, a)
  <1>2. PICK o, says :
           /\ o \in SectorRead(fs[f], lba) \/ o \in SectorWritten(fs[f], lba)
           /\ fs' = [fs EXCEPT ![f] = o.file]
           /\ p' = IF o.says = "exit" THEN Off
                   ELSE After(IF write THEN p ELSE [p EXCEPT !.lastScan = FALSE], says)
    BY Zenon DEF Transfer
  <1>3. Stored(Drive(d), fs)
    BY <1>1, DriveIsStored
  <1>4. f \in Names /\ fs[f] \in HostFiles /\ lba \in Int
    BY <1>1, <1>3, SectorIsTyped DEF Stored
  <1> HIDE DEF f, lba
  <1>5. Grown(fs[f], o.file)
    BY <1>2, <1>4, TransferGrows
  <1>6. fs' \in [Names -> HostFiles] /\ Images(p.images, fs')
    BY <1>1, <1>2, <1>4, <1>5, FileChanges DEF Grown
  <1>7. Advanced(p, p) /\ Advanced(p, [p EXCEPT !.lastScan = FALSE])
    BY <1>1 DEF Advanced, Fields
  <1>8. Advanced(p, p')
    <2>1. Advanced(p, IF write THEN p ELSE [p EXCEPT !.lastScan = FALSE])
      BY <1>7
    <2> QED BY <1>1, <1>2, <2>1, AfterAdvances, EndIsAdvanced
  <1> QED BY <1>1, <1>6, <1>8, AdvancedKept

LEMMA OtherCreatesKept == ASSUME IInv, NEW f \in Names, OtherCreates(f) PROVE IInv'
  <1>1. /\ fs \in [Names -> HostFiles] /\ Images(p.images, fs) /\ p' = p /\ UNCHANGED others
        /\ ~fs[f].exists /\ ServerInv
    BY DEF IInv, ServerInv, OtherCreates
  <1>2. PICK o \in Others : fs' = [fs EXCEPT ![f] = o]
    BY DEF OtherCreates
  <1>3. o \in HostFiles
    BY FilesAssumption
  <1>4. Grown(fs[f], o)
    BY <1>1, <1>3 DEF Grown
  <1>5. fs' \in [Names -> HostFiles] /\ Images(p.images, fs')
    BY <1>1, <1>2, <1>3, <1>4, FileChanges
  <1>6. File' = File
    BY <1>1 DEF File, Argv
  <1>7. ServerInv'
    BY <1>1, <1>5, <1>6 DEF ServerInv
  <1>8. ClientInv'
    BY <1>1, ClientKept DEF IInv
  <1> QED BY <1>7, <1>8 DEF IInv

LEMMA ServerUntouched == ASSUME ServerInv, p' = p, fs' = fs PROVE ServerInv'
  <1>1. File' = File
    BY DEF File, Argv
  <1> QED BY <1>1 DEF ServerInv

LEMMA RestartKept == ASSUME IInv, ClientRestarts PROVE IInv'
  <1>1. /\ client' \in Clients
        /\ told' = [d \in {0, 1} |-> NoIdentity]
        /\ label' = [d \in {0, 1} |-> NoLabel]
        /\ p' = p /\ fs' = fs
    BY DEF ClientRestarts, server
  <1>2. Identity(NoIdentity)
    BY SMT DEF Identity, NoIdentity, respondInquire, IdentityOf, NoImage, CountWords
  <1>3. LabelIsTrue'
    BY <1>1 DEF LabelIsTrue
  <1>4. ClientInv'
    BY <1>1, <1>2, <1>3 DEF IInv, ClientInv
  <1> QED BY <1>1, <1>4, ServerUntouched DEF IInv

LEMMA InquireKept == ASSUME IInv, NEW d \in {0, 1}, Inquire(d) PROVE IInv'
  <1> DEFINE scan  == (d = 1 /\ p.lastScan) \/ Scanning(d)
             named == Label(scan, client.port, p.baud)
             q     == [p EXCEPT !.lastScan = LastScan(Scanning(d))]
  <1>1. /\ p.pc = "serve" /\ DOMAIN p = Fields /\ p.g \in Geometries
        /\ fs \in [Names -> HostFiles] /\ Images(p.images, fs) /\ fs' = fs
        /\ p.line \in DOMAIN Lines /\ Provided(d) /\ client' = client
    BY DEF IInv, ServerInv, Inquire, Answered
  <1>2. /\ client \in Clients /\ client.scan \in BOOLEAN
        /\ DOMAIN told = {0, 1} /\ \A e \in {0, 1} : Identity(told[e])
        /\ DOMAIN label = {0, 1} /\ LabelIsTrue
        /\ p.lastScan \in BOOLEAN
        /\ told[0] # NoIdentity /\ p.lastScan => client.scan
    BY ClientsAssumption DEF IInv, ClientInv
  <1>3. PICK says :
           /\ p' = After(q, says)
           /\ \/ UNCHANGED <<told, label>>
              \/ /\ says = "sent"
                 /\ told' = [told EXCEPT ![d] = respondInquire(Drive(d).img)]
                 /\ label' = [label EXCEPT ![d] = named]
    BY Zenon DEF Inquire
  <1>4. Scanning(d) \in BOOLEAN /\ (Scanning(d) => client.scan)
    BY <1>2 DEF Scanning
  <1>5. scan => client.scan
    BY <1>2, <1>4 DEF Inquire
  <1>6. /\ DOMAIN q = Fields /\ q.g = p.g /\ q.images = p.images /\ q.pc = p.pc /\ q.line = p.line
        /\ q.lastScan = Scanning(d)
    BY <1>1 DEF Fields, LastScan
  <1> HIDE DEF q, scan
  <1>7. ServerInv'
    <2>1. p' \in {q, Off, [p EXCEPT !.pc = "connect", !.serial = Disconnect]}
      BY <1>3, AfterIs
    <2>2. CASE p' = q
      BY <1>1, <1>6, <2>2 DEF ServerInv
    <2>3. CASE p' = Off
      BY <1>1, <2>3, OffIsAProcess, NoImages DEF ServerInv
    <2>4. CASE p' = [p EXCEPT !.pc = "connect", !.serial = Disconnect]
      <3>1. /\ DOMAIN p' = Fields /\ p'.g = p.g /\ p'.images = p.images /\ p'.pc = "connect"
            /\ p'.line = p.line
        BY <1>1, <2>4 DEF Fields
      <3> QED BY <1>1, <3>1 DEF ServerInv
    <2> QED BY <2>1, <2>2, <2>3, <2>4
  <1>8. p'.lastScan \in BOOLEAN /\ (told'[0] # NoIdentity /\ p'.lastScan => client.scan)
    <2>1. CASE p' = q
      BY <1>4, <1>6, <2>1
    <2>2. CASE p' = Off
      BY <2>2, OffIsAProcess
    <2>3. CASE p' # q /\ p' = [p EXCEPT !.pc = "connect", !.serial = Disconnect]
      <3>1. p'.lastScan = p.lastScan
        BY <1>1, <2>3 DEF Fields
      <3>2. told' = told
        <4>1. After(q, "sent") = q
          BY DEF After
        <4> QED BY <1>3, <2>3, <4>1
      <3> QED BY <1>2, <3>1, <3>2
    <2> QED BY <1>3, <2>1, <2>2, <2>3, AfterIs
  <1>9. DOMAIN told' = {0, 1} /\ (\A e \in {0, 1} : Identity(told'[e]))
    <2>1. Identity(respondInquire(Drive(d).img))
      BY <1>1, DriveIsStored, IdentityIsTyped DEF Stored
    <2> QED BY <1>2, <1>3, <2>1
  <1>10. DOMAIN label' = {0, 1}
    BY <1>2, <1>3
  <1>11. LabelIsTrue'
    <2>1. CASE label' = label
      BY <1>1, <1>2, <2>1 DEF LabelIsTrue
    <2>2. CASE label' = [label EXCEPT ![d] = named]
      <3>1. Divisor(p.baud) = client.divisor
        BY DEF Inquire, Answered, Heard
      <3>2. named # NoLabel => /\ client.scan /\ named.com = Label(TRUE, client.port, 0).com
                               /\ Divisor(named.rate) = client.divisor
        <4>1. CASE scan
          BY <1>5, <3>1, <4>1 DEF Label
        <4>2. CASE ~scan
          BY <4>2 DEF Label
        <4> QED BY <4>1, <4>2
      <3> HIDE DEF named
      <3>3. ASSUME NEW e \in {0, 1}, label'[e] # NoLabel
            PROVE  /\ client.scan /\ label'[e].com = Label(TRUE, client.port, 0).com
                   /\ Divisor(label'[e].rate) = client.divisor
        <4>1. CASE e = d
          BY <1>2, <2>2, <3>2, <3>3, <4>1
        <4>2. CASE e # d
          <5>1. label'[e] = label[e]
            BY <1>2, <2>2, <4>2
          <5> QED BY <1>2, <3>3, <5>1 DEF LabelIsTrue
        <4> QED BY <4>1, <4>2
      <3> QED BY <1>1, <3>3 DEF LabelIsTrue
    <2> QED BY <1>3, <2>1, <2>2
  <1>12. ClientInv'
    BY <1>1, <1>2, <1>8, <1>9, <1>10, <1>11, Zenon DEF ClientInv
  <1> QED BY <1>7, <1>12 DEF IInv

-----------------------------------------------------------------------------
LEMMA StepKeeps == IInv /\ [Next]_vars => IInv'
  <1> SUFFICES ASSUME IInv, [Next]_vars PROVE IInv'
    OBVIOUS
  <1>1. CASE \E l \in DOMAIN Lines : Start(l)
    BY <1>1, StartKept
  <1>2. CASE Argument \/ LastArgument
    BY <1>2, ArgumentKept
  <1>3. CASE CreateImage \/ MakeImage \/ FillImage \/ OpenImage
    BY <1>3, CreateKept, MakeKept, FillKept, OpenKept
  <1>4. CASE Connect \/ Hangup \/ Kill
    BY <1>4, ConnectKept, HangupKept, KillKept
  <1>5. CASE \E d \in {0, 1} : Inquire(d)
    BY <1>5, InquireKept
  <1>6. CASE \E d \in {0, 1} : \E write \in BOOLEAN, a \in Corners(told[d]) : Transfer(d, write, a)
    BY <1>6, TransferKept
  <1>7. CASE \E f \in Names : OtherCreates(f)
    BY <1>7, OtherCreatesKept
  <1>8. CASE ClientRestarts
    BY <1>8, RestartKept
  <1>9. CASE UNCHANGED vars
    <2>1. p' = p /\ fs' = fs /\ UNCHANGED others
      BY <1>9 DEF vars, others
    <2> QED BY <2>1, ServerUntouched, ClientKept DEF IInv
  <1> QED BY <1>1, <1>2, <1>3, <1>4, <1>5, <1>6, <1>7, <1>8, <1>9, Zenon DEF Next

LEMMA IInvIsStored == IInv => AddressableIsStored
  <1> SUFFICES ASSUME IInv, NEW i \in DOMAIN p.images,
                      NEW a \in Corners(respondInquire(p.images[i].img))
               PROVE  Sector(p.images[i].img, a) \in 0 .. fs[p.images[i].file].size - 1
    BY DEF AddressableIsStored
  <1> DEFINE img == p.images[i].img
             f   == fs[p.images[i].file]
             lba == Sector(img, a)
  <1>1. Stored(p.images[i], fs) /\ fs \in [Names -> HostFiles]
    BY DEF IInv, ServerInv, Images
  <1>2. ImageFits(img) /\ img.total <= f.size /\ f.size \in Nat /\ img.total \in Nat
    BY <1>1 DEF Stored, ImageFits, HostFiles
  <1>3. lba \in 0 .. img.total - 1
    BY <1>2, CornersAreInside
  <1> HIDE DEF img, f, lba
  <1>4. lba \in 0 .. f.size - 1
    BY <1>2, <1>3, SMT
  <1> QED BY <1>4 DEF img, f, lba

(* Every sector a client can learn of from an inquiry is in the file of the   *)
(* drive that answers it: for any files at all, any command lines and any      *)
(* creation cut off by a kill.  (Image.cpp:95-149, 301-310)                   *)
THEOREM AlwaysStored == Spec => []AddressableIsStored
  BY InitHolds, StepKeeps, IInvIsStored, PTL DEF Spec

(* A drive's label shows a scanning client its own port and rate, whatever     *)
(* the clients before it asked of the server.  (Process.cpp:362-371)          *)
THEOREM LabelsAreTrue == Spec => []LabelIsTrue
  <1>1. IInv => LabelIsTrue
    BY DEF IInv, ClientInv
  <1> QED BY <1>1, InitHolds, StepKeeps, PTL DEF Spec

-----------------------------------------------------------------------------
(* What is served is what the command line asks for.  While the server goes    *)
(* through the words, what it has kept of them is what the words before the    *)
(* one it is at ask for (ReadSoFar); at the word of an image its options are    *)
(* those for this image and no other (AtImage).                              *)

(* What an option does to the process that reads it.                         *)
SizeSet(w, next) == IF w.opt = "g" THEN parseGeometry(next.parts) ELSE GeometryOf(SizeOf(next))
Effect(pl, q, r, w, next) ==
    /\ ~RefusedOption(pl, w, next)
    /\ r.t = q.t + (IF TakesValue(pl, w, next) THEN 2 ELSE 1)
    /\ r.pc = q.pc /\ r.line = q.line /\ r.images = q.images
    /\ r.readOnly = IF w.opt = "r" THEN TRUE ELSE q.readOnly
    /\ r.useCHS = IF w.opt = "g" THEN TRUE ELSE q.useCHS
    /\ r.create = IF w.opt = "n" THEN TRUE ELSE q.create
    /\ r.timeout = IF w.opt = "t" THEN FALSE ELSE q.timeout
    /\ r.g = IF w.opt \in {"g", "n"} /\ next.num # 0 THEN SizeSet(w, next) ELSE q.g
    /\ w.opt = "b" => r.baud \in baudRateMatchString(next.num) \ {0}
    /\ w.opt = "p" => r.baud = IF q.baud = 0 THEN PipeRate ELSE q.baud
    /\ w.opt \notin {"b", "p"} => r.baud = q.baud

LEMMA OptionEffect ==
  ASSUME NEW pl, NEW q, DOMAIN q = Fields, NEW w, NEW next, IsOption(pl, w), NEW r,
         r \in IF pl = "win32" THEN Win32Argument(q, w, next) ELSE LinuxArgument(q, w, next),
         r # Off
  PROVE  Effect(pl, q, r, w, next)
  <1> USE DEF Usage
  <1>1. \/ w.opt = "c" /\ r \in IF pl = "win32" THEN Win32Port(q, next) ELSE LinuxPort(q, next)
        \/ w.opt # "c" /\ r \in Option(q, w.opt, next)
    BY DEF IsOption, Win32Argument, LinuxArgument, Win32Option, LinuxOption
  <1>2. CASE w.opt = "c"
    <2>1. next # NoWord /\ ~((pl = "win32" \/ next.digit) /\ next.num < 1)
      BY <1>1, <1>2 DEF Win32Port, LinuxPort, Number
    <2>2. \E port : r = [Next2(q, TRUE) EXCEPT !.port = port]
      BY <1>1, <1>2 DEF Win32Port, LinuxPort, Number
    <2>3. /\ r.t = q.t + 2 /\ r.pc = q.pc /\ r.line = q.line /\ r.images = q.images
          /\ r.readOnly = q.readOnly /\ r.useCHS = q.useCHS /\ r.create = q.create
          /\ r.timeout = q.timeout /\ r.g = q.g /\ r.baud = q.baud
      BY <2>2 DEF Next2, Fields
    <2>4. TakesValue(pl, w, next) /\ ~RefusedOption(pl, w, next)
      BY <1>2, <2>1 DEF TakesValue, RefusedOption
    <2> QED BY <1>2, <2>3, <2>4 DEF Effect
  <1>3. CASE w.opt = "v"
    <2>1. r = Next2(q, next.num # 0)
      BY <1>1, <1>3 DEF Option, Verbose
    <2>2. /\ r.t = q.t + (IF next.num # 0 THEN 2 ELSE 1)
          /\ r.pc = q.pc /\ r.line = q.line /\ r.images = q.images
          /\ r.readOnly = q.readOnly /\ r.useCHS = q.useCHS /\ r.create = q.create
          /\ r.timeout = q.timeout /\ r.g = q.g /\ r.baud = q.baud
      BY <2>1 DEF Next2, Fields
    <2>3. (TakesValue(pl, w, next) <=> next.num # 0) /\ ~RefusedOption(pl, w, next)
      BY <1>3 DEF TakesValue, RefusedOption
    <2> QED BY <1>3, <2>2, <2>3 DEF Effect
  <1>4. CASE w.opt = "r"
    <2>1. r = [Next1(q) EXCEPT !.readOnly = TRUE]
      BY <1>1, <1>4 DEF Option, ReadOnly
    <2>2. /\ r.t = q.t + 1 /\ r.pc = q.pc /\ r.line = q.line /\ r.images = q.images
          /\ r.readOnly = TRUE /\ r.useCHS = q.useCHS /\ r.create = q.create
          /\ r.timeout = q.timeout /\ r.g = q.g /\ r.baud = q.baud
      BY <2>1 DEF Next1, Fields
    <2>3. ~TakesValue(pl, w, next) /\ ~RefusedOption(pl, w, next)
      BY <1>4 DEF TakesValue, RefusedOption
    <2> QED BY <1>4, <2>2, <2>3 DEF Effect
  <1>5. CASE w.opt = "p"
    <2>1. r = [Next2(q, next.word = "pipe") EXCEPT !.port = "pipe", !.baud = IF @ = 0 THEN PipeRate ELSE @]
      BY <1>1, <1>5 DEF Option, PipeMode
    <2>2. /\ r.t = q.t + (IF next.word = "pipe" THEN 2 ELSE 1)
          /\ r.pc = q.pc /\ r.line = q.line /\ r.images = q.images
          /\ r.readOnly = q.readOnly /\ r.useCHS = q.useCHS /\ r.create = q.create
          /\ r.timeout = q.timeout /\ r.g = q.g
          /\ r.baud = IF q.baud = 0 THEN PipeRate ELSE q.baud
      BY <2>1 DEF Next2, Fields
    <2>3. (TakesValue(pl, w, next) <=> next.word = "pipe") /\ ~RefusedOption(pl, w, next)
      BY <1>5 DEF TakesValue, RefusedOption
    <2> QED BY <1>5, <2>2, <2>3 DEF Effect
  <1>6. CASE w.opt = "g"
    <2>1. r \in GeometryOption(q, next)
      BY <1>1, <1>6 DEF Option
    <2>2. /\ ~(next.num # 0 /\ parseGeometry(next.parts) = NoGeometry)
          /\ r = [Next2(q, next.num # 0) EXCEPT !.useCHS = TRUE,
                     !.g = IF next.num # 0 THEN parseGeometry(next.parts) ELSE @]
      BY <2>1 DEF GeometryOption
    <2>3. /\ r.t = q.t + (IF next.num # 0 THEN 2 ELSE 1)
          /\ r.pc = q.pc /\ r.line = q.line /\ r.images = q.images
          /\ r.readOnly = q.readOnly /\ r.useCHS = TRUE /\ r.create = q.create
          /\ r.timeout = q.timeout /\ r.baud = q.baud
          /\ r.g = IF next.num # 0 THEN parseGeometry(next.parts) ELSE q.g
      BY <2>2 DEF Next2, Fields
    <2>4. (TakesValue(pl, w, next) <=> next.num # 0) /\ ~RefusedOption(pl, w, next)
      BY <1>6, <2>2 DEF TakesValue, RefusedOption
    <2> QED BY <1>6, <2>3, <2>4 DEF Effect, SizeSet
  <1>7. CASE w.opt = "n"
    <2>1. r = [Next2(q, next.num # 0) EXCEPT !.create = TRUE,
                  !.g = IF next.num # 0 THEN GeometryOf(SizeOf(next)) ELSE @]
      BY <1>1, <1>7 DEF Option, NewDisk
    <2>2. /\ r.t = q.t + (IF next.num # 0 THEN 2 ELSE 1)
          /\ r.pc = q.pc /\ r.line = q.line /\ r.images = q.images
          /\ r.readOnly = q.readOnly /\ r.useCHS = q.useCHS /\ r.create = TRUE
          /\ r.timeout = q.timeout /\ r.baud = q.baud
          /\ r.g = IF next.num # 0 THEN GeometryOf(SizeOf(next)) ELSE q.g
      BY <2>1 DEF Next2, Fields
    <2>3. (TakesValue(pl, w, next) <=> next.num # 0) /\ ~RefusedOption(pl, w, next)
      BY <1>7 DEF TakesValue, RefusedOption
    <2> QED BY <1>7, <2>2, <2>3 DEF Effect, SizeSet
  <1>8. CASE w.opt = "t"
    <2>1. r = [Next1(q) EXCEPT !.timeout = FALSE]
      BY <1>1, <1>8 DEF Option, NoTimeout
    <2>2. /\ r.t = q.t + 1 /\ r.pc = q.pc /\ r.line = q.line /\ r.images = q.images
          /\ r.readOnly = q.readOnly /\ r.useCHS = q.useCHS /\ r.create = q.create
          /\ r.timeout = FALSE /\ r.g = q.g /\ r.baud = q.baud
      BY <2>1 DEF Next1, Fields
    <2>3. ~TakesValue(pl, w, next) /\ ~RefusedOption(pl, w, next)
      BY <1>8 DEF TakesValue, RefusedOption
    <2> QED BY <1>8, <2>2, <2>3 DEF Effect
  <1>9. CASE w.opt = "b"
    <2>1. r \in BaudRate(q, next)
      BY <1>1, <1>9 DEF Option
    <2>2. next # NoWord
      BY <2>1 DEF BaudRate
    <2>3. PICK rate \in baudRateMatchString(next.num) :
             rate # 0 /\ r = [Next2(q, TRUE) EXCEPT !.baud = rate]
      BY <2>1, <2>2 DEF BaudRate
    <2>4. /\ r.t = q.t + 2 /\ r.pc = q.pc /\ r.line = q.line /\ r.images = q.images
          /\ r.readOnly = q.readOnly /\ r.useCHS = q.useCHS /\ r.create = q.create
          /\ r.timeout = q.timeout /\ r.g = q.g /\ r.baud = rate
      BY <2>3 DEF Next2, Fields
    <2>5. baudRateMatchString(next.num) # {0}
      BY <2>3
    <2>6. TakesValue(pl, w, next) /\ ~RefusedOption(pl, w, next)
      BY <1>9, <2>2, <2>5 DEF TakesValue, RefusedOption
    <2> QED BY <1>9, <2>3, <2>4, <2>6 DEF Effect
  <1>10. CASE w.opt \notin {"c", "v", "r", "p", "g", "n", "t", "b"}
    <2>1. r \in {Off}
      BY <1>1, <1>10 DEF Option
    <2> QED BY <2>1
  <1> QED BY <1>2, <1>3, <1>4, <1>5, <1>6, <1>7, <1>8, <1>9, <1>10

-----------------------------------------------------------------------------
(* One word further: what is before it, and the options since the image.     *)
LEMMA NextWord ==
  ASSUME NEW pl, NEW argv, NEW heads, NEW n \in Nat, DOMAIN argv = 1 .. n,
         heads \in SUBSET (1 .. n), IsReading(pl, argv, heads),
         NEW t \in heads, NEW u \in Nat,
         u = t + (IF TakesValue(pl, argv[t], WordAfter(argv, t)) THEN 2 ELSE 1)
  PROVE  /\ Before(heads, u) = Before(heads, t) \cup {t}
         /\ u \in DOMAIN argv => u \in heads
  <1> DEFINE takes == TakesValue(pl, argv[t], WordAfter(argv, t))
  <1> HIDE DEF takes
  <1>1. t \in 1 .. n /\ t \in Nat
    OBVIOUS
  <1>2. takes => t + 1 \notin heads
    <2> DEFINE m == t + 1
    <2>1. m \in 1 .. n => (m \in heads <=> ~(m - 1 \in heads
                             /\ TakesValue(pl, argv[m - 1], WordAfter(argv, m - 1))))
      BY DEF IsReading
    <2>2. m - 1 = t
      BY <1>1
    <2> HIDE DEF m
    <2>3. takes => m \notin heads
      BY <2>1, <2>2 DEF takes
    <2> QED BY <2>3 DEF m
  <1>3. u = t + (IF takes THEN 2 ELSE 1)
    BY DEF takes
  <1>4. ASSUME NEW o \in heads PROVE o < u <=> o < t \/ o = t
    <2>1. o \in Nat
      OBVIOUS
    <2>2. CASE takes
      <3>1. o # t + 1
        BY <1>2, <2>2
      <3> QED BY <1>1, <1>3, <2>1, <2>2, <3>1
    <2>3. CASE ~takes
      BY <1>1, <1>3, <2>1, <2>3
    <2> QED BY <2>2, <2>3
  <1>5. Before(heads, u) = Before(heads, t) \cup {t}
    BY <1>4 DEF Before
  <1>6. ASSUME u \in DOMAIN argv PROVE u \in heads
    <2>1. CASE takes
      <3>1. u - 1 = t + 1 /\ u - 1 \notin heads
        BY <1>1, <1>2, <1>3, <2>1
      <3> DEFINE m == u - 1
      <3> HIDE DEF m
      <3>2. u \in heads <=> ~(m \in heads /\ TakesValue(pl, argv[m], WordAfter(argv, m)))
        BY <1>6 DEF IsReading, m
      <3> QED BY <3>1, <3>2 DEF m
    <2>2. CASE ~takes
      <3>1. u - 1 = t
        BY <1>1, <1>3, <2>2
      <3> QED BY <1>6, <2>2, <3>1 DEF IsReading, takes
    <2> QED BY <2>1, <2>2
  <1> QED BY <1>5, <1>6

LEMMA OneMoreGiven ==
  ASSUME NEW pl, NEW argv, NEW S, NEW t, NEW opt
  PROVE  Given(pl, argv, S \cup {t}, opt) =
            IF IsOption(pl, argv[t]) /\ argv[t].opt = opt
            THEN Given(pl, argv, S, opt) \cup {t} ELSE Given(pl, argv, S, opt)
  BY DEF Given

LEMMA OneMoreWord ==
  ASSUME NEW pl, NEW argv, NEW S, NEW t
  PROVE  ImageWords(pl, argv, S \cup {t}) =
            IF IsOption(pl, argv[t]) THEN ImageWords(pl, argv, S)
            ELSE ImageWords(pl, argv, S) \cup {t}
  BY DEF ImageWords

LEMMA LastIsMax ==
  ASSUME NEW S, NEW t \in Int, \A o \in S : o \in Int /\ o < t
  PROVE  Max(S \cup {t}) = t
  <1>1. \A o \in S \cup {t} : t >= o
    OBVIOUS
  <1>2. \A x \in S \cup {t} : (\A y \in S \cup {t} : x >= y) => x = t
    OBVIOUS
  <1> QED BY <1>1, <1>2 DEF Max

LEMMA OptionsAfter ==
  ASSUME NEW pl, NEW argv, NEW heads, NEW t \in Int, NEW u, \A o \in heads : o \in Int,
         Before(heads, u) = Before(heads, t) \cup {t}
  PROVE  OptionsFor(pl, argv, heads, u) =
            IF IsOption(pl, argv[t]) THEN OptionsFor(pl, argv, heads, t) \cup {t} ELSE {}
  <1> DEFINE S == Before(heads, t)
             W == ImageWords(pl, argv, S)
  <1>1. \A o \in S : o \in Int /\ o < t
    BY DEF Before
  <1>2. W \subseteq S
    BY DEF ImageWords
  <1>3. CASE IsOption(pl, argv[t])
    <2>1. ImageWords(pl, argv, Before(heads, u)) = W
      <3> HIDE DEF S
      <3>1. ImageWords(pl, argv, S \cup {t}) = W
        BY <1>3, OneMoreWord
      <3> QED BY <3>1 DEF S
    <2>2. OptionsFor(pl, argv, heads, u) = {o \in S \cup {t} : \A i \in W : i < o}
      BY <2>1 DEF OptionsFor
    <2>3. OptionsFor(pl, argv, heads, t) = {o \in S : \A i \in W : i < o}
      BY DEF OptionsFor
    <2>4. \A i \in W : i < t
      BY <1>1, <1>2
    <2>5. OptionsFor(pl, argv, heads, u) = OptionsFor(pl, argv, heads, t) \cup {t}
      <3> HIDE DEF S, W
      <3> QED BY <2>2, <2>3, <2>4
    <2> QED BY <1>3, <2>5
  <1>4. CASE ~IsOption(pl, argv[t])
    <2>1. ImageWords(pl, argv, Before(heads, u)) = W \cup {t}
      <3> HIDE DEF S
      <3>1. ImageWords(pl, argv, S \cup {t}) = W \cup {t}
        BY <1>4 DEF ImageWords
      <3> QED BY <3>1 DEF S
    <2>2. OptionsFor(pl, argv, heads, u) = {o \in S \cup {t} : \A i \in W \cup {t} : i < o}
      BY <2>1 DEF OptionsFor
    <2>3. \A o \in S \cup {t} : ~(t < o)
      BY <1>1
    <2>4. OptionsFor(pl, argv, heads, u) = {}
      <3> HIDE DEF S, W
      <3> QED BY <2>2, <2>3
    <2> QED BY <1>4, <2>4
  <1> QED BY <1>3, <1>4

LEMMA OneMoreSize ==
  ASSUME NEW pl, NEW argv, NEW S, NEW t \in Int, \A o \in S : o \in Int /\ o < t,
         IsOption(pl, argv[t])
  PROVE  SizeGiven(pl, argv, S \cup {t}) =
            IF argv[t].opt \in {"g", "n"} /\ WordAfter(argv, t).num # 0
            THEN SizeSet(argv[t], WordAfter(argv, t)) ELSE SizeGiven(pl, argv, S)
  <1> DEFINE sizes == Sizes(pl, argv, S)
             more  == Sizes(pl, argv, S \cup {t})
             sets  == argv[t].opt \in {"g", "n"} /\ WordAfter(argv, t).num # 0
  <1>1. more = IF sets THEN sizes \cup {t} ELSE sizes
    BY DEF Sizes, Given
  <1>2. sizes \subseteq S
    BY DEF Sizes, Given
  <1>3. SizeGiven(pl, argv, S \cup {t}) = IF more = {} THEN NoGeometry ELSE SizeAt(argv, Max(more))
    BY DEF SizeGiven
  <1>4. SizeGiven(pl, argv, S) = IF sizes = {} THEN NoGeometry ELSE SizeAt(argv, Max(sizes))
    BY DEF SizeGiven
  <1>5. SizeAt(argv, t) = SizeSet(argv[t], WordAfter(argv, t))
    BY DEF SizeAt, SizeSet
  <1> HIDE DEF sizes, more
  <1>6. CASE sets
    <2>1. Max(more) = t
      BY <1>1, <1>2, <1>6, LastIsMax
    <2> QED BY <1>1, <1>3, <1>5, <1>6, <2>1
  <1>7. CASE ~sets
    BY <1>1, <1>3, <1>4, <1>7
  <1> QED BY <1>6, <1>7

-----------------------------------------------------------------------------
Heads(pl, l) == CHOOSE heads \in SUBSET DOMAIN Lines[l].argv :
                    /\ IsReading(pl, Lines[l].argv, heads)
                    /\ AsksFor(pl, Lines[l], heads)

(* The rate after the options in S.                                          *)
RateGiven(pl, argv, S, rate) ==
    LET rated == Given(pl, argv, S, "b")
    IN  IF rated # {} THEN rate \in baudRateMatchString(WordAfter(argv, Max(rated)).num) \ {0}
        ELSE rate = IF Given(pl, argv, S, "p") # {} THEN PipeRate ELSE 0

(* What the process q has of its command line when it has read the words      *)
(* before q.t.                                                              *)
ReadSoFar(pl, q) ==
    LET argv  == Lines[q.line].argv
        heads == Heads(pl, q.line)
        S     == Before(heads, q.t)
        given == OptionsFor(pl, argv, heads, q.t)
    IN  /\ q.t \in Nat \ {0}
        /\ q.t \in DOMAIN argv => q.t \in heads
        /\ \A o \in S : ~Refuses(pl, argv, heads, o)
        /\ Len(q.images) = Cardinality(ImageWords(pl, argv, S))
        /\ q.readOnly = (Given(pl, argv, given, "r") # {})
        /\ q.useCHS = (Given(pl, argv, given, "g") # {})
        /\ q.create = (Given(pl, argv, given, "n") # {})
        /\ q.g.cyl = 0 => q.create \/ q.g = NoGeometry
        /\ RateGiven(pl, argv, S, q.baud)
        /\ q.timeout = (Given(pl, argv, S, "t") = {})

AtImage(pl, q) ==
    LET argv  == Lines[q.line].argv
        heads == Heads(pl, q.line)
    IN  /\ q.t \in ImageWords(pl, argv, heads)
        /\ ~Refuses(pl, argv, heads, q.t)
        /\ q.g = GeometryAsked(pl, argv, OptionsFor(pl, argv, heads, q.t))
        /\ q.g.cyl = 0 => q.g = NoGeometry

(* A geometry that is taken as it is given is the size of the file.         *)
Exactly(img, g) == SameGeometry(img, g) /\ img.total = img.cyl * img.head * img.sect
IsAsked(image, asked) ==
    /\ image.file = asked.file /\ image.readOnly = asked.readOnly
    /\ \/ image.img.floppy # 0
       \/ /\ image.img.useCHS = asked.chs
          /\ asked.g # NoGeometry => Exactly(image.img, asked.g)

Creates == {"create", "make", "fill", "open"}
Serving == {"connect", "serve"}
AskedOf(pl, q) ==
    LET l == Lines[q.line]
    IN  /\ q.pc \in {"off", "parse"} \cup Creates \cup Serving
        /\ q.pc = "off" => q.images = <<>>
        /\ q.pc # "off" => q.line \in DOMAIN Lines /\ pl \in l.on
        /\ \A i \in DOMAIN q.images : i \in DOMAIN l.asked /\ IsAsked(q.images[i], l.asked[i])
        /\ q.pc \in {"parse"} \cup Creates => ReadSoFar(pl, q)
        /\ q.pc = "parse" =>
              q.g = SizeGiven(pl, l.argv, OptionsFor(pl, l.argv, Heads(pl, q.line), q.t))
        /\ q.pc \in Creates => AtImage(pl, q)
        /\ q.pc \in Serving =>
              /\ Len(q.images) = Len(l.asked)
              /\ q.baud \in l.bauds /\ q.timeout = l.timeout
AskInv == AskedOf(platform, p)

-----------------------------------------------------------------------------
LEMMA HeadsAre ==
  ASSUME NEW l \in DOMAIN Lines, NEW pl \in Lines[l].on
  PROVE  /\ Heads(pl, l) \in SUBSET DOMAIN Lines[l].argv
         /\ IsReading(pl, Lines[l].argv, Heads(pl, l))
         /\ AsksFor(pl, Lines[l], Heads(pl, l))
         /\ DOMAIN Lines[l].argv = 1 .. Len(Lines[l].argv) /\ Len(Lines[l].argv) \in Nat
  <1>1. \E heads \in SUBSET DOMAIN Lines[l].argv :
            IsReading(pl, Lines[l].argv, heads) /\ AsksFor(pl, Lines[l], heads)
    BY AskedAssumption
  <1>2. DOMAIN Lines[l].argv = 1 .. Len(Lines[l].argv) /\ Len(Lines[l].argv) \in Nat
    BY AskedAssumption
  <1> QED BY <1>1, <1>2, Zenon DEF Heads

LEMMA RateStep ==
  ASSUME NEW pl, NEW argv, NEW S, NEW t \in Int, \A o \in S : o \in Int /\ o < t,
         IsOption(pl, argv[t]), NEW q, NEW r, Effect(pl, q, r, argv[t], WordAfter(argv, t)),
         RateGiven(pl, argv, S, q.baud)
  PROVE  RateGiven(pl, argv, S \cup {t}, r.baud)
  <1> DEFINE rated == Given(pl, argv, S, "b")
             piped == Given(pl, argv, S, "p")
             R(o)  == baudRateMatchString(WordAfter(argv, o).num) \ {0}
             more  == S \cup {t}
  <1>1. PipeRate # 0
    BY DEF PipeRate
  <1>2. /\ rated # {} => q.baud \in R(Max(rated))
        /\ rated = {} => q.baud = IF piped # {} THEN PipeRate ELSE 0
    BY DEF RateGiven
  <1>3. CASE argv[t].opt = "b"
    <2>1. Given(pl, argv, more, "b") = rated \cup {t}
      BY <1>3 DEF Given
    <2>2. \A o \in rated : o \in Int /\ o < t
      BY DEF Given
    <2>3. Max(rated \cup {t}) = t
      <3> HIDE DEF rated
      <3> QED BY <2>2, LastIsMax
    <2>4. r.baud \in R(t)
      BY <1>3 DEF Effect
    <2> HIDE DEF rated, more, R
    <2>5. /\ Given(pl, argv, more, "b") # {}
          /\ r.baud \in R(Max(Given(pl, argv, more, "b")))
      BY <2>1, <2>3, <2>4
    <2> QED BY <2>5 DEF RateGiven, R, more
  <1>4. CASE argv[t].opt = "p"
    <2>1. Given(pl, argv, more, "b") = rated
      BY <1>4 DEF Given
    <2>2. Given(pl, argv, more, "p") # {}
      BY <1>4 DEF Given
    <2>3. r.baud = IF q.baud = 0 THEN PipeRate ELSE q.baud
      BY <1>4 DEF Effect
    <2>4. rated # {} => r.baud \in R(Max(rated))
      BY <1>2, <2>3
    <2>5. rated = {} => r.baud = PipeRate
      BY <1>1, <1>2, <2>3
    <2> HIDE DEF rated, more
    <2> QED BY <2>1, <2>2, <2>4, <2>5 DEF RateGiven, more
  <1>5. CASE argv[t].opt \notin {"b", "p"}
    <2>1. Given(pl, argv, more, "b") = rated /\ Given(pl, argv, more, "p") = piped
      BY <1>5 DEF Given
    <2>2. r.baud = q.baud
      BY <1>5 DEF Effect
    <2> HIDE DEF rated, piped, more
    <2> QED BY <1>2, <2>1, <2>2 DEF RateGiven, more
  <1> QED BY <1>3, <1>4, <1>5

LEMMA GeometrySet ==
  ASSUME NEW pl, NEW q, NEW r, NEW w, NEW next, Effect(pl, q, r, w, next),
         q.g.cyl = 0 => q.create \/ q.g = NoGeometry, q.create \in BOOLEAN
  PROVE  r.g.cyl = 0 => r.create \/ r.g = NoGeometry
  <1>1. CASE w.opt = "n"
    BY <1>1 DEF Effect
  <1>2. CASE w.opt = "g" /\ next.num # 0
    <2>1. r.g = parseGeometry(next.parts) /\ r.g # NoGeometry
      BY <1>2 DEF Effect, RefusedOption, SizeSet
    <2>2. r.g = [cyl |-> next.parts[1], head |-> next.parts[2], sect |-> next.parts[3]]
          /\ next.parts[1] # 0
      BY <2>1 DEF parseGeometry
    <2>3. r.g.cyl # 0
      BY <2>2
    <2> QED BY <2>3
  <1>3. CASE ~(w.opt = "n") /\ ~(w.opt = "g" /\ next.num # 0)
    <2>1. r.g = q.g /\ r.create = q.create
      BY <1>3 DEF Effect
    <2> QED BY <2>1
  <1> QED BY <1>1, <1>2, <1>3

(* A word that is an option.                                                 *)
LEMMA OptionRead ==
  ASSUME NEW pl, NEW q, q.line \in DOMAIN Lines, pl \in Lines[q.line].on,
         ReadSoFar(pl, q), q.t \in DOMAIN Lines[q.line].argv,
         IsOption(pl, Lines[q.line].argv[q.t]),
         q.g = SizeGiven(pl, Lines[q.line].argv,
                         OptionsFor(pl, Lines[q.line].argv, Heads(pl, q.line), q.t)),
         NEW r, Effect(pl, q, r, Lines[q.line].argv[q.t], WordAfter(Lines[q.line].argv, q.t))
  PROVE  /\ ReadSoFar(pl, r)
         /\ r.g = SizeGiven(pl, Lines[r.line].argv,
                            OptionsFor(pl, Lines[r.line].argv, Heads(pl, r.line), r.t))
  <1> DEFINE argv  == Lines[q.line].argv
             heads == Heads(pl, q.line)
             t     == q.t
             w     == argv[t]
             next  == WordAfter(argv, t)
             S     == Before(heads, t)
             given == OptionsFor(pl, argv, heads, t)
  <1>1. /\ heads \in SUBSET (1 .. Len(argv)) /\ Len(argv) \in Nat /\ DOMAIN argv = 1 .. Len(argv)
        /\ IsReading(pl, argv, heads)
    BY HeadsAre
  <1>2. /\ t \in heads /\ t \in Nat \ {0}
        /\ \A o \in S : ~Refuses(pl, argv, heads, o)
        /\ Len(q.images) = Cardinality(ImageWords(pl, argv, S))
        /\ q.readOnly = (Given(pl, argv, given, "r") # {})
        /\ q.useCHS = (Given(pl, argv, given, "g") # {})
        /\ q.create = (Given(pl, argv, given, "n") # {})
        /\ q.g.cyl = 0 => q.create \/ q.g = NoGeometry
        /\ RateGiven(pl, argv, S, q.baud)
        /\ q.timeout = (Given(pl, argv, S, "t") = {})
    BY DEF ReadSoFar
  <1>3. Effect(pl, q, r, w, next) /\ IsOption(pl, w)
    OBVIOUS
  <1>4. r.line = q.line /\ r.images = q.images /\ ~RefusedOption(pl, w, next)
    BY <1>3 DEF Effect
  <1>5. /\ r.t \in Nat \ {0}
        /\ Before(heads, r.t) = S \cup {t}
        /\ r.t \in DOMAIN argv => r.t \in heads
    <2>1. r.t = t + (IF TakesValue(pl, w, next) THEN 2 ELSE 1)
      BY <1>3 DEF Effect
    <2>2. r.t \in Nat \ {0}
      BY <1>2, <2>1
    <2> HIDE DEF argv, heads, t
    <2> QED BY <1>1, <1>2, <2>1, <2>2, NextWord DEF w, next, S
  <1>6. \A o \in S : o \in Int /\ o < t
    BY <1>1 DEF Before
  <1>7. given \subseteq S
    BY DEF OptionsFor
  <1>8. OptionsFor(pl, argv, heads, r.t) = given \cup {t}
    <2>1. \A o \in heads : o \in Int
      BY <1>1
    <2> HIDE DEF argv, heads, t
    <2> QED BY <1>2, <1>3, <1>5, <2>1, OptionsAfter DEF w, S, given
  <1> HIDE DEF argv, heads, t, S, given
  <1>9. \A o \in S \cup {t} : ~Refuses(pl, argv, heads, o)
    <2>1. ~Refuses(pl, argv, heads, t)
      BY <1>3, <1>4 DEF Refuses
    <2> QED BY <1>2, <2>1
  <1>10. Len(r.images) = Cardinality(ImageWords(pl, argv, S \cup {t}))
    BY <1>2, <1>3, <1>4, OneMoreWord
  <1>11. /\ r.readOnly = (Given(pl, argv, given \cup {t}, "r") # {})
         /\ r.useCHS = (Given(pl, argv, given \cup {t}, "g") # {})
         /\ r.create = (Given(pl, argv, given \cup {t}, "n") # {})
    <2>1. \A opt : Given(pl, argv, given \cup {t}, opt) =
                      IF w.opt = opt THEN Given(pl, argv, given, opt) \cup {t}
                      ELSE Given(pl, argv, given, opt)
      BY <1>3 DEF Given
    <2>2. /\ r.readOnly = IF w.opt = "r" THEN TRUE ELSE q.readOnly
          /\ r.useCHS = IF w.opt = "g" THEN TRUE ELSE q.useCHS
          /\ r.create = IF w.opt = "n" THEN TRUE ELSE q.create
      BY <1>3 DEF Effect
    <2> HIDE DEF w
    <2>3. r.readOnly = (Given(pl, argv, given \cup {t}, "r") # {})
      BY <1>2, <2>1, <2>2
    <2>4. r.useCHS = (Given(pl, argv, given \cup {t}, "g") # {})
      BY <1>2, <2>1, <2>2
    <2>5. r.create = (Given(pl, argv, given \cup {t}, "n") # {})
      BY <1>2, <2>1, <2>2
    <2> QED BY <2>3, <2>4, <2>5
  <1>12. r.g.cyl = 0 => r.create \/ r.g = NoGeometry
    <2>1. q.create \in BOOLEAN
      BY <1>2
    <2> QED BY <1>2, <1>3, <2>1, GeometrySet
  <1>13. RateGiven(pl, argv, S \cup {t}, r.baud)
    <2>1. IsOption(pl, argv[t]) /\ Effect(pl, q, r, argv[t], WordAfter(argv, t)) /\ t \in Int
      BY <1>2, <1>3
    <2>2. RateGiven(pl, argv, S, q.baud)
      BY <1>2
    <2> HIDE DEF w, next
    <2> QED BY <1>6, <2>1, <2>2, RateStep
  <1>14. r.timeout = (Given(pl, argv, S \cup {t}, "t") = {})
    <2>1. Given(pl, argv, S \cup {t}, "t") = IF w.opt = "t" THEN Given(pl, argv, S, "t") \cup {t}
                                            ELSE Given(pl, argv, S, "t")
      BY <1>3 DEF Given
    <2>2. r.timeout = IF w.opt = "t" THEN FALSE ELSE q.timeout
      BY <1>3 DEF Effect
    <2> HIDE DEF w
    <2> QED BY <1>2, <2>1, <2>2
  <1>15. r.g = SizeGiven(pl, argv, given \cup {t})
    <2>1. SizeGiven(pl, argv, given \cup {t}) =
             IF w.opt \in {"g", "n"} /\ next.num # 0 THEN SizeSet(w, next) ELSE SizeGiven(pl, argv, given)
      BY <1>2, <1>3, <1>6, <1>7, OneMoreSize
    <2>2. r.g = IF w.opt \in {"g", "n"} /\ next.num # 0 THEN SizeSet(w, next) ELSE q.g
      BY <1>3 DEF Effect
    <2>3. q.g = SizeGiven(pl, argv, given)
      BY DEF argv, given, heads, t
    <2> QED BY <2>1, <2>2, <2>3
  <1>16. ReadSoFar(pl, r)
    <2>1. Lines[r.line].argv = argv /\ Heads(pl, r.line) = heads
      BY <1>4 DEF argv, heads
    <2> QED BY <1>5, <1>8, <1>9, <1>10, <1>11, <1>12, <1>13, <1>14, <2>1 DEF ReadSoFar
  <1> QED BY <1>4, <1>8, <1>15, <1>16 DEF argv, heads

-----------------------------------------------------------------------------
(* A word that is an image.                                                  *)
LEMMA ImageRead ==
  ASSUME NEW pl, NEW q, DOMAIN q = Fields, q.line \in DOMAIN Lines, pl \in Lines[q.line].on,
         ReadSoFar(pl, q), q.t \in DOMAIN Lines[q.line].argv,
         ~IsOption(pl, Lines[q.line].argv[q.t]),
         q.g = SizeGiven(pl, Lines[q.line].argv,
                         OptionsFor(pl, Lines[q.line].argv, Heads(pl, q.line), q.t)),
         NEW r \in ImageName(q), r # Off
  PROVE  /\ ReadSoFar(pl, r) /\ AtImage(pl, r)
         /\ r.pc \in Creates /\ r.line = q.line /\ r.images = q.images
  <1> DEFINE argv  == Lines[q.line].argv
             heads == Heads(pl, q.line)
             t     == q.t
             given == OptionsFor(pl, argv, heads, t)
  <1>1. /\ Len(q.images) # 2
        /\ r = [q EXCEPT !.pc = IF q.create THEN "create" ELSE "open",
                         !.g = IF q.create /\ q.g.cyl = 0 THEN DefaultDisk ELSE q.g]
    BY DEF ImageName, Usage, DefaultDisk
  <1>2. /\ r.t = q.t /\ r.line = q.line /\ r.images = q.images /\ r.readOnly = q.readOnly
        /\ r.useCHS = q.useCHS /\ r.create = q.create /\ r.baud = q.baud /\ r.timeout = q.timeout
        /\ r.pc \in Creates
        /\ r.g = IF q.create /\ q.g.cyl = 0 THEN DefaultDisk ELSE q.g
    BY <1>1 DEF Fields, Creates
  <1>3. /\ t \in heads
        /\ Len(q.images) = Cardinality(ImageWords(pl, argv, Before(heads, t)))
        /\ q.create = (Given(pl, argv, given, "n") # {})
        /\ q.g.cyl = 0 => q.create \/ q.g = NoGeometry
    BY DEF ReadSoFar
  <1>4. DefaultDisk.cyl # 0
    BY DEF DefaultDisk
  <1>5. r.g.cyl = 0 => r.g = NoGeometry
    BY <1>2, <1>3, <1>4
  <1>6. r.g = GeometryAsked(pl, argv, given)
    BY <1>2, <1>3 DEF GeometryAsked
  <1>7. ReadSoFar(pl, r)
    BY <1>2, <1>5 DEF ReadSoFar
  <1>8. t \in ImageWords(pl, argv, heads) /\ ~Refuses(pl, argv, heads, t)
    BY <1>1, <1>3 DEF ImageWords, Refuses
  <1>9. AtImage(pl, r)
    BY <1>2, <1>5, <1>6, <1>8 DEF AtImage
  <1> QED BY <1>2, <1>7, <1>9

(* What is made of a file is what was asked for, or a floppy.                *)
LEMMA MadeAsAsked ==
  ASSUME NEW total, NEW g, NEW chs, init(total, g, chs).fits, g.cyl = 0 => g = NoGeometry
  PROVE  \/ init(total, g, chs).floppy # 0
         \/ /\ init(total, g, chs).useCHS = chs
            /\ g # NoGeometry => Exactly(init(total, g, chs), g)
  <1> DEFINE img == init(total, g, chs)
             f   == FindFloppy(total)
  <1>1. ~NoImage.fits
    BY DEF NoImage
  <1>2. ASSUME NEW h, NEW fl, NEW u, img = FittedTo(total, h, fl, u)
        PROVE  img = Fitted(total, h, fl, u) /\ total = h.cyl * h.head * h.sect
    BY <1>1, <1>2 DEF FittedTo
  <1>3. ASSUME NEW h, NEW fl, NEW u, img = Fitted(total, h, fl, u)
        PROVE  /\ img.floppy = fl /\ img.useCHS = u /\ img.total = total
               /\ img.cyl = h.cyl /\ img.head = h.head /\ img.sect = h.sect
    BY <1>3 DEF Fitted
  <1>4. \/ f # 0 /\ \E h : img = FittedTo(total, h, f, TRUE)
        \/ g.cyl # 0 /\ img = FittedTo(total, g, 0, chs)
        \/ g.cyl = 0 /\ \E h : img = Fitted(total, h, 0, chs)
    BY <1>1, Zenon DEF init
  <1> HIDE DEF img, f
  <1>5. \/ img.floppy # 0
        \/ img.useCHS = chs /\ (g # NoGeometry => Exactly(img, g))
    <2>1. CASE f # 0 /\ \E h : img = FittedTo(total, h, f, TRUE)
      <3>1. PICK h : img = FittedTo(total, h, f, TRUE)
        BY <2>1
      <3>2. img = Fitted(total, h, f, TRUE)
        BY <1>2, <3>1
      <3>3. img.floppy = f
        BY <1>3, <3>2
      <3> QED BY <2>1, <3>3
    <2>2. CASE g.cyl # 0 /\ img = FittedTo(total, g, 0, chs)
      <3>1. img = Fitted(total, g, 0, chs) /\ total = g.cyl * g.head * g.sect
        BY <1>2, <2>2
      <3>2. /\ img.useCHS = chs /\ img.total = total
            /\ img.cyl = g.cyl /\ img.head = g.head /\ img.sect = g.sect
        BY <1>3, <3>1
      <3>3. Exactly(img, g)
        BY <3>1, <3>2 DEF Exactly, SameGeometry
      <3> QED BY <3>2, <3>3
    <2>3. CASE g.cyl = 0 /\ \E h : img = Fitted(total, h, 0, chs)
      <3>1. PICK h : img = Fitted(total, h, 0, chs)
        BY <2>3
      <3>2. img.useCHS = chs
        BY <1>3, <3>1
      <3>3. g = NoGeometry
        BY <2>3
      <3> QED BY <3>2, <3>3
    <2> QED BY <1>4, <2>1, <2>2, <2>3
  <1> QED BY <1>5 DEF img

(* The image that is opened is the one asked for at its place.               *)
LEMMA ImageOpened ==
  ASSUME NEW pl, NEW q, DOMAIN q = Fields, q.line \in DOMAIN Lines, pl \in Lines[q.line].on,
         ReadSoFar(pl, q), AtImage(pl, q), NEW image,
         NEW total, init(total, q.g, q.useCHS).fits,
         image = [file |-> Lines[q.line].argv[q.t].word, readOnly |-> q.readOnly,
                  img |-> init(total, q.g, q.useCHS)]
  PROVE  /\ Len(q.images) + 1 \in DOMAIN Lines[q.line].asked
         /\ IsAsked(image, Lines[q.line].asked[Len(q.images) + 1])
  <1> DEFINE l     == Lines[q.line]
             heads == Heads(pl, q.line)
             t     == q.t
             given == OptionsFor(pl, l.argv, heads, t)
             nth   == Cardinality(ImageWords(pl, l.argv, Before(heads, t))) + 1
             img   == init(total, q.g, q.useCHS)
  <1>1. /\ t \in ImageWords(pl, l.argv, heads) /\ ~Refuses(pl, l.argv, heads, t)
        /\ q.g = GeometryAsked(pl, l.argv, given) /\ (q.g.cyl = 0 => q.g = NoGeometry)
    BY DEF AtImage
  <1>2. /\ \A o \in Before(heads, t) : ~Refuses(pl, l.argv, heads, o)
        /\ Len(q.images) + 1 = nth
        /\ q.readOnly = (Given(pl, l.argv, given, "r") # {})
        /\ q.useCHS = (Given(pl, l.argv, given, "g") # {})
    BY DEF ReadSoFar
  <1>3. \A o \in heads : o <= t => ~Refuses(pl, l.argv, heads, o)
    <2>1. heads \in SUBSET (1 .. Len(l.argv)) /\ t \in heads
      BY <1>1, HeadsAre DEF ImageWords
    <2>2. \A o \in heads : o <= t => o = t \/ o \in Before(heads, t)
      BY <2>1 DEF Before
    <2> QED BY <1>1, <1>2, <2>2
  <1>4. nth \in DOMAIN l.asked /\ l.asked[nth] = ImageAsked(pl, l.argv, heads, t)
    BY <1>1, <1>3, HeadsAre DEF AsksFor
  <1> DEFINE asked == ImageAsked(pl, l.argv, heads, t)
  <1>5. /\ asked.file = l.argv[t].word /\ asked.readOnly = (Given(pl, l.argv, given, "r") # {})
        /\ asked.g = GeometryAsked(pl, l.argv, given)
        /\ asked.chs = (Given(pl, l.argv, given, "g") # {})
    BY DEF ImageAsked
  <1>6. \/ img.floppy # 0
        \/ img.useCHS = q.useCHS /\ (q.g # NoGeometry => Exactly(img, q.g))
    BY <1>1, MadeAsAsked
  <1>7. image.file = l.argv[t].word /\ image.readOnly = q.readOnly /\ image.img = img
    OBVIOUS
  <1> HIDE DEF l, heads, given, img, asked
  <1>8. IsAsked(image, asked)
    BY <1>1, <1>2, <1>5, <1>6, <1>7 DEF IsAsked
  <1> QED BY <1>2, <1>4, <1>8 DEF l, asked

(* It is counted, and the options are forgotten.                             *)
LEMMA ReadOn ==
  ASSUME NEW pl, NEW q, DOMAIN q = Fields, q.line \in DOMAIN Lines, pl \in Lines[q.line].on,
         ReadSoFar(pl, q), AtImage(pl, q), Len(q.images) \in Nat, NEW r,
         r.line = q.line, r.t = q.t + 1, Len(r.images) = Len(q.images) + 1,
         r.readOnly = FALSE, r.useCHS = FALSE, r.create = FALSE, r.g = NoGeometry,
         r.baud = q.baud, r.timeout = q.timeout
  PROVE  /\ ReadSoFar(pl, r)
         /\ r.g = SizeGiven(pl, Lines[r.line].argv,
                            OptionsFor(pl, Lines[r.line].argv, Heads(pl, r.line), r.t))
  <1> DEFINE argv  == Lines[q.line].argv
             heads == Heads(pl, q.line)
             t     == q.t
             S     == Before(heads, t)
  <1>1. /\ heads \in SUBSET (1 .. Len(argv)) /\ Len(argv) \in Nat /\ DOMAIN argv = 1 .. Len(argv)
        /\ IsReading(pl, argv, heads)
    BY HeadsAre
  <1>2. /\ t \in heads /\ ~IsOption(pl, argv[t]) /\ ~Refuses(pl, argv, heads, t)
    BY DEF AtImage, ImageWords
  <1>3. /\ t \in Nat \ {0}
        /\ \A o \in S : ~Refuses(pl, argv, heads, o)
        /\ Len(q.images) = Cardinality(ImageWords(pl, argv, S))
        /\ RateGiven(pl, argv, S, q.baud)
        /\ q.timeout = (Given(pl, argv, S, "t") = {})
    BY DEF ReadSoFar
  <1>4. ~TakesValue(pl, argv[t], WordAfter(argv, t))
    BY <1>2 DEF TakesValue
  <1>5. r.t \in Nat \ {0} /\ r.t = t + 1
    BY <1>3
  <1>6. Before(heads, r.t) = S \cup {t} /\ (r.t \in DOMAIN argv => r.t \in heads)
    <2> HIDE DEF argv, heads, t
    <2> QED BY <1>1, <1>2, <1>4, <1>5, NextWord DEF S
  <1>7. OptionsFor(pl, argv, heads, r.t) = {}
    <2>1. \A o \in heads : o \in Int
      BY <1>1
    <2> HIDE DEF argv, heads, t
    <2> QED BY <1>2, <1>3, <1>6, <2>1, OptionsAfter DEF S
  <1>8. \A opt : Given(pl, argv, {}, opt) = {}
    BY DEF Given
  <1>9. SizeGiven(pl, argv, {}) = NoGeometry
    BY <1>8 DEF SizeGiven, Sizes
  <1>10. \A opt : Given(pl, argv, S \cup {t}, opt) = Given(pl, argv, S, opt)
    BY <1>2 DEF Given
  <1>11. RateGiven(pl, argv, S \cup {t}, r.baud)
    BY <1>3, <1>10 DEF RateGiven
  <1>12. Len(r.images) = Cardinality(ImageWords(pl, argv, S \cup {t}))
    <2> DEFINE W == ImageWords(pl, argv, S)
    <2>1. ImageWords(pl, argv, S \cup {t}) = W \cup {t}
      BY <1>2 DEF ImageWords
    <2>2. t \notin W
      BY <1>3 DEF ImageWords, Before
    <2>3. IsFiniteSet(W)
      <3>1. W \in SUBSET (1 .. Len(argv))
        BY <1>1 DEF ImageWords, Before
      <3>2. IsFiniteSet(1 .. Len(argv))
        BY <1>1, FS_Interval
      <3> HIDE DEF W
      <3> QED BY <3>1, <3>2, FS_Subset
    <2> HIDE DEF W
    <2>4. Cardinality(W \cup {t}) = Cardinality(W) + 1
      BY <2>2, <2>3, FS_AddElement
    <2> QED BY <1>3, <2>1, <2>4 DEF W
  <1>13. NoGeometry = r.g /\ ~r.create
    OBVIOUS
  <1> HIDE DEF argv, heads, t, S
  <1>14. \A o \in S \cup {t} : ~Refuses(pl, argv, heads, o)
    BY <1>2, <1>3
  <1>15. ReadSoFar(pl, r)
    <2>1. Lines[r.line].argv = argv /\ Heads(pl, r.line) = heads
      BY DEF argv, heads
    <2>2. r.timeout = (Given(pl, argv, S \cup {t}, "t") = {})
      BY <1>3, <1>10
    <2> QED BY <1>5, <1>6, <1>7, <1>8, <1>11, <1>12, <1>13, <1>14, <2>1, <2>2 DEF ReadSoFar
  <1> QED BY <1>7, <1>9, <1>15 DEF argv, heads

(* The end of the line.                                                      *)
LEMMA LineRead ==
  ASSUME NEW pl, NEW q, q.line \in DOMAIN Lines, pl \in Lines[q.line].on, ReadSoFar(pl, q),
         q.t > Len(Lines[q.line].argv), Len(q.images) \in Nat \ {0}
  PROVE  /\ Len(q.images) = Len(Lines[q.line].asked)
         /\ (IF q.baud = 0 THEN DefaultRate ELSE q.baud) \in Lines[q.line].bauds
         /\ q.timeout = Lines[q.line].timeout
  <1> DEFINE l     == Lines[q.line]
             heads == Heads(pl, q.line)
             W     == ImageWords(pl, l.argv, heads)
             rated == Given(pl, l.argv, heads, "b")
             rate  == IF q.baud = 0 THEN DefaultRate ELSE q.baud
  <1>1. /\ heads \in SUBSET (1 .. Len(l.argv)) /\ Len(l.argv) \in Nat
        /\ AsksFor(pl, l, heads)
    BY HeadsAre
  <1>2. Before(heads, q.t) = heads
    <2>1. q.t \in Nat
      BY DEF ReadSoFar
    <2> QED BY <1>1, <2>1 DEF Before
  <1>3. /\ \A o \in heads : ~Refuses(pl, l.argv, heads, o)
        /\ Len(q.images) = Cardinality(W)
        /\ RateGiven(pl, l.argv, heads, q.baud)
        /\ q.timeout = (Given(pl, l.argv, heads, "t") = {})
    BY <1>2 DEF ReadSoFar
  <1>4. W # {}
    BY <1>3, FS_EmptySet
  <1>5. /\ Len(l.asked) = Cardinality(W)
        /\ RatesAsked(pl, l.argv, heads) \subseteq l.bauds
        /\ l.timeout = (Given(pl, l.argv, heads, "t") = {})
    BY <1>1, <1>3, <1>4 DEF AsksFor
  <1>6. rate \in RatesAsked(pl, l.argv, heads)
    <2>1. CASE rated # {}
      <3>1. q.baud \in baudRateMatchString(WordAfter(l.argv, Max(rated)).num) \ {0}
        BY <1>3, <2>1 DEF RateGiven
      <3> QED BY <2>1, <3>1 DEF RatesAsked
    <2>2. CASE rated = {}
      <3>1. q.baud = IF Given(pl, l.argv, heads, "p") # {} THEN PipeRate ELSE 0
        BY <1>3, <2>2 DEF RateGiven
      <3>2. PipeRate # 0
        BY DEF PipeRate
      <3> QED BY <2>2, <3>1, <3>2 DEF RatesAsked
    <2> QED BY <2>1, <2>2
  <1> QED BY <1>3, <1>5, <1>6

-----------------------------------------------------------------------------
(* The steps.                                                                *)
Same(q, r) ==
    /\ r.line = q.line /\ r.t = q.t /\ r.images = q.images
    /\ r.readOnly = q.readOnly /\ r.useCHS = q.useCHS /\ r.create = q.create /\ r.g = q.g
    /\ r.baud = q.baud /\ r.timeout = q.timeout

LEMMA OffAsked == ASSUME NEW pl PROVE AskedOf(pl, Off)
  <1>1. Off.pc = "off" /\ Off.images = <<>>
    BY OffIsAProcess
  <1> QED BY <1>1 DEF AskedOf, Creates, Serving

LEMMA SameAsked ==
  ASSUME NEW pl, NEW q, NEW r, AskedOf(pl, q), Same(q, r), q.pc # "off",
         \/ r.pc = q.pc
         \/ q.pc \in Creates /\ r.pc \in Creates
         \/ q.pc \in Serving /\ r.pc \in Serving
  PROVE  AskedOf(pl, r)
  <1>1. ReadSoFar(pl, q) => ReadSoFar(pl, r)
    BY DEF ReadSoFar, Same
  <1>2. AtImage(pl, q) => AtImage(pl, r)
    BY DEF AtImage, Same
  <1>3. r.pc # "off" /\ r.pc \in {"off", "parse"} \cup Creates \cup Serving
    BY DEF AskedOf, Creates, Serving
  <1>4. /\ r.pc = "parse" => q.pc = "parse"
        /\ r.pc \in Creates => q.pc \in Creates
        /\ r.pc \in Serving => q.pc \in Serving
    BY DEF Creates, Serving
  <1> QED BY <1>1, <1>2, <1>3, <1>4 DEF AskedOf, Same

LEMMA StartAsked == ASSUME NEW l \in DOMAIN Lines, Start(l) PROVE AskInv'
  <1>1. /\ p' = [Off EXCEPT !.pc = "parse", !.line = l, !.serial = Serial]
        /\ platform \in Lines[l].on /\ platform' = platform
    BY DEF Start
  <1> DEFINE q == p'
             argv == Lines[l].argv
             heads == Heads(platform, l)
  <1>2. /\ q.pc = "parse" /\ q.line = l /\ q.t = 1 /\ q.images = <<>> /\ q.readOnly = FALSE
        /\ q.useCHS = FALSE /\ q.create = FALSE /\ q.g = NoGeometry /\ q.baud = 0 /\ q.timeout = TRUE
    BY <1>1 DEF Off
  <1>3. /\ heads \in SUBSET (1 .. Len(argv)) /\ Len(argv) \in Nat /\ DOMAIN argv = 1 .. Len(argv)
        /\ IsReading(platform, argv, heads)
    BY <1>1, HeadsAre
  <1> HIDE DEF q, heads
  <1>4. Before(heads, 1) = {} /\ OptionsFor(platform, argv, heads, 1) = {}
    <2>1. \A o \in heads : ~(o < 1)
      BY <1>3
    <2>2. Before(heads, 1) = {}
      BY <2>1 DEF Before
    <2> QED BY <2>2 DEF OptionsFor
  <1>5. 1 \in DOMAIN argv => 1 \in heads
    <2> DEFINE m == 1
    <2>1. m \in DOMAIN argv => (m \in heads <=> ~(m - 1 \in heads
              /\ TakesValue(platform, argv[m - 1], WordAfter(argv, m - 1))))
      BY <1>3 DEF IsReading
    <2>2. m - 1 \notin heads
      BY <1>3
    <2> HIDE DEF m
    <2> QED BY <2>1, <2>2 DEF m
  <1>6. /\ \A opt : Given(platform, argv, {}, opt) = {}
        /\ ImageWords(platform, argv, {}) = {}
    BY DEF Given, ImageWords
  <1>7. Cardinality({}) = 0 /\ Len(<<>>) = 0
    BY FS_EmptySet
  <1>8. RateGiven(platform, argv, {}, q.baud)
    BY <1>2, <1>6 DEF RateGiven
  <1>9. ReadSoFar(platform, q)
    <2>1. Lines[q.line].argv = argv /\ Heads(platform, q.line) = heads
      BY <1>2 DEF heads
    <2>2. q.t \in Nat \ {0} /\ (q.t \in DOMAIN argv => q.t \in heads)
      BY <1>2, <1>5
    <2>3. Before(heads, q.t) = {} /\ OptionsFor(platform, argv, heads, q.t) = {}
      BY <1>2, <1>4
    <2>4. Len(q.images) = Cardinality(ImageWords(platform, argv, {}))
      BY <1>2, <1>6, <1>7
    <2>5. /\ q.readOnly = (Given(platform, argv, {}, "r") # {})
          /\ q.useCHS = (Given(platform, argv, {}, "g") # {})
          /\ q.create = (Given(platform, argv, {}, "n") # {})
          /\ q.timeout = (Given(platform, argv, {}, "t") = {})
      BY <1>2, <1>6
    <2> HIDE DEF argv
    <2> QED BY <1>2, <1>8, <2>1, <2>2, <2>3, <2>4, <2>5 DEF ReadSoFar
  <1>10. q.g = SizeGiven(platform, argv, {})
    BY <1>2, <1>6 DEF SizeGiven, Sizes
  <1>11. AskedOf(platform, q)
    <2>1. Lines[q.line].argv = argv /\ OptionsFor(platform, argv, Heads(platform, q.line), q.t) = {}
      BY <1>2, <1>4 DEF heads
    <2> HIDE DEF argv
    <2>2. q.line \in DOMAIN Lines /\ platform \in Lines[q.line].on
      BY <1>1, <1>2
    <2>3. q.images = <<>> /\ DOMAIN q.images = {}
      BY <1>2
    <2> QED BY <1>2, <1>9, <1>10, <2>1, <2>2, <2>3 DEF AskedOf, Creates, Serving
  <1> QED BY <1>1, <1>11 DEF AskInv, q

LEMMA ArgumentAsked == ASSUME IInv, AskInv, Argument PROVE AskInv'
  <1> DEFINE argv == Lines[p.line].argv
             w    == argv[p.t]
             next == WordAfter(argv, p.t)
             pl   == platform
  <1>1. /\ p.pc = "parse" /\ p.t <= Len(Argv) /\ platform' = platform
        /\ p' \in IF platform = "win32" THEN Win32Argument(p, Word(p.t), Word(p.t + 1))
                  ELSE LinuxArgument(p, Word(p.t), Word(p.t + 1))
    BY DEF Argument
  <1>2. /\ DOMAIN p = Fields /\ p.line \in DOMAIN Lines /\ platform \in Lines[p.line].on
        /\ ReadSoFar(platform, p)
        /\ p.g = SizeGiven(platform, argv,
                           OptionsFor(platform, argv, Heads(platform, p.line), p.t))
        /\ \A i \in DOMAIN p.images : /\ i \in DOMAIN Lines[p.line].asked
                                      /\ IsAsked(p.images[i], Lines[p.line].asked[i])
    BY <1>1 DEF IInv, ServerInv, AskInv, AskedOf
  <1>3. p.t \in DOMAIN argv
    BY <1>1, <1>2, HeadsAre DEF ReadSoFar, Argv
  <1>4. Word(p.t) = w /\ Word(p.t + 1) = next
    BY <1>3 DEF Word, WordAfter, Argv
  <1>5. CASE p' = Off
    BY <1>1, <1>5, OffAsked DEF AskInv
  <1>6. CASE p' # Off /\ IsOption(platform, w)
    <2>1. Effect(platform, p, p', w, next)
      BY <1>1, <1>2, <1>4, <1>6, OptionEffect
    <2>2. /\ ReadSoFar(platform, p')
          /\ p'.g = SizeGiven(platform, Lines[p'.line].argv,
                              OptionsFor(platform, Lines[p'.line].argv, Heads(platform, p'.line), p'.t))
      BY <1>2, <1>3, <1>6, <2>1, OptionRead
    <2>3. p'.pc = "parse" /\ p'.line = p.line /\ p'.images = p.images
      BY <1>1, <2>1 DEF Effect
    <2>4. AskedOf(platform, p')
      BY <1>2, <2>2, <2>3 DEF AskedOf, Creates, Serving
    <2> QED BY <1>1, <2>4 DEF AskInv
  <1>7. CASE p' # Off /\ ~IsOption(platform, w)
    <2>1. p' \in ImageName(p)
      BY <1>1, <1>4, <1>7 DEF Win32Argument, LinuxArgument, IsOption
    <2>2. /\ ReadSoFar(platform, p') /\ AtImage(platform, p')
          /\ p'.pc \in Creates /\ p'.line = p.line /\ p'.images = p.images
      BY <1>2, <1>3, <1>7, <2>1, ImageRead
    <2>3. AskedOf(platform, p')
      BY <1>2, <2>2 DEF AskedOf, Creates, Serving
    <2> QED BY <1>1, <2>3 DEF AskInv
  <1> QED BY <1>5, <1>6, <1>7

LEMMA LastArgumentAsked == ASSUME IInv, AskInv, LastArgument PROVE AskInv'
  <1>1. /\ p.pc = "parse" /\ p.t > Len(Lines[p.line].argv) /\ p' = Ready(p) /\ platform' = platform
    BY DEF LastArgument, Argv
  <1>2. /\ DOMAIN p = Fields /\ p.line \in DOMAIN Lines /\ platform \in Lines[p.line].on
        /\ ReadSoFar(platform, p) /\ Len(p.images) \in Nat /\ (Len(p.images) = 0 => p.images = <<>>)
        /\ \A i \in DOMAIN p.images : /\ i \in DOMAIN Lines[p.line].asked
                                      /\ IsAsked(p.images[i], Lines[p.line].asked[i])
    BY <1>1 DEF IInv, ServerInv, Images, AskInv, AskedOf
  <1>3. CASE p.images = <<>>
    BY <1>1, <1>3, OffAsked DEF Ready, Usage, AskInv
  <1>4. CASE p.images # <<>>
    <2>1. p' = [p EXCEPT !.pc = "connect", !.baud = IF p.baud = 0 THEN DefaultRate ELSE p.baud]
      BY <1>1, <1>4 DEF Ready
    <2>2. /\ p'.pc = "connect" /\ p'.line = p.line /\ p'.images = p.images
          /\ p'.timeout = p.timeout
          /\ p'.baud = IF p.baud = 0 THEN DefaultRate ELSE p.baud
      BY <1>2, <2>1 DEF Fields
    <2>3. /\ Len(p.images) = Len(Lines[p.line].asked)
          /\ p'.baud \in Lines[p.line].bauds /\ p.timeout = Lines[p.line].timeout
      BY <1>1, <1>2, <1>4, <2>2, LineRead
    <2>4. AskedOf(platform, p')
      BY <1>2, <2>2, <2>3 DEF AskedOf, Creates, Serving
    <2> QED BY <1>1, <2>4 DEF AskInv
  <1> QED BY <1>3, <1>4

LEMMA CreatingAsked == ASSUME IInv, AskInv, CreateImage \/ MakeImage PROVE AskInv'
  <1>1. /\ p.pc \in {"create", "make"} /\ DOMAIN p = Fields /\ fs \in [Names -> HostFiles]
        /\ platform' = platform
    BY DEF IInv, ServerInv, CreateImage, MakeImage
  <1>2. CASE p' = Off
    BY <1>1, <1>2, OffAsked DEF AskInv
  <1>3. CASE p' # Off
    <2>1. PICK o : /\ o.says \in {"made", "exists", "absent", "exit"}
                   /\ o.says = "made" => p' = [p EXCEPT !.pc = "fill", !.cf = "open"]
                   /\ o.says = "exists" => p' = [p EXCEPT !.pc = "open", !.cf = NewHandle]
                   /\ o.says = "absent" => p' = [p EXCEPT !.pc = "make"]
                   /\ o.says = "exit" => p' = Off
      <3>1. CASE CreateImage
        <4> DEFINE made == CASE platform = "linux" -> LF!Create(fs[File])
                             [] platform = "win32" -> WF!Create(fs[File])
                             [] OTHER -> SF!Look(fs[File])
        <4>1. File \in Names /\ Make(made)
          BY <1>3, <3>1, Zenon DEF CreateImage
        <4>2. \A o \in made : o \in LF!Create(fs[File]) \/ o \in WF!Create(fs[File]) \/ o \in SF!Look(fs[File])
          BY Zenon
        <4>3. \A o \in made : o.says \in {"made", "exists", "absent", "exit"}
          BY <1>1, <4>1, <4>2, CreationIsSafe
        <4> HIDE DEF made
        <4>4. PICK o \in made :
                 /\ o.says = "made" => p' = [p EXCEPT !.pc = "fill", !.cf = "open"]
                 /\ o.says = "exists" => p' = [p EXCEPT !.pc = "open", !.cf = NewHandle]
                 /\ o.says = "absent" => p' = [p EXCEPT !.pc = "make"]
                 /\ o.says = "exit" => p' = Off
          BY <4>1, Zenon DEF Make
        <4> QED BY <4>3, <4>4
      <3>2. CASE MakeImage
        <4>1. Make(SF!Create(fs[File]))
          BY <3>2 DEF MakeImage
        <4>2. \A o \in SF!Create(fs[File]) : o.says \in {"made", "exists", "absent", "exit"}
          BY DEF SF!Create, SF!Outcome, SF!Empty
        <4> DEFINE made == SF!Create(fs[File])
        <4> HIDE DEF made
        <4>3. PICK o \in made :
                 /\ o.says = "made" => p' = [p EXCEPT !.pc = "fill", !.cf = "open"]
                 /\ o.says = "exists" => p' = [p EXCEPT !.pc = "open", !.cf = NewHandle]
                 /\ o.says = "absent" => p' = [p EXCEPT !.pc = "make"]
                 /\ o.says = "exit" => p' = Off
          BY <4>1, Zenon DEF Make, made
        <4> QED BY <4>2, <4>3 DEF made
      <3> QED BY <3>1, <3>2
    <2>2. /\ Same(p, [p EXCEPT !.pc = "fill", !.cf = "open"])
          /\ Same(p, [p EXCEPT !.pc = "open", !.cf = NewHandle])
          /\ Same(p, [p EXCEPT !.pc = "make"])
          /\ [p EXCEPT !.pc = "fill", !.cf = "open"].pc = "fill"
          /\ [p EXCEPT !.pc = "open", !.cf = NewHandle].pc = "open"
          /\ [p EXCEPT !.pc = "make"].pc = "make"
      BY <1>1 DEF Same, Fields
    <2>3. Same(p, p') /\ p'.pc \in Creates
      BY <1>3, <2>1, <2>2 DEF Creates
    <2>4. AskedOf(platform, p')
      BY <1>1, <2>3, SameAsked DEF AskInv, Creates
    <2> QED BY <1>1, <2>4 DEF AskInv
  <1> QED BY <1>2, <1>3

LEMMA FillAsked == ASSUME IInv, AskInv, FillImage PROVE AskInv'
  <1>1. p.pc = "fill" /\ DOMAIN p = Fields /\ platform' = platform
    BY DEF IInv, ServerInv, FillImage
  <1>2. p' = Off \/ p' = p \/ p' = [p EXCEPT !.pc = "open", !.cf = Closed(p.cf)]
    <2>1. \E size : p' \in {Off, IF size = Goal THEN [p EXCEPT !.pc = "open", !.cf = Closed(p.cf)] ELSE p}
      BY Zenon DEF FillImage
    <2> QED BY <2>1
  <1>3. p' = Off \/ (Same(p, p') /\ p'.pc \in Creates)
    BY <1>1, <1>2 DEF Same, Fields, Creates
  <1>4. AskedOf(platform, p')
    BY <1>1, <1>3, OffAsked, SameAsked DEF AskInv, Creates
  <1> QED BY <1>1, <1>4 DEF AskInv

LEMMA OpenAsked == ASSUME IInv, AskInv, OpenImage PROVE AskInv'
  <1>1. /\ p.pc = "open" /\ DOMAIN p = Fields /\ platform' = platform
    BY DEF IInv, ServerInv, OpenImage
  <1>2. /\ p.line \in DOMAIN Lines /\ platform \in Lines[p.line].on
        /\ ReadSoFar(platform, p) /\ AtImage(platform, p)
        /\ Len(p.images) \in Nat /\ DOMAIN p.images = 1 .. Len(p.images)
        /\ \A i \in DOMAIN p.images : /\ i \in DOMAIN Lines[p.line].asked
                                      /\ IsAsked(p.images[i], Lines[p.line].asked[i])
    BY <1>1 DEF IInv, ServerInv, Images, AskInv, AskedOf, Creates
  <1>3. PICK o \in Opened(FileOf(File), InUse(File)) :
           LET img == init(SizeSectors(o.file), p.g, p.useCHS)
           IN  p' = IF o.says = "ok" /\ img.fits
                    THEN Served([p EXCEPT !.cf = NewHandle], [file |-> File, readOnly |-> p.readOnly, img |-> img])
                    ELSE Off
    BY Zenon DEF OpenImage
  <1> DEFINE total == SizeSectors(o.file)
             img   == init(total, p.g, p.useCHS)
             image == [file |-> File, readOnly |-> p.readOnly, img |-> img]
             asked == Lines[p.line].asked
  <1>4. CASE ~(o.says = "ok" /\ img.fits)
    <2>1. p' = Off
      BY <1>3, <1>4
    <2> QED BY <1>1, <2>1, OffAsked DEF AskInv
  <1>5. CASE o.says = "ok" /\ img.fits
    <2>1. p' = Served([p EXCEPT !.cf = NewHandle], image)
      BY <1>3, <1>5
    <2>2. /\ Len(p.images) + 1 \in DOMAIN asked
          /\ IsAsked(image, asked[Len(p.images) + 1])
      <3>1. init(total, p.g, p.useCHS).fits
        BY <1>5
      <3>2. image = [file |-> Lines[p.line].argv[p.t].word, readOnly |-> p.readOnly,
                     img |-> init(total, p.g, p.useCHS)]
        BY DEF File, Argv
      <3> HIDE DEF total, image
      <3> QED BY <1>1, <1>2, <3>1, <3>2, ImageOpened
    <2> HIDE DEF image
    <2>3. /\ p'.pc = "parse" /\ p'.line = p.line /\ p'.t = p.t + 1 /\ p'.images = Append(p.images, image)
          /\ p'.readOnly = FALSE /\ p'.useCHS = FALSE /\ p'.create = FALSE /\ p'.g = NoGeometry
          /\ p'.baud = p.baud /\ p'.timeout = p.timeout
      BY <1>1, <2>1 DEF Served, Next1, Fields
    <2>4. p.images \in Seq({p.images[i] : i \in DOMAIN p.images})
      BY DEF IInv, ServerInv, Images
    <2>5. /\ Len(p'.images) = Len(p.images) + 1
          /\ \A i \in DOMAIN p'.images :
                \/ i \in DOMAIN p.images /\ p'.images[i] = p.images[i]
                \/ i = Len(p.images) + 1 /\ p'.images[i] = image
      <3> DEFINE E    == {p.images[i] : i \in DOMAIN p.images} \cup {image}
                 more == Append(p.images, image)
      <3>1. p.images \in Seq(E) /\ image \in E
        BY <2>4
      <3> HIDE DEF E
      <3>2. Len(more) = Len(p.images) + 1 /\ DOMAIN more = 1 .. Len(p.images) + 1
        BY <3>1
      <3>3. \A i \in 1 .. Len(p.images) + 1 :
                more[i] = IF i = Len(p.images) + 1 THEN image ELSE p.images[i]
        BY <3>1
      <3> QED BY <1>2, <2>3, <3>2, <3>3
    <2>6. /\ ReadSoFar(platform, p')
          /\ p'.g = SizeGiven(platform, Lines[p'.line].argv,
                              OptionsFor(platform, Lines[p'.line].argv, Heads(platform, p'.line), p'.t))
      BY <1>1, <1>2, <2>3, <2>5, ReadOn
    <2>7. \A i \in DOMAIN p'.images : i \in DOMAIN asked /\ IsAsked(p'.images[i], asked[i])
      BY <1>2, <2>2, <2>5
    <2>8. AskedOf(platform, p')
      BY <1>2, <2>3, <2>6, <2>7 DEF AskedOf, Creates, Serving
    <2> QED BY <1>1, <2>8 DEF AskInv
  <1> QED BY <1>4, <1>5

(* While it serves, the process keeps what it has read.                      *)
LEMMA ServingAsked ==
  ASSUME IInv, AskInv,
         \/ Connect \/ Hangup \/ Kill
         \/ \E d \in {0, 1} : \/ Inquire(d)
                              \/ \E write \in BOOLEAN, a \in Corners(told[d]) : Transfer(d, write, a)
  PROVE  AskInv'
  <1>1. DOMAIN p = Fields /\ platform' = platform
    BY Zenon DEF IInv, ServerInv, Connect, Hangup, Kill, Inquire, Transfer
  <1>2. p' = Off \/ (p.pc \in Serving /\ Same(p, p') /\ p'.pc \in Serving)
    <2>1. ASSUME NEW q, NEW says, p.pc = "serve", q.pc = "serve", Same(p, q), p' = After(q, says)
          PROVE  p' = Off \/ (p.pc \in Serving /\ Same(p, p') /\ p'.pc \in Serving)
      <3>1. /\ Same(p, [p EXCEPT !.pc = "connect", !.serial = Disconnect])
            /\ [p EXCEPT !.pc = "connect", !.serial = Disconnect].pc = "connect"
        BY <1>1 DEF Same, Fields
      <3> QED BY <2>1, <3>1, AfterIs DEF Serving
    <2>2. CASE Connect
      <3>1. /\ p.pc = "connect"
            /\ p' = Off \/ \E serial : p' = [p EXCEPT !.pc = "serve", !.serial = serial, !.lastScan = FALSE]
        BY <2>2, Zenon DEF Connect
      <3> QED BY <1>1, <3>1 DEF Same, Fields, Serving
    <2>3. CASE Hangup
      <3>1. p.pc = "serve" /\ \E says : p' = After(p, says)
        BY <2>3 DEF Hangup
      <3> QED BY <2>1, <3>1 DEF Same
    <2>4. CASE Kill
      BY <2>4 DEF Kill
    <2>5. CASE \E d \in {0, 1} : Inquire(d)
      <3>1. p.pc = "serve" /\ \E scan, says : p' = After([p EXCEPT !.lastScan = scan], says)
        BY <2>5, Zenon DEF Inquire, Answered
      <3>2. ASSUME NEW scan PROVE Same(p, [p EXCEPT !.lastScan = scan]) /\ [p EXCEPT !.lastScan = scan].pc = p.pc
        BY <1>1 DEF Same, Fields
      <3> QED BY <2>1, <3>1, <3>2
    <2>6. CASE \E d \in {0, 1} : \E write \in BOOLEAN, a \in Corners(told[d]) : Transfer(d, write, a)
      <3>1. /\ p.pc = "serve"
            /\ \/ p' = Off
               \/ \E says : p' = After(p, says)
               \/ \E says : p' = After([p EXCEPT !.lastScan = FALSE], says)
        BY <2>6, Zenon DEF Transfer
      <3>2. /\ Same(p, p) /\ Same(p, [p EXCEPT !.lastScan = FALSE])
            /\ [p EXCEPT !.lastScan = FALSE].pc = p.pc
        BY <1>1 DEF Same, Fields
      <3> QED BY <2>1, <3>1, <3>2
    <2> QED BY <2>2, <2>3, <2>4, <2>5, <2>6
  <1>3. AskedOf(platform, p')
    BY <1>2, OffAsked, SameAsked DEF AskInv, Serving
  <1> QED BY <1>1, <1>3 DEF AskInv

LEMMA StepAsked == ASSUME IInv, AskInv, [Next]_vars PROVE AskInv'
  <1>1. CASE \E l \in DOMAIN Lines : Start(l)
    BY <1>1, StartAsked
  <1>2. CASE Argument \/ LastArgument
    BY <1>2, ArgumentAsked, LastArgumentAsked
  <1>3. CASE CreateImage \/ MakeImage \/ FillImage \/ OpenImage
    BY <1>3, CreatingAsked, FillAsked, OpenAsked
  <1>4. CASE \/ Connect \/ Hangup \/ Kill
             \/ \E d \in {0, 1} : \/ Inquire(d)
                                  \/ \E write \in BOOLEAN, a \in Corners(told[d]) : Transfer(d, write, a)
    BY <1>4, ServingAsked
  <1>5. CASE (\E f \in Names : OtherCreates(f)) \/ ClientRestarts \/ UNCHANGED vars
    <2>1. p' = p /\ platform' = platform
      BY <1>5 DEF OtherCreates, ClientRestarts, vars, server
    <2> QED BY <2>1 DEF AskInv
  <1> QED BY <1>1, <1>2, <1>3, <1>4, <1>5, Zenon DEF Next

LEMMA AskedIsServed == AskInv => ServedAsAsked
  <1> SUFFICES ASSUME AskInv PROVE ServedAsAsked
    OBVIOUS
  <1>1. Asked = Lines[p.line].asked
    BY DEF Asked
  <1>2. \A i \in DOMAIN p.images : i \in DOMAIN Asked /\ IsAsked(p.images[i], Asked[i])
    BY <1>1 DEF AskInv, AskedOf
  <1>3. p.pc \in Serving => /\ Len(p.images) = Len(Asked)
                            /\ p.baud \in Lines[p.line].bauds /\ p.timeout = Lines[p.line].timeout
    BY <1>1 DEF AskInv, AskedOf
  <1>4. \A i \in DOMAIN p.images :
           /\ i \in DOMAIN Asked
           /\ p.images[i].file = Asked[i].file
           /\ p.images[i].readOnly = Asked[i].readOnly
           /\ LET img == p.images[i].img
              IN  \/ img.floppy # 0
                  \/ /\ img.useCHS = Asked[i].chs
                     /\ Asked[i].g # NoGeometry => /\ SameGeometry(img, Asked[i].g)
                                                   /\ img.total = img.cyl * img.head * img.sect
    BY <1>2 DEF IsAsked, Exactly
  <1>5. p.pc \in {"connect", "serve"} =>
           /\ Len(p.images) = Len(Asked)
           /\ p.baud \in Lines[p.line].bauds /\ p.timeout = Lines[p.line].timeout
    BY <1>3 DEF Serving
  <1> QED BY <1>4, <1>5, Zenon DEF ServedAsAsked

(* Whatever the command line says and however it mixes options, values and    *)
(* images: the server serves what it asks for, with each image the options     *)
(* given for it.  (Linux.cpp:139-266, Win32.cpp:145-268)                        *)
THEOREM AskedIsAlwaysServed == Spec => []ServedAsAsked
  <1>1. Init => AskInv
    BY OffAsked DEF Init, AskInv
  <1> QED BY <1>1, InitHolds, StepKeeps, StepAsked, AskedIsServed, PTL DEF Spec

-----------------------------------------------------------------------------
(* No file is lost.  Between the look at a file and the end of its creation   *)
(* the process is about the same file, which is its own once it is filled, and *)
(* only the portable file access looks first.                               *)
Creating ==
    /\ p.pc = "fill" => File \in Names /\ fs[File].exists /\ fs[File].made
    /\ p.pc = "make" => File \in Names /\ platform = "stdio"
    /\ platform \in Platforms

(* The files themselves change in few steps.                                 *)
LEMMA FilesChangeIn ==
  ASSUME Next
  PROVE  \/ fs' = fs
         \/ CreateImage \/ MakeImage \/ FillImage
         \/ \E d \in {0, 1} : \E write \in BOOLEAN, a \in Corners(told[d]) : Transfer(d, write, a)
         \/ \E f \in Names : OtherCreates(f)
  BY Zenon DEF Next, Start, Argument, LastArgument, OpenImage, Connect, Hangup, Kill, Inquire,
     ClientRestarts, server

(* A creation goes on only in the steps that are one.                        *)
LEMMA ElsewhereNoCreation ==
  ASSUME IInv, Next, ~CreateImage, ~MakeImage, ~FillImage
  PROVE  p' = p \/ p'.pc \notin {"fill", "make"}
  <1>1. DOMAIN p = Fields /\ p.g \in Geometries /\ (p.pc # "off" => p.line \in DOMAIN Lines)
    BY DEF IInv, ServerInv
  <1>2. Off.pc = "off"
    BY OffIsAProcess
  <1>3. ASSUME NEW q, NEW says, q.pc = "serve", p' = After(q, says)
        PROVE  p'.pc \notin {"fill", "make"}
    <2>1. \A r : r = [p EXCEPT !.pc = "connect", !.serial = Disconnect] => r.pc = "connect"
      BY <1>1 DEF Fields
    <2> QED BY <1>2, <1>3, <2>1, AfterIs
  <1>4. CASE \E l \in DOMAIN Lines : Start(l)
    <2>1. \E l, s : p' = [Off EXCEPT !.pc = "parse", !.line = l, !.serial = s]
      BY <1>4 DEF Start
    <2> QED BY <2>1, OffIsAProcess DEF Fields
  <1>5. CASE Argument
    <2>1. /\ p.pc = "parse"
          /\ p' \in LinuxArgument(p, Word(p.t), Word(p.t + 1)) \/ p' \in Win32Argument(p, Word(p.t), Word(p.t + 1))
      BY <1>5 DEF Argument
    <2>2. Word(p.t + 1).parts \in Seq(Nat) /\ Word(p.t + 1).milli \in Nat
      BY <1>1, <2>1, WordIsKnown
    <2> QED BY <1>1, <2>1, <2>2, ArgumentParsed DEF Parsed
  <1>6. CASE LastArgument
    <2>1. p' = Off \/ \E rate : p' = [p EXCEPT !.pc = "connect", !.baud = rate]
      BY <1>6 DEF LastArgument, Ready, Usage
    <2> QED BY <1>1, <1>2, <2>1 DEF Fields
  <1>7. CASE OpenImage
    <2>1. p' = Off \/ \E i : p' = Served([p EXCEPT !.cf = NewHandle], i)
      BY <1>7, Zenon DEF OpenImage
    <2>2. \A i : Served([p EXCEPT !.cf = NewHandle], i).pc = "parse"
      BY <1>1 DEF Served, Next1, Fields
    <2> QED BY <1>2, <2>1, <2>2
  <1>8. CASE Connect
    <2>1. p' = Off \/ \E serial : p' = [p EXCEPT !.pc = "serve", !.serial = serial, !.lastScan = FALSE]
      BY <1>8, Zenon DEF Connect
    <2> QED BY <1>1, <1>2, <2>1 DEF Fields
  <1>9. CASE Hangup
    <2>1. p.pc = "serve" /\ \E says : p' = After(p, says)
      BY <1>9 DEF Hangup
    <2> QED BY <1>3, <2>1
  <1>10. CASE Kill
    BY <1>2, <1>10 DEF Kill
  <1>11. CASE \E d \in {0, 1} : Inquire(d)
    <2>1. p.pc = "serve" /\ \E scan, says : p' = After([p EXCEPT !.lastScan = scan], says)
      BY <1>11, Zenon DEF Inquire, Answered
    <2>2. \A scan : [p EXCEPT !.lastScan = scan].pc = p.pc
      BY <1>1 DEF Fields
    <2> QED BY <1>3, <2>1, <2>2
  <1>12. CASE \E d \in {0, 1} : \E write \in BOOLEAN, a \in Corners(told[d]) : Transfer(d, write, a)
    <2>1. /\ p.pc = "serve"
          /\ \/ p' = Off
             \/ \E says : p' = After(p, says)
             \/ \E says : p' = After([p EXCEPT !.lastScan = FALSE], says)
      BY <1>12, Zenon DEF Transfer
    <2>2. [p EXCEPT !.lastScan = FALSE].pc = p.pc
      BY <1>1 DEF Fields
    <2> QED BY <1>2, <1>3, <2>1, <2>2
  <1>13. CASE (\E f \in Names : OtherCreates(f)) \/ ClientRestarts
    BY <1>13 DEF OtherCreates, ClientRestarts, server
  <1> QED BY <1>4, <1>5, <1>6, <1>7, <1>8, <1>9, <1>10, <1>11, <1>12, <1>13, Zenon DEF Next

(* A file is made where there was none, or by the portable access.           *)
LEMMA MakingKeepsFiles ==
  ASSUME IInv, Creating, CreateImage \/ MakeImage
  PROVE  /\ Creating'
         /\ \A f \in Names : fs[f].exists /\ fs'[f] # fs[f] =>
               platform = "stdio" /\ p.pc = "make" /\ File = f
  <1> DEFINE made == IF MakeImage THEN SF!Create(fs[File])
                     ELSE CASE platform = "linux" -> LF!Create(fs[File])
                            [] platform = "win32" -> WF!Create(fs[File])
                            [] OTHER -> SF!Look(fs[File])
  <1>1. /\ DOMAIN p = Fields /\ fs \in [Names -> HostFiles] /\ platform' = platform
        /\ p.pc \in {"create", "make"} /\ (p.pc = "make" <=> MakeImage)
    BY DEF IInv, ServerInv, CreateImage, MakeImage
  <1>2. CASE p' = Off /\ fs' = fs
    BY <1>1, <1>2, OffIsAProcess DEF Creating
  <1>3. CASE ~(p' = Off /\ fs' = fs)
    <2>1. Make(made)
      BY <1>1, <1>3, Zenon DEF CreateImage, MakeImage
    <2>2. /\ \A says, h : LF!Outcome(says, h) = Outcome(says, h)
          /\ \A says, h : WF!Outcome(says, h) = Outcome(says, h)
          /\ \A says, h : SF!Outcome(says, h) = Outcome(says, h)
          /\ LF!Empty = Empty /\ WF!Empty = Empty /\ SF!Empty = Empty
      BY Zenon DEF LF!Outcome, WF!Outcome, SF!Outcome, Outcome, LF!Empty, WF!Empty, SF!Empty, Empty
    <2> DEFINE Fate(o) == \/ o = Outcome("exists", fs[File])
                          \/ o = Outcome("exit", fs[File])
                          \/ o = Outcome("absent", fs[File]) /\ platform = "stdio"
                          \/ o = Outcome("made", Empty) /\ (MakeImage \/ ~fs[File].exists)
    <2>3. ASSUME NEW o \in made PROVE Fate(o)
      <3>1. CASE MakeImage
        <4>1. o \in SF!Create(fs[File])
          BY <3>1
        <4> QED BY <2>2, <3>1, <4>1 DEF SF!Create
      <3>2. CASE ~MakeImage /\ platform = "linux"
        <4>1. o \in LF!Create(fs[File])
          BY <3>2
        <4> QED BY <2>2, <4>1 DEF LF!Create
      <3>3. CASE ~MakeImage /\ platform = "win32"
        <4>1. o \in WF!Create(fs[File])
          BY <3>3
        <4> QED BY <2>2, <4>1 DEF WF!Create
      <3>4. CASE ~MakeImage /\ platform \notin {"linux", "win32"}
        <4>1. o \in SF!Look(fs[File])
          BY <3>4
        <4>2. platform = "stdio"
          BY <3>4 DEF Creating, Platforms
        <4> QED BY <2>2, <4>1, <4>2 DEF SF!Look
      <3> QED BY <3>1, <3>2, <3>3, <3>4
    <2> HIDE DEF made
    <2>4. File \in Names
      BY <1>1, <1>3 DEF CreateImage, Creating
    <2>5. PICK o \in made :
             /\ fs' = [fs EXCEPT ![File] = o.file]
             /\ o.says = "made" => p' = [p EXCEPT !.pc = "fill", !.cf = "open"]
             /\ o.says = "exists" => p' = [p EXCEPT !.pc = "open", !.cf = NewHandle]
             /\ o.says = "absent" => p' = [p EXCEPT !.pc = "make"]
             /\ o.says = "exit" => p' = Off
      BY <2>1, Zenon DEF Make
    <2>6. CASE o = Outcome("made", Empty) /\ (MakeImage \/ ~fs[File].exists)
      <3>1. fs' = [fs EXCEPT ![File] = Empty] /\ p' = [p EXCEPT !.pc = "fill", !.cf = "open"]
        BY <2>5, <2>6, OutcomeIs
      <3>2. p'.pc = "fill" /\ p'.line = p.line /\ p'.t = p.t
        BY <1>1, <3>1 DEF Fields
      <3>3. File' = File
        BY <3>2 DEF File, Argv
      <3>4. fs'[File] = Empty /\ \A f \in Names : f # File => fs'[f] = fs[f]
        BY <1>1, <2>4, <3>1
      <3>5. Creating'
        BY <1>1, <2>4, <3>2, <3>3, <3>4 DEF Creating, Empty
      <3> QED BY <1>1, <2>6, <3>4, <3>5 DEF Creating
    <2>7. CASE o \in {Outcome("exists", fs[File]), Outcome("exit", fs[File])}
      <3>1. fs' = fs
        BY <1>1, <2>4, <2>5, <2>7, OutcomeIs
      <3>2. p' = Off \/ p' = [p EXCEPT !.pc = "open", !.cf = NewHandle]
        BY <2>5, <2>7, OutcomeIs
      <3>3. p'.pc \in {"off", "open"}
        BY <1>1, <3>2, OffIsAProcess DEF Fields
      <3> QED BY <1>1, <3>1, <3>3 DEF Creating
    <2>8. CASE o = Outcome("absent", fs[File]) /\ platform = "stdio"
      <3>1. fs' = fs /\ p' = [p EXCEPT !.pc = "make"]
        BY <1>1, <2>4, <2>5, <2>8, OutcomeIs
      <3>2. p'.pc = "make" /\ p'.line = p.line /\ p'.t = p.t
        BY <1>1, <3>1 DEF Fields
      <3>3. File' = File
        BY <3>2 DEF File, Argv
      <3> QED BY <1>1, <2>4, <2>8, <3>1, <3>2, <3>3 DEF Creating
    <2> QED BY <2>3, <2>5, <2>6, <2>7, <2>8
  <1> QED BY <1>2, <1>3

(* A file that is filled grows.                                              *)
LEMMA FillingKeepsFiles ==
  ASSUME IInv, Creating, FillImage
  PROVE  /\ Creating'
         /\ \A f \in Names : fs'[f] # fs[f] =>
               p.pc = "fill" /\ File = f /\ fs[f].made /\ fs'[f].size > fs[f].size
  <1>1. /\ p.pc = "fill" /\ DOMAIN p = Fields /\ fs \in [Names -> HostFiles]
        /\ File \in Names /\ fs[File].exists /\ fs[File].made /\ platform' = platform
    BY DEF IInv, ServerInv, FillImage, Creating
  <1>2. PICK size :
           /\ fs' = [fs EXCEPT ![File] = Extended(fs[File], size)]
           /\ p' \in {Off, IF size = Goal THEN [p EXCEPT !.pc = "open", !.cf = Closed(p.cf)] ELSE p}
    BY Zenon DEF FillImage
  <1>3. fs'[File] = Extended(fs[File], size) /\ \A f \in Names : f # File => fs'[f] = fs[f]
    BY <1>1, <1>2
  <1>4. /\ fs'[File].exists /\ fs'[File].made
        /\ fs'[File] # fs[File] => fs'[File].size > fs[File].size
    <2>1. fs[File] \in HostFiles
      BY <1>1
    <2>2. CASE size > fs[File].size
      BY <1>1, <1>3, <2>1, <2>2 DEF Extended, HostFiles
    <2>3. CASE ~(size > fs[File].size)
      <3>1. Extended(fs[File], size) = fs[File]
        BY <2>1, <2>3 DEF Extended, HostFiles
      <3> QED BY <1>1, <1>3, <3>1
    <2> QED BY <2>2, <2>3
  <1>5. Creating'
    <2>1. p' = p \/ p'.pc \in {"off", "open"}
      BY <1>1, <1>2, OffIsAProcess DEF Fields
    <2>2. p' = p => File' = File
      BY DEF File, Argv
    <2> QED BY <1>1, <1>4, <2>1, <2>2 DEF Creating
  <1> QED BY <1>1, <1>3, <1>4, <1>5

(* The drives are the images, in one order or the other.                     *)
LEMMA DriveIsAnImage ==
  ASSUME Images(p.images, fs), NEW d \in {0, 1}, Provided(d)
  PROVE  \E i \in DOMAIN p.images : Drive(d) = p.images[i]
  <1>1. DOMAIN p.images = 1 .. Len(p.images) /\ Len(p.images) \in Nat
    BY DEF Images
  <1>2. d + 1 \in DOMAIN p.images
    BY <1>1 DEF Provided
  <1>3. \/ Drive(d) = p.images[d + 1]
        \/ Len(p.images) = 2 /\ Drive(d) = <<p.images[2], p.images[1]>>[d + 1]
    BY DEF Drive, Drives
  <1>4. CASE Drive(d) = p.images[d + 1]
    BY <1>2, <1>4
  <1>5. CASE Len(p.images) = 2 /\ Drive(d) = <<p.images[2], p.images[1]>>[d + 1]
    <2>1. Drive(d) = p.images[2] \/ Drive(d) = p.images[1]
      BY <1>5
    <2> QED BY <1>1, <1>5, <2>1
  <1> QED BY <1>3, <1>4, <1>5

(* A client writes to a drive that takes writes, and within it if the drive is *)
(* the one it knows.                                                        *)
LEMMA TransfersKeepFiles ==
  ASSUME IInv, ServedAsAsked,
         NEW d \in {0, 1}, NEW write \in BOOLEAN, NEW a \in Corners(told[d]), Transfer(d, write, a),
         NEW f \in Names, fs[f].exists, fs'[f] # fs[f]
  PROVE  /\ p.pc = "serve" /\ AskedWritable(f) /\ fs'[f].made = fs[f].made
         /\ fs'[f].size >= fs[f].size
         /\ fs'[f].size > fs[f].size =>
              \E e \in {0, 1} : Serves(e, f) /\ told[e] # respondInquire(Drive(e).img)
  <1> DEFINE g   == Drive(d).file
             lba == Sector(Drive(d).img, a)
  <1>1. /\ p.pc = "serve" /\ fs \in [Names -> HostFiles] /\ Images(p.images, fs)
        /\ Provided(d) /\ Identity(told[d]) /\ ~(write /\ Drive(d).readOnly)
    BY DEF IInv, ServerInv, ClientInv, Transfer
  <1>2. PICK o :
           /\ IF write THEN o \in SectorWritten(fs[g], lba) ELSE o \in SectorRead(fs[g], lba)
           /\ fs' = [fs EXCEPT ![g] = o.file]
    BY Zenon DEF Transfer
  <1>3. Stored(Drive(d), fs)
    BY <1>1, DriveIsStored
  <1>4. g \in Names /\ fs[g] \in HostFiles /\ lba \in Int
    BY <1>1, <1>3, SectorIsTyped DEF Stored
  <1>5. told[d] = respondInquire(Drive(d).img) => lba \in 0 .. Drive(d).img.total - 1
    BY <1>3, CornersAreInside DEF Stored
  <1>6. Drive(d).img.total \in Nat /\ Drive(d).img.total <= fs[g].size
    BY <1>3 DEF Stored, ImageFits
  <1>7. PICK i \in DOMAIN p.images : Drive(d) = p.images[i]
    BY <1>1, DriveIsAnImage
  <1>8. ~Drive(d).readOnly => AskedWritable(g)
    BY <1>7 DEF ServedAsAsked, AskedWritable
  <1>9. Serves(d, g)
    BY <1>1 DEF Serves
  <1> HIDE DEF g, lba
  <1>10. f = g /\ o.file # fs[g] /\ fs'[f] = o.file
    BY <1>1, <1>2, <1>4
  <1>11. write /\ o.file = Written(fs[g], lba)
    <2>1. o \in SectorRead(fs[g], lba) => o.file = fs[g]
      <3>1. o \in LF!Read(fs[g], lba) => o.file = fs[g]
        BY DEF LF!Read, LF!Outcome
      <3>2. o \in WF!Read(fs[g], lba) => o.file = fs[g]
        BY DEF WF!Read, WF!Outcome
      <3>3. o \in SF!Read(fs[g], lba) => o.file = fs[g]
        BY DEF SF!Read, SF!Outcome
      <3> QED BY <3>1, <3>2, <3>3, Zenon DEF SectorRead
    <2>2. o \in SectorWritten(fs[g], lba) => o.file \in {fs[g], Written(fs[g], lba)}
      <3>1. o \in LF!Write(fs[g], lba) => o.file \in {fs[g], Written(fs[g], lba)}
        BY DEF LF!Write, LF!Outcome, LF!Written, Written, LF!Extended, Extended
      <3>2. o \in WF!Write(fs[g], lba) => o.file \in {fs[g], Written(fs[g], lba)}
        BY DEF WF!Write, WF!Outcome, WF!Written, Written, WF!Extended, Extended
      <3>3. o \in SF!Write(fs[g], lba) => o.file \in {fs[g], Written(fs[g], lba)}
        BY DEF SF!Write, SF!Outcome, SF!Written, Written, SF!Extended, Extended
      <3> QED BY <3>1, <3>2, <3>3, Zenon DEF SectorWritten
    <2> QED BY <1>2, <1>10, <2>1, <2>2
  <1>12. /\ fs'[f].made = fs[f].made
         /\ fs'[f].size = IF lba + 1 > fs[f].size THEN lba + 1 ELSE fs[f].size
    BY <1>4, <1>10, <1>11 DEF Written, Extended, HostFiles
  <1>13. fs[f].size \in Nat
    BY <1>4, <1>10 DEF HostFiles
  <1>14. fs'[f].size >= fs[f].size
    BY <1>4, <1>12, <1>13
  <1>15. fs'[f].size > fs[f].size => told[d] # respondInquire(Drive(d).img)
    BY <1>4, <1>5, <1>6, <1>10, <1>12, <1>13
  <1> QED BY <1>1, <1>8, <1>9, <1>10, <1>11, <1>12, <1>14, <1>15

(* One step.                                                                *)
LEMMA CreatingKept == ASSUME IInv, Creating, [Next]_vars PROVE Creating'
  <1>1. CASE CreateImage \/ MakeImage
    BY <1>1, MakingKeepsFiles
  <1>2. CASE FillImage
    BY <1>2, FillingKeepsFiles
  <1>3. CASE Next /\ ~CreateImage /\ ~MakeImage /\ ~FillImage
    <2>1. platform' = platform
      BY <1>3, Zenon DEF Next, Start, Argument, LastArgument, OpenImage, Connect, Hangup, Kill,
         Inquire, Transfer, OtherCreates, ClientRestarts
    <2>2. CASE p'.pc \notin {"fill", "make"}
      BY <2>1, <2>2 DEF Creating
    <2>3. CASE p' = p /\ p.pc \in {"fill", "make"}
      <3>1. File' = File /\ fs \in [Names -> HostFiles]
        BY <2>3 DEF File, Argv, IInv, ServerInv
      <3>2. fs' = fs \/ \E f \in Names : OtherCreates(f)
        BY <1>3, <2>3, FilesChangeIn DEF Transfer
      <3>3. CASE fs' = fs
        BY <2>1, <2>3, <3>1, <3>3 DEF Creating
      <3>4. CASE \E f \in Names : OtherCreates(f)
        <4>1. File \in Names /\ fs[File].exists => fs'[File] = fs[File]
          BY <3>1, <3>4 DEF OtherCreates
        <4> QED BY <2>1, <2>3, <3>1, <4>1 DEF Creating
      <3> QED BY <3>2, <3>3, <3>4
    <2> QED BY <1>3, <2>2, <2>3, ElsewhereNoCreation
  <1>4. CASE UNCHANGED vars
    <2>1. File' = File /\ p' = p /\ fs' = fs /\ platform' = platform
      BY <1>4 DEF vars, File, Argv
    <2> QED BY <2>1 DEF Creating
  <1> QED BY <1>1, <1>2, <1>3, <1>4

(* What a step may do to a file that exists.                                 *)
Kept(f) ==
    \/ p.pc = "fill" /\ File = f /\ fs[f].made /\ fs'[f].size > fs[f].size
    \/ /\ p.pc = "serve" /\ AskedWritable(f) /\ fs'[f].made = fs[f].made
       /\ fs'[f].size >= fs[f].size
       /\ fs'[f].size > fs[f].size =>
            \E d \in {0, 1} : /\ Serves(d, f)
                              /\ told[d] # respondInquire(Drive(d).img)
    \/ platform = "stdio" /\ p.pc = "make" /\ File = f

LEMMA StepKeepsFiles ==
  ASSUME IInv, Creating, ServedAsAsked, [Next]_vars, NEW f \in Names, fs[f].exists, fs'[f] # fs[f]
  PROVE  Kept(f)
  <1>1. Next /\ fs' # fs
    BY DEF vars
  <1>2. CASE CreateImage \/ MakeImage
    BY <1>2, MakingKeepsFiles DEF Kept
  <1>3. CASE FillImage
    BY <1>3, FillingKeepsFiles DEF Kept
  <1>4. CASE \E d \in {0, 1} : \E write \in BOOLEAN, a \in Corners(told[d]) : Transfer(d, write, a)
    <2>1. PICK d \in {0, 1} : \E write \in BOOLEAN, a \in Corners(told[d]) : Transfer(d, write, a)
      BY <1>4
    <2>2. PICK write \in BOOLEAN, a \in Corners(told[d]) : Transfer(d, write, a)
      BY <2>1
    <2> QED BY <2>2, TransfersKeepFiles DEF Kept
  <1>5. CASE \E h \in Names : OtherCreates(h)
    BY <1>5 DEF OtherCreates, IInv, ServerInv
  <1> QED BY <1>1, <1>2, <1>3, <1>4, <1>5, FilesChangeIn

(* No file is lost: whatever there is at first, whatever command line asks for  *)
(* it, and however often the server is killed and started again.            *)
(* (LinuxFile.h:38-56, Process.cpp:235-236, 378-379, File.h:36-53)            *)
THEOREM FilesAreKept == Spec => NoFileIsLost
  <1>1. Init => Creating
    BY OffIsAProcess DEF Init, Creating
  <1>2. Spec => [](IInv /\ Creating) /\ [][Next]_vars
    BY <1>1, InitHolds, StepKeeps, CreatingKept, PTL DEF Spec
  <1>3. IInv /\ Creating /\ ServedAsAsked /\ [Next]_vars =>
          [\A f \in Names : fs[f].exists /\ fs'[f] # fs[f] => Kept(f)]_vars
    BY StepKeepsFiles
  <1>4. NoFileIsLost <=> [][\A f \in Names : fs[f].exists /\ fs'[f] # fs[f] => Kept(f)]_vars
    BY DEF NoFileIsLost, Kept
  <1> QED BY <1>2, <1>3, <1>4, AskedIsAlwaysServed, PTL
=============================================================================
