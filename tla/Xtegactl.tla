------------------------------ MODULE Xtegactl ------------------------------
(***************************************************************************)
(* The machine control port: the DOS tool XTEGACTL, the registers 8981h to  *)
(* 8988h, what they make of the menu's settings, and the status read back   *)
(* through 8989h to 898Fh.  The menu changes at any time, also between two  *)
(* port accesses of the tool.  Words are compared without regard to case by *)
(* the tool; an argument here is the word, or the part before the "=", with *)
(* what follows it as a word (v) or as a number (n).                        *)
(***************************************************************************)
EXTENDS Integers, SequencesExt

CONSTANTS
    CommandLines,   \* the command lines given, sequences of arguments
    Menus,          \* settings of the menu, records in the menu's own values
    Machines,       \* the core: which of cms, sb and tandy it was built with, and
                    \* its age: "new", "old" (no status), "none" (no port block)
    MaxCuts         \* bound on cuts

VARIABLES
    build,          \* the core, chosen once
    menu,
    reg,            \* the eight registers, bytes
    left,           \* port writes the tool has still to make
    cmd,            \* the command line the tool is working on
    last,           \* the one whose writes the registers hold, or <<>>
    seen,           \* status bytes read, or <<>>
    shown,          \* what the tool prints, or NotShown
    torn,           \* the menu changed while the status was read
    cuts            \* runs cut short since the registers were last whole

vars == <<build, menu, reg, left, cmd, last, seen, shown, torn, cuts>>

(* An argument, a menu and a core.                                          *)
Argument == [w : STRING, v : STRING, n : {-1}] \cup [w : STRING, v : {""}, n : Nat]
Menu == [speed : 0 .. 3, fake286 : 0 .. 1, opl2 : 0 .. 2, audio : 0 .. 2, ems : 0 .. 1,
         umb : 0 .. 1, joy1 : 0 .. 2, joy2 : 0 .. 2, swap : 0 .. 1, joysync : 0 .. 1,
         mt32 : 0 .. 1, mpu : 0 .. 1, tandy : 0 .. 1, sbirq : 0 .. 1, crtH : 0 .. 15,
         crtV : 0 .. 7, vsync : 0 .. 7, hsync : 0 .. 7]
Machine == [cms : BOOLEAN, sb : BOOLEAN, tandy : BOOLEAN, core : {"new", "old", "none"}]

ASSUME CommandLinesAssumption == CommandLines \subseteq Seq(Argument)
ASSUME MenusAssumption == Menus \subseteq Menu
ASSUME MachinesAssumption == Machines \subseteq Machine
ASSUME MaxCutsAssumption == MaxCuts \in Nat

Ports == <<"cpu", "exp", "vid", "inp", "midi", "exp2", "crt", "sync">>

(* Words of one group exclude each other; the first in this order is taken. *)
Flags == [
    speed |-> <<<<"4.77", 1>>, <<"477", 1>>, <<"7.16", 2>>, <<"716", 2>>,
                <<"9.54", 3>>, <<"954", 3>>, <<"max", 4>>>>,
    fake286 |-> <<<<"nofake286", 1>>, <<"fake286", 2>>>>,
    opl2 |-> <<<<"adlib", 1>>, <<"sbfm", 2>>, <<"noadlib", 3>>>>,
    cms |-> <<<<"cms", 1>>, <<"nocms", 2>>>>,
    sb |-> <<<<"sb", 1>>, <<"nosb", 2>>>>,
    ems |-> <<<<"ems", 1>>, <<"noems", 2>>>>,
    umb |-> <<<<"umb", 1>>, <<"noumb", 2>>>>,
    swap |-> <<<<"noswap", 1>>, <<"swap", 2>>>>,
    joysync |-> <<<<"nojoysync", 1>>, <<"joysync", 2>>>>,
    mt32 |-> <<<<"mt32", 1>>, <<"gm", 2>>>>,
    mpu |-> <<<<"mpu", 1>>, <<"nompu", 2>>>>,
    tandy |-> <<<<"tandy", 2>>, <<"notandy", 1>>>>]

Stick == [analog |-> 1, digital |-> 2, off |-> 3]
Picks == [joy1 |-> Stick, joy2 |-> Stick,
          sbirq |-> [v \in {"5", "7", "auto"} |->
                        CASE v = "5" -> 1 [] v = "7" -> 2 [] v = "auto" -> 0]]
Limits == [hpos |-> 15, vpos |-> 7, hsync |-> 7, vsync |-> 7]

(* An argument is found at its first place only: a repeated one is unknown. *)
Opt(argv, w) == SelectInSeq(argv, LAMBDA a : a.w = w)
Typed(argv, w) == Opt(argv, w) # 0
Taken(argv, f) == SelectInSeq(Flags[f], LAMBDA e : Typed(argv, e[1]))

Matched(argv) ==
    {Opt(argv, Flags[f][Taken(argv, f)][1]) :
        f \in {g \in DOMAIN Flags : Taken(argv, g) # 0}}
    \cup {Opt(argv, w) : w \in DOMAIN Picks \cup DOMAIN Limits \cup {"crt=auto"}}

Refused(argv) ==
    \/ \E c \in DOMAIN Picks :
           Typed(argv, c) /\ argv[Opt(argv, c)].v \notin DOMAIN Picks[c]
    \/ \E c \in DOMAIN Limits :
           /\ Typed(argv, c)
           /\ argv[Opt(argv, c)].n \notin 0 .. Limits[c]
           /\ ~(c \in {"hsync", "vsync"} /\ argv[Opt(argv, c)].v = "auto")
    \/ ~(DOMAIN argv \subseteq Matched(argv))

Number(argv, c) ==
    IF Typed(argv, c) /\ argv[Opt(argv, c)].v # "auto" THEN argv[Opt(argv, c)].n ELSE 0

(* The CRT offset honoured only when both halves of it are given.           *)
ValueOfBoth(argv, f) ==
    IF Typed(argv, "reset") THEN 0
    ELSE CASE f \in DOMAIN Flags ->
             IF Taken(argv, f) = 0 THEN 0 ELSE Flags[f][Taken(argv, f)][2]
      [] f \in DOMAIN Picks ->
             IF Typed(argv, f) THEN Picks[f][argv[Opt(argv, f)].v] ELSE 0
      [] f \in {"hsync", "vsync"} -> Number(argv, f)
      [] OTHER -> IF Typed(argv, "hpos") /\ Typed(argv, "vpos")
                  THEN 128 + 16 * Number(argv, "vpos") + Number(argv, "hpos") ELSE 0

(* hpos and vpos come together: one given makes the other 0, and bit 7 says *)
(* that the register speaks.                                                *)
Value(argv, f) ==
    IF Typed(argv, "reset") THEN 0
    ELSE CASE f \in DOMAIN Flags ->
             IF Taken(argv, f) = 0 THEN 0 ELSE Flags[f][Taken(argv, f)][2]
      [] f \in DOMAIN Picks ->
             IF Typed(argv, f) THEN Picks[f][argv[Opt(argv, f)].v] ELSE 0
      [] f \in {"hsync", "vsync"} -> Number(argv, f)
      [] OTHER -> IF Typed(argv, "hpos") \/ Typed(argv, "vpos")
                  THEN 128 + 16 * Number(argv, "vpos") + Number(argv, "hpos") ELSE 0

(* A field of so many values, in units of its lowest bit.                   *)
Put(value, unit, range) == (value % range) * unit

Byte(argv, port) ==
    LET V(f) == Value(argv, f)
    IN  CASE port = "cpu" -> Put(V("speed"), 1, 8) + Put(V("fake286"), 8, 4)
          [] port = "exp" -> Put(V("opl2"), 1, 4) + Put(V("cms"), 4, 4)
                             + Put(V("ems"), 16, 4) + Put(V("umb"), 64, 4)
          [] port = "inp" -> Put(V("joy1"), 1, 4) + Put(V("joy2"), 4, 4)
                             + Put(V("swap"), 16, 4) + Put(V("joysync"), 64, 4)
          [] port = "midi" -> Put(V("mt32"), 1, 4) + Put(V("mpu"), 4, 4)
          [] port = "exp2" -> Put(V("tandy"), 1, 4) + Put(V("sb"), 4, 4)
                              + Put(V("sbirq"), 16, 4)
          [] port = "crt" -> Put(V("crt"), 1, 256)
          [] port = "sync" -> Put(V("vsync"), 1, 8) + Put(V("hsync"), 8, 8)
          [] OTHER -> 0

(* VGA 13h+ is written like the others.                                     *)
OutPortsAll(argv) == Ports

(* Every register is written from nothing, VGA 13h+ only by "reset".        *)
OutPorts(argv) ==
    IF Typed(argv, "reset") THEN Ports
    ELSE <<"cpu", "exp", "inp", "midi", "exp2", "crt", "sync">>
Writes(argv) == [i \in DOMAIN OutPorts(argv) |->
                    <<OutPorts(argv)[i], Byte(argv, OutPorts(argv)[i])>>]
-----------------------------------------------------------------------------
(* What the registers mean: port, unit of the lowest bit, number of values. *)
Wires == [
    speed |-> <<"cpu", 1, 8>>,   fake286 |-> <<"cpu", 8, 4>>,
    opl2 |-> <<"exp", 1, 4>>,    cms |-> <<"exp", 4, 4>>,
    ems |-> <<"exp", 16, 4>>,    umb |-> <<"exp", 64, 4>>,
    vga13 |-> <<"vid", 1, 4>>,
    joy1 |-> <<"inp", 1, 4>>,    joy2 |-> <<"inp", 4, 4>>,
    swap |-> <<"inp", 16, 4>>,   joysync |-> <<"inp", 64, 4>>,
    mt32 |-> <<"midi", 1, 4>>,   mpu |-> <<"midi", 4, 4>>,
    tandy |-> <<"exp2", 1, 4>>,  sb |-> <<"exp2", 4, 4>>,
    sbirq |-> <<"exp2", 16, 4>>, crt |-> <<"crt", 1, 256>>,
    vsync |-> <<"sync", 1, 8>>,  hsync |-> <<"sync", 8, 8>>]

Get(byte, unit, range) == (byte \div unit) % range
Field(r, f) == Get(r[Wires[f][1]], Wires[f][2], Wires[f][3])

OsdSb(m) == build.sb /\ m.audio = 1
OsdCms(m) == build.cms /\ (m.audio = 0 \/ (~build.sb /\ m.audio = 1))
Audio220(sb, cms) == IF sb THEN 1 ELSE IF cms THEN 0 ELSE 2

(* The settings as the menu lists them, 0 for the first choice.             *)
OsdValue(m) == [m EXCEPT !.audio = Audio220(OsdSb(m), OsdCms(m)),
                         !.tandy = IF build.tandy THEN m.tandy ELSE 0]

Chosen(f, menuValue, on) == IF f = 0 THEN menuValue ELSE IF f = on THEN 1 ELSE 0
FirstIsOn == {"ems", "umb", "mpu"}
TwoWay == FirstIsOn \cup {"fake286", "swap", "joysync", "mt32", "tandy"}

Effective(r, m) ==
    LET F(f) == Field(r, f)
        sb == build.sb /\ (IF F("sb") = 0 THEN OsdSb(m) ELSE F("sb") = 1)
        cms == IF F("cms") = 0 THEN OsdCms(m) ELSE F("cms") = 1
        own == F("crt") >= 128
        Resolved(f) ==
          CASE f = "speed" -> IF F(f) \in 1 .. 4 THEN F(f) - 1 ELSE m[f]
            [] f \in {"opl2", "joy1", "joy2"} -> IF F(f) = 0 THEN m[f] ELSE F(f) - 1
            [] f = "sbirq" -> IF F(f) \in 1 .. 2 THEN F(f) - 1 ELSE m[f]
            [] f = "audio" -> Audio220(sb, cms /\ ~sb)
            [] f = "tandy" -> IF build.tandy THEN Chosen(F(f), m[f], 2) ELSE 0
            [] f \in TwoWay \ {"tandy"} ->
                   Chosen(F(f), m[f], IF f \in FirstIsOn THEN 1 ELSE 2)
            [] f = "crtH" -> IF own THEN Get(F("crt"), 1, 16) ELSE m[f]
            [] f = "crtV" -> IF own THEN Get(F("crt"), 16, 8) ELSE m[f]
            [] OTHER -> IF F(f) = 0 THEN m[f] ELSE F(f)
    IN  [f \in DOMAIN m \cup {"vga13"} |->
            IF f = "vga13" THEN (IF F(f) = 2 THEN 1 ELSE 0) ELSE Resolved(f)]
-----------------------------------------------------------------------------
(* The status extension: five bytes of values and 18 match flags.           *)
MatchBit == [
    speed |-> 0, fake286 |-> 1, opl2 |-> 2, audio |-> 3, ems |-> 4, umb |-> 5,
    joy1 |-> 6, joy2 |-> 7, swap |-> 8, joysync |-> 9, mt32 |-> 10, mpu |-> 11,
    tandy |-> 12, sbirq |-> 13, crtH |-> 14, crtV |-> 15, vsync |-> 16, hsync |-> 17]

Matches == LET e == Effective(reg, menu)
               o == OsdValue(menu)
           IN  {MatchBit[f] : f \in {g \in DOMAIN menu : e[g] = o[g]}}

StatusEffective(i) ==
    LET e == Effective(reg, menu)
    IN  CASE i = 1 -> e.speed + 8 * e.fake286 + 16 * e.opl2 + 64 * e.audio
          [] i = 2 -> e.ems + 2 * e.umb + 4 * e.vga13 + 8 * e.joy1 + 32 * e.joy2
                      + 128 * e.swap
          [] i = 3 -> e.joysync + 2 * e.mt32 + 4 * e.mpu + 8 * e.tandy + 32 * e.sbirq
          [] i = 4 -> e.crtH + 16 * e.crtV
          [] OTHER -> e.vsync + 8 * e.hsync

(* A marker in the third byte, match flags 16 and 17 in the fifth.          *)
StatusByte(i) ==
    LET Flag(b) == IF b \in Matches THEN 1 ELSE 0
    IN  IF build.core # "new" THEN 0
        ELSE CASE i = 3 -> StatusEffective(i) + 128
               [] i = 5 -> StatusEffective(i) + 64 * Flag(16) + 128 * Flag(17)
               [] OTHER -> StatusEffective(i)
MatchByte(i) ==
    LET Flag(b) == IF 8 * i + b \in Matches THEN 1 ELSE 0
    IN  Flag(0) + 2 * Flag(1) + 4 * Flag(2) + 8 * Flag(3)
        + 16 * Flag(4) + 32 * Flag(5) + 64 * Flag(6) + 128 * Flag(7)
-----------------------------------------------------------------------------
(* What the tool makes of the bytes it has read.  Both halves of the CRT    *)
(* position are printed on one line, with the mark of flag 14.              *)
Shows == [
    speed |-> <<1, 1, 4>>, fake286 |-> <<1, 8, 2>>, opl2 |-> <<1, 16, 4>>,
    audio |-> <<1, 64, 4>>, ems |-> <<2, 1, 2>>, umb |-> <<2, 2, 2>>,
    vga13 |-> <<2, 4, 2>>, joy1 |-> <<2, 8, 4>>, joy2 |-> <<2, 32, 4>>,
    swap |-> <<2, 128, 2>>, joysync |-> <<3, 1, 2>>, mt32 |-> <<3, 2, 2>>,
    mpu |-> <<3, 4, 2>>, tandy |-> <<3, 8, 2>>, sbirq |-> <<3, 32, 2>>,
    crtH |-> <<4, 1, 16>>, crtV |-> <<4, 16, 8>>, vsync |-> <<5, 1, 8>>,
    hsync |-> <<5, 8, 8>>]
Suffix == [
    speed |-> 0, fake286 |-> 1, opl2 |-> 2, audio |-> 3, ems |-> 4, umb |-> 5,
    joy1 |-> 6, joy2 |-> 7, swap |-> 8, joysync |-> 9, mt32 |-> 10, mpu |-> 11,
    tandy |-> 12, sbirq |-> 13, crtH |-> 14, crtV |-> 14, hsync |-> 17, vsync |-> 16]

(* Bit[n] is 1 << n, for a char.                                            *)
Bit == [n \in 0 .. 8 |-> <<1, 2, 4, 8, 16, 32, 64, 128, 256>>[n + 1]]

(* The boundary between the two match bytes one too high.                   *)
StatusMatchesOff(lo, hi, field) ==
    CASE field <= 8 -> Get(lo, Bit[field], 2) = 1
      [] field \in 9 .. 15 -> Get(hi, Bit[field - 8], 2) = 1
      [] field = 16 -> Get(seen[5], 64, 2) = 1
      [] OTHER -> Get(seen[5], 128, 2) = 1

StatusMatches(lo, hi, field) ==
    CASE field < 8 -> Get(lo, Bit[field], 2) = 1
      [] field \in 8 .. 15 -> Get(hi, Bit[field - 8], 2) = 1
      [] field = 16 -> Get(seen[5], 64, 2) = 1
      [] OTHER -> Get(seen[5], 128, 2) = 1

Show ==
    LET lo == MatchByte(0)
        hi == MatchByte(1)
    IN  [new |-> TRUE,
         values |-> [f \in DOMAIN Shows |->
                        Get(seen[Shows[f][1]], Shows[f][2], Shows[f][3])],
         marked |-> {f \in DOMAIN Suffix : StatusMatches(lo, hi, Suffix[f])}]

(* Without the extension the overrides are printed, "OSD" for the fields    *)
(* that are not marked as overridden.                                       *)
ShowLegacy ==
    LET G(port, unit, range) == Get(reg[port], unit, range)
        sb == G("exp2", 4, 4)
        cms == G("exp", 4, 4)
        R(f) ==
          CASE f = "audio" -> CASE sb = 1 -> 1 [] sb # 1 /\ cms = 1 -> 0
                                [] cms = 2 /\ sb = 2 -> 2 [] OTHER -> -1
            [] f \in {"crtH", "crtV"} ->
                 IF G("crt", 128, 2) = 0 THEN -1
                 ELSE IF f = "crtH" THEN G("crt", 1, 16) ELSE G("crt", 16, 8)
            [] f = "vga13" -> IF G("vid", 1, 4) = 2 THEN 1 ELSE 0
            [] f \in {"hsync", "vsync"} -> IF Field(reg, f) = 0 THEN -1 ELSE Field(reg, f)
            [] f = "speed" -> IF Field(reg, f) > 4 THEN -1 ELSE Field(reg, f) - 1
            [] f \in FirstIsOn -> IF Field(reg, f) = 0 THEN -1 ELSE 2 - Field(reg, f)
            [] OTHER -> Field(reg, f) - 1
        values == [f \in DOMAIN Shows |-> R(f)]
    IN  [new |-> FALSE, values |-> values,
         marked |-> {f \in DOMAIN Suffix : values[f] = -1}]

NotShown == [new |-> FALSE, values |-> <<>>, marked |-> {}]
-----------------------------------------------------------------------------
Init ==
    /\ build \in Machines /\ menu \in Menus
    /\ reg = [p \in ToSet(Ports) |-> 0]
    /\ left = <<>> /\ cmd = <<>> /\ last = <<>>
    /\ seen = <<>> /\ shown = NotShown /\ torn = FALSE /\ cuts = 0

Idle == left = <<>> /\ seen = <<>>

(* A run that writes nothing: no port block, a wrong argument; or none, for  *)
(* the usage.                                                              *)
Fail ==
    /\ shown' = NotShown /\ torn' = FALSE
    /\ UNCHANGED <<build, menu, reg, left, cmd, last, seen, cuts>>

Usage == Fail

ReadStatus ==
    /\ seen' = [i \in 1 .. 5 |-> StatusByte(i)]
    /\ torn' = FALSE /\ shown' = NotShown
    /\ UNCHANGED <<build, menu, reg, left, cmd, last, cuts>>

BeginWrites(argv) ==
    /\ left' = Writes(argv) /\ cmd' = argv /\ last' = <<>>
    /\ shown' = NotShown /\ torn' = FALSE
    /\ UNCHANGED <<build, menu, reg, seen, cuts>>

Main(argv) ==
    /\ Idle
    /\ IF argv = <<>> THEN Usage
       ELSE IF build.core = "none" THEN Fail
       ELSE IF Typed(argv, "status") THEN ReadStatus
       ELSE IF ~Typed(argv, "reset") /\ Refused(argv) THEN Fail
       ELSE BeginWrites(argv)

Outp ==
    /\ left # <<>>
    /\ reg' = [reg EXCEPT ![left[1][1]] = left[1][2]]
    /\ left' = Tail(left)
    /\ IF Len(left) = 1 THEN last' = cmd /\ cmd' = <<>> /\ cuts' = 0
                        ELSE UNCHANGED <<last, cmd, cuts>>
    /\ UNCHANGED <<build, menu, seen, shown, torn>>

(* The match flags are read after the values, and the report is printed.    *)
ReadMarks ==
    /\ seen # <<>>
    /\ shown' = IF Get(seen[3], 64, 4) = 2 THEN Show ELSE ShowLegacy
    /\ seen' = <<>>
    /\ UNCHANGED <<build, menu, reg, left, cmd, last, torn, cuts>>

ChangeMenu ==
    /\ menu' \in Menus \ {menu}
    /\ torn' = (seen # <<>>)
    /\ shown' = NotShown
    /\ UNCHANGED <<build, reg, left, cmd, last, seen, cuts>>

(* VGATSR switches VGA 13h+ on, leaving the bits above it as they are.      *)
EnableVga13 ==
    /\ Idle /\ build.core # "none" /\ Get(reg["vid"], 1, 4) # 2
    /\ reg' = [reg EXCEPT !["vid"] = 4 * (@ \div 4) + 2]
    /\ shown' = NotShown /\ torn' = FALSE
    /\ UNCHANGED <<build, menu, left, cmd, last, seen, cuts>>

(* Either ends the run in progress; a warm boot clears only VGA 13h+.       *)
WarmBoot ==
    /\ left # <<>> => cuts < MaxCuts
    /\ reg' = [reg EXCEPT !["vid"] = 0]
    /\ left' = <<>> /\ cmd' = <<>> /\ seen' = <<>>
    /\ shown' = NotShown /\ torn' = FALSE
    /\ cuts' = IF left # <<>> THEN cuts + 1 ELSE cuts
    /\ UNCHANGED <<build, menu, last>>

Reset ==
    /\ reg' = [p \in ToSet(Ports) |-> 0]
    /\ left' = <<>> /\ cmd' = <<>> /\ last' = <<>>
    /\ seen' = <<>> /\ shown' = NotShown /\ torn' = FALSE /\ cuts' = 0
    /\ UNCHANGED <<build, menu>>

Next ==
    \/ \E argv \in CommandLines : Main(argv)
    \/ Outp \/ ReadMarks \/ ChangeMenu \/ EnableVga13 \/ WarmBoot \/ Reset

Spec == Init /\ [][Next]_vars
=============================================================================
