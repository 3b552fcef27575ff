--------------------------- MODULE XtegactlProofs ---------------------------
EXTENDS XtegactlProps, WellFoundedInduction, SequenceTheorems, TLAPS

(* A set of naturals has a least member, and Min is one.                     *)
LEMMA MinIs ==
    ASSUME NEW S \in SUBSET Nat, S # {}
    PROVE  Min(S) \in S /\ \A x \in S : Min(S) <= x
<1> DEFINE R == OpToRel(<, Nat)
<1>1. IsWellFoundedOn(R, Nat)
  BY NatLessThanWellFounded
<1>2. \A x, y \in Nat : x < y => <<x, y>> \in R
  BY DEF OpToRel
<1> HIDE DEF R
<1>3. \E x \in S : \A y \in S : ~(<<y, x>> \in R)
  BY <1>1, WFMin
<1>4. PICK x \in S : \A y \in S : ~(<<y, x>> \in R)
  BY <1>3
<1>5. ASSUME NEW y \in S
      PROVE  x <= y
  <2>1. x \in Nat /\ y \in Nat /\ ~(y < x)
    BY <1>2, <1>4, Zenon
  <2> QED
    BY <2>1, SMT
<1> QED
  BY <1>5 DEF Min

(* Where opt() finds a word.                                                 *)
LEMMA OptIs ==
    ASSUME NEW argv \in Seq(Argument), NEW w
    PROVE  /\ Opt(argv, w) \in Nat
           /\ Typed(argv, w) <=> \E i \in DOMAIN argv : argv[i].w = w
           /\ Typed(argv, w) => /\ Opt(argv, w) \in DOMAIN argv
                                /\ argv[Opt(argv, w)].w = w
<1> DEFINE I == {i \in 1 .. Len(argv) : argv[i].w = w}
<1>1. Opt(argv, w) = IF I # {} THEN Min(I) ELSE 0
  BY DEF Opt, SelectInSeq
<1>2. I \in SUBSET Nat /\ 0 \notin I /\ DOMAIN argv = 1 .. Len(argv)
  OBVIOUS
<1>3. I # {} => Min(I) \in I
  BY <1>2, MinIs
<1> QED
  BY <1>1, <1>2, <1>3 DEF Typed

(* Which word of a group is taken.                                           *)
LEMMA TakenIs ==
    ASSUME NEW argv \in Seq(Argument), NEW f \in DOMAIN Flags
    PROVE  /\ Taken(argv, f) \in 0 .. Len(Flags[f])
           /\ Taken(argv, f) = 0 =>
                  \A i \in DOMAIN Flags[f] : ~Typed(argv, Flags[f][i][1])
           /\ Taken(argv, f) # 0 => Typed(argv, Flags[f][Taken(argv, f)][1])
<1> DEFINE I == {i \in 1 .. Len(Flags[f]) : Typed(argv, Flags[f][i][1])}
<1>1. Taken(argv, f) = IF I # {} THEN Min(I) ELSE 0
  BY DEF Taken, SelectInSeq
<1>2. Len(Flags[f]) \in Nat /\ DOMAIN Flags[f] = 1 .. Len(Flags[f])
  BY DEF Flags
<1>3. I \in SUBSET Nat /\ 0 \notin I
  BY <1>2
<1>4. I # {} => Min(I) \in I
  BY <1>3, MinIs
<1> QED
  BY <1>1, <1>2, <1>3, <1>4

(* The group a word belongs to, and its place in it.                         *)
GroupOf(w) ==
    CASE w \in {"4.77", "477", "7.16", "716", "9.54", "954", "max"} -> "speed"
      [] w \in {"nofake286", "fake286"} -> "fake286"
      [] w \in {"adlib", "sbfm", "noadlib"} -> "opl2"
      [] w \in {"cms", "nocms"} -> "cms"
      [] w \in {"sb", "nosb"} -> "sb"
      [] w \in {"ems", "noems"} -> "ems"
      [] w \in {"umb", "noumb"} -> "umb"
      [] w \in {"noswap", "swap"} -> "swap"
      [] w \in {"nojoysync", "joysync"} -> "joysync"
      [] w \in {"mt32", "gm"} -> "mt32"
      [] w \in {"mpu", "nompu"} -> "mpu"
      [] w \in {"tandy", "notandy"} -> "tandy"
      [] OTHER -> "none"
PlaceOf(w) ==
    CASE w \in {"4.77", "nofake286", "adlib", "cms", "sb", "ems", "umb", "noswap", "nojoysync", "mt32", "mpu", "tandy"} -> 1
      [] w \in {"477", "fake286", "sbfm", "nocms", "nosb", "noems", "noumb", "swap", "joysync", "gm", "nompu", "notandy"} -> 2
      [] w \in {"7.16", "noadlib"} -> 3 [] w = "716" -> 4 [] w = "9.54" -> 5
      [] w = "954" -> 6 [] w = "max" -> 7 [] OTHER -> 0

(* What the fields may hold.                                                  *)
Legal == [
    speed |-> 0 .. 4, fake286 |-> 0 .. 2, opl2 |-> 0 .. 3, cms |-> 0 .. 2, sb |-> 0 .. 2,
    ems |-> 0 .. 2, umb |-> 0 .. 2, swap |-> 0 .. 2, joysync |-> 0 .. 2, mt32 |-> 0 .. 2,
    mpu |-> 0 .. 2, tandy |-> 0 .. 2, joy1 |-> 0 .. 3, joy2 |-> 0 .. 3, sbirq |-> 0 .. 2,
    crt |-> {0} \cup 128 .. 255, vsync |-> 0 .. 7, hsync |-> 0 .. 7]

(* No word is in two places, and each means something legal.                  *)
LEMMA WordsDistinct ==
    ASSUME NEW f \in DOMAIN Flags, NEW i \in DOMAIN Flags[f]
    PROVE  /\ GroupOf(Flags[f][i][1]) = f
           /\ PlaceOf(Flags[f][i][1]) = i
           /\ Flags[f][i][2] \in Legal[f]
<1>0. DOMAIN Flags = {"speed", "fake286", "opl2", "cms", "sb", "ems", "umb", "swap", "joysync", "mt32", "mpu", "tandy"}
  BY DEF Flags
<1>1. CASE f = "speed"
  <2>1. i \in 1 .. 7
    BY <1>1 DEF Flags
  <2>2. Flags["speed"][1][1] = "4.77" /\ Flags["speed"][2][1] = "477" /\ Flags["speed"][3][1] = "7.16" /\ Flags["speed"][4][1] = "716" /\ Flags["speed"][5][1] = "9.54" /\ Flags["speed"][6][1] = "954" /\ Flags["speed"][7][1] = "max"
    BY DEF Flags
  <2>3. GroupOf(Flags[f][i][1]) = f /\ PlaceOf(Flags[f][i][1]) = i
    BY <1>1, <2>1, <2>2 DEF GroupOf, PlaceOf
  <2>4. Flags[f][i][2] \in Legal[f]
    BY <1>1, <2>1 DEF Flags, Legal
  <2> QED
    BY <2>3, <2>4
<1>2. CASE f = "fake286"
  <2>1. i \in 1 .. 2
    BY <1>2 DEF Flags
  <2>2. Flags["fake286"][1][1] = "nofake286" /\ Flags["fake286"][2][1] = "fake286"
    BY DEF Flags
  <2>3. GroupOf(Flags[f][i][1]) = f /\ PlaceOf(Flags[f][i][1]) = i
    BY <1>2, <2>1, <2>2 DEF GroupOf, PlaceOf
  <2>4. Flags[f][i][2] \in Legal[f]
    BY <1>2, <2>1 DEF Flags, Legal
  <2> QED
    BY <2>3, <2>4
<1>3. CASE f = "opl2"
  <2>1. i \in 1 .. 3
    BY <1>3 DEF Flags
  <2>2. Flags["opl2"][1][1] = "adlib" /\ Flags["opl2"][2][1] = "sbfm" /\ Flags["opl2"][3][1] = "noadlib"
    BY DEF Flags
  <2>3. GroupOf(Flags[f][i][1]) = f /\ PlaceOf(Flags[f][i][1]) = i
    BY <1>3, <2>1, <2>2 DEF GroupOf, PlaceOf
  <2>4. Flags[f][i][2] \in Legal[f]
    BY <1>3, <2>1 DEF Flags, Legal
  <2> QED
    BY <2>3, <2>4
<1>4. CASE f = "cms"
  <2>1. i \in 1 .. 2
    BY <1>4 DEF Flags
  <2>2. Flags["cms"][1][1] = "cms" /\ Flags["cms"][2][1] = "nocms"
    BY DEF Flags
  <2>3. GroupOf(Flags[f][i][1]) = f /\ PlaceOf(Flags[f][i][1]) = i
    BY <1>4, <2>1, <2>2 DEF GroupOf, PlaceOf
  <2>4. Flags[f][i][2] \in Legal[f]
    BY <1>4, <2>1 DEF Flags, Legal
  <2> QED
    BY <2>3, <2>4
<1>5. CASE f = "sb"
  <2>1. i \in 1 .. 2
    BY <1>5 DEF Flags
  <2>2. Flags["sb"][1][1] = "sb" /\ Flags["sb"][2][1] = "nosb"
    BY DEF Flags
  <2>3. GroupOf(Flags[f][i][1]) = f /\ PlaceOf(Flags[f][i][1]) = i
    BY <1>5, <2>1, <2>2 DEF GroupOf, PlaceOf
  <2>4. Flags[f][i][2] \in Legal[f]
    BY <1>5, <2>1 DEF Flags, Legal
  <2> QED
    BY <2>3, <2>4
<1>6. CASE f = "ems"
  <2>1. i \in 1 .. 2
    BY <1>6 DEF Flags
  <2>2. Flags["ems"][1][1] = "ems" /\ Flags["ems"][2][1] = "noems"
    BY DEF Flags
  <2>3. GroupOf(Flags[f][i][1]) = f /\ PlaceOf(Flags[f][i][1]) = i
    BY <1>6, <2>1, <2>2 DEF GroupOf, PlaceOf
  <2>4. Flags[f][i][2] \in Legal[f]
    BY <1>6, <2>1 DEF Flags, Legal
  <2> QED
    BY <2>3, <2>4
<1>7. CASE f = "umb"
  <2>1. i \in 1 .. 2
    BY <1>7 DEF Flags
  <2>2. Flags["umb"][1][1] = "umb" /\ Flags["umb"][2][1] = "noumb"
    BY DEF Flags
  <2>3. GroupOf(Flags[f][i][1]) = f /\ PlaceOf(Flags[f][i][1]) = i
    BY <1>7, <2>1, <2>2 DEF GroupOf, PlaceOf
  <2>4. Flags[f][i][2] \in Legal[f]
    BY <1>7, <2>1 DEF Flags, Legal
  <2> QED
    BY <2>3, <2>4
<1>8. CASE f = "swap"
  <2>1. i \in 1 .. 2
    BY <1>8 DEF Flags
  <2>2. Flags["swap"][1][1] = "noswap" /\ Flags["swap"][2][1] = "swap"
    BY DEF Flags
  <2>3. GroupOf(Flags[f][i][1]) = f /\ PlaceOf(Flags[f][i][1]) = i
    BY <1>8, <2>1, <2>2 DEF GroupOf, PlaceOf
  <2>4. Flags[f][i][2] \in Legal[f]
    BY <1>8, <2>1 DEF Flags, Legal
  <2> QED
    BY <2>3, <2>4
<1>9. CASE f = "joysync"
  <2>1. i \in 1 .. 2
    BY <1>9 DEF Flags
  <2>2. Flags["joysync"][1][1] = "nojoysync" /\ Flags["joysync"][2][1] = "joysync"
    BY DEF Flags
  <2>3. GroupOf(Flags[f][i][1]) = f /\ PlaceOf(Flags[f][i][1]) = i
    BY <1>9, <2>1, <2>2 DEF GroupOf, PlaceOf
  <2>4. Flags[f][i][2] \in Legal[f]
    BY <1>9, <2>1 DEF Flags, Legal
  <2> QED
    BY <2>3, <2>4
<1>10. CASE f = "mt32"
  <2>1. i \in 1 .. 2
    BY <1>10 DEF Flags
  <2>2. Flags["mt32"][1][1] = "mt32" /\ Flags["mt32"][2][1] = "gm"
    BY DEF Flags
  <2>3. GroupOf(Flags[f][i][1]) = f /\ PlaceOf(Flags[f][i][1]) = i
    BY <1>10, <2>1, <2>2 DEF GroupOf, PlaceOf
  <2>4. Flags[f][i][2] \in Legal[f]
    BY <1>10, <2>1 DEF Flags, Legal
  <2> QED
    BY <2>3, <2>4
<1>11. CASE f = "mpu"
  <2>1. i \in 1 .. 2
    BY <1>11 DEF Flags
  <2>2. Flags["mpu"][1][1] = "mpu" /\ Flags["mpu"][2][1] = "nompu"
    BY DEF Flags
  <2>3. GroupOf(Flags[f][i][1]) = f /\ PlaceOf(Flags[f][i][1]) = i
    BY <1>11, <2>1, <2>2 DEF GroupOf, PlaceOf
  <2>4. Flags[f][i][2] \in Legal[f]
    BY <1>11, <2>1 DEF Flags, Legal
  <2> QED
    BY <2>3, <2>4
<1>12. CASE f = "tandy"
  <2>1. i \in 1 .. 2
    BY <1>12 DEF Flags
  <2>2. Flags["tandy"][1][1] = "tandy" /\ Flags["tandy"][2][1] = "notandy"
    BY DEF Flags
  <2>3. GroupOf(Flags[f][i][1]) = f /\ PlaceOf(Flags[f][i][1]) = i
    BY <1>12, <2>1, <2>2 DEF GroupOf, PlaceOf
  <2>4. Flags[f][i][2] \in Legal[f]
    BY <1>12, <2>1 DEF Flags, Legal
  <2> QED
    BY <2>3, <2>4
<1> QED
  BY <1>0, <1>1, <1>2, <1>3, <1>4, <1>5, <1>6, <1>7, <1>8, <1>9, <1>10, <1>11, <1>12

(* Without a complaint, each argument is the first of its word, and a word of  *)
(* a group is the one taken.                                                 *)
LEMMA EachIsMatched ==
    ASSUME NEW argv \in Seq(Argument), ~Refused(argv), NEW i \in DOMAIN argv
    PROVE  /\ Opt(argv, argv[i].w) = i
           /\ \/ \E f \in DOMAIN Flags : /\ Taken(argv, f) # 0
                                         /\ argv[i].w = Flags[f][Taken(argv, f)][1]
              \/ argv[i].w \in DOMAIN Picks \cup DOMAIN Limits \cup {"crt=auto"}
<1>1. i \in Matched(argv) /\ i # 0
  BY DEF Refused
<1>2. CASE \E f \in DOMAIN Flags :
               Taken(argv, f) # 0 /\ i = Opt(argv, Flags[f][Taken(argv, f)][1])
  <2>1. PICK f \in DOMAIN Flags :
               Taken(argv, f) # 0 /\ i = Opt(argv, Flags[f][Taken(argv, f)][1])
    BY <1>2
  <2> DEFINE w == Flags[f][Taken(argv, f)][1]
  <2>2. Typed(argv, w)
    BY <1>1, <2>1 DEF Typed
  <2>3. argv[i].w = w
    BY <2>1, <2>2, OptIs
  <2> QED
    BY <2>1, <2>3
<1>3. CASE \E w \in DOMAIN Picks \cup DOMAIN Limits \cup {"crt=auto"} : i = Opt(argv, w)
  <2>1. PICK w \in DOMAIN Picks \cup DOMAIN Limits \cup {"crt=auto"} : i = Opt(argv, w)
    BY <1>3
  <2>2. Typed(argv, w)
    BY <1>1, <2>1 DEF Typed
  <2>3. argv[i].w = w
    BY <2>1, <2>2, OptIs
  <2> QED
    BY <2>1, <2>3
<1> QED
  BY <1>1, <1>2, <1>3 DEF Matched

(* So every word of a group that is typed has its way.                       *)
LEMMA WordHasItsWay ==
    ASSUME NEW argv \in Seq(Argument), ~Refused(argv), ~Typed(argv, "reset"),
           NEW f \in DOMAIN Flags, NEW k \in DOMAIN Flags[f], Typed(argv, Flags[f][k][1])
    PROVE  Value(argv, f) = Flags[f][k][2]
<1> DEFINE w == Flags[f][k][1]
           i == Opt(argv, w)
<1>1. i \in DOMAIN argv /\ argv[i].w = w
  BY OptIs
<1>2. GroupOf(w) = f /\ PlaceOf(w) = k
  BY WordsDistinct
<1>3. w \notin DOMAIN Picks \cup DOMAIN Limits \cup {"crt=auto"}
  <2>1. f \in DOMAIN Flags /\ "none" \notin DOMAIN Flags
    BY DEF Flags
  <2>2. \A x \in DOMAIN Picks \cup DOMAIN Limits \cup {"crt=auto"} : GroupOf(x) = "none"
    BY DEF Picks, Limits, GroupOf
  <2> QED
    BY <1>2, <2>1, <2>2, Zenon
<1> HIDE DEF w, i
<1>4. PICK g \in DOMAIN Flags : Taken(argv, g) # 0 /\ w = Flags[g][Taken(argv, g)][1]
  BY <1>1, <1>3, EachIsMatched
<1>5. Taken(argv, g) \in DOMAIN Flags[g]
  <2>1. DOMAIN Flags[g] = 1 .. Len(Flags[g]) /\ Len(Flags[g]) \in Nat
    BY DEF Flags
  <2>2. Taken(argv, g) \in 0 .. Len(Flags[g])
    BY TakenIs
  <2> QED
    BY <1>4, <2>1, <2>2
<1>6. g = f /\ Taken(argv, g) = k
  BY <1>2, <1>4, <1>5, WordsDistinct
<1>7. f \notin DOMAIN Picks /\ f \notin {"hsync", "vsync"}
  BY DEF Flags, Picks
<1> QED
  BY <1>4, <1>6, <1>7 DEF Value

(* A group none of whose words is typed is left to the menu.                  *)
LEMMA NoWordNoValue ==
    ASSUME NEW argv \in Seq(Argument), NEW f \in DOMAIN Flags,
           \A k \in DOMAIN Flags[f] : ~Typed(argv, Flags[f][k][1])
    PROVE  Value(argv, f) = 0
<1>1. Taken(argv, f) = 0
  <2>1. DOMAIN Flags[f] = 1 .. Len(Flags[f]) /\ Len(Flags[f]) \in Nat
    BY DEF Flags
  <2>2. Taken(argv, f) \in 0 .. Len(Flags[f])
    BY TakenIs
  <2>3. Taken(argv, f) # 0 => Typed(argv, Flags[f][Taken(argv, f)][1])
    BY TakenIs
  <2> QED
    BY <2>1, <2>2, <2>3
<1>2. f \notin DOMAIN Picks /\ f \notin {"hsync", "vsync"}
  BY DEF Flags, Picks
<1> QED
  BY <1>1, <1>2 DEF Value

LEMMA PicksAre ==
    /\ DOMAIN Picks = {"joy1", "joy2", "sbirq"}
    /\ \A c \in {"joy1", "joy2"} :
           /\ DOMAIN Picks[c] = {"analog", "digital", "off"}
           /\ Picks[c]["analog"] = 1 /\ Picks[c]["digital"] = 2 /\ Picks[c]["off"] = 3
    /\ DOMAIN Picks["sbirq"] = {"5", "7", "auto"}
    /\ Picks["sbirq"]["5"] = 1 /\ Picks["sbirq"]["7"] = 2 /\ Picks["sbirq"]["auto"] = 0
<1>1. DOMAIN Picks = {"joy1", "joy2", "sbirq"} /\ Picks["joy1"] = Stick /\ Picks["joy2"] = Stick
  BY DEF Picks
<1>2. /\ DOMAIN Stick = {"analog", "digital", "off"}
      /\ Stick["analog"] = 1 /\ Stick["digital"] = 2 /\ Stick["off"] = 3
  BY DEF Stick
<1>3. /\ DOMAIN Picks["sbirq"] = {"5", "7", "auto"}
      /\ Picks["sbirq"]["5"] = 1 /\ Picks["sbirq"]["7"] = 2 /\ Picks["sbirq"]["auto"] = 0
  BY DEF Picks
<1> QED
  BY <1>1, <1>2, <1>3

(* What is given after the "=" is what the register gets.                     *)
LEMMA ChoiceHasItsWay ==
    ASSUME NEW argv \in Seq(Argument), ~Refused(argv), ~Typed(argv, "reset"),
           NEW c \in DOMAIN Picks
    PROVE  /\ Typed(argv, c) => /\ argv[Opt(argv, c)].v \in DOMAIN Picks[c]
                                /\ Value(argv, c) = Picks[c][argv[Opt(argv, c)].v]
           /\ ~Typed(argv, c) => Value(argv, c) = 0
<1>1. c \notin DOMAIN Flags /\ c \notin {"hsync", "vsync"}
  BY DEF Flags, Picks
<1>2. Typed(argv, c) => argv[Opt(argv, c)].v \in DOMAIN Picks[c]
  BY DEF Refused
<1> QED
  BY <1>1, <1>2 DEF Value

LEMMA NumberHasItsWay ==
    ASSUME NEW argv \in Seq(Argument), ~Refused(argv), NEW c \in DOMAIN Limits
    PROVE  /\ Typed(argv, c) => LET a == argv[Opt(argv, c)] IN
                  \/ /\ a.n \in 0 .. Limits[c] /\ a.v # "auto"
                     /\ Number(argv, c) = a.n
                  \/ /\ c \in {"hsync", "vsync"} /\ a.v = "auto"
                     /\ Number(argv, c) = 0
           /\ ~Typed(argv, c) => Number(argv, c) = 0
           /\ Number(argv, c) \in 0 .. Limits[c]
<1>1. Limits[c] \in Nat
  BY DEF Limits
<1>2. CASE ~Typed(argv, c)
  BY <1>1, <1>2 DEF Number
<1>3. CASE Typed(argv, c)
  <2> DEFINE a == argv[Opt(argv, c)]
  <2>1. a \in Argument
    BY <1>3, OptIs
  <2>2. a.v = "auto" => a.n = -1
    BY <2>1 DEF Argument
  <2>3. a.n \in 0 .. Limits[c] \/ (c \in {"hsync", "vsync"} /\ a.v = "auto")
    BY <1>3 DEF Refused
  <2>4. Number(argv, c) = IF a.v # "auto" THEN a.n ELSE 0
    BY <1>3 DEF Number
  <2> HIDE DEF a
  <2>5. \/ a.n \in 0 .. Limits[c] /\ a.v # "auto" /\ Number(argv, c) = a.n
        \/ c \in {"hsync", "vsync"} /\ a.v = "auto" /\ Number(argv, c) = 0
    <3>1. CASE a.v = "auto"
      <4>1. a.n \notin 0 .. Limits[c]
        BY <1>1, <2>2, <3>1
      <4> QED
        BY <2>3, <2>4, <3>1, <4>1
    <3> QED
      BY <2>3, <2>4, <3>1
  <2>6. Number(argv, c) \in 0 .. Limits[c]
    BY <1>1, <2>5
  <2> QED
    BY <1>3, <2>5, <2>6 DEF a
<1> QED
  BY <1>2, <1>3

LEMMA NumericValues ==
    ASSUME NEW argv \in Seq(Argument), ~Typed(argv, "reset")
    PROVE  /\ \A f \in {"hsync", "vsync"} : Value(argv, f) = Number(argv, f)
           /\ Value(argv, "crt") =
                  IF Typed(argv, "hpos") \/ Typed(argv, "vpos")
                  THEN 128 + 16 * Number(argv, "vpos") + Number(argv, "hpos") ELSE 0
<1>1. DOMAIN Flags \cap {"crt", "hsync", "vsync"} = {}
  BY DEF Flags
<1>2. DOMAIN Picks \cap {"crt", "hsync", "vsync"} = {}
  BY DEF Picks
<1>3. "crt" \notin {"hsync", "vsync"}
  OBVIOUS
<1> QED
  BY <1>1, <1>2, <1>3 DEF Value

Sound(argv) == argv \in Seq(Argument) /\ (Typed(argv, "reset") \/ ~Refused(argv))

LEMMA ValuesLegal ==
    ASSUME NEW argv, Sound(argv), NEW f \in DOMAIN Legal
    PROVE  Value(argv, f) \in Legal[f]
<1>0. argv \in Seq(Argument)
  BY DEF Sound
<1>1. CASE Typed(argv, "reset")
  <2>1. 0 \in Legal[f]
    BY DEF Legal
  <2> QED
    BY <1>1, <2>1 DEF Value
<1>2. CASE ~Typed(argv, "reset")
  <2>0. ~Refused(argv)
    BY <1>2 DEF Sound
  <2>1. CASE f \in DOMAIN Flags
    <3>1. DOMAIN Flags[f] = 1 .. Len(Flags[f]) /\ Len(Flags[f]) \in Nat
      BY <2>1 DEF Flags
    <3>2. 0 \in Legal[f]
      BY DEF Legal
    <3>6. \A k \in DOMAIN Flags[f] : Flags[f][k][2] \in Legal[f]
      BY <2>1, WordsDistinct
    <3>3. f \notin DOMAIN Picks /\ f \notin {"hsync", "vsync"}
      BY <2>1 DEF Flags, Picks
    <3>4. Taken(argv, f) \in 0 .. Len(Flags[f])
      BY <1>0, <2>1, TakenIs
    <3>5. Value(argv, f) = IF Taken(argv, f) = 0 THEN 0 ELSE Flags[f][Taken(argv, f)][2]
      BY <1>2, <2>1, <3>3 DEF Value
    <3> QED
      BY <3>1, <3>2, <3>4, <3>5, <3>6
  <2>2. CASE f \in DOMAIN Picks
    <3>1. 0 \in Legal[f] /\ \A v \in DOMAIN Picks[f] : Picks[f][v] \in Legal[f]
      BY <2>2, PicksAre DEF Picks, Legal
    <3> QED
      BY <1>0, <1>2, <2>0, <2>2, <3>1, ChoiceHasItsWay
  <2>3. CASE f \in {"hsync", "vsync"}
    <3>1. f \in DOMAIN Limits /\ Limits[f] = 7 /\ Legal[f] = 0 .. 7
      BY <2>3 DEF Limits, Legal
    <3>2. Value(argv, f) = Number(argv, f)
      BY <1>0, <1>2, <2>3, NumericValues
    <3> QED
      BY <1>0, <2>0, <3>1, <3>2, NumberHasItsWay
  <2>4. CASE f = "crt"
    <3>1. {"hpos", "vpos"} \subseteq DOMAIN Limits /\ Limits["hpos"] = 15 /\ Limits["vpos"] = 7
      BY DEF Limits
    <3>2. Number(argv, "hpos") \in 0 .. 15 /\ Number(argv, "vpos") \in 0 .. 7
      BY <1>0, <2>0, <3>1, NumberHasItsWay
    <3>3. Legal[f] = {0} \cup 128 .. 255
      BY <2>4 DEF Legal
    <3>4. 128 + 16 * Number(argv, "vpos") + Number(argv, "hpos") \in 128 .. 255
      BY <3>2
    <3> QED
      BY <1>0, <1>2, <2>4, <3>3, <3>4, NumericValues
  <2> QED
    BY <2>1, <2>2, <2>3, <2>4 DEF Legal, Flags, Picks
<1> QED
  BY <1>1, <1>2

(* What went into a byte comes out of it.                                     *)
LEMMA BytesHold ==
    ASSUME NEW argv, Sound(argv), NEW f \in DOMAIN Legal
    PROVE  /\ Byte(argv, Wires[f][1]) \in 0 .. 255
           /\ Get(Byte(argv, Wires[f][1]), Wires[f][2], Wires[f][3]) = Value(argv, f)
<1>0. \A g \in DOMAIN Legal : Value(argv, g) \in Legal[g]
  BY ValuesLegal
<1>1. CASE f \in {"speed", "fake286"}
  <2>1. /\ Value(argv, "speed") \in 0 .. 4
        /\ Value(argv, "fake286") \in 0 .. 2
    BY <1>0 DEF Legal
  <2>2. Byte(argv, "cpu") = Put(Value(argv, "speed"), 1, 8) + Put(Value(argv, "fake286"), 8, 4)
    BY DEF Byte
  <2>3. Wires["speed"] = <<"cpu", 1, 8>>
    BY DEF Wires
  <2>4. Wires["fake286"] = <<"cpu", 8, 4>>
    BY DEF Wires
  <2>5. Byte(argv, "cpu") \in 0 .. 255
    BY <2>1, <2>2 DEF Put
  <2>6. Get(Byte(argv, "cpu"), 1, 8) = Value(argv, "speed")
    BY <2>1, <2>2 DEF Put, Get
  <2>7. Get(Byte(argv, "cpu"), 8, 4) = Value(argv, "fake286")
    BY <2>1, <2>2 DEF Put, Get
  <2> QED
    BY <1>1, <2>5, <2>3, <2>4, <2>6, <2>7
<1>2. CASE f \in {"opl2", "cms", "ems", "umb"}
  <2>1. /\ Value(argv, "opl2") \in 0 .. 3
        /\ Value(argv, "cms") \in 0 .. 2
        /\ Value(argv, "ems") \in 0 .. 2
        /\ Value(argv, "umb") \in 0 .. 2
    BY <1>0 DEF Legal
  <2>2. Byte(argv, "exp") = Put(Value(argv, "opl2"), 1, 4) + Put(Value(argv, "cms"), 4, 4) + Put(Value(argv, "ems"), 16, 4) + Put(Value(argv, "umb"), 64, 4)
    BY DEF Byte
  <2>3. Wires["opl2"] = <<"exp", 1, 4>>
    BY DEF Wires
  <2>4. Wires["cms"] = <<"exp", 4, 4>>
    BY DEF Wires
  <2>5. Wires["ems"] = <<"exp", 16, 4>>
    BY DEF Wires
  <2>6. Wires["umb"] = <<"exp", 64, 4>>
    BY DEF Wires
  <2>7. Byte(argv, "exp") \in 0 .. 255
    BY <2>1, <2>2 DEF Put
  <2>8. Get(Byte(argv, "exp"), 1, 4) = Value(argv, "opl2")
    BY <2>1, <2>2 DEF Put, Get
  <2>9. Get(Byte(argv, "exp"), 4, 4) = Value(argv, "cms")
    BY <2>1, <2>2 DEF Put, Get
  <2>10. Get(Byte(argv, "exp"), 16, 4) = Value(argv, "ems")
    BY <2>1, <2>2 DEF Put, Get
  <2>11. Get(Byte(argv, "exp"), 64, 4) = Value(argv, "umb")
    BY <2>1, <2>2 DEF Put, Get
  <2> QED
    BY <1>2, <2>7, <2>3, <2>4, <2>5, <2>6, <2>8, <2>9, <2>10, <2>11
<1>3. CASE f \in {"joy1", "joy2", "swap", "joysync"}
  <2>1. /\ Value(argv, "joy1") \in 0 .. 3
        /\ Value(argv, "joy2") \in 0 .. 3
        /\ Value(argv, "swap") \in 0 .. 2
        /\ Value(argv, "joysync") \in 0 .. 2
    BY <1>0 DEF Legal
  <2>2. Byte(argv, "inp") = Put(Value(argv, "joy1"), 1, 4) + Put(Value(argv, "joy2"), 4, 4) + Put(Value(argv, "swap"), 16, 4) + Put(Value(argv, "joysync"), 64, 4)
    BY DEF Byte
  <2>3. Wires["joy1"] = <<"inp", 1, 4>>
    BY DEF Wires
  <2>4. Wires["joy2"] = <<"inp", 4, 4>>
    BY DEF Wires
  <2>5. Wires["swap"] = <<"inp", 16, 4>>
    BY DEF Wires
  <2>6. Wires["joysync"] = <<"inp", 64, 4>>
    BY DEF Wires
  <2>7. Byte(argv, "inp") \in 0 .. 255
    BY <2>1, <2>2 DEF Put
  <2>8. Get(Byte(argv, "inp"), 1, 4) = Value(argv, "joy1")
    BY <2>1, <2>2 DEF Put, Get
  <2>9. Get(Byte(argv, "inp"), 4, 4) = Value(argv, "joy2")
    BY <2>1, <2>2 DEF Put, Get
  <2>10. Get(Byte(argv, "inp"), 16, 4) = Value(argv, "swap")
    BY <2>1, <2>2 DEF Put, Get
  <2>11. Get(Byte(argv, "inp"), 64, 4) = Value(argv, "joysync")
    BY <2>1, <2>2 DEF Put, Get
  <2> QED
    BY <1>3, <2>7, <2>3, <2>4, <2>5, <2>6, <2>8, <2>9, <2>10, <2>11
<1>4. CASE f \in {"mt32", "mpu"}
  <2>1. /\ Value(argv, "mt32") \in 0 .. 2
        /\ Value(argv, "mpu") \in 0 .. 2
    BY <1>0 DEF Legal
  <2>2. Byte(argv, "midi") = Put(Value(argv, "mt32"), 1, 4) + Put(Value(argv, "mpu"), 4, 4)
    BY DEF Byte
  <2>3. Wires["mt32"] = <<"midi", 1, 4>>
    BY DEF Wires
  <2>4. Wires["mpu"] = <<"midi", 4, 4>>
    BY DEF Wires
  <2>5. Byte(argv, "midi") \in 0 .. 255
    BY <2>1, <2>2 DEF Put
  <2>6. Get(Byte(argv, "midi"), 1, 4) = Value(argv, "mt32")
    BY <2>1, <2>2 DEF Put, Get
  <2>7. Get(Byte(argv, "midi"), 4, 4) = Value(argv, "mpu")
    BY <2>1, <2>2 DEF Put, Get
  <2> QED
    BY <1>4, <2>5, <2>3, <2>4, <2>6, <2>7
<1>5. CASE f \in {"tandy", "sb", "sbirq"}
  <2>1. /\ Value(argv, "tandy") \in 0 .. 2
        /\ Value(argv, "sb") \in 0 .. 2
        /\ Value(argv, "sbirq") \in 0 .. 2
    BY <1>0 DEF Legal
  <2>2. Byte(argv, "exp2") = Put(Value(argv, "tandy"), 1, 4) + Put(Value(argv, "sb"), 4, 4) + Put(Value(argv, "sbirq"), 16, 4)
    BY DEF Byte
  <2>3. Wires["tandy"] = <<"exp2", 1, 4>>
    BY DEF Wires
  <2>4. Wires["sb"] = <<"exp2", 4, 4>>
    BY DEF Wires
  <2>5. Wires["sbirq"] = <<"exp2", 16, 4>>
    BY DEF Wires
  <2>6. Byte(argv, "exp2") \in 0 .. 255
    BY <2>1, <2>2 DEF Put
  <2>7. Get(Byte(argv, "exp2"), 1, 4) = Value(argv, "tandy")
    BY <2>1, <2>2 DEF Put, Get
  <2>8. Get(Byte(argv, "exp2"), 4, 4) = Value(argv, "sb")
    BY <2>1, <2>2 DEF Put, Get
  <2>9. Get(Byte(argv, "exp2"), 16, 4) = Value(argv, "sbirq")
    BY <2>1, <2>2 DEF Put, Get
  <2> QED
    BY <1>5, <2>6, <2>3, <2>4, <2>5, <2>7, <2>8, <2>9
<1>6. CASE f \in {"crt"}
  <2>1. /\ Value(argv, "crt") \in 0 .. 255
    BY <1>0 DEF Legal
  <2>2. Byte(argv, "crt") = Put(Value(argv, "crt"), 1, 256)
    BY DEF Byte
  <2>3. Wires["crt"] = <<"crt", 1, 256>>
    BY DEF Wires
  <2>4. Byte(argv, "crt") \in 0 .. 255
    BY <2>1, <2>2 DEF Put
  <2>5. Get(Byte(argv, "crt"), 1, 256) = Value(argv, "crt")
    BY <2>1, <2>2 DEF Put, Get
  <2> QED
    BY <1>6, <2>4, <2>3, <2>5
<1>7. CASE f \in {"vsync", "hsync"}
  <2>1. /\ Value(argv, "vsync") \in 0 .. 7
        /\ Value(argv, "hsync") \in 0 .. 7
    BY <1>0 DEF Legal
  <2>2. Byte(argv, "sync") = Put(Value(argv, "vsync"), 1, 8) + Put(Value(argv, "hsync"), 8, 8)
    BY DEF Byte
  <2>3. Wires["vsync"] = <<"sync", 1, 8>>
    BY DEF Wires
  <2>4. Wires["hsync"] = <<"sync", 8, 8>>
    BY DEF Wires
  <2>5. Byte(argv, "sync") \in 0 .. 255
    BY <2>1, <2>2 DEF Put
  <2>6. Get(Byte(argv, "sync"), 1, 8) = Value(argv, "vsync")
    BY <2>1, <2>2 DEF Put, Get
  <2>7. Get(Byte(argv, "sync"), 8, 8) = Value(argv, "hsync")
    BY <2>1, <2>2 DEF Put, Get
  <2> QED
    BY <1>7, <2>5, <2>3, <2>4, <2>6, <2>7
<1> QED
  BY <1>1, <1>2, <1>3, <1>4, <1>5, <1>6, <1>7 DEF Legal

(* The effective settings, one by one.                                        *)
LEMMA MenuDomain ==
    ASSUME NEW m \in Menu
    PROVE  DOMAIN m = {"speed", "fake286", "opl2", "audio", "ems", "umb", "joy1", "joy2",
                       "swap", "joysync", "mt32", "mpu", "tandy", "sbirq", "crtH", "crtV",
                       "vsync", "hsync"}
  BY DEF Menu

(* The sources of the cards at 220h.                                          *)
Sb(r, m) == build.sb /\ (IF Field(r, "sb") = 0 THEN OsdSb(m) ELSE Field(r, "sb") = 1)
Cms(r, m) == IF Field(r, "cms") = 0 THEN OsdCms(m) ELSE Field(r, "cms") = 1

LEMMA ResolvedDomain ==
    ASSUME NEW r, NEW m \in Menu
    PROVE  DOMAIN Effective(r, m) = DOMAIN m \cup {"vga13"}
  BY DEF Effective

(* Two choices, the first of the register switching on.                       *)
LEMMA FirstOn ==
    ASSUME NEW r, NEW m \in Menu
    PROVE  \A f \in {"ems", "umb", "mpu"} :
               Effective(r, m)[f] = Chosen(Field(r, f), m[f], 1)
<1>1. Effective(r, m)["ems"] = Chosen(Field(r, "ems"), m["ems"], 1)
  BY MenuDomain DEF Effective, TwoWay, FirstIsOn, Sb, Cms
<1>2. Effective(r, m)["umb"] = Chosen(Field(r, "umb"), m["umb"], 1)
  BY MenuDomain DEF Effective, TwoWay, FirstIsOn, Sb, Cms
<1>3. Effective(r, m)["mpu"] = Chosen(Field(r, "mpu"), m["mpu"], 1)
  BY MenuDomain DEF Effective, TwoWay, FirstIsOn, Sb, Cms
<1> QED
  BY <1>1, <1>2, <1>3

(* Two choices, the second of the register switching on.                      *)
LEMMA SecondOn ==
    ASSUME NEW r, NEW m \in Menu
    PROVE  /\ \A f \in {"fake286", "swap", "joysync", "mt32"} :
                  Effective(r, m)[f] = Chosen(Field(r, f), m[f], 2)
           /\ Effective(r, m)["tandy"] =
                  IF build.tandy THEN Chosen(Field(r, "tandy"), m["tandy"], 2) ELSE 0
<1>1. Effective(r, m)["fake286"] = Chosen(Field(r, "fake286"), m["fake286"], 2)
  BY MenuDomain DEF Effective, TwoWay, FirstIsOn, Sb, Cms
<1>2. Effective(r, m)["swap"] = Chosen(Field(r, "swap"), m["swap"], 2)
  BY MenuDomain DEF Effective, TwoWay, FirstIsOn, Sb, Cms
<1>3. Effective(r, m)["joysync"] = Chosen(Field(r, "joysync"), m["joysync"], 2)
  BY MenuDomain DEF Effective, TwoWay, FirstIsOn, Sb, Cms
<1>4. Effective(r, m)["mt32"] = Chosen(Field(r, "mt32"), m["mt32"], 2)
  BY MenuDomain DEF Effective, TwoWay, FirstIsOn, Sb, Cms
<1>5. Effective(r, m)["tandy"] = IF build.tandy THEN Chosen(Field(r, "tandy"), m["tandy"], 2) ELSE 0
  BY MenuDomain DEF Effective, TwoWay, FirstIsOn, Sb, Cms
<1> QED
  BY <1>1, <1>2, <1>3, <1>4, <1>5

(* Choices numbered from one.                                                 *)
LEMMA OneLess ==
    ASSUME NEW r, NEW m \in Menu
    PROVE  \A f \in {"opl2", "joy1", "joy2"} :
               Effective(r, m)[f] = IF Field(r, f) = 0 THEN m[f] ELSE Field(r, f) - 1
<1>1. Effective(r, m)["opl2"] = IF Field(r, "opl2") = 0 THEN m["opl2"] ELSE Field(r, "opl2") - 1
  BY MenuDomain DEF Effective, TwoWay, FirstIsOn, Sb, Cms
<1>2. Effective(r, m)["joy1"] = IF Field(r, "joy1") = 0 THEN m["joy1"] ELSE Field(r, "joy1") - 1
  BY MenuDomain DEF Effective, TwoWay, FirstIsOn, Sb, Cms
<1>3. Effective(r, m)["joy2"] = IF Field(r, "joy2") = 0 THEN m["joy2"] ELSE Field(r, "joy2") - 1
  BY MenuDomain DEF Effective, TwoWay, FirstIsOn, Sb, Cms
<1> QED
  BY <1>1, <1>2, <1>3

(* The same, where some values are no choice.                                 *)
LEMMA OneLessIfValid ==
    ASSUME NEW r, NEW m \in Menu
    PROVE  /\ Effective(r, m)["speed"] =
                  IF Field(r, "speed") \in 1 .. 4 THEN Field(r, "speed") - 1 ELSE m["speed"]
           /\ Effective(r, m)["sbirq"] =
                  IF Field(r, "sbirq") \in 1 .. 2 THEN Field(r, "sbirq") - 1 ELSE m["sbirq"]
<1>1. Effective(r, m)["speed"] = IF Field(r, "speed") \in 1 .. 4 THEN Field(r, "speed") - 1 ELSE m["speed"]
  BY MenuDomain DEF Effective, TwoWay, FirstIsOn, Sb, Cms
<1>2. Effective(r, m)["sbirq"] = IF Field(r, "sbirq") \in 1 .. 2 THEN Field(r, "sbirq") - 1 ELSE m["sbirq"]
  BY MenuDomain DEF Effective, TwoWay, FirstIsOn, Sb, Cms
<1> QED
  BY <1>1, <1>2

(* The cards at 220h.                                                         *)
LEMMA Audio ==
    ASSUME NEW r, NEW m \in Menu
    PROVE  Effective(r, m)["audio"] = Audio220(Sb(r, m), Cms(r, m) /\ ~Sb(r, m))
<1>1. Effective(r, m)["audio"] = Audio220(Sb(r, m), Cms(r, m) /\ ~Sb(r, m))
  BY MenuDomain DEF Effective, TwoWay, FirstIsOn, Sb, Cms
<1> QED
  BY <1>1

(* The CRT position, and VGA 13h+.                                            *)
LEMMA Position ==
    ASSUME NEW r, NEW m \in Menu
    PROVE  /\ Effective(r, m)["crtH"] =
                  IF Field(r, "crt") >= 128 THEN Get(Field(r, "crt"), 1, 16) ELSE m["crtH"]
           /\ Effective(r, m)["crtV"] =
                  IF Field(r, "crt") >= 128 THEN Get(Field(r, "crt"), 16, 8) ELSE m["crtV"]
           /\ Effective(r, m)["vga13"] = IF Field(r, "vga13") = 2 THEN 1 ELSE 0
<1>1. Effective(r, m)["crtH"] = IF Field(r, "crt") >= 128 THEN Get(Field(r, "crt"), 1, 16) ELSE m["crtH"]
  BY MenuDomain DEF Effective, TwoWay, FirstIsOn, Sb, Cms
<1>2. Effective(r, m)["crtV"] = IF Field(r, "crt") >= 128 THEN Get(Field(r, "crt"), 16, 8) ELSE m["crtV"]
  BY MenuDomain DEF Effective, TwoWay, FirstIsOn, Sb, Cms
<1>3. Effective(r, m)["vga13"] = IF Field(r, "vga13") = 2 THEN 1 ELSE 0
  BY MenuDomain DEF Effective, TwoWay, FirstIsOn, Sb, Cms
<1> QED
  BY <1>1, <1>2, <1>3

(* The widths of the sync pulses.                                             *)
LEMMA Widths ==
    ASSUME NEW r, NEW m \in Menu
    PROVE  \A f \in {"vsync", "hsync"} :
               Effective(r, m)[f] = IF Field(r, f) = 0 THEN m[f] ELSE Field(r, f)
<1>1. Effective(r, m)["vsync"] = IF Field(r, "vsync") = 0 THEN m["vsync"] ELSE Field(r, "vsync")
  BY MenuDomain DEF Effective, TwoWay, FirstIsOn, Sb, Cms
<1>2. Effective(r, m)["hsync"] = IF Field(r, "hsync") = 0 THEN m["hsync"] ELSE Field(r, "hsync")
  BY MenuDomain DEF Effective, TwoWay, FirstIsOn, Sb, Cms
<1> QED
  BY <1>1, <1>2

(* The menu as it is listed.                                                  *)
LEMMA OsdIs ==
    ASSUME NEW m \in Menu
    PROVE  LET o == OsdValue(m)
           IN  /\ DOMAIN o = DOMAIN m
               /\ \A f \in DOMAIN m \ {"audio", "tandy"} : o[f] = m[f]
               /\ o["audio"] = Audio220(OsdSb(m), OsdCms(m))
               /\ o["tandy"] = IF build.tandy THEN m["tandy"] ELSE 0
<1>1. m = [f \in DOMAIN m |-> m[f]] /\ "audio" \in DOMAIN m /\ "tandy" \in DOMAIN m
  BY DEF Menu
<1> QED
  BY <1>1 DEF OsdValue

(* Registers whose fields are legal.                                          *)
FieldsLegal(r) == \A f \in DOMAIN Legal : Field(r, f) \in Legal[f]

LEMMA FieldRanges ==
    ASSUME NEW r, FieldsLegal(r)
    PROVE  /\ \A f \in {"fake286", "cms", "sb", "ems", "umb", "swap", "joysync", "mt32", "mpu",
                        "tandy", "sbirq"} : Field(r, f) \in 0 .. 2
           /\ \A f \in {"opl2", "joy1", "joy2"} : Field(r, f) \in 0 .. 3
           /\ Field(r, "speed") \in 0 .. 4 /\ Field(r, "crt") \in {0} \cup 128 .. 255
           /\ Field(r, "vsync") \in 0 .. 7 /\ Field(r, "hsync") \in 0 .. 7
  BY DEF FieldsLegal, Legal

(* What is in effect is one of the menu's choices.                            *)
LEMMA EffectiveLegal ==
    ASSUME NEW r, FieldsLegal(r), NEW m \in Menu
    PROVE  LET e == Effective(r, m)
           IN  /\ \A f \in {"fake286", "ems", "umb", "swap", "joysync", "mt32",
                            "mpu", "tandy", "sbirq", "vga13"} : e[f] \in 0 .. 1
               /\ \A f \in {"opl2", "audio", "joy1", "joy2"} : e[f] \in 0 .. 2
               /\ e["speed"] \in 0 .. 3 /\ e["crtH"] \in 0 .. 15
               /\ \A f \in {"crtV", "vsync", "hsync"} : e[f] \in 0 .. 7
<1>0. /\ \A f \in {"fake286", "ems", "umb", "swap", "joysync", "mt32",
                 "mpu", "tandy", "sbirq"} : m[f] \in 0 .. 1
      /\ \A f \in {"opl2", "joy1", "joy2"} : m[f] \in 0 .. 2
      /\ m["speed"] \in 0 .. 3 /\ m["crtH"] \in 0 .. 15
      /\ \A f \in {"crtV", "vsync", "hsync"} : m[f] \in 0 .. 7
  BY DEF Menu
<1> DEFINE e == Effective(r, m)
<1>1. \A f \in {"ems", "umb", "mpu"} : e[f] \in 0 .. 1
  BY <1>0, FirstOn DEF Chosen
<1>2. \A f \in {"fake286", "swap", "joysync", "mt32", "tandy"} : e[f] \in 0 .. 1
  BY <1>0, SecondOn DEF Chosen
<1>3. e["audio"] \in 0 .. 2
  BY Audio DEF Audio220
<1>4. \A f \in {"opl2", "joy1", "joy2"} : e[f] \in 0 .. 2
  BY <1>0, OneLess, FieldRanges
<1>5. e["speed"] \in 0 .. 3 /\ e["sbirq"] \in 0 .. 1
  BY <1>0, OneLessIfValid, FieldRanges
<1>6. e["crtH"] \in 0 .. 15 /\ e["crtV"] \in 0 .. 7 /\ e["vga13"] \in 0 .. 1
  <2>1. Field(r, "crt") \in Nat
    BY FieldRanges
  <2>2. Get(Field(r, "crt"), 1, 16) \in 0 .. 15 /\ Get(Field(r, "crt"), 16, 8) \in 0 .. 7
    BY <2>1 DEF Get
  <2> QED
    BY <1>0, <2>2, Position
<1>7. \A f \in {"vsync", "hsync"} : e[f] \in 0 .. 7
  BY <1>0, Widths, FieldRanges
<1> QED
  BY <1>1, <1>2, <1>3, <1>4, <1>5, <1>6, <1>7

(* A bit of a byte.                                                           *)
LEMMA BitsHold ==
    ASSUME NEW a \in 0 .. 1, NEW b \in 0 .. 1, NEW c \in 0 .. 1, NEW d \in 0 .. 1,
           NEW p \in 0 .. 1, NEW q \in 0 .. 1, NEW x \in 0 .. 1, NEW y \in 0 .. 1
    PROVE  LET n == a + 2 * b + 4 * c + 8 * d + 16 * p + 32 * q + 64 * x + 128 * y
           IN  /\ Get(n, 1, 2) = a /\ Get(n, 2, 2) = b /\ Get(n, 4, 2) = c
               /\ Get(n, 8, 2) = d /\ Get(n, 16, 2) = p /\ Get(n, 32, 2) = q
               /\ Get(n, 64, 2) = x /\ Get(n, 128, 2) = y
  BY DEF Get

LEMMA MatchBitsDistinct ==
    ASSUME NEW f \in DOMAIN MatchBit, NEW g \in DOMAIN MatchBit, MatchBit[f] = MatchBit[g]
    PROVE  f = g
  BY DEF MatchBit

(* The flags of the settings are up where they are as the menu has them.       *)
LEMMA FlagsAre ==
    ASSUME menu \in Menu, NEW f \in DOMAIN menu
    PROVE  MatchBit[f] \in Matches <=> Now[f] = Osd[f]
<1>1. DOMAIN MatchBit = DOMAIN menu
  BY MenuDomain DEF MatchBit
<1> QED
  BY <1>1, MatchBitsDistinct DEF Matches, Now, Osd

(* The bytes of the extension, as sums of what is in effect.                   *)
LEMMA StatusBytesAre ==
    ASSUME build.core = "new"
    PROVE  /\ StatusByte(1) = Now["speed"] + 8 * Now["fake286"] + 16 * Now["opl2"] + 64 * Now["audio"]
           /\ StatusByte(2) = Now["ems"] + 2 * Now["umb"] + 4 * Now["vga13"] + 8 * Now["joy1"]
                              + 32 * Now["joy2"] + 128 * Now["swap"]
           /\ StatusByte(3) = Now["joysync"] + 2 * Now["mt32"] + 4 * Now["mpu"] + 8 * Now["tandy"]
                              + 32 * Now["sbirq"] + 128
           /\ StatusByte(4) = Now["crtH"] + 16 * Now["crtV"]
           /\ StatusByte(5) = Now["vsync"] + 8 * Now["hsync"]
                              + 64 * (IF 16 \in Matches THEN 1 ELSE 0)
                              + 128 * (IF 17 \in Matches THEN 1 ELSE 0)
  BY DEF StatusByte, StatusEffective, Now

(* The tool finds each value where the core puts it, and the marker.          *)
LEMMA ValuesRead ==
    ASSUME build.core = "new", menu \in Menu, FieldsLegal(reg)
    PROVE  /\ \A f \in DOMAIN Shows :
                  Get(StatusByte(Shows[f][1]), Shows[f][2], Shows[f][3]) = Now[f]
           /\ Get(StatusByte(3), 64, 4) = 2
           /\ Get(StatusByte(5), 64, 2) = IF 16 \in Matches THEN 1 ELSE 0
           /\ Get(StatusByte(5), 128, 2) = IF 17 \in Matches THEN 1 ELSE 0
<1>0. /\ \A f \in {"fake286", "ems", "umb", "swap", "joysync", "mt32",
                 "mpu", "tandy", "sbirq", "vga13"} : Now[f] \in 0 .. 1
      /\ \A f \in {"opl2", "audio", "joy1", "joy2"} : Now[f] \in 0 .. 2
      /\ Now["speed"] \in 0 .. 3 /\ Now["crtH"] \in 0 .. 15
      /\ \A f \in {"crtV", "vsync", "hsync"} : Now[f] \in 0 .. 7
  BY EffectiveLegal DEF Now
<1>1. \A f \in {"speed", "fake286", "opl2", "audio"} :
          Get(StatusByte(1), Shows[f][2], Shows[f][3]) = Now[f] /\ Shows[f][1] = 1
  <2>1. Get(StatusByte(1), 1, 4) = Now["speed"]
    BY <1>0, StatusBytesAre DEF Get
  <2>2. Get(StatusByte(1), 8, 2) = Now["fake286"]
    BY <1>0, StatusBytesAre DEF Get
  <2>3. Get(StatusByte(1), 16, 4) = Now["opl2"]
    BY <1>0, StatusBytesAre DEF Get
  <2>4. Get(StatusByte(1), 64, 4) = Now["audio"]
    BY <1>0, StatusBytesAre DEF Get
  <2> QED
    BY <2>1, <2>2, <2>3, <2>4 DEF Shows
<1>2. \A f \in {"ems", "umb", "vga13", "joy1", "joy2", "swap"} :
          Get(StatusByte(2), Shows[f][2], Shows[f][3]) = Now[f] /\ Shows[f][1] = 2
  <2>1. Get(StatusByte(2), 1, 2) = Now["ems"]
    BY <1>0, StatusBytesAre DEF Get
  <2>2. Get(StatusByte(2), 2, 2) = Now["umb"]
    BY <1>0, StatusBytesAre DEF Get
  <2>3. Get(StatusByte(2), 4, 2) = Now["vga13"]
    BY <1>0, StatusBytesAre DEF Get
  <2>4. Get(StatusByte(2), 8, 4) = Now["joy1"]
    BY <1>0, StatusBytesAre DEF Get
  <2>5. Get(StatusByte(2), 32, 4) = Now["joy2"]
    BY <1>0, StatusBytesAre DEF Get
  <2>6. Get(StatusByte(2), 128, 2) = Now["swap"]
    BY <1>0, StatusBytesAre DEF Get
  <2> QED
    BY <2>1, <2>2, <2>3, <2>4, <2>5, <2>6 DEF Shows
<1>3. \A f \in {"joysync", "mt32", "mpu", "tandy", "sbirq"} :
          Get(StatusByte(3), Shows[f][2], Shows[f][3]) = Now[f] /\ Shows[f][1] = 3
  <2>1. Get(StatusByte(3), 1, 2) = Now["joysync"]
    BY <1>0, StatusBytesAre DEF Get
  <2>2. Get(StatusByte(3), 2, 2) = Now["mt32"]
    BY <1>0, StatusBytesAre DEF Get
  <2>3. Get(StatusByte(3), 4, 2) = Now["mpu"]
    BY <1>0, StatusBytesAre DEF Get
  <2>4. Get(StatusByte(3), 8, 2) = Now["tandy"]
    BY <1>0, StatusBytesAre DEF Get
  <2>5. Get(StatusByte(3), 32, 2) = Now["sbirq"]
    BY <1>0, StatusBytesAre DEF Get
  <2> QED
    BY <2>1, <2>2, <2>3, <2>4, <2>5 DEF Shows
<1>4. \A f \in {"crtH", "crtV"} :
          Get(StatusByte(4), Shows[f][2], Shows[f][3]) = Now[f] /\ Shows[f][1] = 4
  <2>1. Get(StatusByte(4), 1, 16) = Now["crtH"]
    BY <1>0, StatusBytesAre DEF Get
  <2>2. Get(StatusByte(4), 16, 8) = Now["crtV"]
    BY <1>0, StatusBytesAre DEF Get
  <2> QED
    BY <2>1, <2>2 DEF Shows
<1>5. \A f \in {"vsync", "hsync"} :
          Get(StatusByte(5), Shows[f][2], Shows[f][3]) = Now[f] /\ Shows[f][1] = 5
  <2>1. Get(StatusByte(5), 1, 8) = Now["vsync"]
    BY <1>0, StatusBytesAre DEF Get
  <2>2. Get(StatusByte(5), 8, 8) = Now["hsync"]
    BY <1>0, StatusBytesAre DEF Get
  <2> QED
    BY <2>1, <2>2 DEF Shows
<1>6. Get(StatusByte(3), 64, 4) = 2
  BY <1>0, StatusBytesAre DEF Get
<1>7. /\ Get(StatusByte(5), 64, 2) = IF 16 \in Matches THEN 1 ELSE 0
      /\ Get(StatusByte(5), 128, 2) = IF 17 \in Matches THEN 1 ELSE 0
  BY <1>0, StatusBytesAre DEF Get
<1>8. DOMAIN Shows = {"speed", "fake286", "opl2", "audio", "ems", "umb", "vga13", "joy1", "joy2",
                      "swap", "joysync", "mt32", "mpu", "tandy", "sbirq", "crtH", "crtV", "vsync", "hsync"}
  BY DEF Shows
<1> QED
  BY <1>1, <1>2, <1>3, <1>4, <1>5, <1>6, <1>7, <1>8

(* And the flags in the two bytes of flags.                                   *)
LEMMA FlagsRead ==
    /\ \A n \in 0 .. 7 : Get(MatchByte(0), Bit[n], 2) = 1 <=> n \in Matches
    /\ \A n \in 8 .. 15 : Get(MatchByte(1), Bit[n - 8], 2) = 1 <=> n \in Matches
<1> DEFINE Flag(n) == IF n \in Matches THEN 1 ELSE 0
<1>1. \A n \in Nat : Flag(n) \in 0 .. 1 /\ (Flag(n) = 1 <=> n \in Matches)
  OBVIOUS
<1>2. /\ MatchByte(0) = Flag(0) + 2 * Flag(1) + 4 * Flag(2) + 8 * Flag(3)
                        + 16 * Flag(4) + 32 * Flag(5) + 64 * Flag(6) + 128 * Flag(7)
      /\ MatchByte(1) = Flag(8) + 2 * Flag(9) + 4 * Flag(10) + 8 * Flag(11)
                        + 16 * Flag(12) + 32 * Flag(13) + 64 * Flag(14) + 128 * Flag(15)
  BY DEF MatchByte
<1>3. /\ Bit[0] = 1 /\ Bit[1] = 2 /\ Bit[2] = 4 /\ Bit[3] = 8
      /\ Bit[4] = 16 /\ Bit[5] = 32 /\ Bit[6] = 64 /\ Bit[7] = 128
  BY DEF Bit
<1> HIDE DEF Flag
<1>4. /\ Get(MatchByte(0), 1, 2) = Flag(0) /\ Get(MatchByte(0), 2, 2) = Flag(1)
      /\ Get(MatchByte(0), 4, 2) = Flag(2) /\ Get(MatchByte(0), 8, 2) = Flag(3)
      /\ Get(MatchByte(0), 16, 2) = Flag(4) /\ Get(MatchByte(0), 32, 2) = Flag(5)
      /\ Get(MatchByte(0), 64, 2) = Flag(6) /\ Get(MatchByte(0), 128, 2) = Flag(7)
  BY <1>1, <1>2, BitsHold
<1>5. /\ Get(MatchByte(1), 1, 2) = Flag(8) /\ Get(MatchByte(1), 2, 2) = Flag(9)
      /\ Get(MatchByte(1), 4, 2) = Flag(10) /\ Get(MatchByte(1), 8, 2) = Flag(11)
      /\ Get(MatchByte(1), 16, 2) = Flag(12) /\ Get(MatchByte(1), 32, 2) = Flag(13)
      /\ Get(MatchByte(1), 64, 2) = Flag(14) /\ Get(MatchByte(1), 128, 2) = Flag(15)
  BY <1>1, <1>2, BitsHold
<1>6. \A n \in 0 .. 7 : Get(MatchByte(0), Bit[n], 2) = Flag(n)
  BY <1>3, <1>4
<1>7. \A n \in 8 .. 15 : Get(MatchByte(1), Bit[n - 8], 2) = Flag(n)
  BY <1>3, <1>5
<1> QED
  BY <1>1, <1>6, <1>7

(* The report of a core with the extension is true.                           *)
LEMMA ReportIsTrue ==
    ASSUME build.core = "new", menu \in Menu, FieldsLegal(reg),
           seen = [i \in 1 .. 5 |-> StatusByte(i)]
    PROVE  /\ Get(seen[3], 64, 4) = 2
           /\ Show.new
           /\ \A f \in DOMAIN Shows : Show.values[f] = Now[f]
           /\ \A f \in DOMAIN menu \ {"crtH", "crtV"} :
                  f \in Show.marked <=> Now[f] = Osd[f]
<1>1. \A i \in 1 .. 5 : seen[i] = StatusByte(i)
  OBVIOUS
<1>2. \A f \in DOMAIN Shows : Shows[f][1] \in 1 .. 5
  BY DEF Shows
<1>3. \A f \in DOMAIN Shows : Show.values[f] = Now[f]
  BY <1>1, <1>2, ValuesRead DEF Show
<1>4. ASSUME NEW f \in DOMAIN menu \ {"crtH", "crtV"}
      PROVE  f \in Show.marked <=> Now[f] = Osd[f]
  <2>1. f \in DOMAIN Suffix /\ Suffix[f] = MatchBit[f] /\ Suffix[f] \in 0 .. 17
    BY MenuDomain DEF Suffix, MatchBit
  <2>2. f \in Show.marked <=> StatusMatches(MatchByte(0), MatchByte(1), Suffix[f])
    BY <2>1 DEF Show
  <2>3. StatusMatches(MatchByte(0), MatchByte(1), Suffix[f]) <=> Suffix[f] \in Matches
    <3>1. CASE Suffix[f] \in 0 .. 7
      BY <3>1, FlagsRead DEF StatusMatches
    <3>2. CASE Suffix[f] \in 8 .. 15
      BY <3>2, FlagsRead DEF StatusMatches
    <3>3. CASE Suffix[f] = 16
      BY <1>1, <3>3, ValuesRead DEF StatusMatches
    <3>4. CASE Suffix[f] = 17
      BY <1>1, <3>4, ValuesRead DEF StatusMatches
    <3> QED
      BY <2>1, <3>1, <3>2, <3>3, <3>4
  <2> QED
    BY <2>1, <2>2, <2>3, FlagsAre
<1>5. Get(seen[3], 64, 4) = 2 /\ Show.new
  BY <1>1, ValuesRead DEF Show
<1> QED
  BY <1>3, <1>4, <1>5

(* The registers, byte by byte.                                               *)
Registers == {"cpu", "exp", "vid", "inp", "midi", "exp2", "crt", "sync"}

(* A core without the extension is reported through its registers: what is    *)
(* marked is the menu's, and what is not is in effect as printed.             *)
LEMMA LegacyIsTrue ==
    ASSUME menu \in Menu, FieldsLegal(reg), reg \in [Registers -> 0 .. 255]
    PROVE  /\ ~ShowLegacy.new
           /\ \A f \in DOMAIN menu \ {"audio"} :
                  IF f \in ShowLegacy.marked THEN Now[f] = Osd[f]
                  ELSE \/ ShowLegacy.values[f] = Now[f]
                       \/ f = "tandy" /\ ~build.tandy
<1> DEFINE V(f) == ShowLegacy.values[f]
           Good(f) == IF V(f) = -1 THEN Now[f] = Osd[f]
                      ELSE V(f) = Now[f] \/ (f = "tandy" /\ ~build.tandy)
<1>1. \A f \in DOMAIN menu : f \in ShowLegacy.marked <=> V(f) = -1
  <2>1. DOMAIN Suffix = DOMAIN menu
    BY MenuDomain DEF Suffix
  <2> QED
    BY <2>1 DEF ShowLegacy
<1>2. \A f \in DOMAIN menu \ {"audio", "tandy"} : Osd[f] = menu[f]
  BY OsdIs DEF Osd
<1>3. \A f \in {"ems", "umb", "mpu"} : Good(f)
  <2>1. \A f \in {"ems", "umb", "mpu"} :
            V(f) = IF Field(reg, f) = 0 THEN -1 ELSE 2 - Field(reg, f)
    BY DEF ShowLegacy, FirstIsOn, Shows
  <2>2. \A f \in {"ems", "umb", "mpu"} : f \in DOMAIN menu \ {"audio", "tandy"}
    BY MenuDomain
  <2> HIDE DEF V
  <2> QED
    BY <1>2, <2>1, <2>2, FirstOn, FieldRanges DEF Now, Chosen
<1>4. \A f \in {"fake286", "swap", "joysync", "mt32", "tandy"} : Good(f)
  <2>1. \A f \in {"fake286", "swap", "joysync", "mt32", "tandy"} : V(f) = Field(reg, f) - 1
    BY DEF ShowLegacy, FirstIsOn, Shows
  <2>2. \A f \in {"fake286", "swap", "joysync", "mt32"} : f \in DOMAIN menu \ {"audio", "tandy"}
    BY MenuDomain
  <2> HIDE DEF V
  <2>3. \A f \in {"fake286", "swap", "joysync", "mt32"} : Good(f)
    BY <1>2, <2>1, <2>2, SecondOn, FieldRanges DEF Now, Chosen
  <2>4. Good("tandy")
    <3>1. Osd["tandy"] = IF build.tandy THEN menu["tandy"] ELSE 0
      BY OsdIs DEF Osd
    <3> QED
      BY <2>1, <3>1, SecondOn, FieldRanges DEF Now, Chosen
  <2> QED
    BY <2>3, <2>4
<1>5. \A f \in {"opl2", "joy1", "joy2"} : Good(f)
  <2>1. \A f \in {"opl2", "joy1", "joy2"} : V(f) = Field(reg, f) - 1
    BY DEF ShowLegacy, FirstIsOn, Shows
  <2>2. \A f \in {"opl2", "joy1", "joy2"} : f \in DOMAIN menu \ {"audio", "tandy"}
    BY MenuDomain
  <2> HIDE DEF V
  <2> QED
    BY <1>2, <2>1, <2>2, OneLess, FieldRanges DEF Now
<1>6. Good("speed") /\ Good("sbirq")
  <2>1. /\ V("speed") = IF Field(reg, "speed") > 4 THEN -1 ELSE Field(reg, "speed") - 1
        /\ V("sbirq") = Field(reg, "sbirq") - 1
    BY DEF ShowLegacy, FirstIsOn, Shows
  <2>2. {"speed", "sbirq"} \subseteq DOMAIN menu \ {"audio", "tandy"}
    BY MenuDomain
  <2> HIDE DEF V
  <2> QED
    BY <1>2, <2>1, <2>2, OneLessIfValid, FieldRanges DEF Now
<1>7. Good("crtH") /\ Good("crtV")
  <2> DEFINE n == reg["crt"]
  <2>1. n \in 0 .. 255
    BY DEF Registers
  <2>2. Field(reg, "crt") = n
    BY <2>1 DEF Field, Get, Wires
  <2>3. /\ V("crtH") = IF Get(n, 128, 2) = 0 THEN -1 ELSE Get(n, 1, 16)
        /\ V("crtV") = IF Get(n, 128, 2) = 0 THEN -1 ELSE Get(n, 16, 8)
    BY DEF ShowLegacy, FirstIsOn, Shows
  <2>4. {"crtH", "crtV"} \subseteq DOMAIN menu \ {"audio", "tandy"}
    BY MenuDomain
  <2>5. Get(n, 128, 2) = 0 <=> n < 128
    BY <2>1 DEF Get
  <2>6. Get(n, 1, 16) \in 0 .. 15 /\ Get(n, 16, 8) \in 0 .. 7
    BY <2>1 DEF Get
  <2> HIDE DEF V, n
  <2> QED
    BY <1>2, <2>1, <2>2, <2>3, <2>4, <2>5, <2>6, Position DEF Now
<1>8. \A f \in {"vsync", "hsync"} : Good(f)
  <2>1. \A f \in {"vsync", "hsync"} : V(f) = IF Field(reg, f) = 0 THEN -1 ELSE Field(reg, f)
    BY DEF ShowLegacy, FirstIsOn, Shows
  <2>2. \A f \in {"vsync", "hsync"} : f \in DOMAIN menu \ {"audio", "tandy"}
    BY MenuDomain
  <2> HIDE DEF V
  <2> QED
    BY <1>2, <2>1, <2>2, Widths, FieldRanges DEF Now
<1>9. \A f \in DOMAIN menu \ {"audio"} : Good(f)
  BY <1>3, <1>4, <1>5, <1>6, <1>7, <1>8, MenuDomain
<1>10. ~ShowLegacy.new
  BY DEF ShowLegacy
<1> QED
  BY <1>1, <1>9, <1>10

(* The registers hold what a command line says.                               *)
Holding(r, argv) == \A f \in DOMAIN Legal : Field(r, f) = Value(argv, f)

(* Then each word of a group is in force.                                     *)
LEMMA WordsInForce ==
    ASSUME build \in Machine, menu \in Menu, NEW argv \in Seq(Argument), ~Refused(argv),
           ~Typed(argv, "reset"), Holding(reg, argv), NEW t \in Promises, Typed(argv, t[1])
    PROVE  Now[t[2]] \in t[3]
<1>0. \A f \in DOMAIN Flags : \A k \in DOMAIN Flags[f] :
          Typed(argv, Flags[f][k][1]) => Field(reg, f) = Flags[f][k][2]
  <2>1. DOMAIN Flags \subseteq DOMAIN Legal
    BY DEF Flags, Legal
  <2> QED
    BY <2>1, WordHasItsWay DEF Holding
<1>1. ASSUME t[1] \in {"4.77", "477", "7.16", "716", "9.54", "954", "max"}
      PROVE  Now[t[2]] \in t[3]
  <2>0. "speed" \in DOMAIN Flags /\ DOMAIN Flags["speed"] = 1 .. 7
    BY DEF Flags
  <2>1. CASE t[1] = "4.77"
    <3>1. Flags["speed"][1] = <<"4.77", 1>>
      BY DEF Flags
    <3>2. Field(reg, "speed") = 1
      BY <1>0, <2>0, <2>1, <3>1
    <3>3. t[2] = "speed" /\ t[3] = {0}
      BY <2>1 DEF Promises
    <3> QED
      BY <3>2, <3>3, OneLessIfValid DEF Now
  <2>2. CASE t[1] = "477"
    <3>1. Flags["speed"][2] = <<"477", 1>>
      BY DEF Flags
    <3>2. Field(reg, "speed") = 1
      BY <1>0, <2>0, <2>2, <3>1
    <3>3. t[2] = "speed" /\ t[3] = {0}
      BY <2>2 DEF Promises
    <3> QED
      BY <3>2, <3>3, OneLessIfValid DEF Now
  <2>3. CASE t[1] = "7.16"
    <3>1. Flags["speed"][3] = <<"7.16", 2>>
      BY DEF Flags
    <3>2. Field(reg, "speed") = 2
      BY <1>0, <2>0, <2>3, <3>1
    <3>3. t[2] = "speed" /\ t[3] = {1}
      BY <2>3 DEF Promises
    <3> QED
      BY <3>2, <3>3, OneLessIfValid DEF Now
  <2>4. CASE t[1] = "716"
    <3>1. Flags["speed"][4] = <<"716", 2>>
      BY DEF Flags
    <3>2. Field(reg, "speed") = 2
      BY <1>0, <2>0, <2>4, <3>1
    <3>3. t[2] = "speed" /\ t[3] = {1}
      BY <2>4 DEF Promises
    <3> QED
      BY <3>2, <3>3, OneLessIfValid DEF Now
  <2>5. CASE t[1] = "9.54"
    <3>1. Flags["speed"][5] = <<"9.54", 3>>
      BY DEF Flags
    <3>2. Field(reg, "speed") = 3
      BY <1>0, <2>0, <2>5, <3>1
    <3>3. t[2] = "speed" /\ t[3] = {2}
      BY <2>5 DEF Promises
    <3> QED
      BY <3>2, <3>3, OneLessIfValid DEF Now
  <2>6. CASE t[1] = "954"
    <3>1. Flags["speed"][6] = <<"954", 3>>
      BY DEF Flags
    <3>2. Field(reg, "speed") = 3
      BY <1>0, <2>0, <2>6, <3>1
    <3>3. t[2] = "speed" /\ t[3] = {2}
      BY <2>6 DEF Promises
    <3> QED
      BY <3>2, <3>3, OneLessIfValid DEF Now
  <2>7. CASE t[1] = "max"
    <3>1. Flags["speed"][7] = <<"max", 4>>
      BY DEF Flags
    <3>2. Field(reg, "speed") = 4
      BY <1>0, <2>0, <2>7, <3>1
    <3>3. t[2] = "speed" /\ t[3] = {3}
      BY <2>7 DEF Promises
    <3> QED
      BY <3>2, <3>3, OneLessIfValid DEF Now
  <2> QED
    BY <1>1, <2>1, <2>2, <2>3, <2>4, <2>5, <2>6, <2>7
<1>2. ASSUME t[1] \in {"nofake286", "fake286"}
      PROVE  Now[t[2]] \in t[3]
  <2>0. "fake286" \in DOMAIN Flags /\ DOMAIN Flags["fake286"] = 1 .. 2
    BY DEF Flags
  <2>1. CASE t[1] = "nofake286"
    <3>1. Flags["fake286"][1] = <<"nofake286", 1>>
      BY DEF Flags
    <3>2. Field(reg, "fake286") = 1
      BY <1>0, <2>0, <2>1, <3>1
    <3>3. t[2] = "fake286" /\ t[3] = {0}
      BY <2>1 DEF Promises
    <3> QED
      BY <3>2, <3>3, SecondOn DEF Now, Chosen
  <2>2. CASE t[1] = "fake286"
    <3>1. Flags["fake286"][2] = <<"fake286", 2>>
      BY DEF Flags
    <3>2. Field(reg, "fake286") = 2
      BY <1>0, <2>0, <2>2, <3>1
    <3>3. t[2] = "fake286" /\ t[3] = {1}
      BY <2>2 DEF Promises
    <3> QED
      BY <3>2, <3>3, SecondOn DEF Now, Chosen
  <2> QED
    BY <1>2, <2>1, <2>2
<1>3. ASSUME t[1] \in {"adlib", "sbfm", "noadlib"}
      PROVE  Now[t[2]] \in t[3]
  <2>0. "opl2" \in DOMAIN Flags /\ DOMAIN Flags["opl2"] = 1 .. 3
    BY DEF Flags
  <2>1. CASE t[1] = "adlib"
    <3>1. Flags["opl2"][1] = <<"adlib", 1>>
      BY DEF Flags
    <3>2. Field(reg, "opl2") = 1
      BY <1>0, <2>0, <2>1, <3>1
    <3>3. t[2] = "opl2" /\ t[3] = {0}
      BY <2>1 DEF Promises
    <3> QED
      BY <3>2, <3>3, OneLess DEF Now
  <2>2. CASE t[1] = "sbfm"
    <3>1. Flags["opl2"][2] = <<"sbfm", 2>>
      BY DEF Flags
    <3>2. Field(reg, "opl2") = 2
      BY <1>0, <2>0, <2>2, <3>1
    <3>3. t[2] = "opl2" /\ t[3] = {1}
      BY <2>2 DEF Promises
    <3> QED
      BY <3>2, <3>3, OneLess DEF Now
  <2>3. CASE t[1] = "noadlib"
    <3>1. Flags["opl2"][3] = <<"noadlib", 3>>
      BY DEF Flags
    <3>2. Field(reg, "opl2") = 3
      BY <1>0, <2>0, <2>3, <3>1
    <3>3. t[2] = "opl2" /\ t[3] = {2}
      BY <2>3 DEF Promises
    <3> QED
      BY <3>2, <3>3, OneLess DEF Now
  <2> QED
    BY <1>3, <2>1, <2>2, <2>3
<1>4. ASSUME t[1] \in {"cms", "nocms"}
      PROVE  Now[t[2]] \in t[3]
  <2>0. "cms" \in DOMAIN Flags /\ DOMAIN Flags["cms"] = 1 .. 2
    BY DEF Flags
  <2>1. CASE t[1] = "cms"
    <3>1. Flags["cms"][1] = <<"cms", 1>>
      BY DEF Flags
    <3>2. Field(reg, "cms") = 1
      BY <1>0, <2>0, <2>1, <3>1
    <3>3. t[2] = "audio" /\ t[3] = {0, 1}
      BY <2>1 DEF Promises
    <3> QED
      BY <3>2, <3>3, Audio DEF Now, Audio220, Sb, Cms
  <2>2. CASE t[1] = "nocms"
    <3>1. Flags["cms"][2] = <<"nocms", 2>>
      BY DEF Flags
    <3>2. Field(reg, "cms") = 2
      BY <1>0, <2>0, <2>2, <3>1
    <3>3. t[2] = "audio" /\ t[3] = {1, 2}
      BY <2>2 DEF Promises
    <3> QED
      BY <3>2, <3>3, Audio DEF Now, Audio220, Sb, Cms
  <2> QED
    BY <1>4, <2>1, <2>2
<1>5. ASSUME t[1] \in {"sb", "nosb"}
      PROVE  Now[t[2]] \in t[3]
  <2>0. "sb" \in DOMAIN Flags /\ DOMAIN Flags["sb"] = 1 .. 2
    BY DEF Flags
  <2>1. CASE t[1] = "sb"
    <3>1. Flags["sb"][1] = <<"sb", 1>>
      BY DEF Flags
    <3>2. Field(reg, "sb") = 1
      BY <1>0, <2>0, <2>1, <3>1
    <3>3. t[2] = "audio" /\ t[3] = SbMeans
      BY <2>1 DEF Promises
    <3>4. Now["audio"] = Audio220(Sb(reg, menu), Cms(reg, menu) /\ ~Sb(reg, menu))
      BY Audio DEF Now
    <3>5. Sb(reg, menu) <=> build.sb
      BY <3>2 DEF Sb, Machine
    <3>6. CASE build.sb
      BY <3>3, <3>4, <3>5, <3>6 DEF Audio220, SbMeans
    <3>7. CASE ~build.sb
      BY <3>3, <3>4, <3>5, <3>7 DEF Audio220, SbMeans
    <3> QED
      BY <3>6, <3>7
  <2>2. CASE t[1] = "nosb"
    <3>1. Flags["sb"][2] = <<"nosb", 2>>
      BY DEF Flags
    <3>2. Field(reg, "sb") = 2
      BY <1>0, <2>0, <2>2, <3>1
    <3>3. t[2] = "audio" /\ t[3] = {0, 2}
      BY <2>2 DEF Promises
    <3> QED
      BY <3>2, <3>3, Audio DEF Now, Audio220, Sb, Cms
  <2> QED
    BY <1>5, <2>1, <2>2
<1>6. ASSUME t[1] \in {"ems", "noems"}
      PROVE  Now[t[2]] \in t[3]
  <2>0. "ems" \in DOMAIN Flags /\ DOMAIN Flags["ems"] = 1 .. 2
    BY DEF Flags
  <2>1. CASE t[1] = "ems"
    <3>1. Flags["ems"][1] = <<"ems", 1>>
      BY DEF Flags
    <3>2. Field(reg, "ems") = 1
      BY <1>0, <2>0, <2>1, <3>1
    <3>3. t[2] = "ems" /\ t[3] = {1}
      BY <2>1 DEF Promises
    <3> QED
      BY <3>2, <3>3, FirstOn DEF Now, Chosen
  <2>2. CASE t[1] = "noems"
    <3>1. Flags["ems"][2] = <<"noems", 2>>
      BY DEF Flags
    <3>2. Field(reg, "ems") = 2
      BY <1>0, <2>0, <2>2, <3>1
    <3>3. t[2] = "ems" /\ t[3] = {0}
      BY <2>2 DEF Promises
    <3> QED
      BY <3>2, <3>3, FirstOn DEF Now, Chosen
  <2> QED
    BY <1>6, <2>1, <2>2
<1>7. ASSUME t[1] \in {"umb", "noumb"}
      PROVE  Now[t[2]] \in t[3]
  <2>0. "umb" \in DOMAIN Flags /\ DOMAIN Flags["umb"] = 1 .. 2
    BY DEF Flags
  <2>1. CASE t[1] = "umb"
    <3>1. Flags["umb"][1] = <<"umb", 1>>
      BY DEF Flags
    <3>2. Field(reg, "umb") = 1
      BY <1>0, <2>0, <2>1, <3>1
    <3>3. t[2] = "umb" /\ t[3] = {1}
      BY <2>1 DEF Promises
    <3> QED
      BY <3>2, <3>3, FirstOn DEF Now, Chosen
  <2>2. CASE t[1] = "noumb"
    <3>1. Flags["umb"][2] = <<"noumb", 2>>
      BY DEF Flags
    <3>2. Field(reg, "umb") = 2
      BY <1>0, <2>0, <2>2, <3>1
    <3>3. t[2] = "umb" /\ t[3] = {0}
      BY <2>2 DEF Promises
    <3> QED
      BY <3>2, <3>3, FirstOn DEF Now, Chosen
  <2> QED
    BY <1>7, <2>1, <2>2
<1>8. ASSUME t[1] \in {"noswap", "swap"}
      PROVE  Now[t[2]] \in t[3]
  <2>0. "swap" \in DOMAIN Flags /\ DOMAIN Flags["swap"] = 1 .. 2
    BY DEF Flags
  <2>1. CASE t[1] = "noswap"
    <3>1. Flags["swap"][1] = <<"noswap", 1>>
      BY DEF Flags
    <3>2. Field(reg, "swap") = 1
      BY <1>0, <2>0, <2>1, <3>1
    <3>3. t[2] = "swap" /\ t[3] = {0}
      BY <2>1 DEF Promises
    <3> QED
      BY <3>2, <3>3, SecondOn DEF Now, Chosen
  <2>2. CASE t[1] = "swap"
    <3>1. Flags["swap"][2] = <<"swap", 2>>
      BY DEF Flags
    <3>2. Field(reg, "swap") = 2
      BY <1>0, <2>0, <2>2, <3>1
    <3>3. t[2] = "swap" /\ t[3] = {1}
      BY <2>2 DEF Promises
    <3> QED
      BY <3>2, <3>3, SecondOn DEF Now, Chosen
  <2> QED
    BY <1>8, <2>1, <2>2
<1>9. ASSUME t[1] \in {"nojoysync", "joysync"}
      PROVE  Now[t[2]] \in t[3]
  <2>0. "joysync" \in DOMAIN Flags /\ DOMAIN Flags["joysync"] = 1 .. 2
    BY DEF Flags
  <2>1. CASE t[1] = "nojoysync"
    <3>1. Flags["joysync"][1] = <<"nojoysync", 1>>
      BY DEF Flags
    <3>2. Field(reg, "joysync") = 1
      BY <1>0, <2>0, <2>1, <3>1
    <3>3. t[2] = "joysync" /\ t[3] = {0}
      BY <2>1 DEF Promises
    <3> QED
      BY <3>2, <3>3, SecondOn DEF Now, Chosen
  <2>2. CASE t[1] = "joysync"
    <3>1. Flags["joysync"][2] = <<"joysync", 2>>
      BY DEF Flags
    <3>2. Field(reg, "joysync") = 2
      BY <1>0, <2>0, <2>2, <3>1
    <3>3. t[2] = "joysync" /\ t[3] = {1}
      BY <2>2 DEF Promises
    <3> QED
      BY <3>2, <3>3, SecondOn DEF Now, Chosen
  <2> QED
    BY <1>9, <2>1, <2>2
<1>10. ASSUME t[1] \in {"mt32", "gm"}
      PROVE  Now[t[2]] \in t[3]
  <2>0. "mt32" \in DOMAIN Flags /\ DOMAIN Flags["mt32"] = 1 .. 2
    BY DEF Flags
  <2>1. CASE t[1] = "mt32"
    <3>1. Flags["mt32"][1] = <<"mt32", 1>>
      BY DEF Flags
    <3>2. Field(reg, "mt32") = 1
      BY <1>0, <2>0, <2>1, <3>1
    <3>3. t[2] = "mt32" /\ t[3] = {0}
      BY <2>1 DEF Promises
    <3> QED
      BY <3>2, <3>3, SecondOn DEF Now, Chosen
  <2>2. CASE t[1] = "gm"
    <3>1. Flags["mt32"][2] = <<"gm", 2>>
      BY DEF Flags
    <3>2. Field(reg, "mt32") = 2
      BY <1>0, <2>0, <2>2, <3>1
    <3>3. t[2] = "mt32" /\ t[3] = {1}
      BY <2>2 DEF Promises
    <3> QED
      BY <3>2, <3>3, SecondOn DEF Now, Chosen
  <2> QED
    BY <1>10, <2>1, <2>2
<1>11. ASSUME t[1] \in {"mpu", "nompu"}
      PROVE  Now[t[2]] \in t[3]
  <2>0. "mpu" \in DOMAIN Flags /\ DOMAIN Flags["mpu"] = 1 .. 2
    BY DEF Flags
  <2>1. CASE t[1] = "mpu"
    <3>1. Flags["mpu"][1] = <<"mpu", 1>>
      BY DEF Flags
    <3>2. Field(reg, "mpu") = 1
      BY <1>0, <2>0, <2>1, <3>1
    <3>3. t[2] = "mpu" /\ t[3] = {1}
      BY <2>1 DEF Promises
    <3> QED
      BY <3>2, <3>3, FirstOn DEF Now, Chosen
  <2>2. CASE t[1] = "nompu"
    <3>1. Flags["mpu"][2] = <<"nompu", 2>>
      BY DEF Flags
    <3>2. Field(reg, "mpu") = 2
      BY <1>0, <2>0, <2>2, <3>1
    <3>3. t[2] = "mpu" /\ t[3] = {0}
      BY <2>2 DEF Promises
    <3> QED
      BY <3>2, <3>3, FirstOn DEF Now, Chosen
  <2> QED
    BY <1>11, <2>1, <2>2
<1>12. ASSUME t[1] \in {"tandy", "notandy"}
      PROVE  Now[t[2]] \in t[3]
  <2>0. "tandy" \in DOMAIN Flags /\ DOMAIN Flags["tandy"] = 1 .. 2
    BY DEF Flags
  <2>1. CASE t[1] = "tandy"
    <3>1. Flags["tandy"][1] = <<"tandy", 2>>
      BY DEF Flags
    <3>2. Field(reg, "tandy") = 2
      BY <1>0, <2>0, <2>1, <3>1
    <3>3. t[2] = "tandy" /\ t[3] = TandyMeans
      BY <2>1 DEF Promises
    <3>4. Now["tandy"] = IF build.tandy THEN Chosen(2, menu["tandy"], 2) ELSE 0
      BY <3>2, SecondOn DEF Now
    <3>5. CASE build.tandy
      BY <3>3, <3>4, <3>5 DEF Chosen, TandyMeans
    <3>6. CASE ~build.tandy
      BY <3>3, <3>4, <3>6 DEF TandyMeans
    <3> QED
      BY <3>5, <3>6
  <2>2. CASE t[1] = "notandy"
    <3>1. Flags["tandy"][2] = <<"notandy", 1>>
      BY DEF Flags
    <3>2. Field(reg, "tandy") = 1
      BY <1>0, <2>0, <2>2, <3>1
    <3>3. t[2] = "tandy" /\ t[3] = {0}
      BY <2>2 DEF Promises
    <3> QED
      BY <3>2, <3>3, SecondOn DEF Now, Chosen
  <2> QED
    BY <1>12, <2>1, <2>2
<1> QED
  BY <1>1, <1>2, <1>3, <1>4, <1>5, <1>6, <1>7, <1>8, <1>9, <1>10, <1>11, <1>12 DEF Promises

(* So is each word that comes with a choice or a number.                      *)
LEMMA ChoicesInForce ==
    ASSUME build \in Machine, menu \in Menu, NEW argv \in Seq(Argument), ~Refused(argv),
           ~Typed(argv, "reset"), Holding(reg, argv), NEW a \in ToSet(argv)
    PROVE  Holds(a, Now)
<1>1. PICK i \in DOMAIN argv : a = argv[i]
  BY DEF ToSet
<1>2. Typed(argv, a.w) /\ Opt(argv, a.w) = i
  BY <1>1, OptIs, EachIsMatched
<1>3. \A f \in {"joy1", "joy2", "sbirq", "hsync", "vsync", "crt"} : Field(reg, f) = Value(argv, f)
  BY DEF Holding, Legal
<1>4. ASSUME a.w \in {"joy1", "joy2"}
      PROVE  Now[a.w] = StickPromise[a.v]
  <2>1. /\ a.v \in {"analog", "digital", "off"}
        /\ Value(argv, a.w) = Picks[a.w][a.v]
    BY <1>1, <1>2, <1>4, ChoiceHasItsWay, PicksAre
  <2>2. Now[a.w] = IF Field(reg, a.w) = 0 THEN menu[a.w] ELSE Field(reg, a.w) - 1
    BY <1>4, OneLess DEF Now
  <2>3. Field(reg, a.w) = Picks[a.w][a.v]
    BY <1>3, <1>4, <2>1
  <2>4. /\ Picks[a.w]["analog"] = 1 /\ Picks[a.w]["digital"] = 2 /\ Picks[a.w]["off"] = 3
        /\ StickPromise["analog"] = 0 /\ StickPromise["digital"] = 1 /\ StickPromise["off"] = 2
    BY <1>4, PicksAre DEF StickPromise
  <2> QED
    BY <2>1, <2>2, <2>3, <2>4
<1>5. ASSUME a.w = "sbirq"
      PROVE  Now[a.w] = IF a.v = "auto" THEN menu[a.w] ELSE IF a.v = "5" THEN 0 ELSE 1
  <2>1. /\ a.v \in {"5", "7", "auto"}
        /\ Value(argv, "sbirq") = Picks["sbirq"][a.v]
    BY <1>1, <1>2, <1>5, ChoiceHasItsWay, PicksAre
  <2>2. Now["sbirq"] = IF Field(reg, "sbirq") \in 1 .. 2 THEN Field(reg, "sbirq") - 1
                       ELSE menu["sbirq"]
    BY OneLessIfValid DEF Now
  <2> QED
    BY <1>3, <1>5, <2>1, <2>2, PicksAre
<1>6. ASSUME a.w \in {"hsync", "vsync"}
      PROVE  Now[a.w] = IF a.v = "auto" \/ a.n = 0 THEN menu[a.w] ELSE a.n
  <2>1. Number(argv, a.w) = IF a.v = "auto" THEN 0 ELSE a.n
    BY <1>1, <1>2, <1>6, NumberHasItsWay DEF Limits
  <2>2. Field(reg, a.w) = Number(argv, a.w)
    BY <1>3, <1>6, NumericValues
  <2>3. Now[a.w] = IF Field(reg, a.w) = 0 THEN menu[a.w] ELSE Field(reg, a.w)
    BY <1>6, Widths DEF Now
  <2> QED
    BY <2>1, <2>2, <2>3
<1>7. ASSUME a.w \in {"hpos", "vpos"}
      PROVE  /\ Field(reg, "crt") = 128 + 16 * Number(argv, "vpos") + Number(argv, "hpos")
             /\ Number(argv, "hpos") \in 0 .. 15 /\ Number(argv, "vpos") \in 0 .. 7
             /\ Number(argv, a.w) = a.n
  <2>1. Field(reg, "crt") = 128 + 16 * Number(argv, "vpos") + Number(argv, "hpos")
    BY <1>2, <1>3, <1>7, NumericValues
  <2>2. DOMAIN Limits = {"hpos", "vpos", "hsync", "vsync"}
        /\ Limits["hpos"] = 15 /\ Limits["vpos"] = 7
    BY DEF Limits
  <2>3. Number(argv, "hpos") \in 0 .. 15 /\ Number(argv, "vpos") \in 0 .. 7
    BY <2>2, NumberHasItsWay
  <2>4. Number(argv, a.w) = a.n
    BY <1>1, <1>2, <1>7, <2>2, NumberHasItsWay
  <2> QED
    BY <2>1, <2>3, <2>4
<1>8. ASSUME NEW h \in 0 .. 15, NEW v \in 0 .. 7, Field(reg, "crt") = 128 + 16 * v + h
      PROVE  Now["crtH"] = h /\ Now["crtV"] = v
  <2>1. Field(reg, "crt") >= 128
    BY <1>8
  <2>2. Get(128 + 16 * v + h, 1, 16) = h /\ Get(128 + 16 * v + h, 16, 8) = v
    BY DEF Get
  <2> QED
    BY <1>8, <2>1, <2>2, Position DEF Now
<1>9. a.w = "hpos" => Now["crtH"] = a.n
  BY <1>7, <1>8
<1>10. a.w = "vpos" => Now["crtV"] = a.n
  BY <1>7, <1>8
<1> QED
  BY <1>4, <1>5, <1>6, <1>9, <1>10 DEF Holds

(* What no word concerns is left to the menu.                                 *)
LEMMA UnnamedFollowsMenu ==
    ASSUME build \in Machine, menu \in Menu, NEW f \in DOMAIN menu,
           f \in DOMAIN Legal => Field(reg, f) = 0,
           f \in {"crtH", "crtV"} => Field(reg, "crt") = 0,
           f = "audio" => Field(reg, "sb") = 0 /\ Field(reg, "cms") = 0
    PROVE  Now[f] = Osd[f]
<1>1. CASE f \in {"ems", "umb", "mpu"}
  BY <1>1, FirstOn, OsdIs DEF Now, Osd, Chosen, Legal
<1>2. CASE f \in {"fake286", "swap", "joysync", "mt32", "tandy"}
  BY <1>2, SecondOn, OsdIs DEF Now, Osd, Chosen, Legal
<1>3. CASE f \in {"opl2", "joy1", "joy2"}
  BY <1>3, OneLess, OsdIs DEF Now, Osd, Legal
<1>4. CASE f \in {"speed", "sbirq"}
  BY <1>4, OneLessIfValid, OsdIs DEF Now, Osd, Legal
<1>5. CASE f \in {"crtH", "crtV"}
  BY <1>5, Position, OsdIs DEF Now, Osd
<1>6. CASE f \in {"vsync", "hsync"}
  BY <1>6, Widths, OsdIs DEF Now, Osd, Legal
<1>7. CASE f = "audio"
  <2>1. Now["audio"] = Audio220(Sb(reg, menu), Cms(reg, menu) /\ ~Sb(reg, menu))
    BY Audio DEF Now
  <2>2. Sb(reg, menu) <=> OsdSb(menu)
    BY <1>7 DEF Sb, OsdSb, Machine
  <2>3. Cms(reg, menu) <=> OsdCms(menu)
    BY <1>7 DEF Cms
  <2>4. Osd["audio"] = Audio220(OsdSb(menu), OsdCms(menu))
    BY OsdIs DEF Osd
  <2>5. Audio220(Sb(reg, menu), Cms(reg, menu) /\ ~Sb(reg, menu))
            = Audio220(OsdSb(menu), OsdCms(menu))
    BY <2>2, <2>3 DEF Audio220
  <2> QED
    BY <1>7, <2>1, <2>4, <2>5
<1> QED
  BY <1>1, <1>2, <1>3, <1>4, <1>5, <1>6, <1>7, MenuDomain

(* Each word of a group has a promise, about the setting of its group.        *)
SettingOf(f) == IF f \in {"cms", "sb"} THEN "audio" ELSE f

LEMMA EachIsPromised ==
    ASSUME NEW f \in DOMAIN Flags, NEW k \in DOMAIN Flags[f]
    PROVE  \E t \in Promises : t[1] = Flags[f][k][1] /\ t[2] = SettingOf(f)
<1>1. CASE f = "speed"
  <2>0. SettingOf(f) = "speed" /\ DOMAIN Flags["speed"] = 1 .. 7
    BY <1>1 DEF SettingOf, Flags
  <2>1. CASE k = 1
    <3>1. Flags["speed"][1][1] = "4.77"
      BY DEF Flags
    <3>2. <<"4.77", "speed", {0}>> \in Promises
      BY DEF Promises
    <3> QED
      BY <1>1, <2>0, <2>1, <3>1, <3>2
  <2>2. CASE k = 2
    <3>1. Flags["speed"][2][1] = "477"
      BY DEF Flags
    <3>2. <<"477", "speed", {0}>> \in Promises
      BY DEF Promises
    <3> QED
      BY <1>1, <2>0, <2>2, <3>1, <3>2
  <2>3. CASE k = 3
    <3>1. Flags["speed"][3][1] = "7.16"
      BY DEF Flags
    <3>2. <<"7.16", "speed", {1}>> \in Promises
      BY DEF Promises
    <3> QED
      BY <1>1, <2>0, <2>3, <3>1, <3>2
  <2>4. CASE k = 4
    <3>1. Flags["speed"][4][1] = "716"
      BY DEF Flags
    <3>2. <<"716", "speed", {1}>> \in Promises
      BY DEF Promises
    <3> QED
      BY <1>1, <2>0, <2>4, <3>1, <3>2
  <2>5. CASE k = 5
    <3>1. Flags["speed"][5][1] = "9.54"
      BY DEF Flags
    <3>2. <<"9.54", "speed", {2}>> \in Promises
      BY DEF Promises
    <3> QED
      BY <1>1, <2>0, <2>5, <3>1, <3>2
  <2>6. CASE k = 6
    <3>1. Flags["speed"][6][1] = "954"
      BY DEF Flags
    <3>2. <<"954", "speed", {2}>> \in Promises
      BY DEF Promises
    <3> QED
      BY <1>1, <2>0, <2>6, <3>1, <3>2
  <2>7. CASE k = 7
    <3>1. Flags["speed"][7][1] = "max"
      BY DEF Flags
    <3>2. <<"max", "speed", {3}>> \in Promises
      BY DEF Promises
    <3> QED
      BY <1>1, <2>0, <2>7, <3>1, <3>2
  <2> QED
    BY <1>1, <2>0, <2>1, <2>2, <2>3, <2>4, <2>5, <2>6, <2>7
<1>2. CASE f = "fake286"
  <2>0. SettingOf(f) = "fake286" /\ DOMAIN Flags["fake286"] = 1 .. 2
    BY <1>2 DEF SettingOf, Flags
  <2>1. CASE k = 1
    <3>1. Flags["fake286"][1][1] = "nofake286"
      BY DEF Flags
    <3>2. <<"nofake286", "fake286", {0}>> \in Promises
      BY DEF Promises
    <3> QED
      BY <1>2, <2>0, <2>1, <3>1, <3>2
  <2>2. CASE k = 2
    <3>1. Flags["fake286"][2][1] = "fake286"
      BY DEF Flags
    <3>2. <<"fake286", "fake286", {1}>> \in Promises
      BY DEF Promises
    <3> QED
      BY <1>2, <2>0, <2>2, <3>1, <3>2
  <2> QED
    BY <1>2, <2>0, <2>1, <2>2
<1>3. CASE f = "opl2"
  <2>0. SettingOf(f) = "opl2" /\ DOMAIN Flags["opl2"] = 1 .. 3
    BY <1>3 DEF SettingOf, Flags
  <2>1. CASE k = 1
    <3>1. Flags["opl2"][1][1] = "adlib"
      BY DEF Flags
    <3>2. <<"adlib", "opl2", {0}>> \in Promises
      BY DEF Promises
    <3> QED
      BY <1>3, <2>0, <2>1, <3>1, <3>2
  <2>2. CASE k = 2
    <3>1. Flags["opl2"][2][1] = "sbfm"
      BY DEF Flags
    <3>2. <<"sbfm", "opl2", {1}>> \in Promises
      BY DEF Promises
    <3> QED
      BY <1>3, <2>0, <2>2, <3>1, <3>2
  <2>3. CASE k = 3
    <3>1. Flags["opl2"][3][1] = "noadlib"
      BY DEF Flags
    <3>2. <<"noadlib", "opl2", {2}>> \in Promises
      BY DEF Promises
    <3> QED
      BY <1>3, <2>0, <2>3, <3>1, <3>2
  <2> QED
    BY <1>3, <2>0, <2>1, <2>2, <2>3
<1>4. CASE f = "cms"
  <2>0. SettingOf(f) = "audio" /\ DOMAIN Flags["cms"] = 1 .. 2
    BY <1>4 DEF SettingOf, Flags
  <2>1. CASE k = 1
    <3>1. Flags["cms"][1][1] = "cms"
      BY DEF Flags
    <3>2. <<"cms", "audio", {0, 1}>> \in Promises
      BY DEF Promises
    <3> QED
      BY <1>4, <2>0, <2>1, <3>1, <3>2
  <2>2. CASE k = 2
    <3>1. Flags["cms"][2][1] = "nocms"
      BY DEF Flags
    <3>2. <<"nocms", "audio", {1, 2}>> \in Promises
      BY DEF Promises
    <3> QED
      BY <1>4, <2>0, <2>2, <3>1, <3>2
  <2> QED
    BY <1>4, <2>0, <2>1, <2>2
<1>5. CASE f = "sb"
  <2>0. SettingOf(f) = "audio" /\ DOMAIN Flags["sb"] = 1 .. 2
    BY <1>5 DEF SettingOf, Flags
  <2>1. CASE k = 1
    <3>1. Flags["sb"][1][1] = "sb"
      BY DEF Flags
    <3>2. <<"sb", "audio", SbMeans>> \in Promises
      BY DEF Promises
    <3> QED
      BY <1>5, <2>0, <2>1, <3>1, <3>2
  <2>2. CASE k = 2
    <3>1. Flags["sb"][2][1] = "nosb"
      BY DEF Flags
    <3>2. <<"nosb", "audio", {0, 2}>> \in Promises
      BY DEF Promises
    <3> QED
      BY <1>5, <2>0, <2>2, <3>1, <3>2
  <2> QED
    BY <1>5, <2>0, <2>1, <2>2
<1>6. CASE f = "ems"
  <2>0. SettingOf(f) = "ems" /\ DOMAIN Flags["ems"] = 1 .. 2
    BY <1>6 DEF SettingOf, Flags
  <2>1. CASE k = 1
    <3>1. Flags["ems"][1][1] = "ems"
      BY DEF Flags
    <3>2. <<"ems", "ems", {1}>> \in Promises
      BY DEF Promises
    <3> QED
      BY <1>6, <2>0, <2>1, <3>1, <3>2
  <2>2. CASE k = 2
    <3>1. Flags["ems"][2][1] = "noems"
      BY DEF Flags
    <3>2. <<"noems", "ems", {0}>> \in Promises
      BY DEF Promises
    <3> QED
      BY <1>6, <2>0, <2>2, <3>1, <3>2
  <2> QED
    BY <1>6, <2>0, <2>1, <2>2
<1>7. CASE f = "umb"
  <2>0. SettingOf(f) = "umb" /\ DOMAIN Flags["umb"] = 1 .. 2
    BY <1>7 DEF SettingOf, Flags
  <2>1. CASE k = 1
    <3>1. Flags["umb"][1][1] = "umb"
      BY DEF Flags
    <3>2. <<"umb", "umb", {1}>> \in Promises
      BY DEF Promises
    <3> QED
      BY <1>7, <2>0, <2>1, <3>1, <3>2
  <2>2. CASE k = 2
    <3>1. Flags["umb"][2][1] = "noumb"
      BY DEF Flags
    <3>2. <<"noumb", "umb", {0}>> \in Promises
      BY DEF Promises
    <3> QED
      BY <1>7, <2>0, <2>2, <3>1, <3>2
  <2> QED
    BY <1>7, <2>0, <2>1, <2>2
<1>8. CASE f = "swap"
  <2>0. SettingOf(f) = "swap" /\ DOMAIN Flags["swap"] = 1 .. 2
    BY <1>8 DEF SettingOf, Flags
  <2>1. CASE k = 1
    <3>1. Flags["swap"][1][1] = "noswap"
      BY DEF Flags
    <3>2. <<"noswap", "swap", {0}>> \in Promises
      BY DEF Promises
    <3> QED
      BY <1>8, <2>0, <2>1, <3>1, <3>2
  <2>2. CASE k = 2
    <3>1. Flags["swap"][2][1] = "swap"
      BY DEF Flags
    <3>2. <<"swap", "swap", {1}>> \in Promises
      BY DEF Promises
    <3> QED
      BY <1>8, <2>0, <2>2, <3>1, <3>2
  <2> QED
    BY <1>8, <2>0, <2>1, <2>2
<1>9. CASE f = "joysync"
  <2>0. SettingOf(f) = "joysync" /\ DOMAIN Flags["joysync"] = 1 .. 2
    BY <1>9 DEF SettingOf, Flags
  <2>1. CASE k = 1
    <3>1. Flags["joysync"][1][1] = "nojoysync"
      BY DEF Flags
    <3>2. <<"nojoysync", "joysync", {0}>> \in Promises
      BY DEF Promises
    <3> QED
      BY <1>9, <2>0, <2>1, <3>1, <3>2
  <2>2. CASE k = 2
    <3>1. Flags["joysync"][2][1] = "joysync"
      BY DEF Flags
    <3>2. <<"joysync", "joysync", {1}>> \in Promises
      BY DEF Promises
    <3> QED
      BY <1>9, <2>0, <2>2, <3>1, <3>2
  <2> QED
    BY <1>9, <2>0, <2>1, <2>2
<1>10. CASE f = "mt32"
  <2>0. SettingOf(f) = "mt32" /\ DOMAIN Flags["mt32"] = 1 .. 2
    BY <1>10 DEF SettingOf, Flags
  <2>1. CASE k = 1
    <3>1. Flags["mt32"][1][1] = "mt32"
      BY DEF Flags
    <3>2. <<"mt32", "mt32", {0}>> \in Promises
      BY DEF Promises
    <3> QED
      BY <1>10, <2>0, <2>1, <3>1, <3>2
  <2>2. CASE k = 2
    <3>1. Flags["mt32"][2][1] = "gm"
      BY DEF Flags
    <3>2. <<"gm", "mt32", {1}>> \in Promises
      BY DEF Promises
    <3> QED
      BY <1>10, <2>0, <2>2, <3>1, <3>2
  <2> QED
    BY <1>10, <2>0, <2>1, <2>2
<1>11. CASE f = "mpu"
  <2>0. SettingOf(f) = "mpu" /\ DOMAIN Flags["mpu"] = 1 .. 2
    BY <1>11 DEF SettingOf, Flags
  <2>1. CASE k = 1
    <3>1. Flags["mpu"][1][1] = "mpu"
      BY DEF Flags
    <3>2. <<"mpu", "mpu", {1}>> \in Promises
      BY DEF Promises
    <3> QED
      BY <1>11, <2>0, <2>1, <3>1, <3>2
  <2>2. CASE k = 2
    <3>1. Flags["mpu"][2][1] = "nompu"
      BY DEF Flags
    <3>2. <<"nompu", "mpu", {0}>> \in Promises
      BY DEF Promises
    <3> QED
      BY <1>11, <2>0, <2>2, <3>1, <3>2
  <2> QED
    BY <1>11, <2>0, <2>1, <2>2
<1>12. CASE f = "tandy"
  <2>0. SettingOf(f) = "tandy" /\ DOMAIN Flags["tandy"] = 1 .. 2
    BY <1>12 DEF SettingOf, Flags
  <2>1. CASE k = 1
    <3>1. Flags["tandy"][1][1] = "tandy"
      BY DEF Flags
    <3>2. <<"tandy", "tandy", TandyMeans>> \in Promises
      BY DEF Promises
    <3> QED
      BY <1>12, <2>0, <2>1, <3>1, <3>2
  <2>2. CASE k = 2
    <3>1. Flags["tandy"][2][1] = "notandy"
      BY DEF Flags
    <3>2. <<"notandy", "tandy", {0}>> \in Promises
      BY DEF Promises
    <3> QED
      BY <1>12, <2>0, <2>2, <3>1, <3>2
  <2> QED
    BY <1>12, <2>0, <2>1, <2>2
<1> QED
  BY <1>1, <1>2, <1>3, <1>4, <1>5, <1>6, <1>7, <1>8, <1>9, <1>10, <1>11, <1>12 DEF Flags

(* Nothing that no word of the command line concerns is overridden.           *)
LEMMA RestIsLeft ==
    ASSUME build \in Machine, menu \in Menu, NEW argv, Sound(argv), Holding(reg, argv),
           NEW f \in DOMAIN menu,
           ~Typed(argv, "reset") =>
               f \notin UNION {Concerns(a, Promises) : a \in ToSet(argv)}
    PROVE  Now[f] = Osd[f]
<1>1. CASE Typed(argv, "reset")
  <2>1. \A g \in DOMAIN Legal : Field(reg, g) = 0
    BY <1>1 DEF Holding, Value
  <2> QED
    BY <2>1, UnnamedFollowsMenu DEF Legal
<1>2. CASE ~Typed(argv, "reset")
  <2>1. argv \in Seq(Argument) /\ ~Refused(argv)
    BY <1>2 DEF Sound
  <2>2. ASSUME NEW w, Typed(argv, w)
        PROVE  \E a \in ToSet(argv) : a.w = w
    BY <2>1, <2>2, OptIs DEF ToSet
  <2>3. \A a \in ToSet(argv) : f \notin Concerns(a, Promises)
    BY <1>2
  <2>4. ASSUME NEW g \in DOMAIN Flags, f = SettingOf(g)
        PROVE  Field(reg, g) = 0
    <3>1. ASSUME NEW k \in DOMAIN Flags[g], Typed(argv, Flags[g][k][1])
          PROVE  FALSE
      <4>1. PICK t \in Promises : t[1] = Flags[g][k][1] /\ t[2] = f
        BY <2>4, EachIsPromised
      <4>2. PICK a \in ToSet(argv) : a.w = t[1]
        BY <2>2, <3>1, <4>1
      <4>3. f \in Concerns(a, Promises)
        BY <4>1, <4>2 DEF Concerns
      <4> QED
        BY <2>3, <4>3
    <3>2. Value(argv, g) = 0
      BY <2>1, <3>1, NoWordNoValue
    <3>3. g \in DOMAIN Legal
      BY DEF Flags, Legal
    <3> QED
      BY <3>2, <3>3 DEF Holding
  <2>5. ASSUME f \in {"joy1", "joy2", "sbirq", "hsync", "vsync"}
        PROVE  Field(reg, f) = 0
    <3>1. ~Typed(argv, f)
      <4>1. f \in Settings
        BY <2>5 DEF Settings, Wires
      <4> QED
        BY <2>2, <2>3, <2>5, <4>1 DEF Concerns
    <3>2. f \in DOMAIN Legal
      BY <2>5 DEF Legal
    <3>3. CASE f \in {"joy1", "joy2", "sbirq"}
      BY <1>2, <2>1, <3>1, <3>2, <3>3, ChoiceHasItsWay, PicksAre DEF Holding
    <3>4. CASE f \in {"hsync", "vsync"}
      BY <1>2, <2>1, <3>1, <3>2, <3>4, NumericValues, NumberHasItsWay DEF Holding, Limits
    <3> QED
      BY <2>5, <3>3, <3>4
  <2>6. ASSUME f \in {"crtH", "crtV"}
        PROVE  Field(reg, "crt") = 0
    <3>1. ~Typed(argv, "hpos") /\ ~Typed(argv, "vpos")
      BY <2>2, <2>3, <2>6 DEF Concerns
    <3>2. "crt" \in DOMAIN Legal
      BY DEF Legal
    <3> QED
      BY <1>2, <2>1, <3>1, <3>2, NumericValues DEF Holding
  <2>7. f = "audio" => Field(reg, "sb") = 0 /\ Field(reg, "cms") = 0
    BY <2>4 DEF Flags, SettingOf
  <2>8. f \in DOMAIN Flags /\ f \notin {"cms", "sb"} => Field(reg, f) = 0
    BY <2>4 DEF SettingOf
  <2>9. f \in DOMAIN Legal => Field(reg, f) = 0
    <3>1. f \in DOMAIN Legal =>
              \/ f \in DOMAIN Flags /\ f \notin {"cms", "sb"}
              \/ f \in {"joy1", "joy2", "sbirq", "hsync", "vsync"}
      BY MenuDomain DEF Flags, Legal
    <3> QED
      BY <2>5, <2>8, <3>1
  <2> QED
    BY <2>6, <2>7, <2>9, UnnamedFollowsMenu
<1> QED
  BY <1>1, <1>2

-----------------------------------------------------------------------------
(* The inductive invariant.  A register holds 0 or what an accepted command   *)
(* line puts in it, VGA 13h+ apart; while a run is writing, the registers     *)
(* behind it hold what it says; when it has ended they all do, and so they    *)
(* stay until the next; the status bytes read say what is so, unless the menu *)
(* was changed since.                                                         *)
TypeOK ==
    /\ build \in Machines /\ menu \in Menus
    /\ reg \in [Registers -> 0 .. 255]

BytesOfLines ==
    /\ reg["vid"] \in {0, 2}
    /\ \A p \in Registers \ {"vid"} :
           reg[p] = 0 \/ \E argv \in Accepted : reg[p] = Byte(argv, p)

Written(r, argv, k) == \A i \in 1 .. k : r[OutPorts(argv)[i]] = Byte(argv, OutPorts(argv)[i])
From(argv, k) == SubSeq(Writes(argv), k, Len(OutPorts(argv)))

Underway ==
    left # <<>> =>
      /\ cmd \in Accepted /\ last = <<>> /\ seen = <<>> /\ shown = NotShown
      /\ \E k \in 1 .. Len(OutPorts(cmd)) : left = From(cmd, k) /\ Written(reg, cmd, k - 1)

Ended == last # <<>> =>
    /\ last \in Accepted
    /\ \A p \in Registers \ {"vid"} : reg[p] = Byte(last, p)

StatusRead == seen # <<>> =>
    /\ shown = NotShown
    /\ ~torn => seen = [i \in 1 .. 5 |-> StatusByte(i)]

IInv == TypeOK /\ BytesOfLines /\ Underway /\ Ended /\ StatusRead /\ StatusTellsTheTruth

-----------------------------------------------------------------------------
(* The registers, and what is written to them.                                *)
LEMMA PortsAre == ToSet(Ports) = Registers
<1>1. DOMAIN Ports = 1 .. 8
  BY DEF Ports
<1>2. /\ Ports[1] = "cpu" /\ Ports[2] = "exp" /\ Ports[3] = "vid" /\ Ports[4] = "inp"
      /\ Ports[5] = "midi" /\ Ports[6] = "exp2" /\ Ports[7] = "crt" /\ Ports[8] = "sync"
  BY DEF Ports
<1> QED
  BY <1>1, <1>2 DEF ToSet, Registers

LEMMA AcceptedAre ==
    ASSUME NEW argv \in Accepted
    PROVE  argv \in CommandLines /\ argv # <<>> /\ Sound(argv) /\ argv \in Seq(Argument)
BY CommandLinesAssumption DEF Accepted, Sound

LEMMA BytesAre ==
    ASSUME NEW argv, Sound(argv), NEW p \in Registers
    PROVE  /\ Byte(argv, p) \in 0 .. 255
           /\ p = "vid" => Byte(argv, p) = 0
<1>1. CASE p = "vid"
  <2>1. Byte(argv, "vid") = 0
    BY DEF Byte
  <2> QED
    BY <1>1, <2>1
<1>2. CASE p # "vid"
  <2>1. \E f \in DOMAIN Legal : Wires[f][1] = p
    <3>1. /\ Wires["speed"][1] = "cpu" /\ Wires["ems"][1] = "exp" /\ Wires["swap"][1] = "inp"
          /\ Wires["mpu"][1] = "midi" /\ Wires["tandy"][1] = "exp2" /\ Wires["crt"][1] = "crt"
          /\ Wires["vsync"][1] = "sync"
      BY DEF Wires
    <3>2. {"speed", "ems", "swap", "mpu", "tandy", "crt", "vsync"} \subseteq DOMAIN Legal
      BY DEF Legal
    <3> QED
      BY <1>2, <3>1, <3>2 DEF Registers
  <2> QED
    BY <1>2, <2>1, BytesHold
<1> QED
  BY <1>1, <1>2

LEMMA OutPortsAre ==
    ASSUME NEW argv
    PROVE  /\ OutPorts(argv) \in Seq(Registers)
           /\ Len(OutPorts(argv)) \in Nat \ {0}
           /\ DOMAIN OutPorts(argv) = 1 .. Len(OutPorts(argv))
           /\ \A p \in Registers \ {"vid"} :
                  \E i \in 1 .. Len(OutPorts(argv)) : OutPorts(argv)[i] = p
           /\ IF Typed(argv, "reset")
              THEN \E i \in 1 .. Len(OutPorts(argv)) : OutPorts(argv)[i] = "vid"
              ELSE \A i \in 1 .. Len(OutPorts(argv)) : OutPorts(argv)[i] # "vid"
<1>1. CASE Typed(argv, "reset")
  <2>1. OutPorts(argv) = Ports
    BY <1>1 DEF OutPorts
  <2>2. /\ Ports \in Seq(Registers) /\ Len(Ports) = 8 /\ DOMAIN Ports = 1 .. 8
        /\ Ports[1] = "cpu" /\ Ports[2] = "exp" /\ Ports[3] = "vid" /\ Ports[4] = "inp"
        /\ Ports[5] = "midi" /\ Ports[6] = "exp2" /\ Ports[7] = "crt" /\ Ports[8] = "sync"
    BY DEF Ports, Registers
  <2> QED
    BY <1>1, <2>1, <2>2 DEF Registers
<1>2. CASE ~Typed(argv, "reset")
  <2> DEFINE most == <<"cpu", "exp", "inp", "midi", "exp2", "crt", "sync">>
  <2>1. OutPorts(argv) = most
    BY <1>2 DEF OutPorts
  <2>2. /\ most \in Seq(Registers) /\ Len(most) = 7 /\ DOMAIN most = 1 .. 7
        /\ most[1] = "cpu" /\ most[2] = "exp" /\ most[3] = "inp" /\ most[4] = "midi"
        /\ most[5] = "exp2" /\ most[6] = "crt" /\ most[7] = "sync"
    BY DEF Registers
  <2> HIDE DEF most
  <2> QED
    BY <1>2, <2>1, <2>2 DEF Registers
<1> QED
  BY <1>1, <1>2

LEMMA WritesAre ==
    ASSUME NEW argv, Sound(argv)
    PROVE  LET w == Writes(argv)
               n == Len(OutPorts(argv))
           IN  /\ w \in Seq(Registers \X (0 .. 255)) /\ Len(w) = n
               /\ w # <<>> /\ w = From(argv, 1)
               /\ \A i \in 1 .. n : w[i] = <<OutPorts(argv)[i], Byte(argv, OutPorts(argv)[i])>>
<1> DEFINE w == Writes(argv)
           n == Len(OutPorts(argv))
<1>1. n \in Nat \ {0} /\ DOMAIN OutPorts(argv) = 1 .. n
      /\ \A i \in 1 .. n : OutPorts(argv)[i] \in Registers
  BY OutPortsAre
<1>2. w = [i \in 1 .. n |-> <<OutPorts(argv)[i], Byte(argv, OutPorts(argv)[i])>>]
  BY <1>1 DEF Writes
<1>3. \A i \in 1 .. n : <<OutPorts(argv)[i], Byte(argv, OutPorts(argv)[i])>>
                           \in Registers \X (0 .. 255)
  BY <1>1, BytesAre
<1> HIDE DEF n, w
<1>4. w \in Seq(Registers \X (0 .. 255)) /\ Len(w) = n /\ w # <<>>
  <2> DEFINE T == Registers \X (0 .. 255)
             v(i) == <<OutPorts(argv)[i], Byte(argv, OutPorts(argv)[i])>>
  <2>1. \A i \in 1 .. n : v(i) \in T
    BY <1>3
  <2>2. w = [i \in 1 .. n |-> v(i)]
    BY <1>2
  <2> HIDE DEF T, v
  <2>3. w \in Seq(T) /\ Len(w) = n
    BY <1>1, <2>1, <2>2
  <2>4. w # <<>>
    BY <1>1, <2>3
  <2> QED
    BY <2>3, <2>4 DEF T
<1>5. SubSeq(w, 1, n) = w
  BY <1>4, SubSeqFull
<1>6. From(argv, 1) = w
  BY <1>5 DEF From, w, n
<1> QED
  BY <1>2, <1>4, <1>6 DEF w, n

(* The writes still to make shrink from the front.                            *)
LEMMA FromShrinks ==
    ASSUME NEW argv, Sound(argv), NEW k \in 1 .. Len(OutPorts(argv))
    PROVE  LET n == Len(OutPorts(argv))
               s == From(argv, k)
           IN  /\ s[1] = <<OutPorts(argv)[k], Byte(argv, OutPorts(argv)[k])>>
               /\ Len(s) = n - k + 1 /\ s # <<>>
               /\ k = n => Tail(s) = <<>>
               /\ k < n => Tail(s) = From(argv, k + 1) /\ Tail(s) # <<>>
<1> DEFINE w == Writes(argv)
           n == Len(OutPorts(argv))
           T == Registers \X (0 .. 255)
<1>1. n \in Nat \ {0}
  BY OutPortsAre
<1>2. w \in Seq(T) /\ Len(w) = n
      /\ \A i \in 1 .. n : w[i] = <<OutPorts(argv)[i], Byte(argv, OutPorts(argv)[i])>>
  BY WritesAre
<1>3. From(argv, k) = SubSeq(w, k, n) /\ From(argv, k + 1) = SubSeq(w, k + 1, n)
  BY DEF From
<1> HIDE DEF n, w, T
<1>4. ASSUME NEW j \in 1 .. n
      PROVE  /\ Len(SubSeq(w, j, n)) = n - j + 1
             /\ SubSeq(w, j, n)[1] = w[j]
             /\ SubSeq(w, j, n) # <<>>
  <2>1. \A i \in j .. n : w[i] \in T
    BY <1>1, <1>2
  <2>2. /\ Len(SubSeq(w, j, n)) = IF j <= n THEN n - j + 1 ELSE 0
        /\ \A i \in 1 .. n - j + 1 : SubSeq(w, j, n)[i] = w[j + i - 1]
    BY <1>1, <2>1, SubSeqProperties
  <2> DEFINE s == SubSeq(w, j, n)
  <2>3. Len(s) = n - j + 1 /\ s[1] = w[j]
    BY <1>1, <2>2
  <2> HIDE DEF s
  <2>4. Len(s) # 0
    BY <1>1, <2>3
  <2>5. s # <<>>
    BY <2>4
  <2> QED
    BY <2>3, <2>5 DEF s
<1>5. Tail(SubSeq(w, k, n)) = SubSeq(w, k + 1, n)
  <2>1. k \in 1 .. Len(w) /\ n \in k .. Len(w)
    BY <1>1, <1>2 DEF n
  <2> QED
    BY <1>2, <2>1, HeadTailOfSubSeq
<1>6. k \in 1 .. n
  BY DEF n
<1>7. k = n => SubSeq(w, k + 1, n) = <<>>
  BY <1>1, SubSeqEmpty
<1>8. /\ From(argv, k)[1] = w[k]
      /\ Len(From(argv, k)) = n - k + 1 /\ From(argv, k) # <<>>
  BY <1>3, <1>4, <1>6
<1>9. Tail(From(argv, k)) = SubSeq(w, k + 1, n)
  BY <1>3, <1>5
<1>10. k < n => Tail(From(argv, k)) = From(argv, k + 1) /\ From(argv, k + 1) # <<>>
  <2>1. k < n => k + 1 \in 1 .. n
    BY <1>1, <1>6
  <2>2. k < n => SubSeq(w, k + 1, n) # <<>>
    BY <1>4, <2>1
  <2> QED
    BY <1>3, <1>9, <2>2
<1>11. w[k] = <<OutPorts(argv)[k], Byte(argv, OutPorts(argv)[k])>>
  BY <1>2, <1>6
<1> QED
  BY <1>7, <1>8, <1>9, <1>10, <1>11 DEF n
-----------------------------------------------------------------------------
(* What the invariant says of the fields.                                     *)
LEMMA WiresAre ==
    /\ DOMAIN Wires = DOMAIN Legal \cup {"vga13"} /\ "vga13" \notin DOMAIN Legal
    /\ \A f \in DOMAIN Legal : Wires[f][1] \in Registers \ {"vid"}
    /\ Wires["vga13"][1] = "vid" /\ Wires["vga13"][2] = 1 /\ Wires["vga13"][3] = 4
    /\ \A f \in DOMAIN Wires : Wires[f][2] \in Nat \ {0} /\ Wires[f][3] \in 1 .. 256
    /\ \A f \in DOMAIN Legal : 0 \in Legal[f]
<1>1. DOMAIN Wires = DOMAIN Legal \cup {"vga13"} /\ "vga13" \notin DOMAIN Legal
  BY DEF Wires, Legal
<1>2. \A f \in DOMAIN Legal : Wires[f][1] \in Registers \ {"vid"}
  BY DEF Wires, Legal, Registers
<1>3. Wires["vga13"][1] = "vid" /\ Wires["vga13"][2] = 1 /\ Wires["vga13"][3] = 4
  BY DEF Wires
<1>4. \A f \in DOMAIN Wires : Wires[f][2] \in Nat \ {0} /\ Wires[f][3] \in 1 .. 256
  BY DEF Wires
<1>5. \A f \in DOMAIN Legal : 0 \in Legal[f]
  BY DEF Legal
<1> QED
  BY <1>1, <1>2, <1>3, <1>4, <1>5

LEMMA ZeroIsZero ==
    ASSUME NEW unit \in Nat \ {0}, NEW range \in 1 .. 256
    PROVE  Get(0, unit, range) = 0
<1>1. 0 \div unit = 0
  OBVIOUS
<1> QED
  BY <1>1 DEF Get

LEMMA LinesGiveLegalFields ==
    ASSUME TypeOK, BytesOfLines
    PROVE  FieldsLegal(reg)
<1> SUFFICES ASSUME NEW f \in DOMAIN Legal
             PROVE  Field(reg, f) \in Legal[f]
  BY DEF FieldsLegal
<1>1. Wires[f][1] \in Registers \ {"vid"}
  BY WiresAre
<1>2. CASE reg[Wires[f][1]] = 0
  <2>1. Wires[f][2] \in Nat \ {0} /\ Wires[f][3] \in 1 .. 256 /\ 0 \in Legal[f]
    <3>1. f \in DOMAIN Wires
      BY WiresAre
    <3> QED
      BY <3>1, WiresAre
  <2>2. Field(reg, f) = Get(0, Wires[f][2], Wires[f][3])
    BY <1>2 DEF Field
  <2>3. Get(0, Wires[f][2], Wires[f][3]) = 0
    BY <2>1, ZeroIsZero
  <2> QED
    BY <2>1, <2>2, <2>3
<1>3. CASE \E argv \in Accepted : reg[Wires[f][1]] = Byte(argv, Wires[f][1])
  <2>1. PICK argv \in Accepted : reg[Wires[f][1]] = Byte(argv, Wires[f][1])
    BY <1>3
  <2> QED
    BY <2>1, AcceptedAre, BytesHold, ValuesLegal DEF Field
<1> QED
  BY <1>1, <1>2, <1>3 DEF BytesOfLines

LEMMA EndedHolds ==
    ASSUME Ended, last # <<>>
    PROVE  Sound(last) /\ last \in Seq(Argument) /\ Holding(reg, last)
<1>1. last \in Accepted
  BY DEF Ended
<1>2. ASSUME NEW f \in DOMAIN Legal
      PROVE  Field(reg, f) = Value(last, f)
  <2>1. reg[Wires[f][1]] = Byte(last, Wires[f][1])
    BY WiresAre DEF Ended
  <2> QED
    BY <1>1, <2>1, AcceptedAre, BytesHold DEF Field
<1> QED
  BY <1>1, <1>2, AcceptedAre DEF Holding

(* The last command line holds, and nothing but it: from the invariant.       *)
LEMMA IInvGivesProfile ==
    ASSUME IInv
    PROVE  ProfileHolds
<1>1. build \in Machine /\ menu \in Menu
  BY MenusAssumption, MachinesAssumption DEF IInv, TypeOK
<1>2. ASSUME last # <<>>, ~Typed(last, "reset")
      PROVE  /\ \A t \in Promises :
                    (\E a \in ToSet(last) : a.w = t[1]) => Now[t[2]] \in t[3]
             /\ \A a \in ToSet(last) : Holds(a, Now)
  <2>1. last \in Seq(Argument) /\ ~Refused(last) /\ Holding(reg, last)
    BY <1>2, EndedHolds DEF IInv, Sound
  <2>2. ASSUME NEW a \in ToSet(last)
        PROVE  Typed(last, a.w)
    BY <2>1, OptIs DEF ToSet
  <2> QED
    BY <1>1, <1>2, <2>1, <2>2, WordsInForce, ChoicesInForce
<1>3. EveryWordHolds
  BY <1>2 DEF EveryWordHolds, InForce
<1>4. RestFollowsMenu
  <2> SUFFICES ASSUME last # <<>>, NEW f \in DOMAIN menu \
                        (IF Typed(last, "reset") THEN {}
                         ELSE UNION {Concerns(a, Promises) : a \in ToSet(last)})
               PROVE  Now[f] = Osd[f]
    BY DEF RestFollowsMenu, InForce
  <2>1. Sound(last) /\ Holding(reg, last)
    BY EndedHolds DEF IInv
  <2>2. ~Typed(last, "reset") => f \notin UNION {Concerns(a, Promises) : a \in ToSet(last)}
    OBVIOUS
  <2> QED
    BY <1>1, <2>1, <2>2, RestIsLeft
<1> QED
  BY <1>3, <1>4 DEF ProfileHolds

-----------------------------------------------------------------------------
(* The invariant is inductive.                                                *)
LEMMA SameView ==
    ASSUME UNCHANGED <<build, menu, reg>>
    PROVE  /\ Now' = Now /\ Osd' = Osd
           /\ \A i \in 1 .. 5 : StatusByte(i)' = StatusByte(i)
<1>1. \A m : OsdSb(m)' = OsdSb(m) /\ OsdCms(m)' = OsdCms(m)
  BY DEF OsdSb, OsdCms
<1>2. Now' = Now
  BY DEF Now, Effective, OsdSb, OsdCms
<1>3. Osd' = Osd
  BY DEF Osd, OsdValue, OsdSb, OsdCms
<1>4. Matches' = Matches
  BY <1>2, <1>3 DEF Matches, Now, Osd
<1>5. \A i \in 1 .. 5 : StatusByte(i)' = StatusByte(i)
  BY <1>2, <1>4 DEF StatusByte, StatusEffective, Now
<1> QED
  BY <1>2, <1>3, <1>5

LEMMA NothingShown ==
    ASSUME shown = NotShown
    PROVE  StatusTellsTheTruth
BY DEF StatusTellsTheTruth

LEMMA InitIInv == Init => IInv
<1> SUFFICES ASSUME Init
             PROVE  IInv
  OBVIOUS
<1>1. reg = [p \in Registers |-> 0]
  BY PortsAre DEF Init
<1>2. TypeOK
  BY <1>1 DEF Init, TypeOK
<1>3. BytesOfLines
  BY <1>1 DEF BytesOfLines, Registers
<1> QED
  BY <1>2, <1>3, NothingShown DEF Init, IInv, Underway, Ended, StatusRead

(* A step that keeps the registers and the machine, and starts no writing.    *)
LEMMA KeptRegisters ==
    ASSUME IInv, UNCHANGED <<build, reg, last>>, menu' \in Menus
    PROVE  TypeOK' /\ BytesOfLines' /\ Ended'
<1>1. TypeOK'
  BY DEF IInv, TypeOK
<1>2. BytesOfLines'
  BY DEF IInv, BytesOfLines
<1>3. Ended'
  BY DEF IInv, Ended
<1> QED
  BY <1>1, <1>2, <1>3

LEMMA MainKeeps ==
    ASSUME IInv, NEW argv \in CommandLines, Main(argv)
    PROVE  IInv'
<1>0. left = <<>> /\ seen = <<>> /\ menu \in Menus
  BY DEF Main, Idle, IInv, TypeOK
<1>1. CASE Fail
  <2>1. TypeOK' /\ BytesOfLines' /\ Ended'
    BY <1>0, <1>1, KeptRegisters DEF Fail
  <2>2. left' = <<>> /\ seen' = <<>> /\ shown' = NotShown
    BY <1>0, <1>1 DEF Fail
  <2> QED
    BY <2>1, <2>2 DEF IInv, Underway, StatusRead, StatusTellsTheTruth
<1>2. CASE ReadStatus
  <2>1. TypeOK' /\ BytesOfLines' /\ Ended'
    BY <1>0, <1>2, KeptRegisters DEF ReadStatus
  <2>2. left' = <<>> /\ shown' = NotShown
    BY <1>0, <1>2 DEF ReadStatus
  <2>3. seen' = [i \in 1 .. 5 |-> StatusByte(i)']
    BY <1>2, SameView DEF ReadStatus
  <2> QED
    BY <2>1, <2>2, <2>3 DEF IInv, Underway, StatusRead, StatusTellsTheTruth
<1>3. ASSUME argv # <<>>, ~Typed(argv, "status"), Typed(argv, "reset") \/ ~Refused(argv),
             BeginWrites(argv)
      PROVE  IInv'
  <2>1. argv \in Accepted
    BY <1>3 DEF Accepted
  <2>2. TypeOK' /\ BytesOfLines'
    BY <1>0, <1>3 DEF BeginWrites, IInv, TypeOK, BytesOfLines
  <2>3. left' = From(argv, 1) /\ cmd' = argv /\ last' = <<>> /\ seen' = <<>> /\ shown' = NotShown
    BY <1>0, <1>3, <2>1, AcceptedAre, WritesAre DEF BeginWrites
  <2>4. 1 \in 1 .. Len(OutPorts(argv))
    BY OutPortsAre
  <2>5. Written(reg', argv, 0)
    BY DEF Written
  <2>6. Underway'
    BY <2>1, <2>3, <2>4, <2>5 DEF Underway
  <2> QED
    BY <2>2, <2>3, <2>6 DEF IInv, Ended, StatusRead, StatusTellsTheTruth
<1> QED
  BY <1>1, <1>2, <1>3 DEF Main, Usage

(* A port write: the next register of the run takes its byte.                 *)
LEMMA OutpStep ==
    ASSUME IInv, Outp
    PROVE  /\ left # <<>> /\ cmd \in Accepted /\ last = <<>> /\ seen = <<>>
           /\ UNCHANGED <<build, menu, seen, shown>> /\ shown = NotShown
           /\ \E k \in 1 .. Len(OutPorts(cmd)) :
                  /\ reg' = [reg EXCEPT ![OutPorts(cmd)[k]] = Byte(cmd, OutPorts(cmd)[k])]
                  /\ Written(reg', cmd, k)
                  /\ k = Len(OutPorts(cmd)) => left' = <<>> /\ last' = cmd
                  /\ k # Len(OutPorts(cmd)) =>
                         /\ k + 1 \in 1 .. Len(OutPorts(cmd))
                         /\ left' = From(cmd, k + 1) /\ left' # <<>>
                         /\ last' = last /\ cmd' = cmd
<1>1. /\ left # <<>> /\ cmd \in Accepted /\ last = <<>> /\ seen = <<>> /\ shown = NotShown
      /\ UNCHANGED <<build, menu, seen, shown>> /\ left' = Tail(left)
  BY DEF Outp, IInv, Underway
<1>2. PICK k \in 1 .. Len(OutPorts(cmd)) : left = From(cmd, k) /\ Written(reg, cmd, k - 1)
  BY <1>1 DEF IInv, Underway
<1> DEFINE n == Len(OutPorts(cmd))
           p == OutPorts(cmd)[k]
<1>3. n \in Nat \ {0} /\ \A i \in 1 .. n : OutPorts(cmd)[i] \in Registers
  BY OutPortsAre
<1>4. /\ left[1] = <<p, Byte(cmd, p)>> /\ Len(left) = n - k + 1
      /\ k = n => Tail(left) = <<>>
      /\ k < n => Tail(left) = From(cmd, k + 1) /\ Tail(left) # <<>>
  BY <1>1, <1>2, AcceptedAre, FromShrinks
<1>5. reg' = [reg EXCEPT ![p] = Byte(cmd, p)] /\ reg \in [Registers -> 0 .. 255]
  BY <1>4 DEF Outp, IInv, TypeOK
<1>6. Written(reg', cmd, k)
  <2>1. \A i \in 1 .. k : i \in 1 .. k - 1 \/ i = k
    BY <1>2
  <2>2. \A i \in 1 .. k : OutPorts(cmd)[i] \in Registers
    BY <1>2, <1>3
  <2>3. \A i \in 1 .. k - 1 : reg[OutPorts(cmd)[i]] = Byte(cmd, OutPorts(cmd)[i])
    BY <1>2 DEF Written
  <2>4. \A i \in 1 .. k : reg'[OutPorts(cmd)[i]] = Byte(cmd, OutPorts(cmd)[i])
    BY <1>5, <2>1, <2>2, <2>3
  <2> QED
    BY <2>4 DEF Written
<1>7. k = n => left' = <<>> /\ last' = cmd
  BY <1>1, <1>3, <1>4 DEF Outp
<1>8. k # n => /\ k + 1 \in 1 .. n /\ left' = From(cmd, k + 1) /\ left' # <<>>
               /\ last' = last /\ cmd' = cmd
  BY <1>1, <1>2, <1>3, <1>4 DEF Outp
<1> QED
  BY <1>1, <1>2, <1>5, <1>6, <1>7, <1>8

LEMMA OutpKeeps ==
    ASSUME IInv, Outp
    PROVE  IInv'
<1>1. /\ left # <<>> /\ cmd \in Accepted /\ last = <<>> /\ seen = <<>> /\ shown = NotShown
      /\ UNCHANGED <<build, menu, seen, shown>>
  BY OutpStep
<1> DEFINE n == Len(OutPorts(cmd))
<1>2. PICK k \in 1 .. n :
          /\ reg' = [reg EXCEPT ![OutPorts(cmd)[k]] = Byte(cmd, OutPorts(cmd)[k])]
          /\ Written(reg', cmd, k)
          /\ k = n => left' = <<>> /\ last' = cmd
          /\ k # n => /\ k + 1 \in 1 .. n /\ left' = From(cmd, k + 1)
                      /\ last' = last /\ cmd' = cmd
  BY OutpStep
<1> DEFINE p == OutPorts(cmd)[k]
<1>3. p \in Registers /\ Byte(cmd, p) \in 0 .. 255 /\ (p = "vid" => Byte(cmd, p) = 0)
  BY <1>1, <1>2, AcceptedAre, OutPortsAre, BytesAre
<1>4. reg' = [reg EXCEPT ![p] = Byte(cmd, p)] /\ reg \in [Registers -> 0 .. 255]
  BY <1>2 DEF IInv, TypeOK
<1>5. TypeOK'
  BY <1>1, <1>3, <1>4 DEF IInv, TypeOK
<1>6. BytesOfLines'
  BY <1>1, <1>3, <1>4 DEF IInv, BytesOfLines
<1>7. StatusRead' /\ StatusTellsTheTruth'
  BY <1>1 DEF StatusRead, StatusTellsTheTruth
<1>8. CASE k = n
  <2>1. \A q \in Registers \ {"vid"} : reg'[q] = Byte(cmd, q)
    BY <1>2, <1>8, OutPortsAre DEF Written
  <2>2. Underway' /\ Ended'
    BY <1>1, <1>2, <1>8, <2>1 DEF Underway, Ended
  <2> QED
    BY <1>5, <1>6, <1>7, <2>2 DEF IInv
<1>9. CASE k # n
  <2>1. Written(reg', cmd, (k + 1) - 1)
    BY <1>2
  <2>2. Underway' /\ Ended'
    BY <1>1, <1>2, <1>9, <2>1 DEF Underway, Ended
  <2> QED
    BY <1>5, <1>6, <1>7, <2>2 DEF IInv
<1> QED
  BY <1>8, <1>9

LEMMA ReadMarksKeeps ==
    ASSUME IInv, ReadMarks
    PROVE  IInv'
<1>1. seen # <<>> /\ seen' = <<>> /\ UNCHANGED <<build, menu, reg, left, cmd, last, torn>>
  BY DEF ReadMarks
<1>2. TypeOK' /\ BytesOfLines' /\ Ended'
  BY <1>1, KeptRegisters DEF IInv, TypeOK
<1>3. left = <<>>
  BY <1>1 DEF IInv, Underway
<1>4. Now' = Now /\ Osd' = Osd
  BY <1>1, SameView
<1>5. build \in Machine /\ menu \in Menu /\ reg \in [Registers -> 0 .. 255] /\ FieldsLegal(reg)
  BY MenusAssumption, MachinesAssumption, LinesGiveLegalFields DEF IInv, TypeOK
<1>6. ASSUME ~torn
      PROVE  StatusTellsTheTruth'
  <2>1. seen = [i \in 1 .. 5 |-> StatusByte(i)]
    BY <1>1, <1>6 DEF IInv, StatusRead
  <2>2. CASE build.core = "new"
    <3>1. /\ shown' = Show /\ Show.new
          /\ \A f \in DOMAIN Shows : Show.values[f] = Now[f]
          /\ \A f \in DOMAIN menu \ {"crtH", "crtV"} : f \in Show.marked <=> Now[f] = Osd[f]
      BY <1>5, <2>1, <2>2, ReportIsTrue DEF ReadMarks
    <3> QED
      BY <1>1, <1>4, <3>1 DEF StatusTellsTheTruth
  <2>3. CASE build.core # "new"
    <3>1. StatusByte(3) = 0
      BY <2>3 DEF StatusByte
    <3>2. Get(seen[3], 64, 4) # 2
      BY <2>1, <3>1, ZeroIsZero
    <3>3. shown' = ShowLegacy
      BY <3>2 DEF ReadMarks
    <3>4. /\ ~ShowLegacy.new
          /\ \A f \in DOMAIN menu \ {"audio"} :
                 IF f \in ShowLegacy.marked THEN Now[f] = Osd[f]
                 ELSE ShowLegacy.values[f] = Now[f] \/ (f = "tandy" /\ ~build.tandy)
      BY <1>5, LegacyIsTrue
    <3> QED
      BY <1>1, <1>4, <3>3, <3>4 DEF StatusTellsTheTruth
  <2> QED
    BY <2>2, <2>3
<1>7. torn => StatusTellsTheTruth'
  BY <1>1 DEF StatusTellsTheTruth
<1>8. Underway' /\ StatusRead'
  BY <1>1, <1>3 DEF Underway, StatusRead
<1> QED
  BY <1>2, <1>6, <1>7, <1>8 DEF IInv

LEMMA ChangeMenuKeeps ==
    ASSUME IInv, ChangeMenu
    PROVE  IInv'
<1>1. /\ UNCHANGED <<build, reg, left, cmd, last, seen>> /\ menu' \in Menus
      /\ shown' = NotShown /\ (seen # <<>> => torn')
  BY DEF ChangeMenu
<1>2. TypeOK' /\ BytesOfLines' /\ Ended'
  BY <1>1, KeptRegisters
<1>3. Underway'
  BY <1>1 DEF IInv, Underway
<1>4. StatusRead' /\ StatusTellsTheTruth'
  BY <1>1 DEF StatusRead, StatusTellsTheTruth
<1> QED
  BY <1>2, <1>3, <1>4 DEF IInv

(* What changes only the register of VGA 13h+ and is no writing.              *)
LEMMA VidKeeps ==
    ASSUME IInv, NEW byte \in {0, 2}, reg' = [reg EXCEPT !["vid"] = byte],
           UNCHANGED <<build, menu, last>>, left' = <<>>, seen' = <<>>, shown' = NotShown
    PROVE  IInv'
<1>0. /\ reg \in [Registers -> 0 .. 255] /\ reg' \in [Registers -> 0 .. 255]
      /\ reg'["vid"] = byte
      /\ \A p \in Registers \ {"vid"} : reg'[p] = reg[p]
  <2>1. reg \in [Registers -> 0 .. 255]
    BY DEF IInv, TypeOK
  <2>2. "vid" \in Registers /\ byte \in 0 .. 255
    BY DEF Registers
  <2> QED
    BY <2>1, <2>2
<1>1. TypeOK' /\ BytesOfLines'
  BY <1>0 DEF IInv, TypeOK, BytesOfLines
<1>2. Ended'
  BY <1>0 DEF IInv, Ended
<1>3. Underway' /\ StatusRead' /\ StatusTellsTheTruth'
  BY DEF Underway, StatusRead, StatusTellsTheTruth
<1> QED
  BY <1>1, <1>2, <1>3 DEF IInv

LEMMA EnableVga13Keeps ==
    ASSUME IInv, EnableVga13
    PROVE  IInv'
<1>1. reg["vid"] \in {0, 2}
  BY DEF IInv, BytesOfLines
<1>2. 4 * (reg["vid"] \div 4) + 2 = 2
  BY <1>1
<1>3. reg' = [reg EXCEPT !["vid"] = 2]
  BY <1>2 DEF EnableVga13
<1> QED
  BY <1>3, VidKeeps DEF EnableVga13, Idle

LEMMA WarmBootKeeps ==
    ASSUME IInv, WarmBoot
    PROVE  IInv'
BY VidKeeps DEF WarmBoot

LEMMA ResetKeeps ==
    ASSUME IInv, Reset
    PROVE  IInv'
<1>1. reg' = [p \in Registers |-> 0]
  BY PortsAre DEF Reset
<1>2. TypeOK'
  BY <1>1 DEF Reset, IInv, TypeOK
<1>3. BytesOfLines'
  BY <1>1 DEF BytesOfLines, Registers
<1> QED
  BY <1>2, <1>3 DEF Reset, IInv, Underway, Ended, StatusRead, StatusTellsTheTruth

LEMMA StutterKeeps ==
    ASSUME IInv, UNCHANGED vars
    PROVE  IInv'
<1>1. UNCHANGED <<build, menu, reg, left, cmd, last, seen, shown, torn>>
  BY DEF vars
<1>2. TypeOK' /\ BytesOfLines' /\ Ended'
  BY <1>1, KeptRegisters DEF IInv, TypeOK
<1>3. Underway'
  BY <1>1 DEF IInv, Underway
<1>4. StatusRead'
  BY <1>1, SameView DEF IInv, StatusRead
<1>5. StatusTellsTheTruth'
  BY <1>1, SameView DEF IInv, StatusTellsTheTruth
<1> QED
  BY <1>2, <1>3, <1>4, <1>5 DEF IInv

LEMMA NextIInv == IInv /\ [Next]_vars => IInv'
BY MainKeeps, OutpKeeps, ReadMarksKeeps, ChangeMenuKeeps, EnableVga13Keeps, WarmBootKeeps,
   ResetKeeps, StutterKeeps DEF Next

LEMMA Inductive == Spec => []IInv
BY InitIInv, NextIInv, PTL DEF Spec

(* Whatever ran before, whatever the menu is changed to and through warm      *)
(* boots, the words of the last command line are in force and every setting   *)
(* it does not name is left to the menu.                                      *)
THEOREM ProfileAlwaysHolds == Spec => []ProfileHolds
BY Inductive, IInvGivesProfile, PTL

(* A report no change of the menu fell into is true: the settings, and which  *)
(* of them are the menu's.                                                    *)
THEOREM ReportsAreTrue == Spec => []StatusTellsTheTruth
<1>1. IInv => StatusTellsTheTruth
  BY DEF IInv
<1> QED
  BY <1>1, Inductive, PTL
-----------------------------------------------------------------------------
(* The registers, read as fields, implement the abstract overrides.           *)
FieldNames == DOMAIN Wires
Target == IF left = <<>> THEN <<>>
          ELSE IF Typed(cmd, "reset") THEN Profile[cmd]
          ELSE [Profile[cmd] EXCEPT !["vga13"] = ChosenNow["vga13"]]

LEMMA ChosenIs ==
    ASSUME NEW r \in [Registers -> 0 .. 255]
    PROVE  [f \in DOMAIN Wires |-> Field(r, f)] \in [FieldNames -> 0 .. 255]
<1> SUFFICES ASSUME NEW f \in DOMAIN Wires
             PROVE  Field(r, f) \in 0 .. 255
  BY DEF FieldNames
<1>1. Wires[f][1] \in Registers /\ Wires[f][2] \in Nat \ {0} /\ Wires[f][3] \in 1 .. 256
  BY WiresAre DEF Registers
<1>2. r[Wires[f][1]] \in 0 .. 255
  BY <1>1
<1>3. ASSUME NEW b \in 0 .. 255, NEW u \in Nat \ {0}, NEW n \in 1 .. 256
      PROVE  (b \div u) % n \in 0 .. 255
  <2>1. b \div u \in Int
    OBVIOUS
  <2> QED
    BY <2>1
<1> QED
  BY <1>1, <1>2, <1>3 DEF Field, Get

LEMMA ProfileIs ==
    ASSUME NEW argv \in Accepted
    PROVE  /\ Profile[argv] \in AllProfiles
           /\ DOMAIN Profile[argv] = FieldNames
           /\ Profile[argv]["vga13"] = 0
           /\ \A f \in DOMAIN Legal : Profile[argv][f] = Value(argv, f)
           /\ Typed(argv, "reset") => Profile[argv] = [f \in FieldNames |-> 0]
<1>1. Profile[argv] = [f \in DOMAIN Wires |-> IF f = "vga13" THEN 0 ELSE Value(argv, f)]
  BY DEF Profile
<1>2. Profile[argv] \in AllProfiles
  BY DEF AllProfiles
<1>3. Typed(argv, "reset") => \A f : Value(argv, f) = 0
  BY DEF Value
<1> QED
  BY <1>1, <1>2, <1>3, WiresAre DEF FieldNames

LEMMA ProfileIsNoSequence ==
    ASSUME NEW argv \in Accepted, NEW x
    PROVE  Profile[argv] # <<>> /\ [Profile[argv] EXCEPT !["vga13"] = x] # <<>>
<1>1. DOMAIN Profile[argv] = FieldNames /\ "speed" \in FieldNames
  BY ProfileIs DEF FieldNames, Wires
<1>2. DOMAIN [Profile[argv] EXCEPT !["vga13"] = x] = FieldNames
  BY <1>1
<1>3. "speed" \notin DOMAIN <<>>
  OBVIOUS
<1> QED
  BY <1>1, <1>2, <1>3

LEMMA SameChosen ==
    ASSUME UNCHANGED reg
    PROVE  ChosenNow' = ChosenNow
BY DEF ChosenNow, Field

LEMMA InitRefines == Init => O!Init
<1> SUFFICES ASSUME Init
             PROVE  O!Init
  OBVIOUS
<1>1. \A p \in Registers : reg[p] = 0
  BY PortsAre DEF Init
<1>2. \A f \in DOMAIN Wires : Field(reg, f) = 0
  BY <1>1, WiresAre, ZeroIsZero DEF Field, Registers
<1>3. ChosenNow = [f \in DOMAIN Wires |-> 0]
  BY <1>2 DEF ChosenNow
<1> QED
  BY <1>3 DEF O!Init, O!LeftToMenu, Init

(* A run begins: its profile, or all left to the menu, becomes the target.    *)
LEMMA BeginRefines ==
    ASSUME IInv, NEW argv \in CommandLines, Main(argv)
    PROVE  O!Begin \/ UNCHANGED <<ChosenNow, Target>>
<1>1. left = <<>> /\ reg' = reg
  BY DEF Main, Idle, Fail, Usage, ReadStatus, BeginWrites
<1>2. ChosenNow' = ChosenNow
  BY <1>1, SameChosen
<1>3. CASE left' = <<>>
  BY <1>1, <1>2, <1>3 DEF Target
<1>4. CASE left' # <<>>
  <2>1. argv \in Accepted /\ cmd' = argv
    BY <1>1, <1>4 DEF Main, Accepted, Fail, Usage, ReadStatus, BeginWrites
  <2>2. Profile[argv] \in AllProfiles
    BY <2>1, ProfileIs
  <2>3. CASE Typed(argv, "reset")
    <3>1. Target' = [f \in DOMAIN Wires |-> 0]
      BY <1>4, <2>1, <2>3, ProfileIs DEF Target, FieldNames
    <3> QED
      BY <1>1, <1>2, <1>4, <2>1, <2>3, <3>1 DEF O!Begin, O!LeftToMenu, Target
  <2>4. CASE ~Typed(argv, "reset")
    <3>1. Target' = [Profile[argv] EXCEPT !["vga13"] = ChosenNow["vga13"]]
      BY <1>2, <1>4, <2>1, <2>4 DEF Target
    <3> QED
      BY <1>1, <1>2, <1>4, <2>1, <2>2, <2>4, <3>1 DEF O!Begin, Target
  <2> QED
    BY <2>3, <2>4
<1> QED
  BY <1>3, <1>4

(* A port write takes fields to their target, the last one the last of them.  *)
LEMMA OutpRefines ==
    ASSUME IInv, Outp
    PROVE  O!Adopt
<1>1. left # <<>> /\ cmd \in Accepted
  BY OutpStep
<1> DEFINE n == Len(OutPorts(cmd))
           old == ChosenNow
           goal == Target
<1>2. PICK k \in 1 .. n :
          /\ reg' = [reg EXCEPT ![OutPorts(cmd)[k]] = Byte(cmd, OutPorts(cmd)[k])]
          /\ Written(reg', cmd, k)
          /\ k = n => left' = <<>>
          /\ k # n => left' # <<>> /\ cmd' = cmd
  BY OutpStep
<1> DEFINE p == OutPorts(cmd)[k]
<1>3. p \in Registers /\ Byte(cmd, p) \in 0 .. 255 /\ (p = "vid" => Byte(cmd, p) = 0)
      /\ (p = "vid" => Typed(cmd, "reset"))
  BY <1>1, <1>2, AcceptedAre, OutPortsAre, BytesAre
<1>4. reg \in [Registers -> 0 .. 255] /\ reg' \in [Registers -> 0 .. 255]
      /\ reg'[p] = Byte(cmd, p) /\ \A q \in Registers \ {p} : reg'[q] = reg[q]
  <2>1. reg \in [Registers -> 0 .. 255]
    BY DEF IInv, TypeOK
  <2> QED
    BY <1>2, <1>3, <2>1
<1>5. old \in [FieldNames -> 0 .. 255] /\ ChosenNow' \in [FieldNames -> 0 .. 255]
  BY <1>4, ChosenIs DEF ChosenNow
<1>6. \A f \in FieldNames : old[f] = Field(reg, f) /\ ChosenNow'[f] = Field(reg', f)
  BY DEF ChosenNow, FieldNames, Field
<1>7. /\ DOMAIN goal = FieldNames /\ goal # <<>>
      /\ \A f \in DOMAIN Legal : goal[f] = Value(cmd, f)
      /\ goal["vga13"] = IF Typed(cmd, "reset") THEN 0 ELSE old["vga13"]
  <2>1. "vga13" \in FieldNames /\ \A f \in DOMAIN Legal : f \in FieldNames /\ f # "vga13"
    BY WiresAre DEF FieldNames
  <2>2. goal = IF Typed(cmd, "reset") THEN Profile[cmd]
               ELSE [Profile[cmd] EXCEPT !["vga13"] = old["vga13"]]
    BY <1>1 DEF Target
  <2>3. goal # <<>>
    BY <1>1, <2>2, ProfileIsNoSequence
  <2> HIDE DEF goal, old
  <2> QED
    BY <1>1, <2>1, <2>2, <2>3, ProfileIs
<1>8. ASSUME NEW f \in DOMAIN Legal, reg'[Wires[f][1]] = Byte(cmd, Wires[f][1])
      PROVE  Field(reg', f) = Value(cmd, f)
  BY <1>1, <1>8, AcceptedAre, BytesHold DEF Field
<1>9. ASSUME NEW f \in FieldNames, Wires[f][1] # p
      PROVE  ChosenNow'[f] = old[f]
  <2>1. Wires[f][1] \in Registers
    BY WiresAre DEF FieldNames, Registers
  <2>2. reg'[Wires[f][1]] = reg[Wires[f][1]]
    BY <1>4, <1>9, <2>1
  <2> QED
    BY <1>6, <2>2 DEF Field
<1>10. reg'["vid"] = 0 => ChosenNow'["vga13"] = 0
  <2>1. "vga13" \in FieldNames /\ Field(reg', "vga13") = Get(reg'["vid"], 1, 4)
    BY WiresAre DEF FieldNames, Field
  <2>2. Get(0, 1, 4) = 0
    BY ZeroIsZero
  <2> QED
    BY <1>6, <2>1, <2>2
<1>11. \A f \in FieldNames : ChosenNow'[f] \in {old[f], goal[f]}
  <2> SUFFICES ASSUME NEW f \in FieldNames, Wires[f][1] = p
               PROVE  ChosenNow'[f] = goal[f]
    BY <1>9
  <2>1. CASE f = "vga13"
    BY <1>3, <1>4, <1>7, <1>10, <2>1, WiresAre
  <2>2. CASE f # "vga13"
    <3>1. f \in DOMAIN Legal
      BY <2>2, WiresAre DEF FieldNames
    <3> QED
      BY <1>4, <1>6, <1>7, <1>8, <3>1
  <2> QED
    BY <2>1, <2>2
<1>12. ~Typed(cmd, "reset") => ChosenNow'["vga13"] = old["vga13"]
  BY <1>3, <1>9, WiresAre DEF FieldNames
<1>13. CASE k # n
  <2>1. Target' = goal
    BY <1>1, <1>2, <1>12, <1>13 DEF Target
  <2> QED
    BY <1>5, <1>7, <1>11, <2>1 DEF O!Adopt, Target, FieldNames
<1>14. CASE k = n
  <2>1. ASSUME NEW f \in DOMAIN Legal
        PROVE  ChosenNow'[f] = goal[f]
    <3>1. reg'[Wires[f][1]] = Byte(cmd, Wires[f][1])
      BY <1>2, <1>14, OutPortsAre, WiresAre DEF Written
    <3>2. f \in FieldNames
      BY WiresAre DEF FieldNames
    <3> QED
      BY <1>6, <1>7, <1>8, <3>1, <3>2
  <2>2. ChosenNow'["vga13"] = goal["vga13"]
    <3>1. CASE Typed(cmd, "reset")
      <4>1. reg'["vid"] = Byte(cmd, "vid")
        BY <1>2, <1>14, <3>1, OutPortsAre DEF Written
      <4>2. "vid" \in Registers
        BY DEF Registers
      <4>3. Byte(cmd, "vid") = 0
        BY <1>1, <4>2, AcceptedAre, BytesAre
      <4> QED
        BY <1>7, <1>10, <3>1, <4>1, <4>3
    <3>2. CASE ~Typed(cmd, "reset")
      BY <1>7, <1>12, <3>2
    <3> QED
      BY <3>1, <3>2
  <2>3. \A f \in FieldNames : ChosenNow'[f] = goal[f]
    BY <2>1, <2>2, WiresAre DEF FieldNames
  <2>4. goal = [f \in FieldNames |-> goal[f]]
    <3>1. goal = IF Typed(cmd, "reset") THEN Profile[cmd]
                 ELSE [Profile[cmd] EXCEPT !["vga13"] = old["vga13"]]
      BY <1>1 DEF Target
    <3>2. Profile[cmd] = [f \in FieldNames |-> Profile[cmd][f]]
      BY <1>1 DEF Profile, FieldNames
    <3> HIDE DEF goal, old
    <3> QED
      BY <3>1, <3>2
  <2>5. ChosenNow' = goal
    <3> HIDE DEF goal
    <3> QED
      BY <1>5, <2>3, <2>4
  <2>6. Target' = <<>>
    BY <1>2, <1>14 DEF Target
  <2> QED
    BY <1>5, <1>7, <1>11, <2>5, <2>6 DEF O!Adopt, Target, FieldNames
<1> QED
  BY <1>13, <1>14

(* VGATSR and a warm boot write the register of VGA 13h+ alone.               *)
LEMMA VidRefines ==
    ASSUME IInv, NEW byte \in {0, 2}, reg' = [reg EXCEPT !["vid"] = byte]
    PROVE  ChosenNow' = [ChosenNow EXCEPT !["vga13"] = byte]
<1>1. /\ reg \in [Registers -> 0 .. 255] /\ "vid" \in Registers
  BY DEF IInv, TypeOK, Registers
<1>2. reg'["vid"] = byte /\ \A q \in Registers \ {"vid"} : reg'[q] = reg[q]
  BY <1>1
<1>3. \A f \in FieldNames : ChosenNow[f] = Field(reg, f) /\ ChosenNow'[f] = Field(reg', f)
  BY DEF ChosenNow, FieldNames, Field
<1>4. Get(byte, 1, 4) = byte
  BY DEF Get
<1>5. "vga13" \in FieldNames /\ Field(reg', "vga13") = byte
  BY <1>2, <1>4, WiresAre DEF FieldNames, Field
<1>6. \A f \in DOMAIN Legal : Field(reg', f) = Field(reg, f)
  BY <1>2, WiresAre DEF Field
<1>7. \A f \in FieldNames : ChosenNow'[f] = [ChosenNow EXCEPT !["vga13"] = byte][f]
  <2>1. \A f \in FieldNames : f = "vga13" \/ f \in DOMAIN Legal
    BY WiresAre DEF FieldNames
  <2> DEFINE c == ChosenNow
  <2>2. DOMAIN c = FieldNames
    BY DEF ChosenNow, FieldNames
  <2> HIDE DEF c
  <2>3. \A f \in FieldNames :
            [c EXCEPT !["vga13"] = byte][f] = IF f = "vga13" THEN byte ELSE c[f]
    BY <2>2
  <2>4. "vga13" \notin DOMAIN Legal
    BY WiresAre
  <2>5. \A f \in DOMAIN Legal : f \in FieldNames => ChosenNow'[f] = c[f]
    BY <1>3, <1>6 DEF c
  <2>6. ChosenNow'["vga13"] = byte
    BY <1>3, <1>5
  <2>7. \A f \in FieldNames : ChosenNow'[f] = [c EXCEPT !["vga13"] = byte][f]
    BY <2>1, <2>3, <2>4, <2>5, <2>6
  <2> QED
    BY <2>7 DEF c
<1>8. /\ ChosenNow = [f \in FieldNames |-> ChosenNow[f]]
      /\ ChosenNow' = [f \in FieldNames |-> ChosenNow'[f]]
  BY DEF ChosenNow, FieldNames
<1> QED
  BY <1>5, <1>7, <1>8

LEMMA StepRefines ==
    ASSUME IInv, [Next]_vars
    PROVE  [O!Next]_(O!vars)
<1>1. ASSUME NEW argv \in CommandLines, Main(argv)
      PROVE  [O!Next]_(O!vars)
  BY <1>1, BeginRefines DEF O!Next, O!vars, Target
<1>2. CASE Outp
  BY <1>2, OutpRefines DEF O!Next
<1>3. ASSUME UNCHANGED <<reg, left, cmd>>
      PROVE  UNCHANGED O!vars
  <2>1. ChosenNow' = ChosenNow
    BY <1>3, SameChosen
  <2> QED
    BY <1>3, <2>1 DEF O!vars
<1>4. CASE ReadMarks \/ ChangeMenu \/ UNCHANGED vars
  BY <1>3, <1>4 DEF ReadMarks, ChangeMenu, vars
<1>5. CASE EnableVga13
  <2>1. left = <<>> /\ left' = <<>>
    BY <1>5 DEF EnableVga13, Idle
  <2>2. reg["vid"] \in {0, 2}
    BY DEF IInv, BytesOfLines
  <2>3. 4 * (reg["vid"] \div 4) + 2 = 2
    BY <2>2
  <2>4. reg' = [reg EXCEPT !["vid"] = 2]
    BY <1>5, <2>3 DEF EnableVga13
  <2>5. ChosenNow' = [ChosenNow EXCEPT !["vga13"] = 2]
    BY <2>4, VidRefines
  <2> QED
    BY <2>1, <2>5 DEF O!EnableVga13, O!Next
<1>6. CASE WarmBoot
  <2>1. left' = <<>>
    BY <1>6 DEF WarmBoot
  <2>2. ChosenNow' = [ChosenNow EXCEPT !["vga13"] = 0]
    BY <1>6, VidRefines DEF WarmBoot
  <2> QED
    BY <2>1, <2>2 DEF O!WarmBoot, O!Next
<1>7. CASE Reset
  <2>1. left' = <<>> /\ reg' = [q \in Registers |-> 0]
    BY <1>7, PortsAre DEF Reset
  <2>2. \A f \in DOMAIN Wires : Field(reg', f) = 0
    BY <2>1, WiresAre, ZeroIsZero DEF Field, Registers
  <2>3. ChosenNow' = [f \in DOMAIN Wires |-> Field(reg', f)]
    BY DEF ChosenNow, Field
  <2>4. ChosenNow' = [f \in DOMAIN Wires |-> 0]
    BY <2>2, <2>3
  <2> QED
    BY <2>1, <2>4 DEF O!Reset, O!LeftToMenu, O!Next
<1> QED
  BY <1>1, <1>2, <1>4, <1>5, <1>6, <1>7 DEF Next

(* One run takes the settings from what was chosen to its own profile through *)
(* nothing else, and leaves VGA 13h+ to VGATSR: the registers implement the   *)
(* overrides the documentation promises.                                      *)
THEOREM PortImplementsOverrides == Spec => ImplementsOverrides
<1>1. Spec => []IInv
  BY Inductive
<1>2. IInv /\ [Next]_vars => [O!Next]_(O!vars)
  BY StepRefines
<1>3. Spec => O!Spec
  BY <1>1, <1>2, InitRefines, PTL DEF Spec, O!Spec
<1> QED
  BY <1>3 DEF ImplementsOverrides
=============================================================================
