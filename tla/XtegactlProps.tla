---------------------------- MODULE XtegactlProps ----------------------------
EXTENDS Xtegactl

(* What the words promise, by docs/xtegactl.md and the tool's usage text:   *)
(* the word, the setting, the values it may then have.                      *)
SbMeans == IF build.sb THEN {1} ELSE {0, 2}
TandyMeans == IF build.tandy THEN {1} ELSE {0}
Promises == {
    <<"4.77", "speed", {0}>>, <<"477", "speed", {0}>>, <<"7.16", "speed", {1}>>,
    <<"716", "speed", {1}>>, <<"9.54", "speed", {2}>>, <<"954", "speed", {2}>>,
    <<"max", "speed", {3}>>, <<"fake286", "fake286", {1}>>,
    <<"nofake286", "fake286", {0}>>, <<"adlib", "opl2", {0}>>,
    <<"sbfm", "opl2", {1}>>, <<"noadlib", "opl2", {2}>>,
    <<"cms", "audio", {0, 1}>>, <<"nocms", "audio", {1, 2}>>,
    <<"sb", "audio", SbMeans>>,
    <<"nosb", "audio", {0, 2}>>, <<"ems", "ems", {1}>>, <<"noems", "ems", {0}>>,
    <<"umb", "umb", {1}>>, <<"noumb", "umb", {0}>>, <<"swap", "swap", {1}>>,
    <<"noswap", "swap", {0}>>, <<"joysync", "joysync", {1}>>,
    <<"nojoysync", "joysync", {0}>>, <<"mt32", "mt32", {0}>>, <<"gm", "mt32", {1}>>,
    <<"mpu", "mpu", {1}>>, <<"nompu", "mpu", {0}>>, <<"notandy", "tandy", {0}>>,
    <<"tandy", "tandy", TandyMeans>>}
StickPromise == [analog |-> 0, digital |-> 1, off |-> 2]

Settings == (DOMAIN Wires \ {"crt", "cms", "sb"}) \cup {"crtH", "crtV", "audio"}
Now == Effective(reg, menu)
Osd == OsdValue(menu)

Concerns(a, promises) == {t[2] : t \in {p \in promises : p[1] = a.w}}
    \cup (IF a.w \in {"hpos", "vpos"} THEN {"crtH", "crtV"} ELSE {a.w} \cap Settings)

Holds(a, now) ==
    /\ a.w \in {"joy1", "joy2"} => now[a.w] = StickPromise[a.v]
    /\ a.w = "sbirq" => now[a.w] = IF a.v = "auto" THEN menu[a.w]
                                   ELSE IF a.v = "5" THEN 0 ELSE 1
    /\ a.w \in {"hsync", "vsync"} =>
           now[a.w] = IF a.v = "auto" \/ a.n = 0 THEN menu[a.w] ELSE a.n
    /\ a.w = "hpos" => now.crtH = a.n
    /\ a.w = "vpos" => now.crtV = a.n

InForce == Idle /\ last # <<>>

(* The contract of the tool: every word of the last command line is in      *)
(* force from the end of the run on, whatever ran before it, whatever the   *)
(* menu is changed to and through warm boots, until the next run or a       *)
(* reset.                                                                   *)
EveryWordHolds ==
    InForce /\ ~Typed(last, "reset") =>
      LET now == Now
          said == ToSet(last)
      IN  /\ \A t \in Promises :
                 (\E a \in said : a.w = t[1]) => now[t[2]] \in t[3]
          /\ \A a \in said : Holds(a, now)

(* Anything not named on the command line is left to the menu: no setting   *)
(* of an earlier program survives into the next one.                        *)
RestFollowsMenu ==
    InForce =>
      LET now == Now
          osd == Osd
          promises == Promises
          named == IF Typed(last, "reset") THEN {}
                   ELSE UNION {Concerns(a, promises) : a \in ToSet(last)}
      IN  \A f \in DOMAIN menu \ named : now[f] = osd[f]

(* A profile holds, and nothing but the profile.                            *)
ProfileHolds == EveryWordHolds /\ RestFollowsMenu

(* A report that no change of the menu fell into shows each setting as it   *)
(* is, and marks it as the menu's exactly when it is; a core without the    *)
(* extension is reported through its registers.  The CRT line is left to    *)
(* OsdMarkIsTrue, the legacy report of 220h to the README.                  *)
StatusTellsTheTruth ==
    shown # NotShown /\ ~torn =>
      LET now == Now
          osd == Osd
      IN  IF shown.new
          THEN /\ \A f \in DOMAIN Shows : shown.values[f] = now[f]
               /\ \A f \in DOMAIN menu \ {"crtH", "crtV"} :
                      f \in shown.marked <=> now[f] = osd[f]
          ELSE \A f \in DOMAIN menu \ {"audio"} :
                   IF f \in shown.marked THEN now[f] = osd[f]
                   ELSE shown.values[f] = now[f] \/ (f = "tandy" /\ ~build.tandy)

(* "(OSD)" means the effective value matches the current menu setting, as   *)
(* the last lines of the report say.                                        *)
OsdMarkIsTrue ==
    shown # NotShown /\ shown.new /\ ~torn =>
      \A f \in shown.marked : Now[f] = Osd[f]

Accepted == {argv \in CommandLines :
    argv # <<>> /\ ~Typed(argv, "status") /\ (Typed(argv, "reset") \/ ~Refused(argv))}
Profile == [argv \in Accepted |->
    [f \in DOMAIN Wires |-> IF f = "vga13" THEN 0 ELSE Value(argv, f)]]
AllProfiles == {Profile[argv] : argv \in Accepted}
ChosenNow == [f \in DOMAIN Wires |-> Field(reg, f)]

O == INSTANCE Overrides WITH
    Fields <- DOMAIN Wires, Values <- 0 .. 255, NoProfile <- <<>>,
    Profiles <- AllProfiles,
    chosen <- ChosenNow,
    target <- IF left = <<>> THEN <<>>
              ELSE IF Typed(cmd, "reset") THEN Profile[cmd]
              ELSE [Profile[cmd] EXCEPT !["vga13"] = ChosenNow["vga13"]]

(* The registers, read as fields, implement the abstract overrides: a run   *)
(* goes from what was chosen to its own profile through nothing else, and   *)
(* leaves VGA 13h+ to VGATSR.                                               *)
ImplementsOverrides == O!Spec
=============================================================================
