----------------------------- MODULE MCXtegactl -----------------------------
EXTENDS XtegactlProps

W(w) == [w |-> w, v |-> "", n |-> -1]
V(w, v) == [w |-> w, v |-> v, n |-> -1]
N(w, n) == [w |-> w, v |-> "", n |-> n]
Line(ws) == [i \in DOMAIN ws |-> W(ws[i])]

(* Together the lines use every setting the tool knows and every way it has to *)
(* refuse one.                                                              *)
Profiles == {
    Line(<<"4.77", "nofake286", "adlib", "cms", "nosb", "ems", "noumb", "noswap",
           "joysync", "mt32", "nompu", "tandy", "crt=auto">>)
      \o <<V("sbirq", "5"), V("joy1", "digital"), V("joy2", "off"), N("vsync", 3)>>,
    Line(<<"716", "fake286", "sbfm", "nocms", "sb", "noems", "umb", "swap",
           "nojoysync", "gm", "mpu", "notandy">>)
      \o <<V("sbirq", "7"), V("joy1", "off"), V("joy2", "analog"), N("hpos", 15),
           N("vpos", 7), N("hsync", 7), V("vsync", "auto")>>,
    Line(<<"9.54", "cms", "noadlib">>) \o <<N("hpos", 3), V("sbirq", "auto")>>,
    Line(<<"954", "nocms", "fake286">>),
    Line(<<"max", "sb", "adlib">>) \o <<N("vpos", 2), N("hsync", 0)>>,
    Line(<<"reset", "max">>)}
NoProfiles == {<<>>, Line(<<"status">>), Line(<<"adlib", "sbfm">>),
    Line(<<"sb", "sb">>), <<V("joy1", "none")>>, <<N("hpos", 16)>>, <<V("vsync", "")>>}

MCCommandLines == Profiles \cup NoProfiles
MarkCommandLines == {<<N("hpos", 3), N("vpos", 2)>>, Line(<<"status">>), Line(<<"reset">>)}

Plain == [f \in {"speed", "fake286", "opl2", "audio", "ems", "umb", "joy1", "joy2",
    "swap", "joysync", "mt32", "mpu", "tandy", "sbirq", "crtH", "crtV", "vsync",
    "hsync"} |-> 0]
(* As the machine starts, everything else, and one that differs from it in   *)
(* the settings of more than two choices.                                   *)
MCMenus == {
    [Plain EXCEPT !.ems = 1, !.umb = 1, !.mpu = 1],
    [f \in DOMAIN Plain |-> IF f = "speed" THEN 3 ELSE IF f = "crtH" THEN 3
                            ELSE IF f \in {"crtV", "vsync", "hsync"} THEN 6 ELSE 1],
    [Plain EXCEPT !.speed = 1, !.opl2 = 2, !.audio = 2, !.joy1 = 2, !.crtV = 2]}
MarkMenus == {[Plain EXCEPT !.crtH = 3, !.crtV = 6], Plain}

Built(b, c) == [cms |-> "cms" \in b, sb |-> "sb" \in b, tandy |-> "tandy" \in b, core |-> c]
All == {"cms", "sb", "tandy"}
MCMachines == {Built(All, "new"), Built({"sb"}, "new"), Built({"cms"}, "old"),
               Built(All, "none")}
MarkMachines == {Built(All, "new")}
=============================================================================
