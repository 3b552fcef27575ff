----------------------------- MODULE MCSerDrive -----------------------------
EXTENDS SerDriveProps

O(o) == [Plain("") EXCEPT !.lead = "-", !.opt = o]
S(o, w) == [Plain(w) EXCEPT !.lead = "/", !.opt = o]
W(w) == Plain(w)
N(n) == [Plain("") EXCEPT !.digit = TRUE, !.num = n, !.milli = 1000 * n]
K(n) == [N(n) EXCEPT !.kilo = TRUE]
G(n, parts) == [N(n) EXCEPT !.parts = parts]

CHS(c, h, s) == [cyl |-> c, head |-> h, sect |-> s]
Image(f, ro, g, chs) == [file |-> f, readOnly |-> ro, g |-> g, chs |-> chs]
AsIs(f) == Image(f, FALSE, NoGeometry, FALSE)
Line(on, argv, asked, bauds, timeout) ==
    [on |-> on, argv |-> argv, asked |-> asked, bauds |-> bauds, timeout |-> timeout]
Refused(on, argv) == Line(on, argv, <<>>, {}, TRUE)
Unix == {"linux", "stdio"}

Standard == CHS(65, 16, 63)

(* Every option, with and without its value, and every way to be refused.    *)
MCLines == <<
    Line(Unix, <<O("c"), N(1), O("n"), K(720), W("a"), O("r"), W("b")>>,
         <<Image("a", FALSE, CHS(80, 1, 18), FALSE), Image("b", TRUE, NoGeometry, FALSE)>>,
         {9600}, TRUE),
    Line(Unix, <<O("c"), W("/dev/ttyS1"), O("t"), O("b"), N(115),
                 O("g"), G(4, <<4, 16, 63>>), W("a"), O("n"), W("b")>>,
         <<Image("a", FALSE, CHS(4, 16, 63), TRUE), Image("b", FALSE, Standard, FALSE)>>,
         {115200}, FALSE),
    Line(Unix, <<O("c"), N(1), O("g"), G(16, <<16, 4, 17>>), O("n"), W("a"), W("b")>>,
         <<Image("a", FALSE, CHS(16, 4, 17), TRUE), AsIs("b")>>, {9600}, TRUE),
    Line(Unix, <<O("c"), N(1), O("r"), W("a"), W("a")>>,
         <<Image("a", TRUE, NoGeometry, FALSE), AsIs("a")>>, {9600}, TRUE),
    Line(Unix, <<O("c"), N(1), O("n"), N(40000), W("a")>>,
         <<Image("a", FALSE, CHS(79365, 16, 63), FALSE)>>, {9600}, TRUE),
    Line({"linux", "win32"}, <<O("c"), N(1), O("n"), K(300), S("a", "a"), O("g"), W("b")>>,
         <<Image("a", FALSE, Standard, FALSE), Image("b", FALSE, NoGeometry, TRUE)>>,
         {9600}, TRUE),
    Line({"win32"}, <<S("n", ""), W("a"), W("b")>>,
         <<Image("a", FALSE, Standard, FALSE), AsIs("b")>>, {9600}, TRUE),
    Line({"win32"}, <<O("p"), O("n"), N(1), O("r"), W("a"), W("b")>>,
         <<Image("a", TRUE, CHS(1, 16, 63), FALSE), AsIs("b")>>, {115200}, TRUE),
    Line({"win32"}, <<O("b"), N(38), O("p"), W("pipe"), W("a"), W("a")>>,
         <<AsIs("a"), AsIs("a")>>, {38400}, TRUE),
    Line({"win32"}, <<O("b"), N(0), O("p"), W("b")>>, <<AsIs("b")>>, Rates, TRUE),
    Line(Platforms, <<W("b")>>, <<AsIs("b")>>, {9600}, TRUE),
    Refused(Platforms, <<O("v"), N(3)>>),
    Refused(Platforms, <<O("v"), O("g"), G(9, <<9>>), W("a")>>),
    Refused(Platforms, <<O("c")>>), Refused(Platforms, <<O("c"), N(0), W("a")>>),
    Refused(Platforms, <<O("b"), N(28), W("a")>>), Refused(Platforms, <<O("h"), W("a")>>)>>

Foreigns == [none |-> NoFile, floppy |-> Foreign(2880, FALSE), disk |-> Foreign(4032, FALSE),
    odd |-> Foreign(4032, TRUE), huge |-> Foreign(66061296, FALSE),
    beyond |-> Foreign(268435456, FALSE), other |-> Foreign(4033, FALSE),
    empty |-> Foreign(0, FALSE)]
Two(a, b) == [f \in {"a", "b"} |-> IF f = "a" THEN Foreigns[a] ELSE Foreigns[b]]
MCDisks == {Two("none", "disk"), Two("none", "floppy"), Two("floppy", "huge"),
            Two("disk", "none"), Two("odd", "beyond"), Two("other", "empty")}
MCOthers == {Foreigns["disk"]}
MCPorts == [linux |-> {"/dev/ttyS1"}, win32 |-> {"COM1", "COM3"}, stdio |-> {"/dev/ttyS1"}]
MCTried == <<"COM1", "COM2", "COM3">>

(* Clients on COM1 and on a port nobody knows, at two rates.                 *)
MCClients == {[scan |-> s, port |-> IF b = 12 THEN 1016 ELSE 512, divisor |-> b] :
                 s \in BOOLEAN, b \in {1, 12}}
=============================================================================
