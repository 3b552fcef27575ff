------------------------------- MODULE MCBus -------------------------------
(***************************************************************************)
(* The values the model-checking runs of the bus are given.                *)
(***************************************************************************)
EXTENDS BusProps

Cycle(k)  == [kind |-> k, op |-> NoOp]
AllCycles == {Cycle(k) : k \in Kinds}

Mode(t, ty, a, d) == [transfer |-> t, type |-> ty, auto |-> a, down |-> d]
ModeList(l) == [c \in Channels |-> l[c + 1]]
Single == ModeList(<<Mode("single", "read", TRUE, FALSE),
                     Mode("single", "write", FALSE, TRUE)>>)
Mixed == ModeList(<<Mode("single", "read", TRUE, FALSE),
                    Mode("block", "write", FALSE, TRUE)>>)

Demand == ModeList(<<Mode("demand", "verify", TRUE, FALSE),
                     Mode("demand", "read", FALSE, FALSE)>>)

\* Rotating priority, and the write strobe as early as the read strobe.
Rotating == [ResetCommand EXCEPT !.rotating = TRUE, !.early = TRUE]
Compressed == [ResetCommand EXCEPT !.compressed = TRUE, !.hold = TRUE]
Disabled == [ResetCommand EXCEPT !.disable = TRUE]

OneProgram  == {[command |-> ResetCommand, mode |-> Single]}
TwoPrograms == {[command |-> Rotating, mode |-> Mixed],
                [command |-> Compressed, mode |-> Demand]}

\* Registers written and read by a program that changes its mind at any time.
Ops == {[op |-> "addr", ch |-> 1, val |-> 1], [op |-> "readStatus"],
        [op |-> "master"], [op |-> "command", val |-> Disabled]}
Programming == {Cycle("mem")} \cup {[kind |-> "io", op |-> o] : o \in Ops}

Zeros  == [c \in Channels |-> [addr |-> 0, count |-> 0]]
Bases  == [c \in Channels |-> [addr |-> c, count |-> 1]]
NoMask == {}
Both   == {0, 1}
MemCycles == {Cycle("mem")}
First  == {0}
Second == {1}
FastGap == {0}
SlowGap == {1, 2}
=============================================================================
