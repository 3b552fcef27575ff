------------------------------ MODULE Overrides ------------------------------
(***************************************************************************)
(* What docs/xtegactl.md and the header of XTEGACTL.C promise a user: each  *)
(* field is overridden or left to the menu, one run of XTEGACTL takes the   *)
(* fields from what they are to what its command line alone says and never  *)
(* passes through anything else, VGA 13h+ belongs to VGATSR, and a reset or *)
(* a warm boot may cut a run short.                                         *)
(***************************************************************************)
CONSTANTS
    Fields,      \* the fields a program can override, "vga13" among them
    Values,      \* their values, 0 when left to the menu
    Profiles,    \* what the accepted command lines say: a set of functions
    NoProfile    \* no run is in progress

VARIABLES
    chosen,      \* the value of each field
    target       \* what the run in progress is making of them, or NoProfile

vars == <<chosen, target>>

LeftToMenu == [f \in Fields |-> 0]

Init == chosen = LeftToMenu /\ target = NoProfile

(* An ordinary profile leaves VGA 13h+ alone; the one of reset does not.    *)
Begin ==
    /\ target = NoProfile
    /\ \/ \E p \in Profiles : target' = [p EXCEPT !["vga13"] = chosen["vga13"]]
       \/ target' = LeftToMenu
    /\ UNCHANGED chosen

Adopt ==
    /\ target # NoProfile
    /\ LET old == chosen
           new == chosen'
           goal == target
       IN  /\ new \in [Fields -> Values]
           /\ \A f \in Fields : new[f] \in {old[f], goal[f]}
           /\ \/ target' = goal
              \/ new = goal /\ target' = NoProfile

EnableVga13 ==
    /\ target = NoProfile /\ target' = NoProfile
    /\ chosen' = [chosen EXCEPT !["vga13"] = 2]

WarmBoot ==
    /\ target' = NoProfile
    /\ chosen' = [chosen EXCEPT !["vga13"] = 0]

Reset == target' = NoProfile /\ chosen' = LeftToMenu

Next == Begin \/ Adopt \/ EnableVga13 \/ WarmBoot \/ Reset

Spec == Init /\ [][Next]_vars
=============================================================================
