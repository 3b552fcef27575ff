------------------------------- MODULE MCRam --------------------------------
EXTENDS RamProps

MCProtected == {[bank |-> 0, row |-> 0, col |-> c] : c \in {2, 3}}
=============================================================================
