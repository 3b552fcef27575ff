------------------------------- MODULE Kfsdram -------------------------------
(***************************************************************************)
(* KFSDRAM.sv, the SDRAM controller under RAM.sv, clock by clock, and the  *)
(* SDRAM chip it drives (external: CAS latency two, one open row a bank).  *)
(*                                                                         *)
(* The module declares the controller's registers and the chip's state and *)
(* gives one operator, SdClock, that is what one rising clock edge does to *)
(* all of them for given request inputs.  Ram.tla, which stands for the    *)
(* module that instantiates the controller, supplies those inputs.         *)
(*                                                                         *)
(* An address is a record of its bank, row and column; the widths of the   *)
(* three are the constants NBank, NRow and NCol.  RAM.sv's addresses have   *)
(* 22 bits of the controller's 24, so the board uses one bank of its four. *)
(***************************************************************************)
EXTENDS Integers

CONSTANTS
    NBank, NRow, NCol,   \* the geometry in use: 1, 8192 and 512
    Byte,                \* the values of a cell
    Junk,                \* what an undriven data line reads as
    InitWait,            \* sdram_init_wait
    Trc, Trp, Tmrd, Tdpl,\* the timing parameters, in clocks minus one
    RefreshCycle,        \* sdram_refresh_cycle: refresh when a chance comes
    ForceRefresh         \* sdram_force_refresh: refresh whenever idle

ASSUME GeometryAssumption ==
    /\ NBank \in Nat \ {0}
    /\ NRow \in Nat \ {0}
    /\ NCol \in Nat \ {0, 1}
ASSUME DataAssumption == Junk \notin Byte /\ Byte # {}
ASSUME TimingAssumption ==
    /\ InitWait \in Nat /\ Trc \in Nat /\ Trp \in Nat
    /\ Tmrd \in Nat /\ Tdpl \in Nat
    /\ RefreshCycle \in Nat /\ ForceRefresh \in Nat
    /\ RefreshCycle <= ForceRefresh

VARIABLES
    sdState,         \* state of the controller's machine
    stateCounter,    \* clocks spent in that state
    refreshCounter,  \* clocks since the last refresh command, saturating
    accessCounter,   \* column offset of the burst
    readCounter,     \* words of the burst received
    cmd,             \* the registered command pins: operation, address, data
    dataOut,         \* data_out
    readFlag,        \* read_flag
    mem,             \* the chip: its cells
    openRow,         \* the chip: the open row of each bank, or NoRow
    casPipe          \* the chip: the two stages of its CAS latency

sdVars == <<sdState, stateCounter, refreshCounter, accessCounter, readCounter,
            cmd, dataOut, readFlag>>
chipVars == <<mem, openRow, casPipe>>

-----------------------------------------------------------------------------
(* Addresses *)

Bank == 0 .. NBank - 1
Row  == 0 .. NRow - 1
Col  == 0 .. NCol - 1
Address == [bank : Bank, row : Row, col : Col]
Origin == [bank |-> 0, row |-> 0, col |-> 0]
NoRow == -1
LastCol == NCol - 1

(* The column adder of a burst: it wraps inside the row.                   *)
BurstCol(a, k) == (a.col + k) % NCol

-----------------------------------------------------------------------------
(* Commands on the pins *)

CasLatency == 2

Line == Byte \cup {Junk}
Ops == {"NOP", "PRE", "REF", "MRS", "ACT", "RD", "WR"}
Command == [op : Ops, at : Address, dq : Line]
Plain(op) == [op |-> op, at |-> Origin, dq |-> Junk]
Activate(a) == [op |-> "ACT", at |-> [bank |-> a.bank, row |-> a.row, col |-> 0], dq |-> Junk]
Column(op, a, d) ==
    [op |-> op,
     at |-> [bank |-> a.bank, row |-> 0, col |-> BurstCol(a, accessCounter)],
     dq |-> d]

(* The states that only wait: for how long, what follows, and the command   *)
(* given in their first clock.                                             *)
TimedStates == {"INIT", "PALL", "INIT_CBR_1", "INIT_CBR_2", "MRS",
                "REFRESH_PALL", "REFRESH", "PRECHARGE_WAIT", "PRECHARGE"}
Dwell == [INIT |-> InitWait, PALL |-> Trp, INIT_CBR_1 |-> Trc,
          INIT_CBR_2 |-> Trc, MRS |-> Tmrd, REFRESH_PALL |-> Trp,
          REFRESH |-> Trc, PRECHARGE_WAIT |-> Tdpl, PRECHARGE |-> Trp]
Following == [INIT |-> "PALL", PALL |-> "INIT_CBR_1",
              INIT_CBR_1 |-> "INIT_CBR_2", INIT_CBR_2 |-> "MRS",
              MRS |-> "IDLE", REFRESH_PALL |-> "REFRESH", REFRESH |-> "IDLE",
              PRECHARGE_WAIT |-> "PRECHARGE", PRECHARGE |-> "IDLE"]
OpeningNoPrecharge == [INIT |-> "NOP", PALL |-> "PRE", INIT_CBR_1 |-> "REF",
            INIT_CBR_2 |-> "REF", MRS |-> "MRS", REFRESH_PALL |-> "NOP",
            REFRESH |-> "REF", PRECHARGE_WAIT |-> "NOP", PRECHARGE |-> "NOP"]
Opening == [INIT |-> "NOP", PALL |-> "PRE", INIT_CBR_1 |-> "REF",
            INIT_CBR_2 |-> "REF", MRS |-> "MRS", REFRESH_PALL |-> "PRE",
            REFRESH |-> "REF", PRECHARGE_WAIT |-> "NOP", PRECHARGE |-> "PRE"]
SdStates == TimedStates \cup {"IDLE", "WRITE", "READ"}

-----------------------------------------------------------------------------
(* Outputs of the controller *)

SdIdle == sdState = "IDLE"
RefreshMode == sdState \in {"REFRESH_PALL", "REFRESH"}
WriteFlag == sdState = "WRITE"

-----------------------------------------------------------------------------
(* One clock of the controller: a, num, din, wreq, rreq and enref are its   *)
(* inputs address, access_num, data_in, write_request, read_request and    *)
(* enable_refresh.                                                         *)

Wait ==
    /\ sdState \in TimedStates
    /\ sdState' = IF stateCounter = Dwell[sdState]
                  THEN Following[sdState] ELSE sdState
    /\ cmd' = Plain(IF stateCounter = 0 THEN Opening[sdState] ELSE "NOP")

RefreshDueUnforced(enref) == enref /\ refreshCounter >= RefreshCycle
RefreshDue(enref) ==
    \/ enref /\ refreshCounter >= RefreshCycle
    \/ refreshCounter = ForceRefresh

Start(a, wreq, rreq, enref) ==
    /\ sdState = "IDLE"
    /\ \/ /\ wreq
          /\ sdState' = "WRITE"
          /\ cmd' = Activate(a)
       \/ /\ ~wreq /\ rreq
          /\ sdState' = "READ"
          /\ cmd' = Activate(a)
       \/ /\ ~wreq /\ ~rreq /\ RefreshDue(enref)
          /\ sdState' = "REFRESH_PALL"
          /\ cmd' = Plain("NOP")
       \/ /\ ~wreq /\ ~rreq /\ ~RefreshDue(enref)
          /\ sdState' = "IDLE"
          /\ cmd' = Plain("NOP")

Write(a, num, din) ==
    /\ sdState = "WRITE"
    /\ sdState' = IF accessCounter = num - 1 THEN "PRECHARGE_WAIT" ELSE "WRITE"
    /\ cmd' = Column("WR", a, din)

Read(a, num) ==
    /\ sdState = "READ"
    /\ sdState' = IF stateCounter >= num /\ readCounter = num
                  THEN "PRECHARGE" ELSE "READ"
    /\ cmd' = IF stateCounter < num THEN Column("RD", a, Junk) ELSE Plain("NOP")

(* The counters.  stateCounter is not read in IDLE and stays 0 there.       *)
Count(num) ==
    /\ stateCounter' = IF sdState' # sdState \/ sdState = "IDLE"
                       THEN 0 ELSE stateCounter + 1
    /\ refreshCounter' = IF cmd.op = "REF" THEN 0
                         ELSE IF refreshCounter # ForceRefresh
                              THEN refreshCounter + 1 ELSE refreshCounter
    /\ accessCounter' = IF sdState \in {"READ", "WRITE"}
                        THEN accessCounter + 1 ELSE 0
    /\ readCounter' = IF sdState # "READ" \/ stateCounter <= CasLatency THEN 0
                      ELSE IF readCounter # num THEN readCounter + 1
                           ELSE readCounter

Sample ==
    /\ dataOut' = casPipe[2]
    /\ readFlag' = (sdState = "READ" /\ sdState' = "READ"
                    /\ stateCounter > CasLatency)

(* The chip obeys, on this edge, the command the pins have carried since    *)
(* the last one.                                                           *)
Cell(c) == [bank |-> c.at.bank, row |-> openRow[c.at.bank], col |-> c.at.col]
RowOpen(c) == openRow[c.at.bank] # NoRow
Chip ==
    /\ mem' = IF cmd.op = "WR" /\ RowOpen(cmd)
              THEN [mem EXCEPT ![Cell(cmd)] = cmd.dq] ELSE mem
    /\ openRow' = [b \in Bank |->
                    IF cmd.op = "ACT" /\ b = cmd.at.bank THEN cmd.at.row
                    ELSE IF cmd.op = "PRE" THEN NoRow ELSE openRow[b]]
    /\ casPipe' = <<IF cmd.op = "RD" /\ RowOpen(cmd) THEN mem[Cell(cmd)] ELSE Junk,
                    casPipe[1]>>

SdClock(a, num, din, wreq, rreq, enref) ==
    /\ \/ Wait
       \/ Start(a, wreq, rreq, enref)
       \/ Write(a, num, din)
       \/ Read(a, num)
    /\ Count(num)
    /\ Sample
    /\ Chip

SdInit ==
    /\ sdState = "INIT"
    /\ stateCounter = 0
    /\ refreshCounter = 0
    /\ accessCounter = 0
    /\ readCounter = 0
    /\ cmd = Plain("NOP")
    /\ dataOut = Junk
    /\ readFlag = FALSE
    /\ mem \in [Address -> Byte]
    /\ openRow = [b \in Bank |-> NoRow]
    /\ casPipe = <<Junk, Junk>>

SdTypeOK ==
    /\ sdState \in SdStates
    /\ stateCounter \in Nat
    /\ refreshCounter \in 0 .. ForceRefresh
    /\ accessCounter \in Nat
    /\ readCounter \in Nat
    /\ cmd \in Command
    /\ dataOut \in Line
    /\ readFlag \in BOOLEAN
    /\ mem \in [Address -> Line]
    /\ openRow \in [Bank -> Row \cup {NoRow}]
    /\ casPipe \in Line \X Line
=============================================================================
