--------------------------------- MODULE Ram ---------------------------------
(***************************************************************************)
(* RAM.sv: the memory port of the chipset, on top of the SDRAM controller. *)
(*                                                                         *)
(* One step is one rising edge of the chipset clock: every register of     *)
(* RAM.sv and KFSDRAM.sv moves at once, and the bus master picks what it   *)
(* drives during the next clock.  The alternatives of Next are the states  *)
(* of RAM.sv's machine.                                                    *)
(*                                                                         *)
(* "bus" is what the bus drives into RAM during the current clock, and     *)
(* "shadow" is a history variable: the contents of memory as a programmer  *)
(* sees them, changed when a write is accepted.  No code reads it.         *)
(***************************************************************************)
EXTENDS Kfsdram

CONSTANTS
    Protected,         \* addresses under write_protect
    Speeds,            \* the values of clk_select that occur
    Kinds,             \* the bus cycles that occur, and "reset" if resets do
    ReadWait,          \* ram_read_wait_cycle
    WriteWait,         \* ram_write_wait_cycle
    MinHold,           \* clocks a command strobe lasts at the least
    MinGap             \* clocks between two strobes at the least

BusKinds == {"read", "write", "readWord", "writeWord", "other"}

VARIABLES
    ramState,          \* state of RAM.sv's machine
    latchAddress,      \* latch_address
    latchData,         \* latch_data
    latchDataWord,     \* latch_data_word: <<low, high>>
    readBeat, writeBeat,
    prefetchArmed, wordArmed, writeWordArmed,
    dataBusOutReg, dataBusOutHi,
    lookahead,         \* the two entries: address, data and valid bit
    victim,            \* lookahead_victim
    accessReady,       \* access_ready
    readWaitCount, writeWaitCount,
    prevNoCommand,     \* prev_no_command_state
    clkSelect,         \* clk_select
    bus,               \* the bus cycle in progress, if any
    shadow             \* history: memory as the accepted writes left it

ramVars == <<ramState, latchAddress, latchData, latchDataWord, readBeat,
             writeBeat, prefetchArmed, wordArmed, writeWordArmed,
             dataBusOutReg, dataBusOutHi, lookahead, victim, accessReady,
             readWaitCount, writeWaitCount, prevNoCommand>>
vars == <<sdVars, chipVars, ramVars, clkSelect, bus, shadow>>

EvenAddress == {a \in Address : a.col % 2 = 0}

(* The address after a, carried through column, row and bank.              *)
After(a) ==
    IF a.col < LastCol THEN [bank |-> a.bank, row |-> a.row, col |-> a.col + 1]
    ELSE IF a.row < NRow - 1 THEN [bank |-> a.bank, row |-> a.row + 1, col |-> 0]
    ELSE [bank |-> IF a.bank < NBank - 1 THEN a.bank + 1 ELSE 0,
          row |-> 0, col |-> 0]

ASSUME BusAssumption ==
    /\ NCol % 2 = 0
    /\ Protected \subseteq Address
    /\ \A a \in EvenAddress : a \in Protected <=> After(a) \in Protected
    /\ Speeds \subseteq 0 .. 3 /\ Speeds # {}
    /\ Kinds \subseteq BusKinds \cup {"reset"}
    /\ ReadWait \in 0 .. 3 /\ WriteWait \in 0 .. 3
    /\ MinHold \in Nat \ {0} /\ MinGap \in Nat \ {0}

-----------------------------------------------------------------------------
(* The bus, and what RAM.sv derives from it combinationally *)

Reading == bus.kind \in {"read", "readWord"}
Writing == bus.kind \in {"write", "writeWord"}
ReadCommand == Reading
WriteCommandUnprotected == Writing
WriteCommand == Writing /\ bus.addr \notin Protected
WordRequest == bus.kind = "readWord"
WriteWordRequest == WriteCommand /\ bus.kind = "writeWord"
NoCommand == bus.kind \in {"none", "reset"}
EnableRefresh == NoCommand /\ ~prevNoCommand

StrictReady == clkSelect = 3
LookaheadEnable == clkSelect \in {2, 3}
Hits(i) == /\ LookaheadEnable
           /\ lookahead[i].valid
           /\ lookahead[i].addr = bus.addr
LookaheadHit == ~WordRequest /\ (Hits(0) \/ Hits(1))
LookaheadAnswer == IF Hits(0) THEN lookahead[0].data ELSE lookahead[1].data
StartPrefetch == /\ ReadCommand /\ ~WordRequest
                 /\ LookaheadEnable /\ bus.addr.col # LastCol
                 /\ ~LookaheadHit

MemoryAccessReady ==
    Reading \/ Writing =>
        /\ accessReady
        /\ ReadCommand => readWaitCount = 0
        /\ WriteCommand => writeWaitCount = 0

DataBusOut == IF ~ReadCommand THEN Junk
              ELSE IF readFlag /\ ~readBeat THEN dataOut ELSE dataBusOutReg
DataBusOutWord == <<dataBusOutReg, dataBusOutHi>>

(* The master holds a command and its address for at least MinHold clocks,  *)
(* and until READY - past the first clock, in which READY is still that of  *)
(* the cycle before - and leaves MinGap clocks between two commands.  A     *)
(* word is only asked for at an even address.  Write data are on the bus    *)
(* while the strobe is.  A reset of the machine, which does not reset RAM,  *)
(* cuts a cycle short at any point and lasts until RAM is quiet.            *)
NoData == <<Junk, Junk>>
Quiet(n) == [kind |-> "none", addr |-> Origin, data |-> NoData, age |-> n]
InReset == [kind |-> "reset", addr |-> Origin, data |-> NoData, age |-> 1]
BusCycles ==
    [kind : Kinds \cap {"read"}, addr : Address, data : {NoData}, age : {1}]
    \cup [kind : Kinds \cap {"readWord"}, addr : EvenAddress, data : {NoData}, age : {1}]
    \cup [kind : Kinds \cap {"write"}, addr : Address, data : Byte \X {Junk}, age : {1}]
    \cup [kind : Kinds \cap {"writeWord"}, addr : EvenAddress, data : Byte \X Byte, age : {1}]
    \cup [kind : Kinds \cap {"other"}, addr : {Origin}, data : {NoData}, age : {1}]
MaxAge == 1 + MinHold + MinGap
BusTypes == [kind : BusKinds \cup {"none", "reset"}, addr : Address,
             data : Line \X Line, age : 1 .. MaxAge]

Oldest == IF NoCommand THEN MinGap ELSE MinHold + 1
Older == [kind |-> bus.kind, addr |-> bus.addr, data |-> bus.data,
          age |-> IF bus.age < Oldest THEN bus.age + 1 ELSE bus.age]
MayRelease == bus.age > 1 /\ bus.age >= MinHold /\ MemoryAccessReady

NextBus ==
    \/ bus.kind = "none" /\ bus' = Older /\ clkSelect' \in Speeds
    \/ /\ bus.kind = "none" /\ bus.age >= MinGap
       /\ bus' \in BusCycles
       /\ clkSelect' \in Speeds
    \/ ~NoCommand /\ bus' = Older /\ UNCHANGED clkSelect
    \/ ~NoCommand /\ MayRelease /\ bus' = Quiet(1) /\ UNCHANGED clkSelect
    \/ "reset" \in Kinds /\ ~NoCommand /\ bus' = InReset /\ clkSelect' = 0
    \/ bus.kind = "reset" /\ UNCHANGED <<bus, clkSelect>>
    \/ /\ bus.kind = "reset" /\ ramState = "IDLE" /\ SdIdle
       /\ bus' = Quiet(1)
       /\ UNCHANGED clkSelect

-----------------------------------------------------------------------------
(* Registers that move in every state *)

Beats ==
    /\ readBeat' = (ramState # "IDLE" /\ (readBeat \/ readFlag))
    /\ writeBeat' = (ramState # "IDLE" /\ (writeBeat \/ WriteFlag))

DataRegistersOneBeat ==
    /\ dataBusOutReg' =
         IF ramState = "IDLE" /\ ReadCommand /\ LookaheadHit THEN LookaheadAnswer
         ELSE IF readFlag THEN dataOut ELSE dataBusOutReg
    /\ dataBusOutHi' =
         IF readFlag /\ readBeat /\ wordArmed THEN dataOut ELSE dataBusOutHi

DataRegisters ==
    /\ dataBusOutReg' =
         IF ramState = "IDLE" /\ ReadCommand /\ LookaheadHit THEN LookaheadAnswer
         ELSE IF readFlag /\ ~readBeat THEN dataOut ELSE dataBusOutReg
    /\ dataBusOutHi' =
         IF readFlag /\ readBeat /\ wordArmed THEN dataOut ELSE dataBusOutHi

(* The address a write being accepted lands on: its own, and for a word the *)
(* next one.                                                               *)
WriteLandsOn(a) == a = bus.addr \/ (WriteWordRequest /\ a = After(bus.addr))
Parking == readFlag /\ readBeat /\ prefetchArmed
InvalidatedLowByte(i) == /\ ramState = "IDLE" /\ WriteCommand
                         /\ lookahead[i].valid
                         /\ lookahead[i].addr = bus.addr
Invalidated(i) == /\ ramState = "IDLE" /\ WriteCommand
                  /\ lookahead[i].valid
                  /\ WriteLandsOn(lookahead[i].addr)

Lookahead ==
    /\ lookahead' =
         [i \in {0, 1} |->
            IF Parking /\ victim = i
            THEN [addr |-> After(latchAddress), data |-> dataOut, valid |-> TRUE]
            ELSE IF Invalidated(i)
            THEN [addr |-> lookahead[i].addr, data |-> lookahead[i].data, valid |-> FALSE]
            ELSE lookahead[i]]
    /\ victim' = IF Parking THEN 1 - victim ELSE victim

ReadyOpenLoop ==
    accessReady' = (
        \/ ramState = "COMPLETE_RAM_RW"
        \/ ramState = "IDLE" /\ SdIdle
        \/ /\ ramState \notin {"COMPLETE_RAM_RW", "IDLE"}
           /\ ~((WriteCommand \/ ReadCommand) /\ RefreshMode)
           /\ accessReady)
ReadyNoRefresh ==
    accessReady' = (
        \/ ramState = "COMPLETE_RAM_RW"
        \/ ramState = "IDLE" /\ ~(StrictReady /\ (WriteCommand \/ ReadCommand))
        \/ ramState \notin {"COMPLETE_RAM_RW", "IDLE"} /\ ~StrictReady /\ accessReady)

Ready ==
    accessReady' = (
        \/ ramState = "COMPLETE_RAM_RW"
        \/ /\ ramState = "IDLE" /\ SdIdle
           /\ ~(StrictReady /\ (WriteCommand \/ ReadCommand))
        \/ /\ ramState \notin {"COMPLETE_RAM_RW", "IDLE"}
           /\ ~StrictReady
           /\ ~((WriteCommand \/ ReadCommand) /\ RefreshMode)
           /\ accessReady)

WaitCountsUnguarded(en) ==
    /\ readWaitCount' = IF ~ReadCommand THEN ReadWait
                        ELSE IF en THEN readWaitCount - 1 ELSE readWaitCount
    /\ writeWaitCount' = IF ~WriteCommand THEN WriteWait
                         ELSE IF en THEN writeWaitCount - 1 ELSE writeWaitCount
(* en is wait_count_clk_en in this clock.                                  *)
WaitCounts(en) ==
    /\ readWaitCount' = IF ~ReadCommand THEN ReadWait
                        ELSE IF en /\ readWaitCount # 0 THEN readWaitCount - 1
                        ELSE readWaitCount
    /\ writeWaitCount' = IF ~WriteCommand THEN WriteWait
                         ELSE IF en /\ writeWaitCount # 0 THEN writeWaitCount - 1
                         ELSE writeWaitCount

LatchesLive ==
    /\ latchAddress' = IF ramState = "IDLE" THEN bus.addr ELSE latchAddress
    /\ latchData' = bus.data[1]
    /\ latchDataWord' = bus.data
    /\ IF ramState = "IDLE"
       THEN /\ prefetchArmed' = StartPrefetch
            /\ wordArmed' = WordRequest
            /\ writeWordArmed' = WriteWordRequest
       ELSE UNCHANGED <<prefetchArmed, wordArmed, writeWordArmed>>
(* The registers that follow the bus in IDLE and are frozen on leaving it. *)
Latches ==
    IF ramState = "IDLE"
    THEN /\ latchAddress' = bus.addr
         /\ latchData' = bus.data[1]
         /\ latchDataWord' = bus.data
         /\ prefetchArmed' = StartPrefetch
         /\ wordArmed' = WordRequest
         /\ writeWordArmed' = WriteWordRequest
    ELSE UNCHANGED <<latchAddress, latchData, latchDataWord,
                     prefetchArmed, wordArmed, writeWordArmed>>

Registers ==
    /\ Beats
    /\ DataRegisters
    /\ Lookahead
    /\ Ready
    /\ \E en \in BOOLEAN : WaitCounts(en)
    /\ Latches
    /\ prevNoCommand' = NoCommand
    /\ NextBus

-----------------------------------------------------------------------------
(* The states of the machine.  Each drives the controller's inputs.        *)

Words(two) == IF two THEN 2 ELSE 1
WriteByteOneBeat == IF ~writeWordArmed THEN latchData ELSE latchDataWord[1]
WriteByte == IF ~writeWordArmed THEN latchData
             ELSE IF writeBeat THEN latchDataWord[2] ELSE latchDataWord[1]

IdleWords == Words(StartPrefetch \/ WordRequest \/ WriteWordRequest)
IdleData == IF WriteWordRequest THEN bus.data[1] ELSE latchData

AcceptWrite ==
    /\ ramState = "IDLE" /\ WriteCommand
    /\ ramState' = "RAM_WRITE_1"
    /\ SdClock(bus.addr, IdleWords, IdleData, TRUE, FALSE, EnableRefresh)
    /\ shadow' = [a \in Address |->
                    IF a = bus.addr THEN bus.data[1]
                    ELSE IF WriteLandsOn(a) THEN bus.data[2] ELSE shadow[a]]
    /\ Registers

AcceptRead ==
    /\ ramState = "IDLE" /\ ReadCommand /\ ~LookaheadHit
    /\ ramState' = "RAM_READ_1"
    /\ SdClock(bus.addr, IdleWords, IdleData, FALSE, TRUE, EnableRefresh)
    /\ UNCHANGED shadow
    /\ Registers

AnswerFromLookahead ==
    /\ ramState = "IDLE" /\ ReadCommand /\ LookaheadHit
    /\ ramState' = "COMPLETE_RAM_RW"
    /\ SdClock(bus.addr, IdleWords, IdleData, FALSE, FALSE, EnableRefresh)
    /\ UNCHANGED shadow
    /\ Registers

StayIdle ==
    /\ ramState = "IDLE" /\ ~WriteCommand /\ ~ReadCommand
    /\ ramState' = "IDLE"
    /\ SdClock(bus.addr, IdleWords, IdleData, FALSE, FALSE, EnableRefresh)
    /\ UNCHANGED shadow
    /\ Registers

RamWrite1 ==
    /\ ramState = "RAM_WRITE_1"
    /\ ramState' = IF WriteFlag THEN "RAM_WRITE_2" ELSE "RAM_WRITE_1"
    /\ SdClock(latchAddress, Words(writeWordArmed), WriteByte, TRUE, FALSE, EnableRefresh)
    /\ UNCHANGED shadow
    /\ Registers

RamWrite2 ==
    /\ ramState = "RAM_WRITE_2"
    /\ ramState' = IF ~WriteFlag THEN "COMPLETE_RAM_RW" ELSE "RAM_WRITE_2"
    /\ SdClock(latchAddress, Words(writeWordArmed), WriteByte, FALSE, FALSE, EnableRefresh)
    /\ UNCHANGED shadow
    /\ Registers

(* The later assignment to next_state wins: data that arrive in the clock   *)
(* the strobe goes away are still taken.                                   *)
RamRead1 ==
    /\ ramState = "RAM_READ_1"
    /\ ramState' = IF readFlag THEN "RAM_READ_2"
                   ELSE IF ~ReadCommand THEN "WAIT" ELSE "RAM_READ_1"
    /\ SdClock(latchAddress, Words(prefetchArmed \/ wordArmed), Junk, FALSE, TRUE, EnableRefresh)
    /\ UNCHANGED shadow
    /\ Registers

RamRead2WaitingForFlag ==
    /\ ramState = "RAM_READ_2"
    /\ ramState' = IF ~ReadCommand THEN "WAIT"
                   ELSE IF readFlag THEN "COMPLETE_RAM_RW" ELSE "RAM_READ_2"
    /\ SdClock(latchAddress, Words(prefetchArmed \/ wordArmed), Junk, FALSE, FALSE, EnableRefresh)
    /\ UNCHANGED shadow
    /\ Registers

RamRead2 ==
    /\ ramState = "RAM_READ_2"
    /\ ramState' = IF ~readFlag THEN "COMPLETE_RAM_RW"
                   ELSE IF ~ReadCommand THEN "WAIT" ELSE "RAM_READ_2"
    /\ SdClock(latchAddress, Words(prefetchArmed \/ wordArmed), Junk, FALSE, FALSE, EnableRefresh)
    /\ UNCHANGED shadow
    /\ Registers

CompleteRamRw ==
    /\ ramState = "COMPLETE_RAM_RW"
    /\ ramState' = IF ~WriteCommand /\ ~ReadCommand THEN "IDLE" ELSE "COMPLETE_RAM_RW"
    /\ SdClock(Origin, 1, Junk, FALSE, FALSE, EnableRefresh)
    /\ UNCHANGED shadow
    /\ Registers

WaitIdle ==
    /\ ramState = "WAIT"
    /\ ramState' = IF SdIdle THEN "IDLE" ELSE "WAIT"
    /\ SdClock(Origin, 1, Junk, FALSE, FALSE, EnableRefresh)
    /\ UNCHANGED shadow
    /\ Registers

Next ==
    \/ AcceptWrite \/ AcceptRead \/ AnswerFromLookahead \/ StayIdle
    \/ RamWrite1 \/ RamWrite2 \/ RamRead1 \/ RamRead2
    \/ CompleteRamRw \/ WaitIdle

Init ==
    /\ SdInit
    /\ ramState = "IDLE"
    /\ latchAddress = Origin
    /\ latchData = Junk
    /\ latchDataWord = NoData
    /\ readBeat = FALSE /\ writeBeat = FALSE
    /\ prefetchArmed = FALSE /\ wordArmed = FALSE /\ writeWordArmed = FALSE
    /\ dataBusOutReg = Junk
    /\ dataBusOutHi = Junk
    /\ lookahead = [i \in {0, 1} |-> [addr |-> Origin, data |-> Junk, valid |-> FALSE]]
    /\ victim = 0
    /\ accessReady = FALSE
    /\ readWaitCount = 0 /\ writeWaitCount = 0
    /\ prevNoCommand = FALSE
    /\ clkSelect \in Speeds
    /\ bus = Quiet(1)
    /\ shadow = mem

(* The chipset clock never stops, nor does the CPU clock that counts the    *)
(* wait states; nothing is assumed of the master.                          *)
CountsWaitState == \/ readWaitCount' < readWaitCount
                   \/ writeWaitCount' < writeWaitCount
Spec == Init /\ [][Next]_vars
FairSpec == Spec /\ WF_vars(Next) /\ WF_vars(Next /\ CountsWaitState)
=============================================================================
