------------------------------ MODULE RamProps ------------------------------
(* What the memory port promises.  Checked through MCRam.                   *)
EXTENDS Ram

RamStates == {"IDLE", "RAM_WRITE_1", "RAM_WRITE_2", "RAM_READ_1", "RAM_READ_2",
              "COMPLETE_RAM_RW", "WAIT"}
Entry == [addr : Address, data : Line, valid : BOOLEAN]

(* Every register of RAM.sv and KFSDRAM.sv holds a value of its width.      *)
RamTypeOK ==
    /\ ramState \in RamStates
    /\ latchAddress \in Address
    /\ latchData \in Line
    /\ latchDataWord \in Line \X Line
    /\ readBeat \in BOOLEAN /\ writeBeat \in BOOLEAN
    /\ prefetchArmed \in BOOLEAN /\ wordArmed \in BOOLEAN
    /\ writeWordArmed \in BOOLEAN
    /\ dataBusOutReg \in Line /\ dataBusOutHi \in Line
    /\ lookahead \in [{0, 1} -> Entry]
    /\ victim \in {0, 1}
    /\ accessReady \in BOOLEAN
    /\ readWaitCount \in 0 .. 3 /\ writeWaitCount \in 0 .. 3
    /\ prevNoCommand \in BOOLEAN
    /\ clkSelect \in 0 .. 3
    /\ bus \in BusTypes
    /\ shadow \in [Address -> Byte]
TypeOK == SdTypeOK /\ RamTypeOK

(* A valid lookahead entry holds what memory holds at its address, whatever *)
(* writes, aborted reads, refreshes and speed changes came since it was     *)
(* parked.                                                                 *)
LookaheadCoherent ==
    \A i \in {0, 1} : lookahead[i].valid => lookahead[i].data = shadow[lookahead[i].addr]

(* A write that was accepted is in the SDRAM, whole and nowhere else, when  *)
(* RAM.sv takes its next command, even if the strobe went away long before. *)
WriteInFlight == \/ ramState \in {"RAM_WRITE_1", "RAM_WRITE_2"}
                 \/ cmd.op = "WR"
AcceptedWritesLand == ~WriteInFlight => mem = shadow

(* Whenever the master may take a read as done - the strobe has lasted its  *)
(* minimum and READY is up - the byte on the bus is the byte in memory, on  *)
(* a miss, on a hit, behind a refresh and after a reset cut a read short.   *)
(* At the fastest setting READY alone promises it; below, the strobe has to *)
(* outlast the SDRAM.                                                      *)
ReadyMeansAnswered ==
    bus.kind = "read" /\ MayRelease => DataBusOut = shadow[bus.addr]

(* The same of the two bytes of a word.                                    *)
ReadyMeansWordAnswered ==
    bus.kind = "readWord" /\ MayRelease =>
        DataBusOutWord = <<shadow[bus.addr], shadow[After(bus.addr)]>>

(* A write strobe that may go away has been accepted: memory will hold its  *)
(* data.                                                                   *)
ReadyMeansWritten ==
    Writing /\ WriteCommand /\ MayRelease  =>
        \A a \in Address : WriteLandsOn(a) =>
            shadow[a] = IF a = bus.addr THEN bus.data[1] ELSE bus.data[2]

(* Whenever READY lets the master go, what it asked for is done: the byte   *)
(* or the word it read is the one memory holds, the write it gave is on its *)
(* way.  RAM.sv:667-705 and :570 say when.                                 *)
ReadyTellsTheTruth == ReadyMeansAnswered /\ ReadyMeansWordAnswered /\ ReadyMeansWritten

(* A column command of a write goes to the open row, the one it was meant   *)
(* for; refresh, and opening a row, find every row closed.                  *)
CommandsLegal ==
    /\ cmd.op = "WR" => openRow[cmd.at.bank] = latchAddress.row /\ cmd.at.bank = latchAddress.bank
    /\ cmd.op \in {"REF", "ACT", "MRS"} => \A b \in Bank : openRow[b] = NoRow

(* What a write-protected region holds, the bus cannot change.              *)
ProtectedIntact == [][\A a \in Protected : mem'[a] = mem[a]]_vars

(* A command that is held is answered, behind wait states, refreshes and    *)
(* what a reset or a change of speed left in the controller.               *)
HeldCommandAnswered ==
    (Reading \/ Writing) ~> (MayRelease \/ NoCommand)

(* However busy the bus, the SDRAM is refreshed.                            *)
RefreshHappens == (refreshCounter = ForceRefresh) ~> (refreshCounter = 0)

-----------------------------------------------------------------------------
(* The strengthening under which coherence is inductive: what the two       *)
(* machines and the pipeline between them hold in each pair of states.      *)

ReadWords == Words(prefetchArmed \/ wordArmed)
WriteLow == IF writeWordArmed THEN latchDataWord[1] ELSE latchData
Pending == [a \in Address |->
              IF a = latchAddress THEN WriteLow
              ELSE IF writeWordArmed /\ a = After(latchAddress)
                   THEN latchDataWord[2] ELSE mem[a]]
RowIsOpen == openRow[latchAddress.bank] = latchAddress.row
ColumnAt(op, a) == [bank |-> a.bank, row |-> 0, col |-> a.col] = cmd.at /\ cmd.op = op

(* Which states of the two machines occur together.                        *)
Lockstep ==
    /\ ramState \in {"IDLE", "COMPLETE_RAM_RW", "RAM_WRITE_1", "RAM_WRITE_2"} =>
         sdState # "READ" /\ ~readFlag
    /\ ramState \in {"IDLE", "COMPLETE_RAM_RW", "RAM_READ_1", "RAM_READ_2", "WAIT"} =>
         sdState # "WRITE"
    /\ ramState \in {"RAM_READ_1", "RAM_READ_2", "WAIT"} /\ sdState # "READ" => ~readFlag
    /\ ramState = "RAM_READ_1" /\ sdState # "READ" => ~readBeat
    /\ ramState = "RAM_READ_2" => sdState \in {"READ", "PRECHARGE"}
    /\ ramState = "RAM_WRITE_1" => ~writeBeat
    /\ ramState = "RAM_WRITE_2" => sdState \in {"WRITE", "PRECHARGE_WAIT"}
    /\ prefetchArmed \/ wordArmed \/ writeWordArmed => latchAddress.col # LastCol

(* Where a burst of reads is, clock by clock.                              *)
ReadPipeline ==
    ramState \in {"RAM_READ_1", "RAM_READ_2"} /\ sdState = "READ" =>
        /\ stateCounter \in 0 .. (3 + ReadWords)
        /\ accessCounter = stateCounter
        /\ readCounter = IF stateCounter <= 3 THEN 0 ELSE stateCounter - 3
        /\ (readFlag <=> stateCounter \in {4, 5})
        /\ (readBeat <=> stateCounter = 5)
        /\ (ramState = "RAM_READ_2" <=> stateCounter = 5)
        /\ stateCounter = 0 => cmd = Activate(latchAddress)
        /\ stateCounter # 0 => RowIsOpen /\ cmd.op \in {"RD", "NOP"}
        /\ stateCounter = 1 => ColumnAt("RD", latchAddress)
        /\ stateCounter = 2 => casPipe[1] = mem[latchAddress]
        /\ stateCounter = 3 => casPipe[2] = mem[latchAddress]
        /\ stateCounter = 4 => dataOut = mem[latchAddress]
        /\ ReadWords = 2 =>
             /\ stateCounter = 2 => ColumnAt("RD", After(latchAddress))
             /\ stateCounter = 3 => casPipe[1] = mem[After(latchAddress)]
             /\ stateCounter = 4 => casPipe[2] = mem[After(latchAddress)]
             /\ stateCounter = 5 => dataOut = mem[After(latchAddress)]

(* A read that was cut short drains without reaching a second word.         *)
AbortedRead ==
    ramState = "WAIT" /\ sdState = "READ" =>
        /\ stateCounter \in 0 .. 4
        /\ readCounter = IF stateCounter <= 3 THEN 0 ELSE 1
        /\ (readFlag <=> stateCounter = 4)
        /\ ~readBeat

(* What of an accepted write has reached the chip.                         *)
WriteProgress ==
    /\ ramState \notin {"RAM_WRITE_1", "RAM_WRITE_2"} => mem = shadow
    /\ ramState # "RAM_WRITE_2" => cmd.op # "WR"
    /\ ramState = "RAM_WRITE_1" =>
         /\ shadow = Pending
         /\ sdState = "WRITE" => cmd = Activate(latchAddress) /\ accessCounter = 0
    /\ ramState = "RAM_WRITE_2" => RowIsOpen /\ cmd.op = "WR"
    /\ ramState = "RAM_WRITE_2" /\ sdState = "WRITE" =>
         /\ shadow = Pending
         /\ writeWordArmed /\ writeBeat /\ accessCounter = 1
         /\ ColumnAt("WR", latchAddress) /\ cmd.dq = latchDataWord[1]
    /\ ramState = "RAM_WRITE_2" /\ sdState = "PRECHARGE_WAIT" =>
         /\ cmd.at.bank = latchAddress.bank
         /\ shadow = [mem EXCEPT ![Cell(cmd)] = cmd.dq]

(* What the master may have on the bus.                                    *)
BusContract ==
    /\ bus.kind \in {"readWord", "writeWord"} => bus.addr \in EvenAddress
    /\ Writing => bus.data[1] \in Byte
    /\ bus.kind = "writeWord" => bus.data[2] \in Byte

IInv == /\ TypeOK
        /\ BusContract
        /\ Lockstep
        /\ ReadPipeline
        /\ AbortedRead
        /\ WriteProgress
        /\ LookaheadCoherent
=============================================================================
