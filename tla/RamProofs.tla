------------------------------ MODULE RamProofs ------------------------------
(***************************************************************************)
(* Proofs about the memory port, for every geometry, every set of bus      *)
(* cycles and every timing parameter: IInv of RamProps is inductive, what  *)
(* it says of memory, of the commands on the pins and of the protected     *)
(* region, and what READY means at the fastest setting.                    *)
(***************************************************************************)
EXTENDS RamProps, TLAPS

(* The arithmetic of columns that the burst rests on.                      *)
LEMMA ColumnFacts ==
    /\ \A a \in Address, k \in Nat : BurstCol(a, k) \in Col
    /\ \A a \in Address : BurstCol(a, 0) = a.col
    /\ \A a \in Address : a.col # LastCol => BurstCol(a, 1) = After(a).col
    /\ \A a \in Address : After(a) \in Address
    /\ \A a \in Address : a.col # LastCol =>
            /\ After(a).bank = a.bank /\ After(a).row = a.row
            /\ After(a) # a
    /\ \A a \in EvenAddress : a \in Address /\ a.col # LastCol
    /\ Origin \in Address
PROOF
<1> USE GeometryAssumption, BusAssumption
<1>1. \A a \in Address, k \in Nat : BurstCol(a, k) \in Col
  BY DEF Address, BurstCol, Col
<1>2. \A a \in Address : BurstCol(a, 0) = a.col
  BY DEF Address, BurstCol, Col
<1>3. ASSUME NEW a \in Address
      PROVE  /\ After(a) \in Address
             /\ a.col # LastCol =>
                  /\ BurstCol(a, 1) = After(a).col
                  /\ After(a).bank = a.bank /\ After(a).row = a.row
                  /\ After(a) # a
  <2>1. a.bank \in 0 .. NBank - 1 /\ a.row \in 0 .. NRow - 1 /\ a.col \in 0 .. NCol - 1
    BY DEF Address, Bank, Row, Col
  <2>2. CASE a.col < NCol - 1
    <3>1. After(a) = [bank |-> a.bank, row |-> a.row, col |-> a.col + 1]
      BY <2>2 DEF After, LastCol
    <3>2. (a.col + 1) % NCol = a.col + 1
      BY <2>1, <2>2
    <3> QED
      BY <2>1, <2>2, <3>1, <3>2 DEF Address, Bank, Row, Col, BurstCol
  <2>3. CASE a.col = NCol - 1
    <3>1. After(a) = IF a.row < NRow - 1
                     THEN [bank |-> a.bank, row |-> a.row + 1, col |-> 0]
                     ELSE [bank |-> IF a.bank < NBank - 1 THEN a.bank + 1 ELSE 0,
                           row |-> 0, col |-> 0]
      BY <2>3 DEF After, LastCol
    <3> QED
      BY <2>1, <2>3, <3>1 DEF Address, Bank, Row, Col, LastCol
  <2> QED
    BY <2>1, <2>2, <2>3
<1>6. \A a \in EvenAddress : a \in Address /\ a.col # LastCol
  BY DEF EvenAddress, Address, Col, LastCol
<1>7. Origin \in Address
  BY DEF Origin, Address, Bank, Row, Col
<1> QED
  BY <1>1, <1>2, <1>3, <1>6, <1>7

(* One clock of the controller keeps its registers and the chip in type.    *)
LEMMA SdTypeStep ==
    ASSUME SdTypeOK,
           NEW a \in Address, NEW num \in {1, 2}, NEW din \in Line,
           NEW w \in BOOLEAN, NEW r \in BOOLEAN, NEW e \in BOOLEAN,
           SdClock(a, num, din, w, r, e)
    PROVE  SdTypeOK'
PROOF
<1> USE ColumnFacts, GeometryAssumption, TimingAssumption DEF SdTypeOK
<1>0. Junk \in Line
  BY DEF Line
<1>1. sdState' \in SdStates /\ cmd' \in Command
  <2>1. \A op \in Ops : Plain(op) \in Command
    BY <1>0 DEF Plain, Command
  <2>2. Activate(a) \in Command
    BY <1>0 DEF Activate, Command, Ops, Address, Col
  <2>3. \A op \in Ops, d \in Line : Column(op, a, d) \in Command
    BY DEF Column, Command, Address, Row
  <2>4. CASE Wait
    <3>1. Following[sdState] \in SdStates /\ Opening[sdState] \in Ops
      BY <2>4 DEF Wait, TimedStates, Following, Opening, SdStates, Ops
    <3> QED
      BY <2>4, <3>1, <2>1 DEF Wait, Ops
  <2>5. CASE Start(a, w, r, e)
    BY <2>5, <2>1, <2>2 DEF Start, SdStates, TimedStates, Ops
  <2>6. CASE Write(a, num, din)
    BY <2>6, <2>3 DEF Write, SdStates, TimedStates, Ops
  <2>7. CASE Read(a, num)
    BY <2>7, <2>1, <2>3, <1>0 DEF Read, SdStates, TimedStates, Ops
  <2> QED
    BY <2>4, <2>5, <2>6, <2>7 DEF SdClock
<1>2. /\ stateCounter' \in Nat /\ refreshCounter' \in 0 .. ForceRefresh
      /\ accessCounter' \in Nat /\ readCounter' \in Nat
  BY DEF SdClock, Count
<1>3. dataOut' \in Line /\ readFlag' \in BOOLEAN
  BY DEF SdClock, Sample
<1>4. RowOpen(cmd) => Cell(cmd) \in Address
  BY DEF RowOpen, Cell, Command, Address, NoRow
<1>5. mem' \in [Address -> Line]
  <2>1. cmd.dq \in Line
    BY DEF Command
  <2> QED
    BY <1>4, <2>1 DEF SdClock, Chip
<1>6. openRow' \in [Bank -> Row \cup {NoRow}]
  <2>1. cmd.at.bank \in Bank /\ cmd.at.row \in Row
    BY DEF Command, Address
  <2> QED
    BY <2>1 DEF SdClock, Chip
<1>7. casPipe' \in Line \X Line
  BY <1>0, <1>4 DEF SdClock, Chip
<1> QED
  BY <1>1, <1>2, <1>3, <1>5, <1>6, <1>7

(* What the bus may carry next is in type and keeps the contract.           *)
LEMMA BusStep ==
    ASSUME TypeOK, BusContract, NextBus
    PROVE  bus' \in BusTypes /\ clkSelect' \in 0 .. 3 /\ BusContract'
PROOF
<1> USE ColumnFacts, BusAssumption
    DEF TypeOK, RamTypeOK, BusContract, Reading, Writing, NoCommand
<1>0. /\ Junk \in Line /\ NoData \in Line \X Line
      /\ \A x \in Byte : x \in Line
  BY DEF Line, NoData
<1>1. CASE bus' = Older /\ clkSelect' \in 0 .. 3
  <2>1. bus.age \in 1 .. MaxAge /\ Older.age \in 1 .. MaxAge
    BY DEF BusTypes, Older, Oldest, MaxAge
  <2>2. Older \in BusTypes
    BY <2>1 DEF Older, BusTypes
  <2> QED
    BY <1>1, <2>2 DEF Older
<1>2. CASE bus' \in BusCycles /\ clkSelect' \in 0 .. 3
  <2>1. 1 \in 1 .. MaxAge
    BY DEF MaxAge
  <2>2. /\ bus'.kind \in BusKinds
        /\ bus'.addr \in Address
        /\ bus'.data \in Line \X Line
        /\ bus'.age = 1
        /\ bus' = [kind |-> bus'.kind, addr |-> bus'.addr,
                   data |-> bus'.data, age |-> bus'.age]
    BY <1>0, <1>2 DEF BusCycles, BusKinds
  <2>3. bus' \in BusTypes
    BY <2>1, <2>2 DEF BusTypes
  <2> QED
    BY <1>2, <2>3 DEF BusCycles
<1>3. CASE bus' \in {Quiet(1), InReset} /\ clkSelect' \in 0 .. 3
  <2>1. 1 \in 1 .. MaxAge
    BY DEF MaxAge
  <2> QED
    BY <1>0, <1>3, <2>1 DEF Quiet, InReset, BusTypes
<1>4. CASE bus' = bus /\ clkSelect' = clkSelect
  BY <1>4
<1>5. Speeds \subseteq 0 .. 3 /\ clkSelect \in 0 .. 3 /\ 0 \in 0 .. 3
  OBVIOUS
<1>6. \/ bus' = Older /\ clkSelect' \in 0 .. 3
      \/ bus' \in BusCycles /\ clkSelect' \in 0 .. 3
      \/ bus' \in {Quiet(1), InReset} /\ clkSelect' \in 0 .. 3
      \/ bus' = bus /\ clkSelect' = clkSelect
  BY ONLY <1>5, NextBus DEF NextBus
<1> QED
  BY ONLY <1>1, <1>2, <1>3, <1>4, <1>6

(* The registers that move on every edge stay in type.                     *)
LEMMA RegistersTypeStep ==
    ASSUME TypeOK, BusContract, Registers
    PROVE  /\ latchAddress' \in Address /\ latchData' \in Line
           /\ latchDataWord' \in Line \X Line
           /\ readBeat' \in BOOLEAN /\ writeBeat' \in BOOLEAN
           /\ prefetchArmed' \in BOOLEAN /\ wordArmed' \in BOOLEAN
           /\ writeWordArmed' \in BOOLEAN
           /\ dataBusOutReg' \in Line /\ dataBusOutHi' \in Line
           /\ lookahead' \in [{0, 1} -> Entry] /\ victim' \in {0, 1}
           /\ accessReady' \in BOOLEAN
           /\ readWaitCount' \in 0 .. 3 /\ writeWaitCount' \in 0 .. 3
           /\ prevNoCommand' \in BOOLEAN
PROOF
<1> USE ColumnFacts, BusAssumption DEF TypeOK, RamTypeOK, SdTypeOK, Registers
<1>1. bus.addr \in Address /\ bus.data \in Line \X Line
  BY DEF BusTypes
<1>2. /\ latchAddress' \in Address /\ latchData' \in Line
      /\ latchDataWord' \in Line \X Line
      /\ prefetchArmed' \in BOOLEAN /\ wordArmed' \in BOOLEAN
      /\ writeWordArmed' \in BOOLEAN
  BY <1>1 DEF Latches, StartPrefetch, WordRequest, WriteWordRequest, ReadCommand,
        Reading, LookaheadEnable, LookaheadHit, WriteCommand, Writing
<1>3. readBeat' \in BOOLEAN /\ writeBeat' \in BOOLEAN
  BY DEF Beats
<1>4. dataBusOutReg' \in Line /\ dataBusOutHi' \in Line
  <2>1. lookahead[0].data \in Line /\ lookahead[1].data \in Line
    BY DEF Entry
  <2> QED
    BY <2>1 DEF DataRegisters, LookaheadAnswer
<1>5. lookahead' \in [{0, 1} -> Entry] /\ victim' \in {0, 1}
  <2>1. \A i \in {0, 1} : lookahead[i].addr \in Address /\ lookahead[i].data \in Line
                          /\ lookahead[i].valid \in BOOLEAN
    BY DEF Entry
  <2>2. After(latchAddress) \in Address
    OBVIOUS
  <2>3. victim' \in {0, 1}
    BY DEF Lookahead
  <2>4. ASSUME NEW i \in {0, 1}
        PROVE  lookahead'[i] \in Entry
    BY <2>1, <2>2, SMTT(20) DEF Lookahead, Entry, Parking, Invalidated
  <2>5. lookahead' = [i \in {0, 1} |-> lookahead'[i]]
    BY DEF Lookahead
  <2> QED
    BY <2>3, <2>4, <2>5
<1>6. accessReady' \in BOOLEAN /\ prevNoCommand' \in BOOLEAN
  BY DEF Ready, NoCommand
<1>7. readWaitCount' \in 0 .. 3 /\ writeWaitCount' \in 0 .. 3
  BY DEF WaitCounts
<1> QED
  BY <1>2, <1>3, <1>4, <1>5, <1>6, <1>7

(* The inputs the controller is given in each state, in type.               *)
LEMMA InputTypes ==
    ASSUME TypeOK
    PROVE  /\ bus.addr \in Address /\ latchAddress \in Address /\ Origin \in Address
           /\ IdleData \in Line /\ WriteByte \in Line /\ Junk \in Line
           /\ \A b \in BOOLEAN : Words(b) \in {1, 2}
           /\ IdleWords \in {1, 2} /\ ReadWords \in {1, 2}
           /\ Words(writeWordArmed) \in {1, 2}
           /\ 1 \in {1, 2}
           /\ EnableRefresh \in BOOLEAN /\ TRUE \in BOOLEAN /\ FALSE \in BOOLEAN
PROOF
<1> USE ColumnFacts DEF TypeOK, RamTypeOK
<1>1. bus.addr \in Address /\ bus.data[1] \in Line /\ bus.data[2] \in Line
  BY DEF BusTypes
<1>2. IdleData \in Line /\ WriteByte \in Line /\ Junk \in Line
  BY <1>1 DEF IdleData, WriteByte, Line
<1>3. /\ \A b \in BOOLEAN : Words(b) \in {1, 2}
      /\ IdleWords \in {1, 2} /\ ReadWords \in {1, 2}
      /\ Words(writeWordArmed) \in {1, 2}
  BY DEF Words, IdleWords, ReadWords
<1>4. EnableRefresh \in BOOLEAN
  BY DEF EnableRefresh, NoCommand
<1> QED
  BY <1>1, <1>2, <1>3, <1>4

(* Every step clocks the controller with typed inputs and moves Registers.  *)
LEMMA NextShape ==
    ASSUME TypeOK, Next
    PROVE  /\ Registers
           /\ SdTypeOK'
           /\ ramState' \in RamStates
           /\ shadow' = shadow \/ AcceptWrite
PROOF
<1> USE InputTypes, SdTypeStep
<1>0. SdTypeOK
  BY DEF TypeOK
<1>1. CASE AcceptWrite
  BY <1>0, <1>1 DEF AcceptWrite, RamStates
<1>2. CASE AcceptRead
  BY <1>0, <1>2 DEF AcceptRead, RamStates
<1>3. CASE AnswerFromLookahead
  BY <1>0, <1>3 DEF AnswerFromLookahead, RamStates
<1>4. CASE StayIdle
  BY <1>0, <1>4 DEF StayIdle, RamStates
<1>5. CASE RamWrite1
  BY <1>0, <1>5 DEF RamWrite1, RamStates
<1>6. CASE RamWrite2
  BY <1>0, <1>6 DEF RamWrite2, RamStates
<1>7. CASE RamRead1
  BY <1>0, <1>7 DEF RamRead1, RamStates, ReadWords
<1>8. CASE RamRead2
  BY <1>0, <1>8 DEF RamRead2, RamStates, ReadWords
<1>9. CASE CompleteRamRw
  BY <1>0, <1>9 DEF CompleteRamRw, RamStates
<1>10. CASE WaitIdle
  BY <1>0, <1>10 DEF WaitIdle, RamStates
<1> QED
  BY <1>1, <1>2, <1>3, <1>4, <1>5, <1>6, <1>7, <1>8, <1>9, <1>10 DEF Next

(* Types and the bus contract are preserved.                               *)
LEMMA TypeStep ==
    ASSUME TypeOK, BusContract, Next
    PROVE  TypeOK' /\ BusContract'
PROOF
<1>1. Registers /\ SdTypeOK' /\ ramState' \in RamStates
  BY NextShape
<1>2. bus' \in BusTypes /\ clkSelect' \in 0 .. 3 /\ BusContract'
  BY <1>1, BusStep DEF Registers
<1>3. shadow' \in [Address -> Byte]
  <2>1. CASE shadow' = shadow
    BY <2>1 DEF TypeOK, RamTypeOK
  <2>2. CASE AcceptWrite
    <3>1. Writing /\ bus.data[1] \in Byte /\ (WriteWordRequest => bus.data[2] \in Byte)
      BY <2>2 DEF AcceptWrite, WriteCommand, WriteWordRequest, BusContract
    <3>2. \A a \in Address : shadow[a] \in Byte
      BY DEF TypeOK, RamTypeOK
    <3> QED
      BY <2>2, <3>1, <3>2 DEF AcceptWrite, WriteLandsOn
  <2> QED
    BY <2>1, <2>2, NextShape
<1> QED
  BY <1>1, <1>2, <1>3, RegistersTypeStep DEF TypeOK, RamTypeOK

-----------------------------------------------------------------------------
(* What one clock of the controller does, by the state it is in.            *)

(* Outside a burst: nothing reaches the cells, and a burst starts only from *)
(* IDLE, on request, with the row of the given address being opened.        *)
LEMMA QuietClock ==
    ASSUME SdTypeOK, NEW a, NEW num, NEW din,
           NEW w \in BOOLEAN, NEW r \in BOOLEAN, NEW e \in BOOLEAN,
           SdClock(a, num, din, w, r, e),
           sdState \notin {"READ", "WRITE"}, cmd.op # "WR"
    PROVE  /\ readFlag' = FALSE /\ mem' = mem /\ cmd'.op # "WR"
           /\ accessCounter' = 0 /\ readCounter' = 0
           /\ sdState' = "WRITE" => w /\ sdState = "IDLE"
           /\ sdState' = "READ" => ~w /\ r /\ sdState = "IDLE"
           /\ sdState' \in {"READ", "WRITE"} => cmd' = Activate(a) /\ stateCounter' = 0
PROOF
<1>1. readFlag' = FALSE /\ mem' = mem /\ accessCounter' = 0 /\ readCounter' = 0
  BY DEF SdClock, Sample, Chip, Count, SdTypeOK
<1>2. CASE Wait
  <2>1. /\ Following[sdState] \notin {"READ", "WRITE"} /\ sdState' \notin {"READ", "WRITE"}
        /\ Opening[sdState] # "WR"
    BY <1>2 DEF Wait, TimedStates, Following, Opening
  <2>2. cmd'.op # "WR"
    BY <1>2, <2>1 DEF Wait, Plain
  <2> QED
    BY <1>1, <2>1, <2>2
<1>3. CASE Start(a, w, r, e)
  <2>1. stateCounter' = 0 /\ sdState = "IDLE"
    BY <1>3 DEF Start, SdClock, Count
  <2> QED
    BY <1>1, <1>3, <2>1 DEF Start, Plain, Activate
<1> QED
  BY <1>2, <1>3 DEF SdClock, Write, Read

(* In a burst of reads.                                                    *)
LEMMA ReadClock ==
    ASSUME SdTypeOK, NEW a, NEW num \in {1, 2}, NEW din, NEW w, NEW r, NEW e,
           SdClock(a, num, din, w, r, e), sdState = "READ", cmd.op # "WR"
    PROVE  /\ sdState' = IF stateCounter >= num /\ readCounter = num
                         THEN "PRECHARGE" ELSE "READ"
           /\ cmd' = IF stateCounter < num THEN Column("RD", a, Junk) ELSE Plain("NOP")
           /\ cmd'.op # "WR" /\ mem' = mem
           /\ sdState' = "READ" => stateCounter' = stateCounter + 1
           /\ accessCounter' = accessCounter + 1
           /\ readCounter' = IF stateCounter <= 2 THEN 0
                             ELSE IF readCounter # num THEN readCounter + 1 ELSE readCounter
           /\ (readFlag' <=> sdState' = "READ" /\ stateCounter > 2)
           /\ dataOut' = casPipe[2] /\ casPipe'[2] = casPipe[1]
PROOF
<1>1. Read(a, num)
  BY DEF SdClock, Wait, Start, Write, TimedStates
<1>2. cmd'.op # "WR"
  BY <1>1 DEF Read, Column, Plain
<1> QED
  BY <1>1, <1>2 DEF Read, SdClock, Count, Sample, Chip, CasLatency

(* A column command to an address whose row is open reaches that address.   *)
LEMMA CellOfColumn ==
    ASSUME SdTypeOK, NEW a \in Address, openRow[a.bank] = a.row,
           cmd.at = [bank |-> a.bank, row |-> 0, col |-> a.col]
    PROVE  Cell(cmd) = a /\ RowOpen(cmd)
PROOF
<1>1. a = [bank |-> a.bank, row |-> a.row, col |-> a.col] /\ a.row \in Row
  BY DEF Address
<1>2. a.row # NoRow
  BY <1>1, GeometryAssumption DEF Row, NoRow
<1> QED
  BY <1>1, <1>2 DEF Cell, RowOpen

(* After an activation the row is open; without a precharge it stays so.    *)
LEMMA RowOpens ==
    ASSUME SdTypeOK, Chip, NEW a \in Address,
           cmd = Activate(a) \/ (openRow[a.bank] = a.row /\ cmd.op \notin {"ACT", "PRE"})
    PROVE  openRow'[a.bank] = a.row
PROOF
<1>1. a.bank \in Bank
  BY DEF Address
<1> QED
  BY <1>1 DEF Chip, Activate

-----------------------------------------------------------------------------
(* The lookahead entries.                                                  *)

(* Nothing but a write or a park disturbs them.                            *)
LEMMA EntriesKept ==
    ASSUME TypeOK, LookaheadCoherent, Lookahead, shadow' = shadow,
           Parking => dataOut = shadow[After(latchAddress)]
    PROVE  LookaheadCoherent'
PROOF
<1> SUFFICES ASSUME NEW i \in {0, 1}, lookahead'[i].valid
             PROVE  lookahead'[i].data = shadow[lookahead'[i].addr]
  BY DEF LookaheadCoherent
<1>1. CASE Parking /\ victim = i
  <2>1. lookahead'[i] = [addr |-> After(latchAddress), data |-> dataOut, valid |-> TRUE]
    BY <1>1 DEF Lookahead
  <2> QED
    BY <1>1, <2>1
<1>2. CASE ~(Parking /\ victim = i)
  <2>1. lookahead'[i] = lookahead[i] /\ lookahead[i].valid
    BY <1>2 DEF Lookahead
  <2> QED
    BY <2>1 DEF LookaheadCoherent
<1> QED
  BY <1>1, <1>2

(* An accepted write clears the entries it lands on.                       *)
LEMMA EntriesInvalidated ==
    ASSUME TypeOK, LookaheadCoherent, Lookahead, ~readFlag,
           ramState = "IDLE", WriteCommand,
           \A a \in Address : ~WriteLandsOn(a) => shadow'[a] = shadow[a]
    PROVE  LookaheadCoherent'
PROOF
<1> SUFFICES ASSUME NEW i \in {0, 1}, lookahead'[i].valid
             PROVE  lookahead'[i].data = shadow'[lookahead'[i].addr]
  BY DEF LookaheadCoherent
<1>1. lookahead'[i] = lookahead[i] /\ lookahead[i].valid /\ ~Invalidated(i)
  BY DEF Lookahead, Parking
<1>5. ~WriteLandsOn(lookahead[i].addr)
  BY <1>1 DEF Invalidated
<1>6. lookahead[i].addr \in Address
  BY DEF TypeOK, RamTypeOK, Entry
<1> QED
  BY <1>1, <1>5, <1>6 DEF LookaheadCoherent

-----------------------------------------------------------------------------
(* The inductive step, state by state of RAM.sv's machine.                  *)

Rest == Lockstep /\ ReadPipeline /\ AbortedRead /\ WriteProgress /\ LookaheadCoherent

(* Leaving IDLE arms a burst of two only where the second word is in the     *)
(* same row.                                                               *)
LEMMA ArmedColumn ==
    ASSUME TypeOK, BusContract, ramState = "IDLE", Latches
    PROVE  prefetchArmed' \/ wordArmed' \/ writeWordArmed' => latchAddress'.col # LastCol
PROOF
<1>1. WordRequest \/ WriteWordRequest => bus.addr \in EvenAddress
  BY DEF WordRequest, WriteWordRequest, BusContract
<1>2. WordRequest \/ WriteWordRequest => bus.addr.col # LastCol
  BY <1>1, ColumnFacts
<1> QED
  BY <1>2 DEF Latches, StartPrefetch

LEMMA AcceptWriteStep ==
    ASSUME IInv, AcceptWrite
    PROVE  Rest'
PROOF
<1> USE DEF IInv
<1>1. /\ SdTypeOK /\ ramState = "IDLE" /\ WriteCommand /\ ramState' = "RAM_WRITE_1"
      /\ SdClock(bus.addr, IdleWords, IdleData, TRUE, FALSE, EnableRefresh)
      /\ Lookahead /\ Latches /\ Beats
      /\ bus.addr \in Address /\ After(bus.addr) \in Address
  BY InputTypes, ColumnFacts DEF TypeOK, AcceptWrite, Registers
<1>2. sdState \notin {"READ", "WRITE"} /\ ~readFlag /\ mem = shadow /\ cmd.op # "WR"
  BY <1>1 DEF Lockstep, WriteProgress
<1>3. /\ readFlag' = FALSE /\ mem' = mem /\ cmd'.op # "WR"
      /\ accessCounter' = 0 /\ sdState' # "READ"
      /\ sdState' = "WRITE" => cmd' = Activate(bus.addr)
  BY <1>1, <1>2, QuietClock, InputTypes
<1>4. latchAddress' = bus.addr /\ ~writeBeat' /\ ~readBeat'
  BY <1>1 DEF Latches, Beats
<1>5. Lockstep'
  BY <1>1, <1>3, <1>4, ArmedColumn DEF Lockstep
<1>6. ReadPipeline' /\ AbortedRead'
  BY <1>1 DEF ReadPipeline, AbortedRead
<1>7. shadow' = Pending'
  <2>1. /\ latchData' = bus.data[1] /\ latchDataWord' = bus.data
        /\ writeWordArmed' = WriteWordRequest
    BY <1>1 DEF Latches
  <2>2. WriteLow' = bus.data[1]
    BY <2>1 DEF WriteLow
  <2> QED
    BY <1>2, <1>3, <1>4, <2>1, <2>2 DEF Pending, AcceptWrite, WriteLandsOn
<1>8. WriteProgress'
  BY <1>1, <1>3, <1>4, <1>7 DEF WriteProgress
<1>9. LookaheadCoherent'
  <2>1. \A a \in Address : ~WriteLandsOn(a) => shadow'[a] = shadow[a]
    BY DEF AcceptWrite, WriteLandsOn
  <2> QED
    BY <1>1, <1>2, <2>1, EntriesInvalidated
<1> QED
  BY <1>5, <1>6, <1>8, <1>9 DEF Rest

LEMMA AcceptReadStep ==
    ASSUME IInv, AcceptRead
    PROVE  Rest'
PROOF
<1> USE DEF IInv
<1>1. /\ SdTypeOK /\ ramState = "IDLE" /\ ReadCommand /\ ramState' = "RAM_READ_1"
      /\ SdClock(bus.addr, IdleWords, IdleData, FALSE, TRUE, EnableRefresh)
      /\ Lookahead /\ Latches /\ Beats /\ shadow' = shadow
  BY DEF TypeOK, AcceptRead, Registers
<1>2. sdState \notin {"READ", "WRITE"} /\ ~readFlag /\ mem = shadow /\ cmd.op # "WR"
  BY <1>1 DEF Lockstep, WriteProgress
<1>3. /\ readFlag' = FALSE /\ mem' = mem /\ cmd'.op # "WR"
      /\ accessCounter' = 0 /\ readCounter' = 0 /\ sdState' # "WRITE"
      /\ sdState' = "READ" => cmd' = Activate(bus.addr) /\ stateCounter' = 0
  BY <1>1, <1>2, QuietClock, InputTypes
<1>4. latchAddress' = bus.addr /\ ~writeBeat' /\ ~readBeat'
  BY <1>1 DEF Latches, Beats
<1>5. Lockstep'
  BY <1>1, <1>3, <1>4, ArmedColumn DEF Lockstep
<1>6. ReadWords' \in {1, 2}
  BY DEF ReadWords, Words
<1>7. ReadPipeline' /\ AbortedRead'
  <2>1. CASE sdState' = "READ"
    <3>1. /\ stateCounter' = 0 /\ accessCounter' = 0 /\ readCounter' = 0
          /\ readFlag' = FALSE /\ readBeat' = FALSE /\ ramState' = "RAM_READ_1"
          /\ cmd' = Activate(latchAddress)'
      BY <1>1, <1>3, <1>4, <2>1 DEF Activate, Beats
    <3>2. \A n \in {1, 2} : 0 \in 0 .. (3 + n)
      OBVIOUS
    <3>3. 0 \in 0 .. (3 + ReadWords')
      BY <1>6, <3>2
    <3> QED
      BY <3>1, <3>3 DEF ReadPipeline, AbortedRead
  <2>2. CASE sdState' # "READ"
    BY <2>2 DEF ReadPipeline, AbortedRead
  <2> QED
    BY <2>1, <2>2
<1>8. WriteProgress'
  BY <1>1, <1>2, <1>3 DEF WriteProgress
<1>9. LookaheadCoherent'
  BY <1>1, <1>2, EntriesKept DEF Parking
<1> QED
  BY <1>5, <1>7, <1>8, <1>9 DEF Rest

(* A step without a request between two states that hold nothing in flight. *)
LEMMA RestingStep ==
    ASSUME IInv, Registers, shadow' = shadow,
           NEW a, NEW num, NEW din,
           SdClock(a, num, din, FALSE, FALSE, EnableRefresh),
           ramState \in {"IDLE", "COMPLETE_RAM_RW"} \/ (ramState = "WAIT" /\ sdState # "READ"),
           ramState' \in {"IDLE", "COMPLETE_RAM_RW", "WAIT"}
    PROVE  Rest'
PROOF
<1> USE DEF IInv
<1>1. SdTypeOK /\ Lookahead /\ Latches
  BY DEF TypeOK, Registers
<1>2. sdState \notin {"READ", "WRITE"} /\ ~readFlag /\ mem = shadow /\ cmd.op # "WR"
  BY DEF Lockstep, WriteProgress
<1>3. /\ readFlag' = FALSE /\ mem' = mem /\ cmd'.op # "WR"
      /\ sdState' \notin {"READ", "WRITE"}
  BY <1>1, <1>2, QuietClock, InputTypes
<1>4. prefetchArmed' \/ wordArmed' \/ writeWordArmed' => latchAddress'.col # LastCol
  <2>1. CASE ramState = "IDLE"
    BY <1>1, <2>1, ArmedColumn
  <2>2. CASE ramState # "IDLE"
    BY <1>1, <2>2 DEF Latches, Lockstep
  <2> QED
    BY <2>1, <2>2
<1>5. Lockstep'
  BY <1>3, <1>4 DEF Lockstep
<1>6. ReadPipeline' /\ AbortedRead' /\ WriteProgress'
  BY <1>2, <1>3 DEF ReadPipeline, AbortedRead, WriteProgress
<1>7. LookaheadCoherent'
  BY <1>1, <1>2, EntriesKept DEF Parking
<1> QED
  BY <1>5, <1>6, <1>7 DEF Rest

(* A read that was cut short drains; nothing is parked from it.             *)
LEMMA WaitIdleStep ==
    ASSUME IInv, WaitIdle
    PROVE  Rest'
PROOF
<1> USE DEF IInv
<1>1. /\ SdTypeOK /\ ramState = "WAIT" /\ ramState' = (IF SdIdle THEN "IDLE" ELSE "WAIT")
      /\ SdClock(Origin, 1, Junk, FALSE, FALSE, EnableRefresh)
      /\ Registers /\ Lookahead /\ Latches /\ Beats /\ shadow' = shadow
  BY DEF TypeOK, WaitIdle, Registers
<1>2. CASE sdState # "READ"
  BY <1>1, <1>2, RestingStep
<1>3. CASE sdState = "READ"
  <2>1. /\ ramState' = "WAIT" /\ cmd.op # "WR" /\ mem = shadow
        /\ stateCounter \in 0 .. 4
        /\ readCounter = IF stateCounter <= 3 THEN 0 ELSE 1
        /\ (readFlag <=> stateCounter = 4) /\ ~readBeat
    BY <1>1, <1>3 DEF SdIdle, WriteProgress, AbortedRead
  <2>2. /\ sdState' = IF stateCounter >= 1 /\ readCounter = 1
                      THEN "PRECHARGE" ELSE "READ"
        /\ cmd'.op # "WR" /\ mem' = mem
        /\ sdState' = "READ" => stateCounter' = stateCounter + 1
        /\ readCounter' = IF stateCounter <= 2 THEN 0
                          ELSE IF readCounter # 1 THEN readCounter + 1 ELSE readCounter
        /\ (readFlag' <=> sdState' = "READ" /\ stateCounter > 2)
    BY <1>1, <1>3, <2>1, ReadClock, InputTypes
  <2>3. Lockstep'
    BY <1>1, <2>1, <2>2 DEF Lockstep, Latches
  <2>4. AbortedRead'
    <3>1. SUFFICES ASSUME sdState' = "READ"
                   PROVE  AbortedRead'
      BY DEF AbortedRead
    <3>2. stateCounter \in 0 .. 3 /\ ~readFlag
      BY <2>1, <2>2, <3>1
    <3>3. ~readBeat'
      BY <1>1, <2>1, <3>2 DEF Beats
    <3>4. /\ stateCounter' \in 0 .. 4
          /\ readCounter' = IF stateCounter' <= 3 THEN 0 ELSE 1
          /\ (readFlag' <=> stateCounter' = 4)
      BY <2>1, <2>2, <3>1, <3>2
    <3> QED
      BY <3>3, <3>4 DEF AbortedRead
  <2>5. ReadPipeline' /\ WriteProgress'
    BY <1>1, <2>1, <2>2 DEF ReadPipeline, WriteProgress
  <2>6. LookaheadCoherent'
    BY <1>1, <2>1, EntriesKept DEF Parking
  <2> QED
    BY <2>3, <2>4, <2>5, <2>6 DEF Rest
<1> QED
  BY <1>2, <1>3

(* A write that was accepted is carried out.                               *)
LEMMA WriteClock ==
    ASSUME SdTypeOK, NEW a, NEW num, NEW din, NEW w, NEW r, NEW e,
           SdClock(a, num, din, w, r, e), sdState = "WRITE"
    PROVE  /\ sdState' = IF accessCounter = num - 1 THEN "PRECHARGE_WAIT" ELSE "WRITE"
           /\ cmd' = Column("WR", a, din)
           /\ accessCounter' = accessCounter + 1
           /\ ~readFlag' /\ Chip
PROOF
<1>1. Write(a, num, din)
  BY DEF SdClock, Wait, Start, Read, TimedStates
<1> QED
  BY <1>1 DEF Write, SdClock, Count, Sample

LEMMA RamWrite1Step ==
    ASSUME IInv, RamWrite1
    PROVE  Rest'
PROOF
<1> USE DEF IInv
<1>1. /\ SdTypeOK /\ ramState = "RAM_WRITE_1"
      /\ ramState' = (IF WriteFlag THEN "RAM_WRITE_2" ELSE "RAM_WRITE_1")
      /\ SdClock(latchAddress, Words(writeWordArmed), WriteByte, TRUE, FALSE, EnableRefresh)
      /\ Lookahead /\ Latches /\ Beats /\ shadow' = shadow
      /\ latchAddress \in Address
      /\ mem \in [Address -> Line]
  BY DEF TypeOK, RamTypeOK, SdTypeOK, RamWrite1, Registers
<1>2. /\ sdState # "READ" /\ ~readFlag /\ ~writeBeat
      /\ cmd.op # "WR" /\ shadow = Pending
      /\ sdState = "WRITE" => cmd = Activate(latchAddress) /\ accessCounter = 0
      /\ (prefetchArmed \/ wordArmed \/ writeWordArmed => latchAddress.col # LastCol)
  BY <1>1 DEF Lockstep, WriteProgress
<1>3. /\ latchAddress' = latchAddress /\ latchData' = latchData
      /\ latchDataWord' = latchDataWord /\ prefetchArmed' = prefetchArmed
      /\ wordArmed' = wordArmed /\ writeWordArmed' = writeWordArmed
  BY <1>1 DEF Latches
<1>4. LookaheadCoherent'
  BY <1>1, <1>2, EntriesKept DEF Parking
<1>5. CASE sdState # "WRITE"
  <2>1. /\ readFlag' = FALSE /\ mem' = mem /\ cmd'.op # "WR"
        /\ accessCounter' = 0 /\ sdState' # "READ"
        /\ sdState' = "WRITE" => cmd' = Activate(latchAddress)
    BY <1>1, <1>2, <1>5, QuietClock, InputTypes
  <2>2. ramState' = "RAM_WRITE_1" /\ ~writeBeat'
    BY <1>1, <1>2, <1>5 DEF WriteFlag, Beats
  <2>3. Lockstep'
    BY <1>2, <1>3, <2>1, <2>2 DEF Lockstep
  <2>4. ReadPipeline' /\ AbortedRead'
    BY <2>2 DEF ReadPipeline, AbortedRead
  <2>5. shadow' = Pending'
    BY <1>1, <1>2, <1>3, <2>1 DEF Pending, WriteLow
  <2>6. WriteProgress'
    BY <1>3, <2>1, <2>2, <2>5 DEF WriteProgress
  <2> QED
    BY <1>4, <2>3, <2>4, <2>6 DEF Rest
<1>6. CASE sdState = "WRITE"
  <2>1. /\ sdState' = IF accessCounter = Words(writeWordArmed) - 1
                      THEN "PRECHARGE_WAIT" ELSE "WRITE"
        /\ cmd' = Column("WR", latchAddress, WriteByte)
        /\ accessCounter' = accessCounter + 1
        /\ ~readFlag' /\ Chip
    BY <1>1, <1>6, WriteClock
  <2>2. ramState' = "RAM_WRITE_2" /\ writeBeat'
    BY <1>1, <1>6 DEF WriteFlag, Beats
  <2>3. mem' = mem
    BY <1>2, <2>1 DEF Chip
  <2>4. openRow'[latchAddress.bank] = latchAddress.row
    BY <1>1, <1>2, <1>6, <2>1, RowOpens
  <2>5. /\ cmd'.op = "WR" /\ cmd'.dq = WriteByte
        /\ cmd'.at = [bank |-> latchAddress.bank, row |-> 0, col |-> latchAddress.col]
    BY <1>1, <1>2, <1>6, <2>1, ColumnFacts DEF Column
  <2>6. WriteByte = WriteLow
    BY <1>2 DEF WriteByte, WriteLow
  <2>7. CASE writeWordArmed
    <3>1. sdState' = "WRITE" /\ accessCounter' = 1
      BY <1>2, <1>6, <2>1, <2>7 DEF Words
    <3>2. Lockstep'
      BY <1>2, <1>3, <2>1, <2>2, <3>1 DEF Lockstep
    <3>3. shadow' = Pending'
      BY <1>1, <1>2, <1>3, <2>3 DEF Pending, WriteLow
    <3>4. cmd'.dq = latchDataWord[1]
      BY <2>5, <2>6, <2>7 DEF WriteLow
    <3>5. WriteProgress'
      BY <1>3, <2>2, <2>4, <2>5, <2>7, <3>1, <3>3, <3>4
         DEF WriteProgress, RowIsOpen, ColumnAt
    <3> QED
      BY <1>4, <2>2, <3>2, <3>5 DEF Rest, ReadPipeline, AbortedRead
  <2>8. CASE ~writeWordArmed
    <3>1. sdState' = "PRECHARGE_WAIT"
      BY <1>2, <1>6, <2>1, <2>8 DEF Words
    <3>2. Lockstep'
      BY <1>2, <1>3, <2>1, <2>2, <3>1 DEF Lockstep
    <3>3. Cell(cmd)' = latchAddress
      BY <1>1, <2>4, <2>5 DEF Cell, Address
    <3>4. Pending = [mem EXCEPT ![latchAddress] = WriteLow]
      BY <1>1, <2>8 DEF Pending
    <3>5. shadow' = [mem' EXCEPT ![Cell(cmd)'] = cmd'.dq]
      BY <1>1, <1>2, <2>3, <2>5, <2>6, <3>3, <3>4
    <3>6. WriteProgress'
      BY <1>3, <2>2, <2>4, <2>5, <3>1, <3>5 DEF WriteProgress, RowIsOpen
    <3> QED
      BY <1>4, <2>2, <3>2, <3>6 DEF Rest, ReadPipeline, AbortedRead
  <2> QED
    BY <2>7, <2>8
<1> QED
  BY <1>5, <1>6

(* Two words written one after the other.                                  *)
LEMMA TwoCells ==
    ASSUME NEW S, NEW T, NEW f \in [S -> T], NEW p \in S, NEW q \in S, p # q,
           NEW u, NEW v
    PROVE  [x \in S |-> IF x = p THEN u ELSE IF x = q THEN v ELSE f[x]]
             = [[f EXCEPT ![p] = u] EXCEPT ![q] = v]
PROOF
  OBVIOUS

LEMMA RamWrite2Step ==
    ASSUME IInv, RamWrite2
    PROVE  Rest'
PROOF
<1> USE DEF IInv
<1>1. /\ SdTypeOK /\ ramState = "RAM_WRITE_2"
      /\ ramState' = (IF ~WriteFlag THEN "COMPLETE_RAM_RW" ELSE "RAM_WRITE_2")
      /\ SdClock(latchAddress, Words(writeWordArmed), WriteByte, FALSE, FALSE, EnableRefresh)
      /\ Lookahead /\ Latches /\ Beats /\ shadow' = shadow
      /\ latchAddress \in Address
      /\ mem \in [Address -> Line]
  BY DEF TypeOK, RamTypeOK, SdTypeOK, RamWrite2, Registers
<1>2. /\ sdState \in {"WRITE", "PRECHARGE_WAIT"} /\ ~readFlag
      /\ RowIsOpen /\ cmd.op = "WR"
      /\ (prefetchArmed \/ wordArmed \/ writeWordArmed => latchAddress.col # LastCol)
  BY <1>1 DEF Lockstep, WriteProgress
<1>3. /\ latchAddress' = latchAddress /\ latchData' = latchData
      /\ latchDataWord' = latchDataWord /\ prefetchArmed' = prefetchArmed
      /\ wordArmed' = wordArmed /\ writeWordArmed' = writeWordArmed
  BY <1>1 DEF Latches
<1>4. LookaheadCoherent'
  BY <1>1, <1>2, EntriesKept DEF Parking
<1>5. CASE sdState = "WRITE"
  <2>1. /\ shadow = Pending
        /\ writeWordArmed /\ writeBeat /\ accessCounter = 1
        /\ cmd.at = [bank |-> latchAddress.bank, row |-> 0, col |-> latchAddress.col]
        /\ cmd.dq = latchDataWord[1]
    BY <1>1, <1>5 DEF WriteProgress, ColumnAt
  <2>2. /\ sdState' = IF accessCounter = Words(writeWordArmed) - 1
                      THEN "PRECHARGE_WAIT" ELSE "WRITE"
        /\ cmd' = Column("WR", latchAddress, WriteByte)
        /\ ~readFlag' /\ Chip
    BY <1>1, <1>5, WriteClock
  <2>3. sdState' = "PRECHARGE_WAIT" /\ ramState' = "RAM_WRITE_2"
    BY <1>1, <1>5, <2>1, <2>2 DEF Words, WriteFlag
  <2>4. Cell(cmd) = latchAddress /\ RowOpen(cmd)
    BY <1>1, <1>2, <2>1, CellOfColumn DEF RowIsOpen
  <2>5. mem' = [mem EXCEPT ![latchAddress] = latchDataWord[1]]
    BY <1>2, <2>1, <2>2, <2>4 DEF Chip
  <2>6. openRow'[latchAddress.bank] = latchAddress.row
    BY <1>1, <1>2, <2>2, RowOpens DEF RowIsOpen
  <2>7. /\ After(latchAddress) \in Address /\ After(latchAddress) # latchAddress
        /\ After(latchAddress).bank = latchAddress.bank
        /\ After(latchAddress).row = latchAddress.row
        /\ BurstCol(latchAddress, 1) = After(latchAddress).col
    BY <1>1, <1>2, <2>1, ColumnFacts
  <2>8. /\ cmd'.op = "WR" /\ cmd'.dq = latchDataWord[2]
        /\ cmd'.at = [bank |-> latchAddress.bank, row |-> 0, col |-> After(latchAddress).col]
    BY <2>1, <2>2, <2>7 DEF Column, WriteByte
  <2>9. Cell(cmd)' = After(latchAddress)
    BY <2>6, <2>7, <2>8 DEF Cell, Address
  <2>10. Pending = [mem' EXCEPT ![After(latchAddress)] = latchDataWord[2]]
    <3>1. Pending = [x \in Address |->
                       IF x = latchAddress THEN latchDataWord[1]
                       ELSE IF x = After(latchAddress) THEN latchDataWord[2]
                       ELSE mem[x]]
      BY <2>1 DEF Pending, WriteLow
    <3> QED
      BY <1>1, <2>5, <2>7, <3>1, TwoCells
  <2>11. shadow' = [mem' EXCEPT ![Cell(cmd)'] = cmd'.dq]
    BY <1>1, <2>1, <2>8, <2>9, <2>10
  <2>12. Lockstep'
    BY <1>2, <1>3, <2>2, <2>3 DEF Lockstep
  <2>13. WriteProgress'
    BY <1>3, <2>3, <2>6, <2>8, <2>11 DEF WriteProgress, RowIsOpen
  <2> QED
    BY <1>4, <2>3, <2>12, <2>13 DEF Rest, ReadPipeline, AbortedRead
<1>6. CASE sdState = "PRECHARGE_WAIT"
  <2>1. cmd.at.bank = latchAddress.bank /\ shadow = [mem EXCEPT ![Cell(cmd)] = cmd.dq]
    BY <1>1, <1>6 DEF WriteProgress
  <2>2. Wait /\ Count(Words(writeWordArmed)) /\ Sample /\ Chip
    BY <1>1, <1>6 DEF SdClock, Start, Write, Read
  <2>3. ramState' = "COMPLETE_RAM_RW"
    BY <1>1, <1>6 DEF WriteFlag
  <2>4. latchAddress.row # NoRow
    BY <1>1, GeometryAssumption DEF Address, Row, NoRow
  <2>5. mem' = shadow
    BY <1>2, <2>1, <2>2, <2>4 DEF Chip, RowOpen, RowIsOpen
  <2>6. sdState' \in {"PRECHARGE_WAIT", "PRECHARGE"} /\ cmd'.op # "WR"
    BY <1>6, <2>2 DEF Wait, Following, Opening, Plain
  <2>7. ~readFlag'
    BY <1>6, <2>2 DEF Sample
  <2>8. Lockstep'
    BY <1>2, <1>3, <2>3, <2>6, <2>7 DEF Lockstep
  <2>9. WriteProgress'
    BY <1>1, <2>3, <2>5, <2>6 DEF WriteProgress
  <2> QED
    BY <1>4, <2>3, <2>8, <2>9 DEF Rest, ReadPipeline, AbortedRead
<1> QED
  BY <1>2, <1>5, <1>6

(* One clock of a burst of reads that RAM.sv is waiting for.               *)
LEMMA RamRead1Step ==
    ASSUME IInv, RamRead1
    PROVE  Rest'
PROOF
<1> USE DEF IInv
<1> DEFINE c == stateCounter
<1>1. /\ SdTypeOK /\ ramState = "RAM_READ_1"
      /\ ramState' = (IF readFlag THEN "RAM_READ_2"
                      ELSE IF ~ReadCommand THEN "WAIT" ELSE "RAM_READ_1")
      /\ SdClock(latchAddress, ReadWords, Junk, FALSE, TRUE, EnableRefresh)
      /\ Lookahead /\ Latches /\ Beats /\ shadow' = shadow
      /\ latchAddress \in Address
  BY DEF TypeOK, RamTypeOK, RamRead1, Registers, ReadWords
<1>2. /\ sdState # "WRITE" /\ mem = shadow /\ cmd.op # "WR"
      /\ (prefetchArmed \/ wordArmed \/ writeWordArmed => latchAddress.col # LastCol)
  BY <1>1 DEF Lockstep, WriteProgress
<1>3. /\ latchAddress' = latchAddress /\ prefetchArmed' = prefetchArmed
      /\ wordArmed' = wordArmed /\ writeWordArmed' = writeWordArmed
      /\ ReadWords' = ReadWords
  BY <1>1 DEF Latches, ReadWords, Words
<1>4. ReadWords \in {1, 2} /\ (ReadWords = 2 => latchAddress.col # LastCol)
  BY <1>2 DEF ReadWords, Words
<1>5. CASE sdState # "READ"
  <2>1. /\ readFlag' = FALSE /\ mem' = mem /\ cmd'.op # "WR"
        /\ accessCounter' = 0 /\ readCounter' = 0 /\ sdState' # "WRITE"
        /\ sdState' = "READ" => cmd' = Activate(latchAddress) /\ stateCounter' = 0
    BY <1>1, <1>2, <1>5, QuietClock, InputTypes
  <2>2. ramState' \in {"RAM_READ_1", "WAIT"} /\ ~readBeat' /\ ~readFlag
    BY <1>1, <1>5 DEF Lockstep, Beats
  <2>3. Lockstep'
    BY <1>2, <1>3, <2>1, <2>2 DEF Lockstep
  <2>4. ReadPipeline' /\ AbortedRead'
    <3>1. \A n \in {1, 2} : 0 \in 0 .. (3 + n)
      OBVIOUS
    <3>2. 0 \in 0 .. (3 + ReadWords')
      BY <1>3, <1>4, <3>1
    <3>3. CASE sdState' = "READ"
      <4>1. cmd' = Activate(latchAddress)'
        BY <1>3, <2>1, <3>3 DEF Activate
      <4> QED
        BY <2>1, <2>2, <3>2, <3>3, <4>1 DEF ReadPipeline, AbortedRead
    <3> QED
      BY <3>3 DEF ReadPipeline, AbortedRead
  <2>5. WriteProgress'
    BY <1>1, <1>2, <2>1, <2>2 DEF WriteProgress
  <2>6. LookaheadCoherent'
    BY <1>1, <2>2, EntriesKept DEF Parking
  <2> QED
    BY <2>3, <2>4, <2>5, <2>6 DEF Rest
<1>6. CASE sdState = "READ"
  <2>1. /\ c \in 0 .. 4 /\ accessCounter = c
        /\ readCounter = IF c <= 3 THEN 0 ELSE c - 3
        /\ (readFlag <=> c = 4) /\ ~readBeat
    <3>1. /\ c \in 0 .. (3 + ReadWords) /\ accessCounter = c
          /\ readCounter = IF c <= 3 THEN 0 ELSE c - 3
          /\ (readFlag <=> c \in {4, 5}) /\ (readBeat <=> c = 5)
          /\ c # 5
      BY <1>1, <1>6 DEF ReadPipeline
    <3> QED
      BY <1>4, <3>1
  <2>2. /\ c = 0 => cmd = Activate(latchAddress)
        /\ c # 0 => RowIsOpen /\ cmd.op \in {"RD", "NOP"}
        /\ c = 1 => ColumnAt("RD", latchAddress)
        /\ c = 2 => casPipe[1] = mem[latchAddress]
        /\ c = 3 => casPipe[2] = mem[latchAddress]
        /\ ReadWords = 2 =>
             /\ c = 2 => ColumnAt("RD", After(latchAddress))
             /\ c = 3 => casPipe[1] = mem[After(latchAddress)]
             /\ c = 4 => casPipe[2] = mem[After(latchAddress)]
    BY <1>1, <1>6 DEF ReadPipeline
  <2>3. /\ sdState' = IF c >= ReadWords /\ readCounter = ReadWords
                      THEN "PRECHARGE" ELSE "READ"
        /\ cmd' = IF c < ReadWords THEN Column("RD", latchAddress, Junk) ELSE Plain("NOP")
        /\ cmd'.op # "WR" /\ mem' = mem
        /\ sdState' = "READ" => stateCounter' = c + 1
        /\ accessCounter' = accessCounter + 1
        /\ readCounter' = IF c <= 2 THEN 0
                          ELSE IF readCounter # ReadWords THEN readCounter + 1
                          ELSE readCounter
        /\ (readFlag' <=> sdState' = "READ" /\ c > 2)
        /\ dataOut' = casPipe[2] /\ casPipe'[2] = casPipe[1]
    BY <1>1, <1>2, <1>4, <1>6, ReadClock
  <2>4. Chip
    BY <1>1 DEF SdClock
  <2>5. sdState' = IF c = 4 /\ ReadWords = 1 THEN "PRECHARGE" ELSE "READ"
    BY <1>4, <2>1, <2>3
  <2>6. /\ ramState' = "RAM_READ_2" <=> c = 4
        /\ ramState' \in {"RAM_READ_1", "RAM_READ_2", "WAIT"}
        /\ (readBeat' <=> c = 4)
    BY <1>1, <2>1 DEF Beats
  <2>7. Lockstep'
    <3>1. sdState' # "READ" => ~readFlag' /\ ramState' = "RAM_READ_2" /\ sdState' = "PRECHARGE"
      BY <2>3, <2>5, <2>6
    <3> QED
      BY <1>2, <1>3, <2>5, <2>6, <3>1 DEF Lockstep
  <2>8. WriteProgress'
    BY <1>1, <1>2, <2>3, <2>6 DEF WriteProgress
  <2>9. LookaheadCoherent'
    BY <1>1, <2>1, EntriesKept DEF Parking
  <2>10. ASSUME sdState' = "READ"
         PROVE  /\ c' = c + 1 /\ c' \in 1 .. (3 + ReadWords)
                /\ accessCounter' = c'
                /\ readCounter' = IF c' <= 3 THEN 0 ELSE c' - 3
                /\ (readFlag' <=> c' \in {4, 5})
                /\ (readBeat' <=> c' = 5)
                /\ (ramState' = "RAM_READ_2" <=> c' = 5)
    <3>1. c' = c + 1 /\ ~(c = 4 /\ ReadWords = 1)
      BY <2>3, <2>5, <2>10
    <3>2. c' \in 1 .. (3 + ReadWords)
      BY <1>4, <2>1, <3>1
    <3>3. readCounter' = IF c' <= 3 THEN 0 ELSE c' - 3
      BY <1>4, <2>1, <2>3, <3>1
    <3>4. readFlag' <=> c' \in {4, 5}
      BY <2>1, <2>3, <2>10, <3>1
    <3> QED
      BY <2>1, <2>3, <2>6, <3>1, <3>2, <3>3, <3>4
  <2>11. openRow'[latchAddress.bank] = latchAddress.row
    BY <1>1, <2>2, <2>4, RowOpens DEF RowIsOpen
  <2>12. cmd'.op \in {"RD", "NOP"}
    BY <2>3 DEF Column, Plain
  <2>13. ASSUME sdState' = "READ"
         PROVE  /\ c' = 1 => ColumnAt("RD", latchAddress)'
                /\ ReadWords = 2 /\ c' = 2 => ColumnAt("RD", After(latchAddress))'
    <3>1. ASSUME c' = 1
          PROVE  ColumnAt("RD", latchAddress)'
      <4>1. c = 0 /\ accessCounter = 0 /\ c < ReadWords
        BY <1>4, <2>1, <2>10, <2>13, <3>1
      <4>2. cmd' = Column("RD", latchAddress, Junk) /\ BurstCol(latchAddress, 0) = latchAddress.col
        BY <1>1, <2>3, <4>1, ColumnFacts
      <4> QED
        BY <1>3, <4>1, <4>2 DEF Column, ColumnAt
    <3>2. ASSUME ReadWords = 2, c' = 2
          PROVE  ColumnAt("RD", After(latchAddress))'
      <4>1. c = 1 /\ accessCounter = 1 /\ c < ReadWords
        BY <2>1, <2>10, <2>13, <3>2
      <4>2. /\ cmd' = Column("RD", latchAddress, Junk)
            /\ BurstCol(latchAddress, 1) = After(latchAddress).col
            /\ After(latchAddress).bank = latchAddress.bank
        BY <1>1, <1>4, <2>3, <3>2, <4>1, ColumnFacts
      <4>3. After(latchAddress)' = After(latchAddress)
        BY <1>3 DEF After
      <4> QED
        BY <4>1, <4>2, <4>3 DEF Column, ColumnAt
    <3> QED
      BY <3>1, <3>2
  <2>14. /\ c = 1 => casPipe'[1] = mem[latchAddress]
         /\ ReadWords = 2 /\ c = 2 => casPipe'[1] = mem[After(latchAddress)]
    <3>1. ASSUME c = 1
          PROVE  casPipe'[1] = mem[latchAddress]
      <4>1. cmd.op = "RD" /\ Cell(cmd) = latchAddress /\ RowOpen(cmd)
        BY <1>1, <2>2, <3>1, CellOfColumn DEF RowIsOpen, ColumnAt
      <4> QED
        BY <2>4, <4>1 DEF Chip
    <3>2. ASSUME ReadWords = 2, c = 2
          PROVE  casPipe'[1] = mem[After(latchAddress)]
      <4>1. /\ After(latchAddress) \in Address
            /\ After(latchAddress).bank = latchAddress.bank
            /\ After(latchAddress).row = latchAddress.row
        BY <1>1, <1>4, <3>2, ColumnFacts
      <4>2. /\ cmd.op = "RD"
            /\ Cell(cmd) = After(latchAddress) /\ RowOpen(cmd)
        BY <1>1, <2>2, <3>2, <4>1, CellOfColumn DEF RowIsOpen, ColumnAt
      <4> QED
        BY <2>4, <4>2 DEF Chip
    <3> QED
      BY <3>1, <3>2
  <2>15. ASSUME sdState' = "READ"
         PROVE  /\ c' = 2 => casPipe'[1] = mem'[latchAddress]
                /\ c' = 3 => casPipe'[2] = mem'[latchAddress]
                /\ c' = 4 => dataOut' = mem'[latchAddress]
                /\ ReadWords = 2 =>
                     /\ c' = 3 => casPipe'[1] = mem'[After(latchAddress)]
                     /\ c' = 4 => casPipe'[2] = mem'[After(latchAddress)]
                     /\ c' = 5 => dataOut' = mem'[After(latchAddress)]
    <3>1. c' = c + 1
      BY <2>10, <2>15
    <3> QED
      BY <2>1, <2>2, <2>3, <2>14, <3>1
  <2>16. ReadPipeline'
    <3>1. SUFFICES ASSUME sdState' = "READ"
                   PROVE  ReadPipeline'
      BY DEF ReadPipeline
    <3>2. After(latchAddress)' = After(latchAddress)
      BY <1>3 DEF After
    <3>3. c' \in 0 .. (3 + ReadWords) /\ c' # 0
      BY <1>4, <2>1, <2>10, <3>1
    <3>4. RowIsOpen'
      BY <1>3, <2>11 DEF RowIsOpen
    <3> QED
      BY <1>3, <2>10, <2>12, <2>13, <2>15, <3>1, <3>2, <3>3, <3>4 DEF ReadPipeline
  <2>17. AbortedRead'
    <3>1. SUFFICES ASSUME sdState' = "READ", ramState' = "WAIT"
                   PROVE  AbortedRead'
      BY DEF AbortedRead
    <3>2. c \in 0 .. 3 /\ c' = c + 1
      BY <2>1, <2>6, <2>10, <3>1
    <3> QED
      BY <2>10, <3>1, <3>2 DEF AbortedRead
  <2> QED
    BY <2>7, <2>8, <2>9, <2>16, <2>17 DEF Rest
<1> QED
  BY <1>5, <1>6

(* The second word of the burst, if there is one, is parked or latched.     *)
LEMMA RamRead2Step ==
    ASSUME IInv, RamRead2
    PROVE  Rest'
PROOF
<1> USE DEF IInv
<1>1. /\ SdTypeOK /\ ramState = "RAM_READ_2"
      /\ ramState' = (IF ~readFlag THEN "COMPLETE_RAM_RW"
                      ELSE IF ~ReadCommand THEN "WAIT" ELSE "RAM_READ_2")
      /\ SdClock(latchAddress, ReadWords, Junk, FALSE, FALSE, EnableRefresh)
      /\ Lookahead /\ Latches /\ Beats /\ shadow' = shadow
      /\ latchAddress \in Address
  BY DEF TypeOK, RamTypeOK, RamRead2, Registers, ReadWords
<1>2. /\ sdState \in {"READ", "PRECHARGE"} /\ mem = shadow /\ cmd.op # "WR"
      /\ (prefetchArmed \/ wordArmed \/ writeWordArmed => latchAddress.col # LastCol)
  BY <1>1 DEF Lockstep, WriteProgress
<1>3. /\ latchAddress' = latchAddress /\ prefetchArmed' = prefetchArmed
      /\ wordArmed' = wordArmed /\ writeWordArmed' = writeWordArmed
  BY <1>1 DEF Latches
<1>4. ReadWords \in {1, 2}
  BY DEF ReadWords, Words
<1>5. CASE sdState = "PRECHARGE"
  <2>1. /\ readFlag' = FALSE /\ mem' = mem /\ cmd'.op # "WR"
        /\ sdState' \notin {"READ", "WRITE"}
    BY <1>1, <1>2, <1>5, QuietClock, InputTypes
  <2>2. ~readFlag /\ ramState' = "COMPLETE_RAM_RW"
    BY <1>1, <1>5 DEF Lockstep
  <2>3. Lockstep' /\ ReadPipeline' /\ AbortedRead' /\ WriteProgress'
    BY <1>1, <1>2, <1>3, <2>1, <2>2 DEF Lockstep, ReadPipeline, AbortedRead, WriteProgress
  <2>4. LookaheadCoherent'
    BY <1>1, <2>2, EntriesKept DEF Parking
  <2> QED
    BY <2>3, <2>4 DEF Rest
<1>6. CASE sdState = "READ"
  <2>1. /\ stateCounter = 5 /\ ReadWords = 2 /\ readCounter = 2
        /\ readFlag /\ dataOut = mem[After(latchAddress)]
    <3>1. /\ stateCounter \in 0 .. (3 + ReadWords) /\ stateCounter = 5
          /\ readCounter = IF stateCounter <= 3 THEN 0 ELSE stateCounter - 3
          /\ (readFlag <=> stateCounter \in {4, 5})
          /\ (ReadWords = 2 => (stateCounter = 5 => dataOut = mem[After(latchAddress)]))
      BY <1>1, <1>6 DEF ReadPipeline
    <3>2. ReadWords = 2
      BY <1>4, <3>1
    <3> QED
      BY <3>1, <3>2
  <2>2. /\ sdState' = "PRECHARGE" /\ cmd'.op # "WR" /\ mem' = mem /\ ~readFlag'
    <3>1. ReadWords \in {1, 2} /\ stateCounter >= ReadWords /\ readCounter = ReadWords
      BY <1>4, <2>1
    <3> QED
      BY <1>1, <1>2, <1>6, <3>1, ReadClock
  <2>3. ramState' \in {"RAM_READ_2", "WAIT"}
    BY <1>1, <2>1
  <2>4. Lockstep' /\ ReadPipeline' /\ AbortedRead' /\ WriteProgress'
    BY <1>1, <1>2, <1>3, <2>2, <2>3 DEF Lockstep, ReadPipeline, AbortedRead, WriteProgress
  <2>5. LookaheadCoherent'
    BY <1>1, <1>2, <2>1, EntriesKept
  <2> QED
    BY <2>4, <2>5 DEF Rest
<1> QED
  BY <1>2, <1>5, <1>6

LEMMA CompleteRamRwStep ==
    ASSUME IInv, CompleteRamRw
    PROVE  Rest'
PROOF
<1>1. /\ SdClock(Origin, 1, Junk, FALSE, FALSE, EnableRefresh)
      /\ Registers /\ shadow' = shadow /\ ramState = "COMPLETE_RAM_RW"
      /\ ramState' \in {"IDLE", "COMPLETE_RAM_RW", "WAIT"}
  BY DEF CompleteRamRw
<1> QED
  BY <1>1, RestingStep

LEMMA IdleStep ==
    ASSUME IInv, AnswerFromLookahead \/ StayIdle
    PROVE  Rest'
PROOF
<1>1. /\ SdClock(bus.addr, IdleWords, IdleData, FALSE, FALSE, EnableRefresh)
      /\ Registers /\ shadow' = shadow /\ ramState = "IDLE"
      /\ ramState' \in {"IDLE", "COMPLETE_RAM_RW", "WAIT"}
  BY DEF AnswerFromLookahead, StayIdle
<1> QED
  BY <1>1, RestingStep

-----------------------------------------------------------------------------
(* The invariant.                                                          *)

LEMMA InitIInv == Init => IInv
PROOF
<1> SUFFICES ASSUME Init
             PROVE  IInv
  OBVIOUS
<1> USE GeometryAssumption, DataAssumption, TimingAssumption, BusAssumption
<1>1. /\ Origin \in Address /\ Junk \in Line /\ Byte \subseteq Line
      /\ Plain("NOP") \in Command
  BY ColumnFacts DEF Line, Plain, Command, Ops
<1>2. SdTypeOK
  <2>1. openRow \in [Bank -> Row \cup {NoRow}]
    BY DEF Init, SdInit
  <2>2. casPipe \in Line \X Line
    BY <1>1 DEF Init, SdInit
  <2>3. mem \in [Address -> Line]
    BY <1>1 DEF Init, SdInit
  <2>4. cmd \in Command /\ dataOut \in Line /\ readFlag \in BOOLEAN
    BY <1>1 DEF Init, SdInit
  <2> QED
    BY <2>1, <2>2, <2>3, <2>4 DEF Init, SdInit, SdTypeOK, SdStates, TimedStates
<1>3. bus \in BusTypes
  <2>1. 1 \in 1 .. MaxAge
    BY DEF MaxAge
  <2> QED
    BY <1>1, <2>1 DEF Init, BusTypes, Quiet, NoData
<1>4. RamTypeOK
  <2>1. shadow \in [Address -> Byte] /\ clkSelect \in 0 .. 3
    BY DEF Init, SdInit
  <2>2. lookahead \in [{0, 1} -> Entry]
    BY <1>1 DEF Init, Entry
  <2>3. latchDataWord \in Line \X Line
    BY <1>1 DEF Init, NoData
  <2>4. latchAddress \in Address /\ latchData \in Line
        /\ dataBusOutReg \in Line /\ dataBusOutHi \in Line
    BY <1>1 DEF Init
  <2>5. ramState \in RamStates /\ victim \in {0, 1}
        /\ readWaitCount \in 0 .. 3 /\ writeWaitCount \in 0 .. 3
    BY DEF Init, RamStates
  <2> QED
    BY <1>3, <2>1, <2>2, <2>3, <2>4, <2>5 DEF Init, RamTypeOK
<1>5. BusContract
  BY DEF Init, Quiet, BusContract, Writing
<1>6. Lockstep /\ ReadPipeline /\ AbortedRead /\ WriteProgress
  BY DEF Init, SdInit, Plain, Lockstep, ReadPipeline, AbortedRead, WriteProgress
<1>7. LookaheadCoherent
  BY DEF Init, LookaheadCoherent
<1> QED
  BY <1>2, <1>4, <1>5, <1>6, <1>7 DEF IInv, TypeOK

LEMMA NextIInv ==
    ASSUME IInv, [Next]_vars
    PROVE  IInv'
PROOF
<1>1. CASE UNCHANGED vars
  BY <1>1 DEF vars, sdVars, chipVars, ramVars, IInv, TypeOK, SdTypeOK, RamTypeOK,
              BusContract, Lockstep, ReadPipeline, AbortedRead, WriteProgress,
              LookaheadCoherent, Writing, Reading, ReadWords, RowIsOpen, ColumnAt,
              Pending, WriteLow, Cell
<1>2. CASE Next
  <2>1. TypeOK' /\ BusContract'
    BY <1>2, TypeStep DEF IInv
  <2>2. Rest'
    BY <1>2, AcceptWriteStep, AcceptReadStep, IdleStep, RamWrite1Step, RamWrite2Step,
       RamRead1Step, RamRead2Step, CompleteRamRwStep, WaitIdleStep DEF Next
  <2> QED
    BY <2>1, <2>2 DEF IInv, Rest
<1> QED
  BY <1>1, <1>2

(* The registers of the two machines, the chip's pipeline and the lookahead *)
(* entries stay in step for ever.                                          *)
THEOREM Invariance == Spec => []IInv
PROOF
  BY InitIInv, NextIInv, PTL DEF Spec

(* Every register holds a value of its width.                              *)
THEOREM TypeCorrect == Spec => []TypeOK
PROOF
<1>1. IInv => TypeOK
  BY DEF IInv
<1> QED
  BY <1>1, Invariance, PTL

(* A valid lookahead entry is what memory holds, for every number of banks, *)
(* rows and columns and every timing.                                      *)
THEOREM Coherence == Spec => []LookaheadCoherent
PROOF
<1>1. IInv => LookaheadCoherent
  BY DEF IInv
<1> QED
  BY <1>1, Invariance, PTL

(* An accepted write reaches the SDRAM whole, whatever the bus does after.  *)
THEOREM WritesLand == Spec => []AcceptedWritesLand
PROOF
<1>1. IInv => AcceptedWritesLand
  BY DEF IInv, WriteProgress, AcceptedWritesLand, WriteInFlight
<1> QED
  BY <1>1, Invariance, PTL


-----------------------------------------------------------------------------
(* The commands on the pins.                                               *)

(* No bank has an open row.                                                *)
RowsClosed == \A b \in Bank : openRow[b] = NoRow

(* Rows are closed in every state that waits but the two after a burst, and *)
(* between bursts they are, or a precharge that is on the pins closes them. *)
RowInv ==
    /\ sdState \in TimedStates \ {"PRECHARGE_WAIT", "PRECHARGE"} =>
         RowsClosed /\ cmd.op # "ACT"
    /\ sdState = "IDLE" \/ (sdState = "PRECHARGE" /\ stateCounter > 0) =>
         (RowsClosed \/ cmd.op = "PRE") /\ cmd.op # "ACT"
    /\ cmd.op \in {"REF", "ACT", "MRS"} => RowsClosed

(* One clock of the controller, whatever it is asked.                       *)
LEMMA RowClock ==
    ASSUME SdTypeOK, RowInv, NEW a, NEW num, NEW din, NEW w, NEW r, NEW e,
           SdClock(a, num, din, w, r, e)
    PROVE  RowInv'
PROOF
<1>1. /\ (RowsClosed \/ cmd.op = "PRE") /\ cmd.op # "ACT" => RowsClosed'
      /\ sdState \in SdStates /\ stateCounter \in Nat
  BY DEF SdClock, Chip, RowsClosed, SdTypeOK
<1>2. CASE Wait
  <2>1. CASE sdState \in TimedStates \ {"PRECHARGE_WAIT", "PRECHARGE"}
    <3>1. RowsClosed' /\ cmd'.op # "ACT"
      BY <1>1, <1>2, <2>1 DEF RowInv, Wait, Plain, Opening, TimedStates
    <3>2. sdState' \notin {"PRECHARGE_WAIT", "PRECHARGE", "READ", "WRITE"}
      BY <1>2, <2>1 DEF Wait, Following, TimedStates
    <3> QED
      BY <3>1, <3>2 DEF RowInv
  <2>2. CASE sdState = "PRECHARGE_WAIT"
    <3>1. cmd'.op = "NOP" /\ sdState' \in {"PRECHARGE_WAIT", "PRECHARGE"}
      BY <1>2, <2>2 DEF Wait, Plain, Opening, Following
    <3>2. sdState' = "PRECHARGE" => stateCounter' = 0
      BY <2>2 DEF SdClock, Count
    <3> QED
      BY <3>1, <3>2 DEF RowInv
  <2>3. CASE sdState = "PRECHARGE" /\ stateCounter = 0
    <3>1. cmd'.op = "PRE" /\ sdState' \in {"PRECHARGE", "IDLE"}
      BY <1>2, <2>3 DEF Wait, Plain, Opening, Following
    <3> QED
      BY <3>1 DEF RowInv, TimedStates
  <2>4. CASE sdState = "PRECHARGE" /\ stateCounter # 0
    <3>1. cmd'.op = "NOP" /\ sdState' \in {"PRECHARGE", "IDLE"}
      BY <1>2, <2>4 DEF Wait, Plain, Following
    <3>2. RowsClosed'
      BY <1>1, <2>4 DEF RowInv
    <3> QED
      BY <3>1, <3>2 DEF RowInv
  <2> QED
    BY <1>2, <2>1, <2>2, <2>3, <2>4 DEF Wait
<1>3. CASE Start(a, w, r, e)
  <2>1. RowsClosed'
    BY <1>1, <1>3 DEF RowInv, Start
  <2>2. cmd'.op # "ACT" \/ sdState' \in {"READ", "WRITE"}
    BY <1>3 DEF Start, Plain
  <2> QED
    BY <2>1, <2>2 DEF RowInv, TimedStates
<1>4. CASE Write(a, num, din) \/ Read(a, num)
  <2>1. cmd'.op \in {"WR", "RD", "NOP"}
    BY <1>4 DEF Write, Read, Column, Plain
  <2>2. sdState' \in {"READ", "WRITE", "PRECHARGE_WAIT", "PRECHARGE"}
    BY <1>4 DEF Write, Read
  <2>3. sdState' = "PRECHARGE" => stateCounter' = 0
    BY <1>4 DEF Write, Read, SdClock, Count
  <2> QED
    BY <2>1, <2>2, <2>3 DEF RowInv, TimedStates
<1> QED
  BY <1>2, <1>3, <1>4 DEF SdClock

(* Every step is a clock of the controller, or changes nothing.             *)
LEMMA RowStep ==
    ASSUME IInv, RowInv, [Next]_vars
    PROVE  RowInv'
PROOF
<1>1. SdTypeOK
  BY DEF IInv, TypeOK
<1>2. CASE UNCHANGED vars
  BY <1>2 DEF vars, sdVars, chipVars, RowInv, RowsClosed
<1>3. CASE Next
  BY <1>1, <1>3, RowClock
     DEF Next, AcceptWrite, AcceptRead, AnswerFromLookahead, StayIdle, RamWrite1, RamWrite2,
         RamRead1, RamRead2, CompleteRamRw, WaitIdle
<1> QED
  BY <1>2, <1>3

(* Writes go to the open row, the one they are meant for; opening a row,    *)
(* refresh and the mode register find every row closed, for every timing.   *)
THEOREM LegalCommands == Spec => []CommandsLegal
PROOF
<1>1. Init => RowInv
  BY DEF Init, SdInit, RowInv, RowsClosed, Plain
<1>2. Spec => [](IInv /\ RowInv)
  BY <1>1, RowStep, InitIInv, NextIInv, PTL DEF Spec
<1>3. IInv /\ RowInv => CommandsLegal
  <2> SUFFICES ASSUME IInv, RowInv, cmd.op = "WR"
               PROVE  /\ openRow[cmd.at.bank] = latchAddress.row
                      /\ cmd.at.bank = latchAddress.bank
    BY DEF CommandsLegal, RowInv, RowsClosed
  <2>1. ramState = "RAM_WRITE_2" /\ RowIsOpen /\ sdState \in {"WRITE", "PRECHARGE_WAIT"}
    BY DEF IInv, WriteProgress, Lockstep
  <2>2. cmd.at.bank = latchAddress.bank
    BY <2>1 DEF IInv, WriteProgress, ColumnAt
  <2> QED
    BY <2>1, <2>2 DEF RowIsOpen
<1> QED
  BY <1>2, <1>3, PTL

-----------------------------------------------------------------------------
(* The protected region.                                                   *)

(* Nothing is on its way to it.                                            *)
ShadowInv == \A a \in Protected : mem[a] = shadow[a]

(* No accepted write lands on it: neither byte of a word at an even address *)
(* does if the first does not.                                             *)
LEMMA ProtectedShadow ==
    ASSUME IInv, Next
    PROVE  \A a \in Protected : shadow'[a] = shadow[a]
PROOF
<1>1. CASE AcceptWrite
  <2> SUFFICES ASSUME NEW a \in Protected
               PROVE  ~WriteLandsOn(a)
    BY <1>1, BusAssumption DEF AcceptWrite, WriteLandsOn
  <2>1. bus.addr \notin Protected
    BY <1>1 DEF AcceptWrite, WriteCommand
  <2>2. WriteWordRequest => After(bus.addr) \notin Protected
    BY <2>1, BusAssumption DEF IInv, BusContract, WriteWordRequest
  <2> QED
    BY <2>1, <2>2 DEF WriteLandsOn
<1> QED
  BY <1>1, NextShape DEF IInv

(* A clock writes to the cells what an accepted write put there.            *)
LEMMA ProtectedCells ==
    ASSUME IInv, ShadowInv, Next
    PROVE  \A a \in Protected : mem'[a] = mem[a]
PROOF
<1>1. SdTypeOK /\ Protected \subseteq Address /\ mem \in [Address -> Line] /\ Chip
      /\ latchAddress \in Address
  BY BusAssumption DEF IInv, TypeOK, SdTypeOK, RamTypeOK, Next, AcceptWrite, AcceptRead,
     AnswerFromLookahead, StayIdle, RamWrite1, RamWrite2, RamRead1, RamRead2, CompleteRamRw,
     WaitIdle, SdClock
<1>2. CASE cmd.op # "WR"
  BY <1>1, <1>2 DEF Chip
<1>3. CASE cmd.op = "WR"
  <2>1. ramState = "RAM_WRITE_2" /\ RowIsOpen /\ sdState \in {"WRITE", "PRECHARGE_WAIT"}
    BY <1>3 DEF IInv, WriteProgress, Lockstep
  <2>2. CASE sdState = "WRITE"
    <3>1. /\ shadow = Pending /\ writeWordArmed /\ cmd.dq = latchDataWord[1]
          /\ cmd.at = [bank |-> latchAddress.bank, row |-> 0, col |-> latchAddress.col]
      BY <2>1, <2>2 DEF IInv, WriteProgress, ColumnAt
    <3>2. Cell(cmd) = latchAddress
      BY <1>1, <2>1, <3>1, CellOfColumn DEF RowIsOpen
    <3>3. shadow[latchAddress] = cmd.dq
      BY <1>1, <3>1 DEF Pending, WriteLow
    <3> QED
      BY <1>1, <3>2, <3>3 DEF Chip, ShadowInv
  <2>3. CASE sdState = "PRECHARGE_WAIT"
    <3>1. shadow = [mem EXCEPT ![Cell(cmd)] = cmd.dq]
      BY <2>1, <2>3 DEF IInv, WriteProgress
    <3> QED
      BY <1>1, <3>1 DEF Chip, ShadowInv
  <2> QED
    BY <2>1, <2>2, <2>3
<1> QED
  BY <1>2, <1>3

(* Nor does any step put something on its way there.                        *)
LEMMA ProtectedStep ==
    ASSUME IInv, ShadowInv, [Next]_vars
    PROVE  ShadowInv'
PROOF
<1>1. CASE UNCHANGED vars
  BY <1>1 DEF vars, chipVars, ShadowInv
<1>2. CASE Next
  BY <1>2, ProtectedShadow, ProtectedCells DEF ShadowInv
<1> QED
  BY <1>1, <1>2

(* What a step may not do to the protected cells.                           *)
Shut == \A a \in Protected : mem'[a] = mem[a]

(* No step of the bus, with bytes or words, changes a protected cell.       *)
THEOREM ProtectionHolds == Spec => ProtectedIntact
PROOF
<1>1. Init => ShadowInv
  BY DEF Init, ShadowInv
<1>2. Spec => [](IInv /\ ShadowInv) /\ [][Next]_vars
  BY <1>1, ProtectedStep, InitIInv, NextIInv, PTL DEF Spec
<1>3. IInv /\ ShadowInv /\ [Next]_vars => [Shut]_vars
  BY ProtectedCells DEF Shut
<1> QED
  BY <1>2, <1>3, PTL DEF ProtectedIntact, Shut


-----------------------------------------------------------------------------
(* READY at the fastest setting.                                           *)

(* What StrictReady asks for is the only speed.                             *)
Fastest == Speeds = {3}

(* A command that RAM.sv works on.                                         *)
Commanding == ReadCommand \/ WriteCommand

(* READY of a command past its first clock says that the work is done.      *)
ReadyInv ==
    /\ ~NoCommand => StrictReady
    /\ Commanding /\ bus.age > 1 /\ accessReady => ramState = "COMPLETE_RAM_RW"

(* RAM.sv takes a command up in its first clock, and what it works on while *)
(* a command is there is that command.                                     *)
WorkInv ==
    /\ bus.kind = "none" => ramState \in {"IDLE", "COMPLETE_RAM_RW"}
    /\ ~NoCommand /\ ~Commanding => ramState = "IDLE"
    /\ Reading => ramState \in {"IDLE", "RAM_READ_1", "RAM_READ_2", "COMPLETE_RAM_RW"}
    /\ Commanding /\ ramState # "IDLE" =>
         latchAddress = bus.addr /\ (wordArmed <=> WordRequest)

(* What has come of a read so far.                                         *)
ReadInv ==
    /\ ramState = "RAM_READ_2" => dataBusOutReg = shadow[latchAddress]
    /\ ramState = "RAM_READ_2" /\ sdState # "READ" /\ wordArmed =>
         dataBusOutHi = shadow[After(latchAddress)]
    /\ Reading /\ ramState = "COMPLETE_RAM_RW" =>
         /\ dataBusOutReg = shadow[bus.addr]
         /\ WordRequest => dataBusOutHi = shadow[After(bus.addr)]

(* What memory will hold of the write that is there.                        *)
Landed == \A a \in Address : WriteLandsOn(a) =>
            shadow[a] = IF a = bus.addr THEN bus.data[1] ELSE bus.data[2]

(* It will once the write is accepted.                                     *)
WrittenInv == WriteCommand /\ ramState # "IDLE" => Landed

(* All of it.                                                              *)
StrictInv == ReadyInv /\ WorkInv /\ ReadInv /\ WrittenInv

(* A command that is on the bus after a clock was there before, or comes    *)
(* after none.                                                             *)
LEMMA BusMoves ==
    ASSUME TypeOK, NextBus
    PROVE  \/ /\ ~NoCommand /\ clkSelect' = clkSelect
              /\ bus'.kind = bus.kind /\ bus'.addr = bus.addr /\ bus'.data = bus.data
           \/ /\ bus.kind = "none" /\ clkSelect' \in Speeds /\ bus'.kind \notin {"none", "reset"}
              /\ bus'.age = 1
           \/ bus.kind = "none" /\ bus'.kind = "none"
           \/ ~NoCommand /\ MayRelease /\ bus'.kind = "none"
           \/ bus'.kind = "reset"
           \/ bus.kind = "reset" /\ bus'.kind = "none" /\ ramState = "IDLE"
PROOF
<1>1. CASE bus.kind = "none" /\ bus' \in BusCycles /\ clkSelect' \in Speeds
  <2>1. bus'.age = 1 /\ bus'.kind \in {"read", "readWord", "write", "writeWord", "other"}
    BY <1>1 DEF BusCycles
  <2> QED
    BY <1>1, <2>1
<1>2. CASE bus.kind = "none" /\ bus' = Older /\ clkSelect' \in Speeds
  BY <1>2 DEF Older
<1>3. CASE ~NoCommand /\ bus' = Older /\ UNCHANGED clkSelect
  BY <1>3 DEF Older
<1>4. CASE ~NoCommand /\ MayRelease /\ bus' = Quiet(1)
  BY <1>4 DEF Quiet
<1>5. CASE bus' = InReset
  BY <1>5 DEF InReset
<1>6. CASE bus.kind = "reset" /\ UNCHANGED <<bus, clkSelect>>
  BY <1>6
<1>7. CASE bus.kind = "reset" /\ ramState = "IDLE" /\ bus' = Quiet(1)
  BY <1>7 DEF Quiet
<1> QED
  BY <1>1, <1>2, <1>3, <1>4, <1>5, <1>6, <1>7 DEF NextBus

(* The commands of a bus that stays.                                       *)
LEMMA SameCommand ==
    ASSUME bus'.kind = bus.kind, bus'.addr = bus.addr, bus'.data = bus.data
    PROVE  /\ (Commanding' <=> Commanding) /\ (WriteCommand' <=> WriteCommand)
           /\ (Reading' <=> Reading) /\ (WordRequest' <=> WordRequest)
           /\ (WriteWordRequest' <=> WriteWordRequest) /\ (NoCommand' <=> NoCommand)
           /\ \A a : WriteLandsOn(a)' <=> WriteLandsOn(a)
  BY DEF Commanding, ReadCommand, WriteCommand, Reading, Writing, WordRequest,
         WriteWordRequest, NoCommand, WriteLandsOn

(* Where RAM.sv's machine goes, by where it is.                             *)
LEMMA MachineMoves ==
    ASSUME Next
    PROVE  /\ ramState = "IDLE" => ramState' =
                IF WriteCommand THEN "RAM_WRITE_1"
                ELSE IF ~ReadCommand THEN "IDLE"
                ELSE IF LookaheadHit THEN "COMPLETE_RAM_RW" ELSE "RAM_READ_1"
           /\ ramState = "COMPLETE_RAM_RW" =>
                ramState' = IF Commanding THEN "COMPLETE_RAM_RW" ELSE "IDLE"
           /\ ramState = "RAM_READ_1" => ramState' =
                IF readFlag THEN "RAM_READ_2" ELSE IF ~ReadCommand THEN "WAIT" ELSE "RAM_READ_1"
           /\ ramState = "RAM_READ_2" => ramState' =
                IF ~readFlag THEN "COMPLETE_RAM_RW"
                ELSE IF ~ReadCommand THEN "WAIT" ELSE "RAM_READ_2"
           /\ ramState \in {"RAM_WRITE_1", "RAM_WRITE_2", "WAIT"} =>
                ramState' \in {"RAM_WRITE_1", "RAM_WRITE_2", "COMPLETE_RAM_RW", "WAIT", "IDLE"}
           /\ ramState \in {"RAM_WRITE_1", "RAM_WRITE_2"} => ramState' # "IDLE"
           /\ ramState \in RamStates
           /\ Registers
PROOF
<1>1. ReadCommand => ~WriteCommand
  BY DEF ReadCommand, WriteCommand, Reading, Writing
<1> QED
  BY <1>1 DEF Next, AcceptWrite, AcceptRead, AnswerFromLookahead, StayIdle, RamWrite1, RamWrite2,
     RamRead1, RamRead2, CompleteRamRw, WaitIdle, Commanding, RamStates

(* READY does not rise before COMPLETE_RAM_RW while a command is there.     *)
LEMMA ReadyStep ==
    ASSUME Fastest, IInv, StrictInv, Next
    PROVE  ReadyInv'
PROOF
<1>1. TypeOK /\ NextBus /\ Ready /\ ReadyInv
  BY MachineMoves DEF IInv, StrictInv, Registers
<1>2. CASE /\ ~NoCommand /\ clkSelect' = clkSelect
           /\ bus'.kind = bus.kind /\ bus'.addr = bus.addr /\ bus'.data = bus.data
  <2>1. StrictReady' /\ StrictReady
    BY <1>1, <1>2 DEF ReadyInv, StrictReady
  <2>2. ASSUME Commanding', accessReady' PROVE ramState' = "COMPLETE_RAM_RW"
    <3>1. Commanding
      BY <1>2, <2>2, SameCommand
    <3>2. ramState = "COMPLETE_RAM_RW"
      BY <1>1, <2>1, <2>2, <3>1 DEF Ready, Commanding
    <3> QED
      BY <3>1, <3>2, MachineMoves
  <2> QED
    BY <2>1, <2>2 DEF ReadyInv
<1>3. CASE bus.kind = "none" /\ clkSelect' \in Speeds /\ bus'.age = 1
  BY <1>3 DEF ReadyInv, Fastest, StrictReady
<1>4. CASE bus'.kind \in {"none", "reset"}
  BY <1>4 DEF ReadyInv, NoCommand, Commanding, ReadCommand, WriteCommand, Reading, Writing
<1> QED
  BY <1>1, <1>2, <1>3, <1>4, BusMoves

(* A command goes away only when RAM.sv has nothing more to do for it.      *)
LEMMA ReleasedIdle ==
    ASSUME StrictInv, ~NoCommand, MayRelease
    PROVE  ramState \in {"IDLE", "COMPLETE_RAM_RW"}
PROOF
<1>1. Commanding => accessReady /\ bus.age > 1
  BY DEF MayRelease, MemoryAccessReady, Commanding, ReadCommand, WriteCommand
<1> QED
  BY <1>1 DEF StrictInv, ReadyInv, WorkInv

(* RAM.sv works on the command that is there.                               *)
LEMMA WorkStep ==
    ASSUME IInv, StrictInv, Next
    PROVE  WorkInv'
PROOF
<1>1. TypeOK /\ NextBus /\ Latches /\ WorkInv /\ ramState \in RamStates
  BY MachineMoves DEF IInv, StrictInv, Registers
<1>2. CASE /\ ~NoCommand
           /\ bus'.kind = bus.kind /\ bus'.addr = bus.addr /\ bus'.data = bus.data
  <2>1. bus'.kind # "none"
    BY <1>2 DEF NoCommand
  <2>2. ~Commanding => ramState' = "IDLE"
    BY <1>1, <1>2, MachineMoves DEF WorkInv, Commanding
  <2>3. Reading => ramState' \in {"IDLE", "RAM_READ_1", "RAM_READ_2", "COMPLETE_RAM_RW"}
    BY <1>1, MachineMoves DEF WorkInv, ReadCommand, WriteCommand, Reading, Writing
  <2>4. Commanding => latchAddress' = bus.addr /\ (wordArmed' <=> WordRequest)
    BY <1>1 DEF WorkInv, Latches
  <2> QED
    BY <1>2, <2>1, <2>2, <2>3, <2>4, SameCommand DEF WorkInv
<1>3. CASE bus.kind = "none"
  <2>1. ~Commanding
    BY <1>3 DEF Commanding, ReadCommand, WriteCommand, Reading, Writing
  <2>2. ramState' = "IDLE"
    BY <1>1, <1>3, <2>1, MachineMoves DEF WorkInv, Commanding
  <2> QED
    BY <2>2 DEF WorkInv
<1>4. CASE ~NoCommand /\ MayRelease /\ bus'.kind = "none"
  <2>1. ramState' \in {"IDLE", "COMPLETE_RAM_RW"}
    <3>1. CASE ramState = "COMPLETE_RAM_RW"
      BY <3>1, MachineMoves
    <3>2. CASE ramState = "IDLE"
      <4>1. ~Commanding
        BY <1>4, <3>2 DEF StrictInv, ReadyInv, MayRelease, MemoryAccessReady, Commanding,
           ReadCommand, WriteCommand
      <4> QED
        BY <3>2, <4>1, MachineMoves DEF Commanding
    <3> QED
      BY <1>4, <3>1, <3>2, ReleasedIdle
  <2> QED
    BY <1>4, <2>1 DEF WorkInv, NoCommand, Commanding, ReadCommand, WriteCommand, Reading,
       Writing
<1>5. CASE bus'.kind = "reset"
  BY <1>5 DEF WorkInv, NoCommand, Commanding, ReadCommand, WriteCommand, Reading, Writing
<1>6. CASE bus.kind = "reset" /\ bus'.kind = "none" /\ ramState = "IDLE"
  <2>1. ramState' = "IDLE"
    BY <1>6, MachineMoves DEF ReadCommand, WriteCommand, Reading, Writing
  <2> QED
    BY <2>1 DEF WorkInv
<1> QED
  BY <1>1, <1>2, <1>3, <1>4, <1>5, <1>6, BusMoves

(* The clocks in which a burst hands over its words.                       *)
LEMMA BurstWords ==
    ASSUME IInv
    PROVE  /\ ramState = "RAM_READ_1" /\ readFlag =>
                sdState = "READ" /\ stateCounter = 4 /\ ~readBeat
                /\ dataOut = shadow[latchAddress] /\ readCounter = 1
           /\ ramState = "RAM_READ_2" /\ readFlag =>
                sdState = "READ" /\ readBeat
                /\ (wordArmed => dataOut = shadow[After(latchAddress)])
           /\ ramState = "RAM_READ_2" /\ ~readFlag => sdState # "READ"
           /\ ramState \in {"COMPLETE_RAM_RW", "IDLE"} => ~readFlag
PROOF
<1> USE DEF IInv
<1>1. ramState \in {"RAM_READ_1", "RAM_READ_2"} => mem = shadow
  BY DEF WriteProgress
<1>2. ramState \in {"COMPLETE_RAM_RW", "IDLE"} => ~readFlag
  BY DEF Lockstep
<1>3. ramState \in {"RAM_READ_1", "RAM_READ_2"} /\ readFlag => sdState = "READ"
  BY DEF Lockstep
<1>4. ASSUME ramState = "RAM_READ_1", readFlag
      PROVE  /\ sdState = "READ" /\ stateCounter = 4 /\ ~readBeat
             /\ dataOut = shadow[latchAddress] /\ readCounter = 1
  BY <1>1, <1>3, <1>4 DEF ReadPipeline
<1>5. ASSUME ramState = "RAM_READ_2", sdState = "READ"
      PROVE  readFlag /\ readBeat /\ (wordArmed => dataOut = shadow[After(latchAddress)])
  <2>1. stateCounter = 5 /\ readFlag /\ readBeat
    BY <1>5 DEF ReadPipeline
  <2>2. wordArmed => ReadWords = 2
    BY DEF ReadWords, Words
  <2>3. ReadWords = 2 => dataOut = mem[After(latchAddress)]
    BY <1>5, <2>1 DEF ReadPipeline
  <2> QED
    BY <1>1, <1>5, <2>1, <2>2, <2>3
<1> QED
  BY <1>2, <1>3, <1>4, <1>5

(* What a read has brought so far is what memory holds.                     *)
LEMMA ReadStep ==
    ASSUME IInv, StrictInv, Next
    PROVE  ReadInv'
PROOF
<1>1. /\ TypeOK /\ NextBus /\ Latches /\ DataRegisters /\ WorkInv /\ ReadInv
      /\ ramState \in RamStates /\ Registers
  BY MachineMoves DEF IInv, StrictInv, Registers
<1>2. ramState # "IDLE" => shadow' = shadow /\ latchAddress' = latchAddress
                           /\ wordArmed' = wordArmed
  BY <1>1, NextShape DEF AcceptWrite, Latches
<1>3. ramState' = "RAM_READ_2" => ramState \in {"RAM_READ_1", "RAM_READ_2"} /\ readFlag
  BY <1>1, MachineMoves DEF RamStates
<1>4. ramState' = "RAM_READ_2" => dataBusOutReg' = shadow'[latchAddress']
  BY <1>1, <1>2, <1>3, BurstWords DEF DataRegisters, ReadInv
<1>5. ramState' = "RAM_READ_2" /\ sdState' # "READ" /\ wordArmed' =>
        dataBusOutHi' = shadow'[After(latchAddress)']
  <2> SUFFICES ASSUME ramState' = "RAM_READ_2", sdState' # "READ", wordArmed
               PROVE  dataBusOutHi' = shadow[After(latchAddress)]
    BY <1>2, <1>3 DEF After
  <2>1. CASE ramState = "RAM_READ_1"
    <3>1. sdState = "READ" /\ stateCounter = 4 /\ readCounter = 1 /\ ReadWords = 2
      BY <1>3, <2>1, BurstWords DEF ReadWords, Words
    <3>2. SdClock(latchAddress, ReadWords, Junk, FALSE, TRUE, EnableRefresh)
      BY <2>1 DEF Next, AcceptWrite, AcceptRead, AnswerFromLookahead, StayIdle, RamWrite1,
         RamWrite2, RamRead1, RamRead2, CompleteRamRw, WaitIdle, ReadWords
    <3>3. SdTypeOK /\ cmd.op # "WR"
      BY <2>1 DEF IInv, TypeOK, WriteProgress
    <3>4. SdClock(latchAddress, 2, Junk, FALSE, TRUE, EnableRefresh) /\ 2 \in {1, 2}
      BY <3>1, <3>2
    <3>5. sdState' = IF stateCounter >= 2 /\ readCounter = 2 THEN "PRECHARGE" ELSE "READ"
      BY <3>1, <3>3, <3>4, ReadClock
    <3> QED
      BY <3>1, <3>5
  <2>2. CASE ramState = "RAM_READ_2"
    BY <1>1, <1>3, <2>2, BurstWords DEF DataRegisters
  <2> QED
    BY <1>3, <2>1, <2>2
<1>6. ASSUME Reading', ramState' = "COMPLETE_RAM_RW"
      PROVE  /\ dataBusOutReg' = shadow'[bus'.addr]
             /\ WordRequest' => dataBusOutHi' = shadow'[After(bus.addr)']
  <2>1. bus.kind # "none" /\ bus'.kind \notin {"none", "reset"}
    <3>1. bus.kind = "none" => ramState' = "IDLE"
      BY <1>1, MachineMoves DEF WorkInv, Commanding, ReadCommand, WriteCommand, Reading, Writing
    <3> QED
      BY <1>6, <3>1 DEF Reading
  <2>2. bus'.kind = bus.kind /\ bus'.addr = bus.addr /\ bus'.data = bus.data
    BY <1>1, <2>1, BusMoves
  <2>3. Reading /\ (WordRequest' <=> WordRequest) /\ ~WriteCommand
    BY <1>6, <2>2, SameCommand DEF WriteCommand, Reading, Writing
  <2>4. After(bus.addr)' = After(bus.addr)
    BY <2>2 DEF After
  <2>5. shadow' = shadow
    BY <2>3, <1>1, NextShape DEF AcceptWrite
  <2>6. CASE ramState = "COMPLETE_RAM_RW"
    BY <1>1, <2>2, <2>3, <2>4, <2>5, <2>6, BurstWords DEF DataRegisters, ReadInv
  <2>7. CASE ramState = "RAM_READ_2"
    <3>1. ~readFlag /\ sdState # "READ"
      BY <1>6, <2>7, MachineMoves, BurstWords
    <3>2. latchAddress = bus.addr /\ (wordArmed <=> WordRequest)
      BY <1>1, <2>3, <2>7 DEF WorkInv, Commanding, ReadCommand
    <3>3. dataBusOutReg' = dataBusOutReg /\ dataBusOutHi' = dataBusOutHi
      BY <1>1, <2>7, <3>1 DEF DataRegisters
    <3> QED
      BY <1>1, <2>2, <2>3, <2>4, <2>5, <2>7, <3>1, <3>2, <3>3 DEF ReadInv
  <2>8. CASE ramState = "IDLE"
    <3>1. ReadCommand /\ LookaheadHit
      BY <1>6, <2>8, MachineMoves
    <3>2. dataBusOutReg' = LookaheadAnswer
      BY <1>1, <2>8, <3>1 DEF DataRegisters
    <3>3. LookaheadAnswer = shadow[bus.addr] /\ ~WordRequest
      BY <3>1 DEF LookaheadHit, LookaheadAnswer, Hits, IInv, LookaheadCoherent
    <3> QED
      BY <2>2, <2>3, <2>5, <3>2, <3>3
  <2>9. CASE ramState = "RAM_READ_1"
    BY <1>6, <2>9, MachineMoves
  <2> QED
    BY <1>1, <2>3, <2>6, <2>7, <2>8, <2>9 DEF WorkInv
<1> QED
  BY <1>4, <1>5, <1>6 DEF ReadInv

(* An accepted write is what memory will hold as long as it is on the bus.  *)
LEMMA WrittenStep ==
    ASSUME IInv, StrictInv, Next
    PROVE  WrittenInv'
PROOF
<1> SUFFICES ASSUME WriteCommand', ramState' # "IDLE", NEW a \in Address, WriteLandsOn(a)'
             PROVE  shadow'[a] = IF a = bus'.addr THEN bus'.data[1] ELSE bus'.data[2]
  BY DEF WrittenInv, Landed
<1>1. TypeOK /\ NextBus /\ WorkInv /\ WrittenInv
  BY MachineMoves DEF IInv, StrictInv, Registers
<1>2. bus.kind # "none" /\ bus'.kind \notin {"none", "reset"}
  <2>1. bus.kind = "none" => ramState' = "IDLE"
    BY <1>1, MachineMoves DEF WorkInv, Commanding, ReadCommand, WriteCommand, Reading, Writing
  <2> QED
    BY <2>1 DEF WriteCommand, Writing
<1>3. bus'.kind = bus.kind /\ bus'.addr = bus.addr /\ bus'.data = bus.data
  BY <1>1, <1>2, BusMoves
<1>4. WriteCommand /\ WriteLandsOn(a)
  BY <1>3, SameCommand
<1>5. CASE AcceptWrite
  BY <1>3, <1>4, <1>5 DEF AcceptWrite
<1>6. CASE shadow' = shadow /\ ramState # "IDLE"
  BY <1>1, <1>3, <1>4, <1>6 DEF WrittenInv, Landed
<1>7. ramState = "IDLE" => AcceptWrite
  BY <1>4 DEF Next, AcceptWrite, AcceptRead, AnswerFromLookahead, StayIdle, RamWrite1,
     RamWrite2, RamRead1, RamRead2, CompleteRamRw, WaitIdle, ReadCommand, WriteCommand,
     Reading, Writing
<1> QED
  BY <1>1, <1>5, <1>6, <1>7, NextShape

(* A step of the machine, or none, keeps all of it.                         *)
LEMMA StrictStep ==
    ASSUME Fastest, IInv, StrictInv, [Next]_vars
    PROVE  StrictInv'
PROOF
<1>1. CASE Next
  BY <1>1, ReadyStep, WorkStep, ReadStep, WrittenStep DEF StrictInv
<1>2. CASE UNCHANGED vars
  BY <1>2 DEF vars, sdVars, ramVars, StrictInv, ReadyInv, WorkInv, ReadInv, WrittenInv, Landed,
     NoCommand, StrictReady, Commanding, ReadCommand, WriteCommand, WordRequest, Reading, Writing,
     WriteLandsOn, WriteWordRequest
<1> QED
  BY <1>1, <1>2

(* At the fastest setting, when READY lets the master go what it asked for  *)
(* is done, for strobes of any length.                                     *)
THEOREM ReadyIsTrue == ASSUME Fastest PROVE Spec => []ReadyTellsTheTruth
PROOF
<1>1. Init => StrictInv
  BY DEF Init, Quiet, StrictInv, ReadyInv, WorkInv, ReadInv, WrittenInv, NoCommand, Commanding,
     ReadCommand, WriteCommand, Reading, Writing
<1>2. Spec => [](IInv /\ StrictInv)
  BY <1>1, StrictStep, InitIInv, NextIInv, PTL DEF Spec
<1>3. IInv /\ StrictInv => ReadyTellsTheTruth
  <2> SUFFICES ASSUME IInv, StrictInv, MayRelease, Reading \/ WriteCommand
               PROVE  /\ Reading => DataBusOut = shadow[bus.addr]
                      /\ bus.kind = "readWord" =>
                           DataBusOutWord = <<shadow[bus.addr], shadow[After(bus.addr)]>>
                      /\ WriteCommand => Landed
    BY DEF ReadyTellsTheTruth, ReadyMeansAnswered, ReadyMeansWordAnswered, ReadyMeansWritten,
       Reading, WriteCommand, Landed
  <2>1. ramState = "COMPLETE_RAM_RW"
    BY DEF StrictInv, ReadyInv, MayRelease, MemoryAccessReady, Commanding, ReadCommand, WriteCommand
  <2>2. ~readFlag
    BY <2>1, BurstWords
  <2> QED
    BY <2>1, <2>2 DEF StrictInv, ReadInv, WrittenInv, DataBusOut, DataBusOutWord, ReadCommand,
       WordRequest, Reading
<1> QED
  BY <1>2, <1>3, PTL
=============================================================================
