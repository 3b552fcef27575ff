-------------------------------- MODULE Bus --------------------------------
(***************************************************************************)
(* The bus of the machine and those who take turns on it: the processor    *)
(* (bus cycles of rtl/8088/mcl86_biu_max.sv through the 8288), the DMA     *)
(* controller, and the loader of BIOS images (PCXT-EGA.sv), arbitrated by  *)
(* Bus_Arbiter.sv and paced by Ready.sv.                                   *)
(*                                                                         *)
(* One step is one chipset clock of 20 ns.  The CPU clock is a pair of     *)
(* enables, "pos" and "neg", with some chipset clocks between them; at the *)
(* fastest speed there are none and the two simply alternate.              *)
(*                                                                         *)
(* The machine reset holds everything but the loader, which has a reset of *)
(* its own.                                                                *)
(***************************************************************************)
EXTENDS Kf8237, FiniteSets

CONSTANTS Strict,      \* strict_ready: the fastest speed
          Gaps,        \* chipset clocks there may be between two CPU edges
          MinIdle,     \* rising edges between a cycle's end and the next one
          IoSettle,    \* io_settle_ticks
          FirstWord,   \* clocks from the start of an image to its first word
          LoadStrobe, LoadPause, \* clocks of the loader's strobe, and to its end
          CpuCycles,   \* bus cycles the processor may run
          Asking,      \* DMA channels whose devices ask
          Loading,     \* whether images may be loaded
          Resetting,   \* whether the machine may be reset
          InitPrograms, InitMask, InitBase  \* the 8237 as programmed

Kinds == {"mem", "io", "inta", "halt"}

ASSUME BusAssumption ==
  /\ Strict \in BOOLEAN /\ Loading \in BOOLEAN /\ Resetting \in BOOLEAN
  /\ Gaps \subseteq Nat /\ Gaps # {}
  /\ MinIdle \in Nat \ {0} /\ IoSettle \in Nat
  /\ FirstWord \in Nat /\ LoadStrobe \in Nat \ {0} /\ LoadPause \in Nat
  /\ \A c \in CpuCycles : c.kind \in Kinds /\ RegisterOp(c.op)
  /\ Asking \subseteq Channels
  /\ InitPrograms \subseteq [command : Commands, mode : [Channels -> Modes]]
  /\ InitMask \subseteq Channels
  /\ InitBase \in [Channels -> [addr : Word, count : Word]]

VARIABLES
  resetting,               \* reset
  phase, gap,              \* the next CPU edge, and the clocks before it
  cpu, cycle, turn, rest,  \* biu_state, the cycle, its address, and idle edges
  status, locked,          \* processor_status and LOCK
  cpuAddress,              \* cpu_address, latched
  ff1, ff2,                \* hold_request_ff_1 and hold_request_ff_2
  aen, dmaWait,            \* address_enable_n and dma_wait
  period, running, strobed,\* machine_cycle_period, machine_cycle, strobed status
  prevBus, rnw, rnwQ, prevRnw, \* prev_bus_state, ready_n_or_wait, ..._Qn, prev_...
  pr1, pr2,                \* processor_ready_ff_1 and processor_ready_ff_2
  prevIo, settle,          \* prev_io_active and io_settle_count
  slave,                   \* the addressed device or memory is ready
  prevWrite,               \* prev_write_enable_n and the write it stands for
  dreq,                    \* the DMA request lines
  download, lead,          \* ioctl_download, and the clocks before its first word
  ext, load, loadCount, loadByte \* bios_access_request, bios_load_state, counters

cpuVars   == <<cpu, cycle, turn, rest, status, locked, cpuAddress>>
arbVars   == <<ff1, ff2, aen, dmaWait, period, running, strobed>>
readyVars == <<prevBus, rnw, rnwQ, prevRnw, pr1, pr2, prevIo, settle>>
loadVars  == <<download, lead, ext, load, loadCount, loadByte>>
vars == <<resetting, phase, gap, cpuVars, arbVars, readyVars, slave, prevWrite,
          dreq, loadVars, dmaVars>>

-----------------------------------------------------------------------------
(* What is on the bus.                                                     *)

DmaAlone        == holdRequest
HoldRequest     == holdRequest \/ ext
HoldAcknowledge == HoldRequest /\ (ff1 \/ ff2)

CommandUngated == running /\ strobed \in {"mem", "io", "inta"}

\* A command of the processor, from the 8288.
CpuCommand == running /\ ~aen /\ strobed \in {"mem", "io", "inta"}

\* The write strobe of the loader goes to memory whoever has the address bus.
LoaderWrite == load = 2 /\ loadCount \in 1 .. LoadStrobe

Owner == IF dmaWait /\ aen /\ dack # None THEN "dma"
         ELSE IF ~aen THEN "cpu" ELSE "ext"

Address == CASE Owner = "cpu" -> <<cpuAddress>>
             [] Owner = "dma" -> <<dack, transferAddress>>
             [] Owner = "ext" -> <<loadByte>>

\* The command lines that are active, those of the processor taken as one.
Commanded == strobes \cup (IF CpuCommand THEN {"cpu"} ELSE {})
                     \cup (IF LoaderWrite THEN {"load"} ELSE {})

IoActive == (CpuCommand /\ strobed = "io") \/ strobes \cap {"ior", "iow"} # {}

\* A write to a register of the 8237, or a read of one, in progress.
DmaAccess == IF CpuCommand /\ strobed = "io" /\ ~LockBusControl
             THEN cycle.op ELSE NoOp

-----------------------------------------------------------------------------
(* Ready.sv, with the I/O settle guard of Chipset.sv.                      *)

IoChannelReady == slave /\ settle = 0

BusState ==
  \/ IoActive
  \/ dack # 0 /\ "memr" \in strobes /\ aen
  \/ Strict /\ dack # 0 /\ ("memw" \in strobes \/ LoaderWrite) /\ aen

OneFlipFlop == rnwQ
DmaReady == ~prevRnw /\ rnwQ

CpuReady == ~dmaWait /\ ~rnw

Ready(e) ==
  /\ prevBus' = BusState
  /\ LET wait   == ~IoChannelReady
         served == IoChannelReady /\ prevRnw
         starts == ~wait /\ ~served /\ ~prevBus /\ BusState
     IN /\ rnw'  = (wait \/ starts \/ (~served /\ rnw))
        /\ rnwQ' = ((wait /\ prevRnw) \/ served \/ (~wait /\ ~served /\ ~starts /\ rnwQ))
  /\ prevRnw' = IF e = "pos" THEN rnw ELSE prevRnw
  /\ pr1' = IF e = "pos" THEN CpuReady ELSE pr1
  /\ pr2' = IF e = "neg" THEN pr1 /\ CpuReady ELSE pr2
  /\ prevIo' = IoActive
  /\ settle' = IF IoActive /\ ~prevIo THEN IoSettle
               ELSE IF settle > 0 THEN settle - 1 ELSE 0

-----------------------------------------------------------------------------
(* Bus_Arbiter.sv and KF8288.sv.                                           *)

FreeUnderLock == status \in {"passive", "halt"}

\* The status of a halt has the two low bits of the passive status.
Free == status \in {"passive", "halt"} /\ ~locked

Arbiter(e) ==
  /\ ff1' = IF e = "pos" THEN Free /\ HoldRequest ELSE ff1
  /\ ff2' = IF e = "neg" THEN HoldRequest /\ (ff2 \/ ff1) ELSE ff2
  /\ aen' = IF e = "pos" THEN HoldAcknowledge ELSE aen
  /\ dmaWait' = IF e = "pos" THEN aen ELSE dmaWait

Controller(e) ==
  /\ period' = IF e = "pos" THEN ~running /\ status = "passive" ELSE period
  /\ running' = IF e = "neg" THEN status # "passive" /\ ~period ELSE running
  /\ strobed' = IF e = "neg" THEN status ELSE strobed

AddressLatchEnable == period /\ status # "passive"

-----------------------------------------------------------------------------
(* The processor's bus cycles.  The second cycle of an interrupt           *)
(* acknowledge follows the first at once, under LOCK.                      *)

StartCycle(c) ==
  /\ cpu' = "T1" /\ cycle' = c /\ turn' = ~turn
  /\ status' = c.kind
  /\ UNCHANGED <<rest, locked>>

Idle(e) ==
  /\ cpu = "idle"
  /\ \/ e = "pos" /\ rest <= 1 /\ locked /\ StartCycle(cycle)
     \/ e = "pos" /\ rest <= 1 /\ ~locked /\ \E c \in CpuCycles : StartCycle(c)
     \/ /\ ~(e = "pos" /\ rest <= 1 /\ locked)
        /\ rest' = IF e = "pos" /\ rest > 0 THEN rest - 1 ELSE rest
        /\ UNCHANGED <<cpu, cycle, turn, status, locked>>

InCycle(e) ==
  /\ cpu \in {"T1", "T2", "T3"}
  /\ cpu' = CASE e = "neg" /\ cpu = "T1" -> "T2"
              [] e = "neg" /\ cpu = "T2" -> "T3"
              [] e = "neg" /\ cpu = "T3" /\ pr2' -> "T4"
              [] OTHER -> cpu
  /\ locked' = IF e = "neg" /\ cpu = "T2" THEN cycle.kind = "inta" /\ ~locked ELSE locked
  /\ UNCHANGED <<cycle, turn, rest, status>>

EndCycle(e) ==
  /\ cpu = "T4"
  /\ cpu' = "idle" /\ status' = "passive"
  /\ rest' = IF e = "pos" THEN MinIdle - 1 ELSE MinIdle
  /\ UNCHANGED <<cycle, turn, locked>>

Processor(e) ==
  /\ Idle(e) \/ InCycle(e) \/ EndCycle(e)
  /\ cpuAddress' = IF AddressLatchEnable THEN turn ELSE cpuAddress

-----------------------------------------------------------------------------
(* The request lines.  The timer raises line 0 in any clock; the devices'  *)
(* requests are registered at falling edges; DACK lowers a line.           *)

RequestLines(e) ==
  \E asks \in SUBSET Asking :
    /\ e # "neg" => asks \subseteq {0}
    /\ dreq' = (dreq \cup asks) \ {dack}

-----------------------------------------------------------------------------
(* The loader.  State 0 waits for the bus, 1 for a word from the HPS, 2    *)
(* and 3 write one byte of it, 4 goes to the second byte.  While the       *)
(* machine is in reset processor_ready is low and the address bus is free. *)

\* The HPS is slow: it starts an image no sooner than the processor has had
\* the bus since the last one, takes FirstWord clocks to its first word (those
\* in which a device makes its master wait not counted), and lets go of it when
\* the loader asks for more.
Download ==
  /\ download' \in
       CASE download = "none" /\ Loading    -> {"none", "active"}
         [] download = "active" /\ load = 1 /\ lead = 0 -> {"active", "over"}
         [] download = "over" /\ Owner = "cpu" /\ ~dmaWait /\ ~ext -> {"none"}
         [] OTHER                           -> {download}
  /\ lead' = CASE download = "none" -> FirstWord
               [] download # "none" /\ slave /\ lead > 0 -> lead - 1
               [] OTHER -> lead

Loader ==
  /\ Download
  /\ \/ /\ load = 0
        /\ ext' = (download = "active")
        /\ load' = IF download = "active" /\ ~pr2 /\ Owner = "ext" THEN 1 ELSE 0
        /\ loadCount' = 0 /\ loadByte' = 0
     \/ /\ load = 1
        /\ load' \in CASE download # "active" -> {0}
                      [] download = "active" /\ lead > 0 -> {1}
                      [] download = "active" /\ lead = 0 -> {1, 2} \* a word
        /\ loadCount' = 0 /\ loadByte' = 0 /\ ext' = TRUE
     \/ /\ load = 2
        /\ loadCount' = loadCount + 1
        /\ load' = IF loadCount = LoadStrobe THEN 3 ELSE 2
        /\ UNCHANGED <<ext, loadByte>>
     \/ /\ load = 3
        /\ loadCount' = loadCount + 1
        /\ load' = IF loadCount = LoadStrobe + 1 + LoadPause THEN 4 ELSE 3
        /\ UNCHANGED <<ext, loadByte>>
     \/ /\ load = 4
        /\ loadCount' = 0 /\ loadByte' = 1 - loadByte
        /\ load' = IF loadByte = 0 THEN 2 ELSE 1
        /\ UNCHANGED ext

-----------------------------------------------------------------------------
\* What a command is addressed to may refuse to be ready from the command's
\* first clock on, and once it is ready it stays so until another one comes.
Slave == slave' \in IF Commanded' # {} /\ ~(Commanded' \subseteq Commanded /\ slave)
                    THEN BOOLEAN ELSE {TRUE}

Clock ==
  LET e == IF gap = 0 THEN phase ELSE "none"
      w == IF DmaAccess = NoOp THEN prevWrite ELSE NoOp
  IN /\ ~resetting
     /\ phase' = IF gap > 0 THEN phase ELSE IF phase = "pos" THEN "neg" ELSE "pos"
     /\ gap' \in IF gap > 0 THEN {gap - 1} ELSE Gaps
     /\ Ready(e)
     /\ Arbiter(e)
     /\ Controller(e)
     /\ Processor(e)
     /\ RequestLines(e)
     /\ DmaClock(e, HoldAcknowledge /\ ~ext, dreq, DmaReady, w,
                 DmaAccess.op = "readStatus")
     /\ prevWrite' = DmaAccess
     /\ Loader
     /\ Slave
     /\ UNCHANGED resetting

\* The machine reset, at any time and for any time; the loader goes on.
Reset ==
  /\ Resetting /\ ~resetting
  /\ resetting' = TRUE
  /\ phase' = "pos" /\ gap' = 0
  /\ cpu' = "idle" /\ rest' = MinIdle /\ status' = "passive" /\ locked' = FALSE
  /\ ff1' = FALSE /\ ff2' = FALSE /\ aen' = TRUE /\ dmaWait' = FALSE
  /\ period' = TRUE /\ running' = FALSE /\ strobed' = "none"
  /\ prevBus' = TRUE /\ rnw' = TRUE /\ rnwQ' = FALSE /\ prevRnw' = FALSE
  /\ pr1' = FALSE /\ pr2' = FALSE /\ prevIo' = FALSE /\ settle' = 0
  /\ slave' = TRUE /\ prevWrite' = NoOp /\ dreq' = {}
  /\ DmaReset /\ prevReading' = FALSE
  /\ UNCHANGED <<cycle, turn, cpuAddress, loadVars>>

InReset ==
  /\ resetting
  /\ Loader
  /\ resetting' \in BOOLEAN
  /\ UNCHANGED <<phase, gap, cpuVars, arbVars, readyVars, slave, prevWrite, dreq,
                 dmaVars>>

Next == Clock \/ Reset \/ InReset

\* The machine running, its bus idle and the 8237 programmed by the BIOS.
Init ==
  /\ resetting = FALSE
  /\ phase = "pos" /\ gap = 0
  /\ cpu = "idle" /\ cycle = [kind |-> "halt", op |-> NoOp] /\ turn = FALSE
  /\ rest = 0 /\ status = "passive" /\ locked = FALSE /\ cpuAddress = FALSE
  /\ ff1 = FALSE /\ ff2 = FALSE /\ aen = FALSE /\ dmaWait = FALSE
  /\ period = TRUE /\ running = FALSE /\ strobed = "passive"
  /\ prevBus = FALSE /\ rnw = FALSE /\ rnwQ = TRUE /\ prevRnw = FALSE
  /\ pr1 = TRUE /\ pr2 = TRUE /\ prevIo = FALSE /\ settle = 0
  /\ slave = TRUE /\ prevWrite = NoOp /\ dreq = {}
  /\ download = "none" /\ lead = FirstWord /\ ext = FALSE /\ load = 0 /\ loadCount = 0 /\ loadByte = 0
  /\ dmaState = "SI" /\ ackInt = None /\ rotate = NChannels - 1
  /\ holdRequest = FALSE /\ dack = None /\ strobes = {}
  /\ reoutput = FALSE /\ terminalCount = FALSE /\ eop = FALSE
  /\ tcState = {} /\ prevReading = FALSE
  /\ \E p \in InitPrograms : command = p.command /\ mode = p.mode
  /\ mask = InitMask
  /\ request = {} /\ dreqFf = {} /\ reqLock = {} /\ bytePointer = FALSE
  /\ base = InitBase /\ current = InitBase /\ transferAddress = InitBase[0].addr

Spec == Init /\ [][Next]_vars

=============================================================================
