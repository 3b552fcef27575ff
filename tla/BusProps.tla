------------------------------ MODULE BusProps ------------------------------
(***************************************************************************)
(* What the bus promises to those who share it.                            *)
(***************************************************************************)
EXTENDS Bus

\* The registers of the bus hold what they may hold, and a channel is chosen
\* whenever the 8237's sequencer is out of its idle state.
TypeOK ==
  /\ resetting \in BOOLEAN /\ phase \in {"pos", "neg"} /\ gap \in Nat
  /\ cpu \in {"idle", "T1", "T2", "T3", "T4"} /\ rest \in 0 .. MinIdle
  /\ settle \in 0 .. IoSettle
  /\ download \in {"none", "active", "over"} /\ load \in 0 .. 4
  /\ lead \in 0 .. FirstWord
  /\ dmaState \in States
  /\ ackInt \in Channels \cup {None} /\ dack \in Channels \cup {None}
  /\ command \in Commands /\ mode \in [Channels -> Modes]
  /\ dmaState # "SI" => ackInt # None

\* Two masters never drive a command at the same time, and whoever drives one
\* is the one whose address is on the bus (Bus_Arbiter.sv:247-287), through
\* every hand-over between the processor, the 8237 and the loader.
OneMaster ==
  /\ CpuCommand => strobes = {} /\ ~LoaderWrite
  /\ strobes # {} => Owner = "dma" /\ ~LoaderWrite
  /\ LoaderWrite => Owner = "ext"

\* The address does not change under a command that stays active, whatever
\* the latch, DACK and the address enable do meanwhile.
Holding == Commanded \cap Commanded' # {} => Address' = Address

AddressHeld == [][Holding]_vars

\* The processor ends a bus cycle only with its command on the bus, on the
\* address of that cycle, and with nothing asking it to wait: no cycle is lost
\* to a DMA transfer or a download that held the bus when it began
\* (mcl86_biu_max.sv:825-842, Ready.sv).  And a transfer of the 8237 ends only
\* when both its commands were open and what they address was ready
\* (Ready.sv, dma_ready); a cascaded controller has the bus without commands.
CyclesServed ==
  [][/\ cpu = "T3" /\ cpu' = "T4" /\ cycle.kind # "halt"
          => CpuCommand /\ cpuAddress = turn /\ IoChannelReady
     /\ dmaState # "S4" /\ dmaState' = "S4" /\ ~Cascade
             /\ Serving.type \in {"read", "write"}
          => Cardinality(strobes) = 2 /\ slave]_vars

\* No other master has the bus between the two cycles of an interrupt
\* acknowledge: LOCK keeps the arbiter from granting a hold.
LockedPair ==
  locked /\ cpu \in {"T4", "idle"} => Owner = "cpu" /\ ~HoldAcknowledge

\* A device is given a transfer only while it asks for one: its DACK has
\* lowered the line by the time the 8237 might think of a second one.
Requested ==
  dmaState # "S2" /\ dmaState' = "S2" /\ Serving.transfer # "block"
    => ackInt \in dreq \cup request

TransferWasRequested == [][Requested]_vars

\* A channel's address and count move together, over every autoinitialise and
\* wrap: the address has moved as far from its base as the count has fallen
\* (KF8237_Address_And_Count_Registers.sv:113-200), but for channel 0 while its
\* address is held.
InStep ==
  \A c \in Channels \ (IF command.hold THEN {0} ELSE {}) :
    LET moved == IF mode[c].down THEN base[c].addr - current[c].addr
                 ELSE current[c].addr - base[c].addr
    IN moved % (Half * Half) = (base[c].count - current[c].count) % (Half * Half)

\* The processor's writes reach the registers of the 8237 before DACK is given
\* or after it is taken back, never in a transfer, although a write is taken
\* only when its strobe has ended (Bus_Control_Logic.sv:63-71) and by then the
\* 8237 may have been given the bus: at the slower speeds it is in S1.
Untouched ==
  ~resetting' /\ (base' # base \/ mode' # mode \/ command' # command)
    => dack = None /\ strobes = {}

RegistersStill == [][Untouched]_vars

-----------------------------------------------------------------------------
(* Progress.  The chipset clock runs, and what is addressed becomes ready  *)
(* again and again, and the HPS ends an image it has begun.                *)

LiveSpec ==
  /\ Spec
  /\ WF_vars(Clock) /\ WF_vars(Clock /\ slave')
  /\ SF_vars(Clock /\ download = "active" /\ download' = "over")

\* A bus cycle that began ends, however often the bus is taken from it.
CpuCycleEnds == (cpu = "T1") ~> (cpu = "T4")

\* A refresh the timer asks for is given, whatever the other channels ask.
RefreshGiven == (0 \in dreq) ~> (dack = 0)

\* A download is given the bus.
LoaderStarts == (download = "active") ~> (load = 1)
=============================================================================
