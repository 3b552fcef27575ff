------------------------------- MODULE Kf8237 -------------------------------
(***************************************************************************)
(* The DMA controller (rtl/KFPC-XT/HDL/KF8237): request lines, sequencer,  *)
(* command strobes, address and count registers, terminal count.           *)
(*                                                                         *)
(* One step of DmaClock is one chipset clock.  The registers that follow   *)
(* the CPU clock move only in the clocks that carry one of its edges: edge *)
(* is "pos", "neg" or "none".  hlda, dreq, ready, w and reading are the    *)
(* inputs in that clock: hold acknowledge, the request lines, READY, the   *)
(* register write that has just ended, and whether the status register is  *)
(* being read.                                                             *)
(*                                                                         *)
(* A word is two bytes of Half values each.  Not modelled: an end of       *)
(* process given from outside (the pin is tied off in Bus_Arbiter.sv), the *)
(* polarity bits of the command register, and memory-to-memory transfers,  *)
(* which the source leaves to do.                                          *)
(***************************************************************************)
EXTENDS Integers

CONSTANTS NChannels,   \* request lines; 0 has the highest fixed priority
          Half         \* values of one byte of an address or a count

ASSUME Kf8237Assumption ==
  /\ NChannels \in Nat \ {0}
  /\ Half \in Nat \ {0}

Channels == 0 .. (NChannels - 1)
None     == -1
NoOp     == [op |-> "none"]    \* no register write
Word     == 0 .. (Half * Half - 1)

VARIABLES
  dmaState,        \* SI, S0 .. S4, SW
  ackInt,          \* dma_acknowledge_internal: the channel being served
  rotate,          \* dma_rotate: the channel served last
  holdRequest,     \* hold_request
  dack,            \* dma_acknowledge: the channel whose DACK is given
  strobes,         \* the command lines driven: ior, iow, memr, memw
  reoutput,        \* reoutput_high_address
  terminalCount,   \* terminal_count
  eop,             \* end_of_process_internal
  tcState,         \* terminal_count_state, a set of channels
  prevReading,     \* prev_read_status_register
  command,         \* the bits of the command register
  mode,            \* per channel: transfer, type, auto, down
  mask, request,   \* mask_register and request_register, sets of channels
  dreqFf, reqLock, \* dma_request_ff and dma_request_lock, sets of channels
  bytePointer,     \* byte_pointer: the next byte is the high one
  base, current,   \* per channel: addr and count
  transferAddress  \* transfer_address, the address on the bus

dmaVars == <<dmaState, ackInt, rotate, holdRequest, dack, strobes, reoutput,
             terminalCount, eop, tcState, prevReading, command, mode, mask,
             request, dreqFf, reqLock, bytePointer, base, current,
             transferAddress>>

States   == {"SI", "S0", "S1", "S2", "S3", "SW", "S4"}
Commands == [disable : BOOLEAN, rotating : BOOLEAN, early : BOOLEAN,
             compressed : BOOLEAN, hold : BOOLEAN]
Modes    == [transfer : {"demand", "single", "block", "cascade"},
             type : {"verify", "write", "read", "none"},
             auto : BOOLEAN, down : BOOLEAN]

\* What a write to each register carries.
RegisterOp(w) ==
  /\ w.op = "command" => w.val \in Commands
  /\ w.op = "mode" => w.ch \in Channels /\ w.val \in Modes
  /\ w.op \in {"mask", "request"} => w.ch \in Channels /\ w.val \in BOOLEAN
  /\ w.op = "maskAll" => w.val \subseteq Channels
  /\ w.op \in {"addr", "count"} => w.ch \in Channels /\ w.val \in 0 .. (Half - 1)

ResetCommand == [disable |-> FALSE, rotating |-> FALSE, early |-> FALSE,
                 compressed |-> FALSE, hold |-> FALSE]
ResetMode    == [transfer |-> "demand", type |-> "verify",
                 auto |-> FALSE, down |-> FALSE]

-----------------------------------------------------------------------------
(* Who is asking, and who is served.                                       *)

EdgeRequest(c) == mode[c].transfer \in {"single", "block"}

DmaRequestState == ((dreqFf \ reqLock) \ mask) \cup request

\* With rotating priority the channel after the one served last comes first.
Rank(c) == IF command.rotating THEN (c - rotate - 1) % NChannels ELSE c

EncodedDma ==
  IF command.disable \/ DmaRequestState = {} THEN None
  ELSE CHOOSE c \in DmaRequestState :
         \A d \in DmaRequestState : Rank(c) <= Rank(d)

\* dma_select: bit2num gives channel 0 when no channel is selected.
Selected       == IF ackInt = None THEN 0 ELSE ackInt
Serving        == mode[Selected]
Cascade        == Serving.transfer = "cascade"
StillRequested == ackInt \in DmaRequestState
LockBusControl == dmaState \notin {"SI", "S0"}

-----------------------------------------------------------------------------
(* The sequencer.                                                          *)

\* next_s4: the states that give way to S4.
BeforeS4 ==
  \/ dmaState = "S1" /\ Cascade
  \/ dmaState = "S2" /\ command.compressed /\ Serving.type = "verify"
  \/ dmaState = "S3" /\ Serving.type = "verify"
  \/ dmaState = "SW"

Unending   == FALSE
SingleOnly == Serving.transfer = "single"

AfterS4 ==
  CASE Cascade -> IF StillRequested THEN "S4" ELSE "SI"
    [] SingleOnly -> "SI"
    [] OTHER ->
         IF (Serving.transfer = "demand" /\ ~StillRequested) \/ eop THEN "SI"
         ELSE IF reoutput THEN "S1" ELSE "S2"

NextState(hlda, ready) ==
  CASE dmaState = "SI" -> IF EncodedDma = None THEN "SI" ELSE "S0"
    [] dmaState = "S0" -> IF hlda THEN "S1" ELSE "S0"
    [] dmaState = "S1" -> IF Cascade THEN "S4" ELSE "S2"
    [] dmaState = "S2" /\ ~BeforeS4 -> IF command.compressed THEN "SW" ELSE "S3"
    [] dmaState = "S3" /\ ~BeforeS4 -> "SW"
    [] dmaState \in {"S2", "S3", "SW"} /\ BeforeS4 ->
         IF ready THEN "S4" ELSE dmaState
    [] dmaState = "S4" -> AfterS4

\* The strobe of the side that is read opens in S2, that of the side that is
\* written in S3, or in S2 with extended write or compressed timing.
Opened ==
  LET write == dmaState = "S3" \/ (dmaState = "S2" /\ (command.early \/ command.compressed))
  IN CASE Serving.type = "write" -> {s \in {"ior", "memw"} :
                                       IF s = "ior" THEN dmaState = "S2" ELSE write}
       [] Serving.type = "read"  -> {s \in {"memr", "iow"} :
                                       IF s = "memr" THEN dmaState = "S2" ELSE write}
       [] OTHER -> {}

OneStateEarly(next) == next = "SW" /\ ~Cascade
NextWord(next) == next = "S4" /\ ~Cascade

\* temporary_address: the address after this transfer.
NextAddress ==
  LET a == current[Selected].addr
  IN IF command.hold /\ ackInt = 0 THEN a
     ELSE IF Serving.down THEN (a - 1) % (Half * Half) ELSE (a + 1) % (Half * Half)

StopsAtZero == IF current[Selected].count = 0 THEN 0 ELSE current[Selected].count - 1
NextCount == (current[Selected].count - 1) % (Half * Half)

Underflow == current[Selected].count = 0

HighByte(a) == a \div Half

AlwaysFollows == EncodedDma
Chosen == IF dmaState = "SI" THEN EncodedDma ELSE ackInt

HoldsOn(edge, next) == holdRequest \/ (edge = "pos" /\ next = "S0")
NextHold(edge, next) ==
  IF edge = "pos" /\ next \in {"S0", "SI"} THEN next = "S0" ELSE holdRequest

AckOnGrant(next)   == next = "S1"
Acknowledges(next) == next = "S2"

Sequencer(edge, next) ==
  /\ dmaState' = IF edge = "neg" THEN next ELSE dmaState
  /\ ackInt' = Chosen
  /\ rotate' = IF dmaState = "S0" THEN Selected ELSE rotate
  /\ holdRequest' = NextHold(edge, next)
  /\ dack' = CASE edge = "neg" /\ Acknowledges(next) -> ackInt
               [] edge = "neg" /\ next = "SI" -> None
               [] OTHER -> dack
  /\ strobes' = IF edge # "pos" THEN strobes
                ELSE IF dmaState = "S4" THEN {} ELSE strobes \cup Opened
  /\ reoutput' = IF dmaState = "S2" THEN FALSE
                 ELSE IF edge = "neg" /\ NextWord(next)
                      THEN HighByte(transferAddress) % 2 # HighByte(NextAddress) % 2
                      ELSE reoutput

Ending(edge, next, reading) ==
  /\ terminalCount' = CASE edge = "pos" /\ dmaState = "S4" -> FALSE
                        [] edge = "pos" /\ BeforeS4 -> Underflow
                        [] OTHER -> terminalCount
  /\ eop' = IF edge = "neg" THEN next = "S4" /\ terminalCount ELSE eop
  /\ tcState' = CASE edge = "neg" /\ prevReading /\ ~reading -> {}
                  [] edge = "neg" /\ ~(prevReading /\ ~reading) /\ eop ->
                       tcState \cup {Selected}
                  [] OTHER -> tcState

StaysLocked(c) == c \in reqLock
LockKept(c)    == c \in reqLock /\ (c \in dreqFf \/ ackInt = c)

\* clear_mask_register sets every mask bit, as reset does.
Requests(edge, dreq, w) ==
  /\ command' = IF w.op = "command" THEN w.val ELSE command
  /\ mode' = IF w.op = "mode" THEN [mode EXCEPT ![w.ch] = w.val] ELSE mode
  /\ mask' = CASE w.op = "clearMask" -> Channels
               [] w.op = "mask"      -> IF w.val THEN mask \cup {w.ch} ELSE mask \ {w.ch}
               [] w.op = "maskAll"   -> w.val
               [] OTHER              -> mask
  /\ request' = CASE w.op = "clearMask" -> {}
                  [] w.op = "request" ->
                       (IF w.val THEN request \cup {w.ch} ELSE request \ {w.ch})
                       \ (IF eop THEN {ackInt} \ {w.ch} ELSE {})
                  [] OTHER -> IF eop THEN request \ {ackInt} ELSE request
  /\ dreqFf' = dreq
  /\ reqLock' =
       IF w.op = "clearMask" THEN {}
       ELSE {c \in Channels :
              /\ EdgeRequest(c)
              /\ \/ edge = "neg" /\ EncodedDma = c /\ ackInt = c
                 \/ LockKept(c)}

\* One byte of a word, the high one when the byte pointer is set.
Put(word, byte) ==
  IF bytePointer THEN (byte * Half) + (word % Half) ELSE (HighByte(word) * Half) + byte

Written(regs, w) ==
  CASE w.op = "addr"  -> [regs EXCEPT ![w.ch].addr = Put(@, w.val)]
    [] w.op = "count" -> [regs EXCEPT ![w.ch].count = Put(@, w.val)]
    [] OTHER          -> regs

Counters(edge, next, w) ==
  /\ bytePointer' = CASE w.op = "clearPointer" -> FALSE
                      [] w.op = "setPointer" -> TRUE
                      [] w.op \in {"addr", "count", "readByte"} -> ~bytePointer
                      [] OTHER -> bytePointer
  /\ base' = Written(base, w)
  /\ current' =
       CASE w.op \in {"addr", "count"} -> Written(current, w)
         [] w.op \notin {"addr", "count"} /\ dmaState = "S4" /\ Serving.auto /\ eop ->
              [current EXCEPT ![ackInt] = base[ackInt]]
         [] w.op \notin {"addr", "count"} /\ dmaState \notin {"SI", "S4"}
              /\ edge = "neg" /\ NextWord(next) ->
              [current EXCEPT ![ackInt] =
                 [addr |-> NextAddress, count |-> NextCount]]
         [] OTHER -> current
  /\ transferAddress' =
       IF edge # "neg" THEN transferAddress
       ELSE current[IF dmaState = "SI" THEN 0 ELSE Selected].addr

DmaReset ==
  /\ dmaState' = "SI" /\ ackInt' = None /\ rotate' = NChannels - 1
  /\ holdRequest' = FALSE /\ dack' = None /\ strobes' = {}
  /\ reoutput' = FALSE /\ terminalCount' = FALSE /\ eop' = FALSE
  /\ tcState' = {} /\ command' = ResetCommand
  /\ mode' = [c \in Channels |-> ResetMode]
  /\ mask' = Channels /\ request' = {} /\ dreqFf' = {} /\ reqLock' = {}
  /\ bytePointer' = FALSE
  /\ base' = [c \in Channels |-> [addr |-> 0, count |-> 0]] /\ current' = base'
  /\ transferAddress' = 0

DmaClock(edge, hlda, dreq, ready, w, reading) ==
  LET next == NextState(hlda, ready)
  IN /\ \/ w.op = "master" /\ DmaReset
        \/ /\ w.op # "master"
           /\ Sequencer(edge, next)
           /\ Ending(edge, next, reading)
           /\ Requests(edge, dreq, w)
           /\ Counters(edge, next, w)
     /\ prevReading' = IF edge = "neg" THEN reading ELSE prevReading
=============================================================================
