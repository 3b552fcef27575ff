----------------------------- MODULE BusProofs -----------------------------
(***************************************************************************)
(* What the bus promises holds for every number of channels, every pacing  *)
(* of the CPU clock and every program of the 8237.                         *)
(***************************************************************************)
EXTENDS BusProps, ModFacts, FiniteSetTheorems, WellFoundedInduction, TLAPS

(* The edge of the CPU clock in this clock, the register write that reaches *)
(* the 8237 and the state its sequencer would go to.                       *)
Edge  == IF gap = 0 THEN phase ELSE "none"
Taken == IF DmaAccess = NoOp THEN prevWrite ELSE NoOp
Ahead == NextState(HoldAcknowledge /\ ~ext, DmaReady)

-----------------------------------------------------------------------------
(* The inductive invariant.                                                *)

\* What the processor's cycles do to the registers of the 8237.
Writes == {NoOp} \cup {c.op : c \in CpuCycles}

\* The processor runs one of its cycles, and a write strobe that has ended is
\* one of its writes.
ProcessorType ==
  /\ cycle.kind \in Kinds /\ cycle.op \in Writes /\ prevWrite \in Writes
  /\ status \in Kinds \cup {"passive"} /\ locked \in BOOLEAN

\* The flip-flops of the arbiter and the 8288 are bits.
ArbiterType ==
  /\ ff1 \in BOOLEAN /\ ff2 \in BOOLEAN /\ aen \in BOOLEAN /\ dmaWait \in BOOLEAN
  /\ period \in BOOLEAN /\ running \in BOOLEAN /\ ext \in BOOLEAN

\* The 8237's lines and registers are sets of channels and bits.
RequestType ==
  /\ holdRequest \in BOOLEAN /\ eop \in BOOLEAN /\ rotate \in Channels
  /\ dreq \subseteq Channels /\ dreqFf \subseteq Channels
  /\ request \subseteq Channels /\ mask \subseteq Channels
  /\ strobes \subseteq {"ior", "iow", "memr", "memw"}

\* The counters are numbers; that they are words is not needed.
CounterType ==
  /\ base \in [Channels -> [addr : Int, count : Int]]
  /\ current \in [Channels -> [addr : Int, count : Int]]

\* All of it.
TypeInv == TypeOK /\ ProcessorType /\ ArbiterType /\ RequestType /\ CounterType

-----------------------------------------------------------------------------
(* The 8237.  Idling is a sequencer that lets the processor at the         *)
(* registers; a transfer is in S2, S3 or SW, and in S4 unless it is a cascade. *)

Idling     == dmaState \in {"SI", "S0"}
\* The states with a transfer under way.
InTransfer == dmaState \in {"S2", "S3", "SW"}
CascadeS4  == dmaState = "S4" /\ Cascade
Given      == InTransfer \/ (dmaState = "S4" /\ ~Cascade)
Ends       == SingleOnly \/ eop \/ (Serving.transfer = "demand" /\ ~StillRequested)

\* A register is written with no DACK given, and the commands are closed before
\* the sequencer moves on from S4.
QuietInv ==
  /\ Idling \/ CascadeS4 => dack = None /\ strobes = {}
  /\ prevWrite # NoOp => dack = None /\ strobes = {}
  /\ prevWrite # NoOp => Idling \/ (dmaState = "S1" /\ phase = "pos")
  /\ strobes # {} => InTransfer \/ (dmaState = "S4" /\ phase = "pos")
  /\ eop => dmaState = "S4"

\* DACK is that of the channel being served.
ServiceInv ==
  /\ InTransfer => ~Cascade
  /\ Given => dack = ackInt
  /\ dmaState = "S1" /\ dack # None =>
       prevWrite = NoOp /\ dack = ackInt /\ ~Cascade

\* DACK lowers the line, and its flip-flop follows.
LineInv ==
  /\ dmaState \in {"S3", "SW"} \/ (dmaState = "S2" /\ phase = "neg")
       \/ (dmaState = "S4" /\ ~Cascade) => ackInt \notin dreq
  /\ dmaState \in {"S3", "SW"} \/ (dmaState = "S4" /\ ~Cascade) => ackInt \notin dreqFf
  /\ dreqFf \ {dack} \subseteq dreq

\* The bus is held until the transfer ends, and it ends as it was decided at
\* the rising edge, when the hold was given up.
HoldInv ==
  /\ ~Idling /\ phase = "pos" => (holdRequest /\ ff2) \/ CascadeS4
  /\ ~Idling /\ phase = "neg" =>
       \/ aen /\ holdRequest /\ ff2
       \/ CascadeS4
       \/ dmaState = "S4" /\ strobes = {} /\ Ends
  /\ Given \/ (dmaState = "S1" /\ dack # None) => aen
  /\ strobes # {} => dmaWait

\* What the 8237 keeps, whatever the rest of the machine does.
DmaInv == QuietInv /\ ServiceInv /\ LineInv /\ HoldInv

-----------------------------------------------------------------------------
(* Who is served: of the channels that ask, one of the best rank.          *)

(* A set of numbers that is not empty has a least one.                     *)
LEMMA LeastNumber == ASSUME NEW S \in SUBSET Nat, S # {}
    PROVE \E m \in S : \A k \in S : m <= k
  <1>1. PICK m \in S : \A k \in S : ~(<<k, m>> \in OpToRel(<, Nat))
    BY NatLessThanWellFounded, WFMin
  <1>2. ASSUME NEW k \in S PROVE m <= k
    <2>1. <<k, m>> \in Nat \X Nat /\ ~(<<k, m>> \in OpToRel(<, Nat))
      BY <1>1
    <2>2. ~(k < m)
      BY <2>1 DEF OpToRel
    <2> QED
      BY <2>2
  <1> QED
    BY <1>2

(* Under either priority a rank is a number.                               *)
LEMMA RankIsNumber == ASSUME TypeInv, NEW c \in Channels PROVE Rank(c) \in Nat
  <1>1. c \in Nat /\ rotate \in Nat /\ NChannels \in Nat \ {0}
    BY Kf8237Assumption DEF TypeInv, RequestType, Channels
  <1>2. (c - rotate - 1) \in Int
    BY <1>1
  <1>3. (c - rotate - 1) % NChannels \in 0 .. NChannels - 1
    BY <1>1, <1>2, DivMod, Zenon
  <1> QED
    BY <1>1, <1>3 DEF Rank

(* The channel that is chosen is one that asks.                            *)
LEMMA ChosenAsks == ASSUME TypeInv
    PROVE /\ EncodedDma \in Channels \cup {None}
          /\ EncodedDma # None => EncodedDma \in DmaRequestState
  <1>1. DmaRequestState \subseteq Channels
    BY DEF TypeInv, RequestType, DmaRequestState
  <1>2. CASE command.disable \/ DmaRequestState = {}
    BY <1>2 DEF EncodedDma
  <1>3. CASE ~(command.disable \/ DmaRequestState = {})
    <2> DEFINE Ranks == {Rank(c) : c \in DmaRequestState}
    <2>1. Ranks \in SUBSET Nat /\ Ranks # {}
      BY <1>1, <1>3, RankIsNumber
    <2>2. PICK m \in Ranks : \A k \in Ranks : m <= k
      BY <2>1, LeastNumber
    <2>3. PICK c \in DmaRequestState : m = Rank(c)
      BY <2>2
    <2>4. \A d \in DmaRequestState : Rank(c) <= Rank(d)
      BY <2>2, <2>3
    <2>5. EncodedDma = CHOOSE x \in DmaRequestState :
                         \A d \in DmaRequestState : Rank(x) <= Rank(d)
      BY <1>3 DEF EncodedDma
    <2>6. EncodedDma \in DmaRequestState
      BY <2>3, <2>4, <2>5
    <2> QED
      BY <1>1, <2>6
  <1> QED
    BY <1>2, <1>3

-----------------------------------------------------------------------------
(* What a clock does, part by part.                                        *)

(* A clock with an edge goes on to the other one.                          *)
LEMMA ClockParts == ASSUME Clock
    PROVE /\ ~resetting /\ resetting' = resetting
          /\ phase' = IF gap > 0 THEN phase ELSE IF phase = "pos" THEN "neg" ELSE "pos"
          /\ gap' \in IF gap > 0 THEN {gap - 1} ELSE Gaps
          /\ Ready(Edge) /\ Arbiter(Edge) /\ Controller(Edge) /\ Processor(Edge)
          /\ RequestLines(Edge) /\ Loader /\ Slave
          /\ DmaClock(Edge, HoldAcknowledge /\ ~ext, dreq, DmaReady, Taken,
                      DmaAccess.op = "readStatus")
          /\ prevWrite' = DmaAccess
  BY DEF Clock, Edge, Taken

\* A clock with an edge goes on to the other one, any other clock stays.
LEMMA Edges == ASSUME TypeInv, Clock
    PROVE /\ Edge \in {"pos", "neg", "none"}
          /\ Edge = "pos" => phase = "pos" /\ phase' = "neg"
          /\ Edge = "neg" => phase = "neg" /\ phase' = "pos"
          /\ Edge = "none" => phase' = phase
          /\ phase' \in {"pos", "neg"}
  <1>1. phase \in {"pos", "neg"} /\ gap \in Nat
    BY DEF TypeInv, TypeOK
  <1> QED
    BY <1>1, ClockParts DEF Edge

(* The 8237 is cleared by a write or goes through its clock.               *)
LEMMA DmaParts == ASSUME Clock
    PROVE \/ Taken.op = "master" /\ DmaReset
          \/ /\ Taken.op # "master"
             /\ Sequencer(Edge, Ahead)
             /\ Ending(Edge, Ahead, DmaAccess.op = "readStatus")
             /\ Requests(Edge, dreq, Taken)
             /\ Counters(Edge, Ahead, Taken)
  BY ClockParts DEF DmaClock, Ahead

(* Where the sequencer may go from each of its states.                     *)
LEMMA NextStates ==
    /\ dmaState = "SI" => Ahead = IF EncodedDma = None THEN "SI" ELSE "S0"
    /\ dmaState = "S0" => Ahead = IF HoldAcknowledge /\ ~ext THEN "S1" ELSE "S0"
    /\ dmaState = "S1" => Ahead = IF Cascade THEN "S4" ELSE "S2"
    /\ dmaState = "S2" => Ahead \in {"S2", "S3", "SW", "S4"}
    /\ dmaState = "S3" => Ahead \in {"S3", "SW", "S4"}
    /\ dmaState = "SW" => Ahead \in {"SW", "S4"}
    /\ dmaState = "S4" /\ Cascade => Ahead = IF StillRequested THEN "S4" ELSE "SI"
    /\ dmaState = "S4" /\ ~Cascade =>
         IF Ends THEN Ahead = "SI" ELSE Ahead \in {"S1", "S2"}
  <1>1. dmaState = "SI" => Ahead = IF EncodedDma = None THEN "SI" ELSE "S0"
    BY DEF Ahead, NextState
  <1>2. dmaState = "S0" => Ahead = IF HoldAcknowledge /\ ~ext THEN "S1" ELSE "S0"
    BY DEF Ahead, NextState
  <1>3. dmaState = "S1" => Ahead = IF Cascade THEN "S4" ELSE "S2"
    BY DEF Ahead, NextState
  <1>4. dmaState = "S2" => Ahead \in {"S2", "S3", "SW", "S4"}
    BY DEF Ahead, NextState
  <1>5. dmaState = "S3" => Ahead \in {"S3", "SW", "S4"}
    BY DEF Ahead, NextState
  <1>6. dmaState = "SW" => Ahead \in {"SW", "S4"}
    BY DEF Ahead, NextState, BeforeS4
  <1>7. dmaState = "S4" => Ahead = AfterS4
    BY DEF Ahead, NextState
  <1>8. dmaState = "S4" /\ Cascade => Ahead = IF StillRequested THEN "S4" ELSE "SI"
    <2>1. Cascade => AfterS4 = IF StillRequested THEN "S4" ELSE "SI"
      BY DEF AfterS4, Cascade, SingleOnly
    <2> QED
      BY <1>7, <2>1
  <1>9. dmaState = "S4" /\ ~Cascade =>
          IF Ends THEN Ahead = "SI" ELSE Ahead \in {"S1", "S2"}
    BY <1>7 DEF AfterS4, Ends
  <1> QED
    BY <1>1, <1>2, <1>3, <1>4, <1>5, <1>6, <1>8, <1>9

(* What the sequencer drives in a clock.                                   *)
LEMMA SequencerFacts == ASSUME Sequencer(Edge, Ahead)
    PROVE /\ dmaState' = IF Edge = "neg" THEN Ahead ELSE dmaState
          /\ ackInt' = IF dmaState = "SI" THEN EncodedDma ELSE ackInt
          /\ rotate' \in {Selected, rotate}
          /\ holdRequest' = IF Edge = "pos" /\ Ahead \in {"S0", "SI"} THEN Ahead = "S0"
                            ELSE holdRequest
          /\ Edge = "neg" /\ Ahead = "S2" => dack' = ackInt
          /\ Edge = "neg" /\ Ahead = "SI" => dack' = None
          /\ ~(Edge = "neg" /\ Ahead \in {"S2", "SI"}) => dack' = dack
          /\ Edge # "pos" => strobes' = strobes
          /\ Edge = "pos" /\ dmaState = "S4" => strobes' = {}
          /\ Edge = "pos" /\ dmaState # "S4" => strobes' = strobes \cup Opened
  BY DEF Sequencer, Chosen, NextHold, Acknowledges

(* A command opens only in S2 and S3.                                      *)
LEMMA OpenedFacts ==
    /\ Opened \subseteq {"ior", "iow", "memr", "memw"}
    /\ dmaState \notin {"S2", "S3"} => Opened = {}
  BY DEF Opened

(* The write that reaches the registers is a well-formed one, and none does *)
(* once the sequencer has left S1's first half.                            *)
LEMMA TakenFacts == ASSUME TypeInv, QuietInv
    PROVE /\ RegisterOp(Taken) /\ Taken \in Writes /\ DmaAccess \in Writes
          /\ Taken.op # "none" => Taken = prevWrite /\ prevWrite # NoOp /\ DmaAccess = NoOp
          /\ ~Idling /\ ~(dmaState = "S1" /\ phase = "pos") => Taken = NoOp
          /\ ~Idling => DmaAccess = NoOp
  <1>1. RegisterOp(NoOp) /\ NoOp.op = "none"
    BY DEF RegisterOp, NoOp
  <1>2. \A w \in Writes : RegisterOp(w)
    BY <1>1, BusAssumption DEF Writes
  <1>3. RegisterOp(Taken) /\ Taken \in Writes /\ DmaAccess \in Writes
    BY <1>2 DEF TypeInv, ProcessorType, Taken, DmaAccess, Writes
  <1>4. Taken.op # "none" => Taken = prevWrite /\ prevWrite # NoOp /\ DmaAccess = NoOp
    BY <1>1 DEF Taken
  <1>5. ~Idling => DmaAccess = NoOp
    BY DEF DmaAccess, LockBusControl, Idling
  <1>6. ~Idling /\ ~(dmaState = "S1" /\ phase = "pos") => Taken = NoOp
    BY DEF Taken, QuietInv
  <1> QED
    BY <1>3, <1>4, <1>5, <1>6

(* The registers without a write.                                          *)
LEMMA NoWrite == ASSUME Requests(Edge, dreq, Taken), Taken = NoOp
    PROVE /\ mode' = mode /\ command' = command /\ mask' = mask
          /\ request' = IF eop THEN request \ {ackInt} ELSE request
  <1>1. Taken.op = "none"
    BY DEF NoOp
  <1> QED
    BY <1>1 DEF Requests

\* End of process is what terminal count and S4 make of it, at a falling edge.
LEMMA EndingFacts == ASSUME Ending(Edge, Ahead, DmaAccess.op = "readStatus")
    PROVE /\ Edge = "neg" => (eop' <=> Ahead = "S4" /\ terminalCount)
          /\ Edge # "neg" => eop' = eop
  BY DEF Ending

(* Lines are raised by devices and lowered by DACK.                        *)
LEMMA LineFacts == ASSUME RequestLines(Edge), Requests(Edge, dreq, Taken)
    PROVE /\ dreq \ {dack} \subseteq dreq' /\ dack \notin dreq'
          /\ dreqFf' = dreq
  BY DEF RequestLines, Requests

(* The arbiter's flip-flops.                                               *)
LEMMA ArbiterFacts == ASSUME Arbiter(Edge)
    PROVE /\ ff1' = IF Edge = "pos" THEN Free /\ HoldRequest ELSE ff1
          /\ ff2' = IF Edge = "neg" THEN HoldRequest /\ (ff2 \/ ff1) ELSE ff2
          /\ aen' = IF Edge = "pos" THEN HoldAcknowledge ELSE aen
          /\ dmaWait' = IF Edge = "pos" THEN aen ELSE dmaWait
  BY DEF Arbiter

-----------------------------------------------------------------------------
(* A clock of the 8237 that is not cleared keeps its invariant.            *)

(* The clocks those lemmas are about.                                      *)
DmaRuns == Clock /\ Taken.op # "master"

\* What such a clock does.
LEMMA RunFacts == ASSUME DmaRuns
    PROVE /\ Clock /\ Sequencer(Edge, Ahead)
          /\ Ending(Edge, Ahead, DmaAccess.op = "readStatus")
          /\ Requests(Edge, dreq, Taken) /\ Counters(Edge, Ahead, Taken)
          /\ RequestLines(Edge) /\ Arbiter(Edge) /\ prevWrite' = DmaAccess
  BY DmaParts, ClockParts DEF DmaRuns

(* The channel served and what it does stay until the transfer is over.    *)
LEMMA ServingKept == ASSUME TypeInv, QuietInv, DmaRuns, ~Idling
    PROVE /\ ackInt' = ackInt /\ Selected' = Selected
          /\ ~(dmaState = "S1" /\ phase = "pos") =>
               (Cascade' <=> Cascade) /\ (SingleOnly' <=> SingleOnly)
               /\ Serving' = Serving /\ mask' = mask
               /\ request' = IF eop THEN request \ {ackInt} ELSE request
  <1>1. ackInt' = ackInt
    BY RunFacts, SequencerFacts DEF Idling
  <1>2. Selected' = Selected
    BY <1>1 DEF Selected
  <1>3. ASSUME ~(dmaState = "S1" /\ phase = "pos")
        PROVE /\ mode' = mode /\ mask' = mask
              /\ request' = IF eop THEN request \ {ackInt} ELSE request
    BY <1>3, TakenFacts, RunFacts, NoWrite
  <1>4. ASSUME ~(dmaState = "S1" /\ phase = "pos")
        PROVE /\ Serving' = Serving /\ (Cascade' <=> Cascade)
              /\ (SingleOnly' <=> SingleOnly)
    BY <1>2, <1>3, <1>4 DEF Serving, Cascade, SingleOnly
  <1> QED
    BY <1>1, <1>2, <1>3, <1>4

\* A clock keeps the registers quiet in a transfer.
LEMMA QuietClock == ASSUME TypeInv, DmaInv, DmaRuns PROVE QuietInv'
  <1> USE DEF DmaInv
  <1>1. Clock /\ QuietInv /\ ServiceInv
    BY DEF DmaRuns
  <1>2. /\ Edge \in {"pos", "neg", "none"} /\ phase \in {"pos", "neg"} /\ phase' \in {"pos", "neg"}
        /\ Edge = "pos" => phase = "pos" /\ phase' = "neg"
        /\ Edge = "neg" => phase = "neg" /\ phase' = "pos"
        /\ Edge = "none" => phase' = phase
    BY <1>1, Edges DEF TypeInv, TypeOK
  <1>3. dmaState \in States
    BY DEF TypeInv, TypeOK
  <1>4. Idling' \/ CascadeS4' => dack' = None /\ strobes' = {}
    <2>1. CASE Edge = "neg"
      <3>1. dmaState' = Ahead /\ strobes' = strobes /\ phase = "neg"
        BY <1>2, <2>1, RunFacts, SequencerFacts
      <3>2. Idling' => dmaState \in {"SI", "S0"} \/ (dmaState = "S4" /\ Ahead = "SI")
        BY <1>3, <3>1, NextStates DEF Idling, States
      <3>3. Idling' => dack' = None
        BY <1>1, <2>1, <3>1, <3>2, RunFacts, SequencerFacts DEF QuietInv, Idling
      <3>4. Idling' => strobes' = {}
        BY <1>1, <3>1, <3>2 DEF QuietInv, Idling, InTransfer
      <3>5. ASSUME CascadeS4' PROVE dack' = None /\ strobes' = {}
        <4>1. Ahead = "S4" /\ dack' = dack
          BY <2>1, <3>1, <3>5, RunFacts, SequencerFacts DEF CascadeS4
        <4>2. ~Idling /\ ~(dmaState = "S1" /\ phase = "pos")
          BY <3>1, <4>1, NextStates DEF Idling
        <4>3. Cascade
          BY <1>1, <3>5, <4>2, ServingKept DEF CascadeS4
        <4>4. dmaState = "S1" \/ CascadeS4
          BY <1>1, <1>3, <4>2, <4>3 DEF ServiceInv, Idling, InTransfer, States, CascadeS4
        <4> QED
          BY <1>1, <3>1, <4>1, <4>3, <4>4 DEF QuietInv, ServiceInv, InTransfer, CascadeS4
      <3> QED
        BY <3>3, <3>4, <3>5
    <2>2. CASE Edge # "neg"
      <3>1. dmaState' = dmaState /\ dack' = dack
        BY <2>2, RunFacts, SequencerFacts
      <3>2. Idling' \/ CascadeS4' => Idling \/ CascadeS4
        <4>1. Idling' => Idling
          BY <3>1 DEF Idling
        <4>2. CascadeS4' => CascadeS4
          BY <1>1, <3>1, ServingKept DEF Idling, CascadeS4
        <4> QED
          BY <4>1, <4>2
      <3>3. Idling \/ CascadeS4 => strobes' = {}
        BY <1>1, <1>2, RunFacts, SequencerFacts, OpenedFacts DEF QuietInv, Idling, CascadeS4
      <3> QED
        BY <1>1, <3>1, <3>2, <3>3 DEF QuietInv
    <2> QED
      BY <2>1, <2>2
  <1>5. prevWrite' # NoOp => Idling
    BY <1>1, RunFacts, TakenFacts
  <1>6. Idling => /\ dack' = None /\ strobes' = {}
                  /\ Idling' \/ (dmaState' = "S1" /\ phase' = "pos")
    <2>1. Idling => dack' = None /\ strobes' = {}
      BY <1>1, <1>2, RunFacts, SequencerFacts, OpenedFacts, NextStates DEF QuietInv, Idling
    <2>2. Idling => Idling' \/ (dmaState' = "S1" /\ phase' = "pos")
      BY <1>2, RunFacts, SequencerFacts, NextStates DEF Idling
    <2> QED
      BY <2>1, <2>2
  <1>7. strobes' # {} => InTransfer' \/ (dmaState' = "S4" /\ phase' = "pos")
    <2>1. CASE Edge = "neg"
      BY <1>1, <1>2, <1>3, <2>1, RunFacts, SequencerFacts, NextStates
         DEF QuietInv, InTransfer, States
    <2>2. CASE Edge = "pos"
      BY <1>1, <1>2, <1>3, <2>2, RunFacts, SequencerFacts, OpenedFacts
         DEF QuietInv, InTransfer, States
    <2>3. CASE Edge = "none"
      BY <1>1, <1>2, <1>3, <2>3, RunFacts, SequencerFacts
         DEF QuietInv, InTransfer, States
    <2> QED
      BY <1>2, <2>1, <2>2, <2>3
  <1>8. eop' => dmaState' = "S4"
    BY <1>1, <1>2, RunFacts, SequencerFacts, EndingFacts DEF QuietInv
  <1> QED
    BY <1>4, <1>5, <1>6, <1>7, <1>8 DEF QuietInv

(* What of the state before a transfer, or an S4, is in after a clock.     *)
LEMMA GivenBefore == ASSUME TypeInv, DmaInv, DmaRuns
    PROVE /\ Given' => Given \/ (Edge = "neg" /\ dmaState = "S1" /\ dmaState' = "S2")
          /\ dmaState' \in {"S3", "SW"} \/ (dmaState' = "S4" /\ ~Cascade') => Given
          /\ dmaState' = "S1" => \/ dmaState = "S1" /\ Edge # "neg"
                                 \/ dmaState = "S0" /\ Edge = "neg"
                                 \/ dmaState = "S4" /\ Given /\ Edge = "neg"
          /\ ~Idling /\ (dmaState = "S1" => Edge = "neg") =>
               (Cascade' <=> Cascade) /\ Serving' = Serving
          /\ InTransfer' => InTransfer \/ Edge = "neg"
          /\ CascadeS4 => CascadeS4' \/ Idling'
  <1>1. /\ dmaState \in States /\ Edge \in {"pos", "neg", "none"}
        /\ Edge = "neg" => phase = "neg" /\ dmaState' = Ahead
        /\ Edge # "neg" => dmaState' = dmaState
    BY Edges, RunFacts, SequencerFacts DEF TypeInv, TypeOK
  <1>2. ~Idling /\ (dmaState = "S1" => Edge = "neg") =>
          (Cascade' <=> Cascade) /\ Serving' = Serving
    BY <1>1, ServingKept DEF DmaInv
  <1>3. InTransfer => ~Cascade
    BY DEF DmaInv, ServiceInv
  <1>4. CASE Edge # "neg"
    <2>1. dmaState' = dmaState
      BY <1>1, <1>4
    <2>2. Given' => Given
      BY <1>2, <2>1 DEF Given, InTransfer, Idling
    <2>3. dmaState' \in {"S3", "SW"} \/ (dmaState' = "S4" /\ ~Cascade') => Given
      BY <1>2, <2>1 DEF Given, InTransfer, Idling
    <2>4. CascadeS4 => CascadeS4'
      BY <1>2, <2>1 DEF CascadeS4, Idling
    <2> QED
      BY <1>2, <1>4, <2>1, <2>2, <2>3, <2>4 DEF InTransfer
  <1>5. CASE Edge = "neg"
    <2>1. dmaState' = Ahead
      BY <1>1, <1>5
    <2>2. dmaState' \in {"S3", "SW"} => InTransfer
      BY <1>1, <2>1, NextStates DEF InTransfer, States
    <2>3. dmaState' = "S4" => ~Idling /\ (Cascade' <=> Cascade)
      BY <1>1, <1>2, <1>5, <2>1, NextStates DEF Idling, States
    <2>4. dmaState' = "S4" /\ ~Cascade => Given
      BY <1>1, <2>1, NextStates DEF Given, InTransfer, States
    <2>5. dmaState' = "S2" => dmaState = "S1" \/ Given
      BY <1>1, <2>1, NextStates DEF Given, InTransfer, States
    <2>6. dmaState' = "S1" => dmaState = "S0" \/ (dmaState = "S4" /\ Given)
      BY <1>1, <2>1, NextStates DEF Given, States
    <2>7. CascadeS4 => CascadeS4' \/ Idling'
      BY <1>2, <1>5, <2>1, NextStates DEF CascadeS4, Idling
    <2>8. Given' => Given \/ (Edge = "neg" /\ dmaState = "S1" /\ dmaState' = "S2")
      BY <1>5, <2>2, <2>3, <2>4, <2>5 DEF Given, InTransfer
    <2>9. dmaState' \in {"S3", "SW"} \/ (dmaState' = "S4" /\ ~Cascade') => Given
      BY <2>2, <2>3, <2>4 DEF Given
    <2> QED
      BY <1>2, <1>5, <2>6, <2>7, <2>8, <2>9
  <1> QED
    BY <1>4, <1>5

\* A clock keeps DACK with the channel being served.
LEMMA ServiceClock == ASSUME TypeInv, DmaInv, DmaRuns PROVE ServiceInv'
  <1> USE DEF DmaInv
  <1>1. Clock /\ QuietInv /\ ServiceInv
    BY DEF DmaRuns
  <1>2. /\ dmaState \in States /\ Edge \in {"pos", "neg", "none"}
        /\ Edge = "neg" => phase = "neg" /\ dmaState' = Ahead
        /\ Edge # "neg" => dmaState' = dmaState /\ dack' = dack
    BY <1>1, Edges, RunFacts, SequencerFacts DEF TypeInv, TypeOK
  <1>3. InTransfer' => ~Cascade'
    <2>1. InTransfer' => ~Idling /\ (dmaState = "S1" => Edge = "neg")
      BY <1>2, NextStates DEF InTransfer, Idling
    <2>2. InTransfer' => ~Cascade
      BY <1>1, <1>2, NextStates DEF InTransfer, ServiceInv, States
    <2> QED
      BY <2>1, <2>2, GivenBefore
  <1>4. Given' => dack' = ackInt'
    <2>1. ASSUME Given PROVE dack' \in {dack, ackInt} \/ dmaState' = "SI"
      BY <1>2, RunFacts, SequencerFacts
    <2>2. Given => ackInt' = ackInt /\ dack = ackInt
      BY <1>1, ServingKept DEF Given, InTransfer, Idling, ServiceInv
    <2>3. dmaState = "S1" /\ dmaState' = "S2" => dack' = ackInt /\ ackInt' = ackInt
      BY <1>1, <1>2, RunFacts, SequencerFacts, ServingKept DEF Idling
    <2>4. dmaState' = "SI" => ~Given'
      BY DEF Given, InTransfer
    <2> QED
      BY <2>1, <2>2, <2>3, <2>4, GivenBefore
  <1>5. ASSUME dmaState' = "S1", dack' # None
        PROVE prevWrite' = NoOp /\ dack' = ackInt' /\ ~Cascade'
    <2>1. CASE dmaState = "S1" /\ Edge # "neg"
      <3>1. dack' = dack /\ ackInt' = ackInt /\ dack = ackInt /\ prevWrite = NoOp /\ ~Cascade
        BY <1>1, <1>2, <1>5, <2>1, ServingKept DEF ServiceInv, Idling
      <3>2. Taken = NoOp /\ prevWrite' = NoOp
        BY <1>1, <2>1, <3>1, TakenFacts, RunFacts DEF Idling, Taken
      <3>3. mode' = mode /\ Selected' = Selected
        BY <1>1, <2>1, <3>2, RunFacts, NoWrite, ServingKept DEF Idling
      <3> QED
        BY <3>1, <3>2, <3>3 DEF Cascade, Serving
    <2>2. CASE dmaState = "S0" /\ Edge = "neg"
      BY <1>1, <1>2, <1>5, <2>2, RunFacts, SequencerFacts DEF QuietInv, Idling
    <2>3. CASE dmaState = "S4" /\ Given /\ Edge = "neg"
      <3>1. ~Cascade /\ ~Idling /\ dack = ackInt
        BY <1>1, <2>3 DEF Given, InTransfer, Idling, ServiceInv
      <3>2. ackInt' = ackInt /\ ~Cascade' /\ prevWrite' = NoOp
        BY <1>1, <2>3, <3>1, GivenBefore, ServingKept, TakenFacts, RunFacts
      <3>3. dack' = dack
        BY <1>2, <1>5, <2>3, RunFacts, SequencerFacts
      <3> QED
        BY <3>1, <3>2, <3>3
    <2> QED
      BY <1>5, <2>1, <2>2, <2>3, GivenBefore
  <1> QED
    BY <1>3, <1>4, <1>5 DEF ServiceInv

\* A clock keeps a served line down.
LEMMA LineClock == ASSUME TypeInv, DmaInv, DmaRuns PROVE LineInv'
  <1> USE DEF DmaInv
  <1>1. Clock /\ QuietInv /\ ServiceInv /\ LineInv
    BY DEF DmaRuns
  <1>2. /\ dmaState \in States /\ Edge \in {"pos", "neg", "none"} /\ phase \in {"pos", "neg"}
        /\ Edge = "pos" => phase = "pos" /\ phase' = "neg"
        /\ Edge = "neg" => phase = "neg" /\ phase' = "pos" /\ dmaState' = Ahead
        /\ Edge # "neg" => dmaState' = dmaState /\ dack' = dack
        /\ Edge = "none" => phase' = phase
    BY <1>1, Edges, RunFacts, SequencerFacts DEF TypeInv, TypeOK
  <1>3. dreq \ {dack} \subseteq dreq' /\ dack \notin dreq' /\ dreqFf' = dreq
    BY RunFacts, LineFacts
  <1>4. Given => dack = ackInt /\ ackInt' = ackInt /\ ackInt \notin dreq'
    BY <1>1, <1>3, ServingKept DEF ServiceInv, Given, InTransfer, Idling
  <1>5. dmaState' \in {"S3", "SW"} \/ (dmaState' = "S2" /\ phase' = "neg")
          \/ (dmaState' = "S4" /\ ~Cascade') => ackInt' \notin dreq'
    <2>1. dmaState' = "S2" /\ phase' = "neg" => Given
      BY <1>2 DEF Given, InTransfer
    <2> QED
      BY <1>4, <2>1, GivenBefore
  <1>6. ASSUME dmaState' \in {"S3", "SW"} \/ (dmaState' = "S4" /\ ~Cascade')
        PROVE ackInt' \notin dreqFf'
    <2>1. Given
      BY <1>6, GivenBefore
    <2>2. dmaState = "S2" => phase = "neg"
      BY <1>2, <1>6
    <2>3. ackInt \notin dreq
      BY <1>1, <2>1, <2>2 DEF LineInv, Given, InTransfer
    <2> QED
      BY <1>3, <1>4, <2>1, <2>3
  <1>7. dreqFf' \ {dack'} \subseteq dreq'
    <2>1. dack \in dreq => dack' = dack
      <3>1. CASE Given
        <4>1. dmaState = "S4" => dack \notin dreq
          BY <1>1, <1>4, <3>1 DEF LineInv, Given, InTransfer
        <4>2. dmaState # "S4" => Ahead # "SI"
          BY <3>1, NextStates DEF Given, InTransfer
        <4> QED
          BY <1>4, <3>1, <4>1, <4>2, RunFacts, SequencerFacts
      <3>2. CASE dmaState = "S1"
        <4>1. dack \in dreq => dack # None
          BY DEF TypeInv, RequestType, Channels, None
        <4>2. dack # None => dack = ackInt
          BY <1>1, <3>2 DEF ServiceInv
        <4>3. Ahead # "SI"
          BY <3>2, NextStates
        <4> QED
          BY <4>1, <4>2, <4>3, RunFacts, SequencerFacts
      <3>3. CASE Idling \/ CascadeS4
        <4>1. dack \notin dreq
          BY <1>1, <3>3, Kf8237Assumption DEF QuietInv, TypeInv, RequestType, Channels, None
        <4> QED
          BY <4>1
      <3> QED
        BY <1>2, <3>1, <3>2, <3>3 DEF Given, InTransfer, Idling, CascadeS4, States
    <2> QED
      BY <1>3, <2>1
  <1> QED
    BY <1>5, <1>6, <1>7 DEF LineInv

\* The end of a transfer, once decided at the rising edge, stands.
LEMMA EndStands == ASSUME TypeInv, DmaInv, DmaRuns, dmaState = "S4", Edge # "neg", Ends
    PROVE dmaState' = "S4" /\ (CascadeS4' \/ Ends')
  <1> USE DEF DmaInv
  <1>1. Clock /\ QuietInv /\ ServiceInv /\ LineInv /\ ~Idling
    BY DEF DmaRuns, Idling
  <1>2. dmaState' = "S4" /\ ackInt' = ackInt /\ dreqFf' = dreq /\ eop' = eop
    BY <1>1, RunFacts, SequencerFacts, ServingKept, LineFacts, EndingFacts
  <1>3. /\ (Cascade' <=> Cascade) /\ (SingleOnly' <=> SingleOnly) /\ Serving' = Serving
        /\ request' \subseteq request
    BY <1>1, ServingKept
  <1>4. ~Cascade /\ ~StillRequested => ~StillRequested'
    <2>1. ~Cascade => ackInt \notin dreq
      BY <1>1 DEF LineInv
    <2> QED
      BY <1>2, <1>3, <2>1 DEF StillRequested, DmaRequestState
  <1> QED
    BY <1>2, <1>3, <1>4 DEF Ends, CascadeS4

\* A clock keeps the bus held until the transfer is over.
LEMMA HoldClock == ASSUME TypeInv, DmaInv, DmaRuns PROVE HoldInv'
  <1> USE DEF DmaInv
  <1>1. Clock /\ QuietInv /\ ServiceInv /\ HoldInv
    BY DEF DmaRuns
  <1>2. /\ dmaState \in States /\ Edge \in {"pos", "neg", "none"} /\ phase \in {"pos", "neg"}
        /\ Edge = "pos" => phase = "pos" /\ phase' = "neg"
        /\ Edge = "neg" => phase = "neg" /\ phase' = "pos" /\ dmaState' = Ahead
        /\ Edge # "neg" => dmaState' = dmaState /\ dack' = dack
        /\ Edge = "none" => phase' = phase
    BY <1>1, Edges, RunFacts, SequencerFacts DEF TypeInv, TypeOK
  <1>3. /\ holdRequest \in BOOLEAN /\ ff1 \in BOOLEAN /\ ff2 \in BOOLEAN
        /\ aen \in BOOLEAN /\ dmaWait \in BOOLEAN /\ ext \in BOOLEAN
    BY DEF TypeInv, ArbiterType, RequestType
  <1>4. CASE Edge = "none"
    <2>1. /\ dmaState' = dmaState /\ dack' = dack /\ strobes' = strobes
          /\ holdRequest' = holdRequest /\ ff2' = ff2 /\ aen' = aen /\ dmaWait' = dmaWait
          /\ phase' = phase
      BY <1>2, <1>4, RunFacts, SequencerFacts, ArbiterFacts
    <2>2. CascadeS4 => CascadeS4'
      BY <2>1, GivenBefore DEF CascadeS4, Idling
    <2>3. dmaState = "S4" /\ Ends => CascadeS4' \/ Ends'
      BY <1>4, EndStands
    <2>4. Given' => Given
      BY <1>4, GivenBefore
    <2> QED
      BY <1>1, <2>1, <2>2, <2>3, <2>4 DEF HoldInv, Idling
  <1>5. CASE Edge = "pos"
    <2>1. /\ dmaState' = dmaState /\ dack' = dack /\ phase = "pos" /\ phase' = "neg"
          /\ ff2' = ff2 /\ aen' = HoldAcknowledge /\ dmaWait' = aen
      BY <1>2, <1>5, RunFacts, SequencerFacts, ArbiterFacts
    <2>2. ~Idling /\ ~CascadeS4 => holdRequest /\ ff2 /\ aen'
      BY <1>1, <2>1 DEF HoldInv, HoldAcknowledge, HoldRequest
    <2>3. CascadeS4 => CascadeS4'
      BY <2>1, GivenBefore DEF CascadeS4, Idling
    <2>4. ~Idling /\ ~CascadeS4 =>
            holdRequest' \/ (dmaState' = "S4" /\ strobes' = {} /\ (CascadeS4' \/ Ends'))
      <3>1. ~Idling /\ ~CascadeS4 /\ Ahead \in {"S0", "SI"} => dmaState = "S4" /\ Ends
        BY <1>2, NextStates DEF Idling, CascadeS4, States
      <3>2. dmaState = "S4" => strobes' = {}
        BY <1>5, RunFacts, SequencerFacts
      <3>3. Ahead \notin {"S0", "SI"} => holdRequest' = holdRequest
        BY RunFacts, SequencerFacts
      <3> QED
        BY <1>5, <2>2, <3>1, <3>2, <3>3, EndStands
    <2>5. Given' => Given
      BY <1>5, GivenBefore
    <2>6. Given => ~Idling /\ ~CascadeS4
      BY <1>1 DEF Given, InTransfer, Idling, CascadeS4
    <2>7. dmaState = "S1" => ~Idling /\ ~CascadeS4
      BY DEF Idling, CascadeS4
    <2>8. strobes' # {} => dmaWait'
      <3>1. strobes' # {} => Given
        BY <1>1, <1>2, <1>5, RunFacts, SequencerFacts, OpenedFacts
           DEF QuietInv, Given, InTransfer
      <3> QED
        BY <1>1, <2>1, <3>1 DEF HoldInv
    <2> QED
      BY <2>1, <2>2, <2>3, <2>4, <2>5, <2>6, <2>7, <2>8 DEF HoldInv, Idling
  <1>6. CASE Edge = "neg"
    <2>1. /\ dmaState' = Ahead /\ phase = "neg" /\ phase' = "pos" /\ strobes' = strobes
          /\ holdRequest' = holdRequest /\ aen' = aen /\ dmaWait' = dmaWait
          /\ ff2' = (HoldRequest /\ (ff2 \/ ff1))
      BY <1>2, <1>6, RunFacts, SequencerFacts, ArbiterFacts
    <2>2. dmaState = "S4" /\ Ends /\ ~CascadeS4 => Idling'
      BY <2>1, NextStates DEF CascadeS4, Idling
    <2>3. Idling /\ ~Idling' => dmaState = "S0" /\ dmaState' = "S1" /\ HoldAcknowledge /\ ~ext
      BY <2>1, NextStates DEF Idling
    <2>4. ~Idling' => (holdRequest' /\ ff2') \/ CascadeS4'
      <3>1. CASE Idling
        BY <1>3, <2>1, <2>3, <3>1 DEF HoldAcknowledge, HoldRequest
      <3>2. CASE CascadeS4
        BY <3>2, GivenBefore
      <3>3. CASE ~Idling /\ ~CascadeS4
        BY <1>1, <2>1, <2>2, <3>3 DEF HoldInv, HoldRequest
      <3> QED
        BY <3>1, <3>2, <3>3
    <2>5. Given' \/ (dmaState' = "S1" /\ dack' # None) => aen'
      <3>1. dmaState = "S1" => aen
        BY <1>1, <2>1 DEF HoldInv, Idling, CascadeS4
      <3>2. Given => aen
        BY <1>1 DEF HoldInv
      <3>3. dmaState = "S0" /\ dmaState' = "S1" => dack' = None
        BY <1>1, <1>6, RunFacts, SequencerFacts, <2>1 DEF QuietInv, Idling
      <3> QED
        BY <1>6, <2>1, <3>1, <3>2, <3>3, GivenBefore
    <2> QED
      BY <1>1, <2>1, <2>4, <2>5 DEF HoldInv
  <1> QED
    BY <1>2, <1>4, <1>5, <1>6

-----------------------------------------------------------------------------
(* The registers stay in type, whatever the clock does.                    *)

\* A clock leaves the processor with a cycle of its own.
LEMMA ProcessorTypes == ASSUME TypeInv, QuietInv, Clock
    PROVE /\ ProcessorType' /\ resetting' \in BOOLEAN /\ phase' \in {"pos", "neg"}
          /\ gap' \in Nat
          /\ cpu' \in {"idle", "T1", "T2", "T3", "T4"} /\ rest' \in 0 .. MinIdle
  <1>1. /\ cpu \in {"idle", "T1", "T2", "T3", "T4"} /\ rest \in 0 .. MinIdle /\ gap \in Nat
        /\ cycle.kind \in Kinds /\ cycle.op \in Writes /\ prevWrite \in Writes
        /\ status \in Kinds \cup {"passive"} /\ locked \in BOOLEAN /\ resetting \in BOOLEAN
    BY DEF TypeInv, TypeOK, ProcessorType
  <1>2. Processor(Edge) /\ prevWrite' = DmaAccess /\ resetting' = resetting
        /\ gap' \in (IF gap > 0 THEN {gap - 1} ELSE Gaps)
    BY ClockParts
  <1>3. prevWrite' \in Writes
    BY <1>2, TakenFacts
  <1>4. gap' \in Nat
    BY <1>1, <1>2, BusAssumption
  <1>5. \A c \in CpuCycles \cup {cycle} : c.kind \in Kinds /\ c.op \in Writes
    BY <1>1, BusAssumption DEF Writes
  <1>6. MinIdle \in Nat \ {0}
    BY BusAssumption
  <1>7. CASE Idle(Edge)
    <2>1. ASSUME NEW c \in CpuCycles \cup {cycle}, StartCycle(c)
          PROVE /\ cycle'.kind \in Kinds /\ cycle'.op \in Writes
                /\ status' \in Kinds \cup {"passive"} /\ locked' \in BOOLEAN
                /\ cpu' = "T1" /\ rest' \in 0 .. MinIdle
      BY <1>1, <1>5, <2>1 DEF StartCycle
    <2>2. CASE \E c \in CpuCycles \cup {cycle} : StartCycle(c)
      <3>1. PICK c \in CpuCycles \cup {cycle} : StartCycle(c)
        BY <2>2
      <3>2. /\ cycle'.kind \in Kinds /\ cycle'.op \in Writes
            /\ status' \in Kinds \cup {"passive"} /\ locked' \in BOOLEAN
            /\ cpu' = "T1" /\ rest' \in 0 .. MinIdle
        BY <2>1, <3>1
      <3> QED
        BY <1>2, <1>3, <1>4, <3>2, Edges, <1>1 DEF ProcessorType
    <2>3. CASE rest' = (IF Edge = "pos" /\ rest > 0 THEN rest - 1 ELSE rest)
               /\ UNCHANGED <<cpu, cycle, turn, status, locked>>
      BY <1>1, <1>2, <1>3, <1>4, <1>6, <2>3, Edges DEF ProcessorType
    <2> QED
      BY <1>7, <2>2, <2>3 DEF Idle
  <1>8. CASE InCycle(Edge)
    <2>1. cycle' = cycle /\ status' = status /\ rest' = rest /\ cpu \in {"T1", "T2", "T3"}
      BY <1>8 DEF InCycle
    <2>2. cpu' \in {"T1", "T2", "T3", "T4"}
      BY <1>8, <2>1 DEF InCycle
    <2>3. locked' \in BOOLEAN
      BY <1>1, <1>8 DEF InCycle
    <2> QED
      BY <1>1, <1>2, <1>3, <1>4, <2>1, <2>2, <2>3, Edges DEF ProcessorType
  <1>9. CASE EndCycle(Edge)
    <2>1. /\ cycle' = cycle /\ locked' = locked /\ cpu' = "idle" /\ status' = "passive"
          /\ rest' \in {MinIdle - 1, MinIdle}
      BY <1>9 DEF EndCycle
    <2> QED
      BY <1>1, <1>2, <1>3, <1>4, <1>6, <2>1, Edges DEF ProcessorType
  <1> QED
    BY <1>2, <1>7, <1>8, <1>9 DEF Processor

\* A clock of the loader keeps its counters within their ranges.
LEMMA LoaderTypes == ASSUME TypeInv, Loader
    PROVE /\ download' \in {"none", "active", "over"} /\ load' \in 0 .. 4
          /\ lead' \in 0 .. FirstWord /\ ext' \in BOOLEAN
  <1>1. /\ download \in {"none", "active", "over"} /\ load \in 0 .. 4
        /\ lead \in 0 .. FirstWord /\ ext \in BOOLEAN
    BY DEF TypeInv, TypeOK, ArbiterType
  <1>2. download' \in {"none", "active", "over"}
    BY <1>1 DEF Loader, Download
  <1>3. lead' \in {FirstWord, lead} \/ (lead > 0 /\ lead' = lead - 1)
    BY DEF Loader, Download
  <1>4. load' \in 0 .. 4
    <2>1. CASE load = 1
      <3>1. load' \in {0, 1, 2}
        BY <1>1, <2>1 DEF Loader
      <3> QED
        BY <3>1
    <2>2. CASE load # 1
      BY <1>1, <2>2 DEF Loader
    <2> QED
      BY <2>1, <2>2
  <1>5. ext' \in BOOLEAN
    BY <1>1 DEF Loader
  <1>6. lead' \in 0 .. FirstWord
    BY <1>1, <1>3, BusAssumption
  <1> QED
    BY <1>2, <1>4, <1>5, <1>6

\* A clock leaves the flip-flops and the settle count what they are.
LEMMA ArbiterTypes == ASSUME TypeInv, Clock PROVE ArbiterType' /\ settle' \in 0 .. IoSettle
  <1>1. ext' \in BOOLEAN
    BY ClockParts, LoaderTypes
  <1>2. ArbiterType /\ settle \in 0 .. IoSettle /\ holdRequest \in BOOLEAN
    BY DEF TypeInv, TypeOK, RequestType
  <1>3. HoldRequest \in BOOLEAN /\ HoldAcknowledge \in BOOLEAN /\ Free \in BOOLEAN
    BY <1>2 DEF HoldRequest, HoldAcknowledge, Free, ArbiterType
  <1>4. /\ ff1' \in BOOLEAN /\ ff2' \in BOOLEAN /\ aen' \in BOOLEAN /\ dmaWait' \in BOOLEAN
    BY <1>2, <1>3, ClockParts, ArbiterFacts DEF ArbiterType
  <1>5. period' \in BOOLEAN /\ running' \in BOOLEAN
    BY <1>2, ClockParts DEF ArbiterType, Controller
  <1>6. settle' = IF IoActive /\ ~prevIo THEN IoSettle
                  ELSE IF settle > 0 THEN settle - 1 ELSE 0
    BY ClockParts DEF Ready
  <1>7. settle' \in 0 .. IoSettle
    BY <1>2, <1>6, BusAssumption
  <1> QED
    BY <1>1, <1>4, <1>5, <1>7 DEF ArbiterType

\* A clock leaves the sequencer in one of its states, with a channel when it is
\* not idle.
LEMMA SequencerTypes == ASSUME TypeInv, DmaInv, DmaRuns
    PROVE /\ dmaState' \in States /\ ackInt' \in Channels \cup {None}
          /\ dack' \in Channels \cup {None} /\ (dmaState' # "SI" => ackInt' # None)
          /\ holdRequest' \in BOOLEAN /\ eop' \in BOOLEAN /\ rotate' \in Channels
          /\ strobes' \subseteq {"ior", "iow", "memr", "memw"}
  <1>1. /\ dmaState \in States /\ ackInt \in Channels \cup {None}
        /\ dack \in Channels \cup {None} /\ (dmaState # "SI" => ackInt # None)
        /\ holdRequest \in BOOLEAN /\ eop \in BOOLEAN /\ rotate \in Channels
        /\ strobes \subseteq {"ior", "iow", "memr", "memw"}
    BY DEF TypeInv, TypeOK, RequestType
  <1>2. Selected \in Channels
    BY <1>1, Kf8237Assumption DEF Selected, Channels
  <1>3. Ahead \in States
    BY <1>1, NextStates DEF States
  <1>4. dmaState' \in States /\ ackInt' \in Channels \cup {None}
    BY <1>1, <1>3, RunFacts, SequencerFacts, ChosenAsks
  <1>5. dack' \in Channels \cup {None}
    BY <1>1, RunFacts, SequencerFacts
  <1>6. dmaState' # "SI" => ackInt' # None
    <2>1. dmaState = "SI" /\ dmaState' # "SI" => EncodedDma # None
      BY RunFacts, SequencerFacts, NextStates
    <2> QED
      BY <1>1, <2>1, RunFacts, SequencerFacts
  <1>7. holdRequest' \in BOOLEAN
    BY <1>1, RunFacts, SequencerFacts
  <1>8. eop' \in BOOLEAN
    BY <1>1, RunFacts DEF Ending
  <1>9. rotate' \in Channels
    BY <1>1, <1>2, RunFacts, SequencerFacts
  <1>10. strobes' \subseteq {"ior", "iow", "memr", "memw"}
    BY <1>1, RunFacts, SequencerFacts, OpenedFacts
  <1> QED
    BY <1>4, <1>5, <1>6, <1>7, <1>8, <1>9, <1>10

\* A clock leaves the request lines and registers sets of channels.
LEMMA RequestTypes == ASSUME TypeInv, QuietInv, DmaRuns
    PROVE /\ command' \in Commands /\ mode' \in [Channels -> Modes]
          /\ request' \subseteq Channels /\ mask' \subseteq Channels
          /\ dreq' \subseteq Channels /\ dreqFf' \subseteq Channels
  <1>1. /\ command \in Commands /\ mode \in [Channels -> Modes]
        /\ request \subseteq Channels /\ mask \subseteq Channels /\ dreq \subseteq Channels
    BY DEF TypeInv, TypeOK, RequestType
  <1>2. RegisterOp(Taken) /\ Requests(Edge, dreq, Taken) /\ RequestLines(Edge)
    BY TakenFacts, RunFacts
  <1>3. command' \in Commands
    BY <1>1, <1>2 DEF Requests, RegisterOp
  <1>4. mode' \in [Channels -> Modes]
    BY <1>1, <1>2 DEF Requests, RegisterOp
  <1>5. mask' \subseteq Channels
    <2>1. Taken.op = "clearMask" => mask' = Channels
      BY <1>2 DEF Requests
    <2>2. Taken.op = "maskAll" => mask' = Taken.val
      BY <1>2 DEF Requests
    <2>3. Taken.op = "mask" => mask' \in {mask \cup {Taken.ch}, mask \ {Taken.ch}}
      BY <1>2 DEF Requests
    <2>4. Taken.op \notin {"clearMask", "mask", "maskAll"} => mask' = mask
      BY <1>2 DEF Requests
    <2> QED
      BY <1>1, <1>2, <2>1, <2>2, <2>3, <2>4 DEF RegisterOp
  <1>6. request' \subseteq Channels
    <2>1. Taken.op = "clearMask" => request' = {}
      BY <1>2 DEF Requests
    <2>2. Taken.op = "request" => request' \subseteq request \cup {Taken.ch}
      BY <1>2 DEF Requests
    <2>3. Taken.op \notin {"clearMask", "request"} => request' \subseteq request
      BY <1>2 DEF Requests
    <2> QED
      BY <1>1, <1>2, <2>1, <2>2, <2>3 DEF RegisterOp
  <1>7. dreq' \subseteq Channels
    BY <1>1, <1>2, BusAssumption DEF RequestLines
  <1> QED
    BY <1>1, <1>2, <1>3, <1>4, <1>5, <1>6, <1>7, LineFacts

(* An address or a count stays a number, byte by byte and step by step.    *)
LEMMA PutIsNumber == ASSUME NEW word \in Int, NEW byte \in Int PROVE Put(word, byte) \in Int
  <1>1. Half \in Nat \ {0}
    BY Kf8237Assumption
  <1>2. (word % Half) \in Int /\ (word \div Half) \in Int
    BY <1>1
  <1>3. byte * Half \in Int /\ (word \div Half) * Half \in Int
    BY <1>1, <1>2
  <1> QED
    BY <1>2, <1>3 DEF Put, HighByte

\* The numbers the counters go to.
LEMMA NextNumbers == ASSUME TypeInv, ackInt # None
    PROVE NextAddress \in Int /\ NextCount \in Int /\ Selected = ackInt /\ ackInt \in Channels
  <1>1. Selected = ackInt /\ ackInt \in Channels
    BY DEF TypeInv, TypeOK, Selected
  <1>2. current[Selected].addr \in Int /\ current[Selected].count \in Int
    BY <1>1 DEF TypeInv, CounterType
  <1>3. Half * Half \in Nat \ {0}
    BY Kf8237Assumption
  <1> DEFINE W == Half * Half
  <1> HIDE DEF W
  <1>4. W \in Nat \ {0}
    BY <1>3 DEF W
  <1>5. \A x \in Int : (x - 1) % W \in Int /\ (x + 1) % W \in Int
    BY <1>4
  <1>6. NextCount \in Int
    BY <1>2, <1>5 DEF NextCount, W
  <1>7. NextAddress \in Int
    BY <1>2, <1>5 DEF NextAddress, W
  <1> QED
    BY <1>1, <1>6, <1>7

\* A register write leaves numbers in the counters.
LEMMA WrittenTypes ==
    ASSUME RegisterOp(Taken), NEW regs \in [Channels -> [addr : Int, count : Int]]
    PROVE Written(regs, Taken) \in [Channels -> [addr : Int, count : Int]]
  <1>1. CASE Taken.op = "addr"
    <2>1. Taken.ch \in Channels /\ Taken.val \in Int
      BY <1>1, Kf8237Assumption DEF RegisterOp
    <2>2. Put(regs[Taken.ch].addr, Taken.val) \in Int
      BY <2>1, PutIsNumber
    <2>3. Written(regs, Taken) = [regs EXCEPT ![Taken.ch].addr = Put(@, Taken.val)]
      BY <1>1 DEF Written
    <2> QED
      BY <2>1, <2>2, <2>3
  <1>2. CASE Taken.op = "count"
    <2>1. Taken.ch \in Channels /\ Taken.val \in Int
      BY <1>2, Kf8237Assumption DEF RegisterOp
    <2>2. Put(regs[Taken.ch].count, Taken.val) \in Int
      BY <2>1, PutIsNumber
    <2>3. Written(regs, Taken) = [regs EXCEPT ![Taken.ch].count = Put(@, Taken.val)]
      BY <1>2 DEF Written
    <2> QED
      BY <2>1, <2>2, <2>3
  <1>3. CASE Taken.op \notin {"addr", "count"}
    BY <1>3 DEF Written
  <1> QED
    BY <1>1, <1>2, <1>3

(* A channel's counters move only when the 8237 serves it, or are written. *)
LEMMA CounterMoves == ASSUME Counters(Edge, Ahead, Taken)
    PROVE \/ current' = current
          \/ Taken.op \in {"addr", "count"} /\ current' = Written(current, Taken)
          \/ /\ dmaState = "S4" /\ eop
             /\ current' = [current EXCEPT ![ackInt] = base[ackInt]]
          \/ /\ dmaState \notin {"SI", "S4"} /\ Edge = "neg" /\ NextWord(Ahead)
             /\ current' = [current EXCEPT ![ackInt] =
                              [addr |-> NextAddress, count |-> NextCount]]
  <1>1. CASE Taken.op \in {"addr", "count"}
    BY <1>1 DEF Counters
  <1>2. CASE Taken.op \notin {"addr", "count"} /\ dmaState = "S4" /\ Serving.auto /\ eop
    BY <1>2 DEF Counters
  <1>3. CASE Taken.op \notin {"addr", "count"} /\ dmaState \notin {"SI", "S4"}
             /\ Edge = "neg" /\ NextWord(Ahead)
    BY <1>3 DEF Counters
  <1>4. CASE Taken.op \notin {"addr", "count"} /\ ~(dmaState = "S4" /\ Serving.auto /\ eop)
             /\ ~(dmaState \notin {"SI", "S4"} /\ Edge = "neg" /\ NextWord(Ahead))
    BY <1>4 DEF Counters
  <1> QED
    BY <1>1, <1>2, <1>3, <1>4

\* A clock leaves the counters numbers.
LEMMA CounterTypes == ASSUME TypeInv, QuietInv, DmaRuns PROVE CounterType'
  <1>1. CounterType /\ RegisterOp(Taken) /\ Counters(Edge, Ahead, Taken)
    BY TakenFacts, RunFacts DEF TypeInv
  <1> DEFINE Pair == [addr : Int, count : Int]
  <1>2. base \in [Channels -> Pair] /\ current \in [Channels -> Pair]
    BY <1>1 DEF CounterType
  <1>3. base' = Written(base, Taken)
    BY <1>1 DEF Counters
  <1>4. base' \in [Channels -> Pair]
    BY <1>1, <1>2, <1>3, WrittenTypes
  <1>5. dmaState # "SI" => ackInt \in Channels /\ NextAddress \in Int /\ NextCount \in Int
    BY NextNumbers DEF TypeInv, TypeOK
  <1>6. current' \in [Channels -> Pair]
    <2>1. CASE current' = current
      BY <1>2, <2>1
    <2>2. CASE current' = Written(current, Taken)
      BY <1>1, <1>2, <2>2, WrittenTypes
    <2>3. CASE dmaState = "S4" /\ current' = [current EXCEPT ![ackInt] = base[ackInt]]
      BY <1>2, <1>5, <2>3
    <2>4. CASE dmaState # "SI" /\ current' = [current EXCEPT ![ackInt] =
                                               [addr |-> NextAddress, count |-> NextCount]]
      BY <1>2, <1>5, <2>4
    <2> QED
      BY <1>1, <2>1, <2>2, <2>3, <2>4, CounterMoves
  <1> QED
    BY <1>4, <1>6 DEF CounterType

-----------------------------------------------------------------------------
(* The invariant is inductive.                                             *)

\* The invariant of every bus, whatever its constants.
BusInv == TypeInv /\ DmaInv

(* Cleared or reset, the 8237 holds what it may hold and serves nobody.    *)
LEMMA ClearedDma == ASSUME TypeInv, DmaReset, dreq' \subseteq Channels
    PROVE /\ RequestType' /\ CounterType' /\ dmaState' = "SI" /\ ackInt' = None
          /\ dack' = None /\ command' \in Commands /\ mode' \in [Channels -> Modes]
          /\ (prevWrite' = NoOp => DmaInv') /\ (Idling /\ prevWrite' # NoOp => DmaInv')
  <1>1. NChannels \in Nat \ {0}
    BY Kf8237Assumption
  <1>2. ResetCommand \in Commands /\ ResetMode \in Modes
    BY DEF ResetCommand, ResetMode, Commands, Modes
  <1>3. RequestType'
    <2>1. /\ holdRequest' = FALSE /\ eop' = FALSE /\ rotate' = NChannels - 1
          /\ request' = {} /\ mask' = Channels /\ dreqFf' = {} /\ strobes' = {}
      BY DEF DmaReset
    <2>2. NChannels - 1 \in Channels
      BY <1>1 DEF Channels
    <2> QED
      BY <2>1, <2>2 DEF RequestType
  <1>4. CounterType'
    BY DEF DmaReset, CounterType
  <1>5. /\ dmaState' = "SI" /\ ackInt' = None /\ dack' = None /\ strobes' = {}
        /\ eop' = FALSE /\ dreqFf' = {}
    BY DEF DmaReset
  <1>6. QuietInv'
    BY <1>5 DEF QuietInv, Idling, CascadeS4
  <1>7. ServiceInv'
    BY <1>5 DEF ServiceInv, InTransfer, Given
  <1>8. LineInv'
    BY <1>5 DEF LineInv
  <1>9. HoldInv'
    BY <1>5 DEF HoldInv, Idling, Given, InTransfer
  <1>10. command' \in Commands /\ mode' \in [Channels -> Modes]
    BY <1>2 DEF DmaReset
  <1> QED
    BY <1>3, <1>4, <1>5, <1>6, <1>7, <1>8, <1>9, <1>10 DEF DmaInv

\* A chipset clock keeps the invariant.
LEMMA ClockKeeps == ASSUME BusInv, Clock PROVE BusInv'
  <1> USE DEF BusInv
  <1>1. TypeInv /\ DmaInv /\ QuietInv
    BY DEF DmaInv
  <1>2. ProcessorType' /\ ArbiterType' /\ settle' \in 0 .. IoSettle
        /\ resetting' \in BOOLEAN /\ phase' \in {"pos", "neg"} /\ gap' \in Nat
        /\ cpu' \in {"idle", "T1", "T2", "T3", "T4"} /\ rest' \in 0 .. MinIdle
    BY <1>1, ProcessorTypes, ArbiterTypes
  <1>3. /\ download' \in {"none", "active", "over"} /\ load' \in 0 .. 4
        /\ lead' \in 0 .. FirstWord
    BY <1>1, ClockParts, LoaderTypes
  <1>4. CASE Taken.op # "master"
    <2>1. DmaRuns
      BY <1>4 DEF DmaRuns
    <2>2. RequestType'
      BY <1>1, <2>1, SequencerTypes, RequestTypes DEF RequestType
    <2>3. TypeOK'
      BY <1>1, <1>2, <1>3, <2>1, SequencerTypes, RequestTypes DEF TypeOK
    <2>4. DmaInv'
      BY <1>1, <2>1, QuietClock, ServiceClock, LineClock, HoldClock DEF DmaInv
    <2> QED
      BY <1>1, <1>2, <2>1, <2>2, <2>3, <2>4, CounterTypes DEF TypeInv
  <1>5. CASE Taken.op = "master"
    <2>1. DmaReset
      BY <1>5, DmaParts
    <2>2. dreq' \subseteq Channels
      BY <1>1, ClockParts, BusAssumption DEF RequestLines, TypeInv, RequestType
    <2>3. RequestType' /\ CounterType' /\ dmaState' = "SI" /\ ackInt' = None
          /\ dack' = None /\ command' \in Commands /\ mode' \in [Channels -> Modes]
      BY <1>1, <2>1, <2>2, ClearedDma
    <2>4. prevWrite' # NoOp => Idling
      BY <1>1, ClockParts, TakenFacts
    <2>5. DmaInv'
      BY <1>1, <2>1, <2>2, <2>4, ClearedDma
    <2>6. dmaState' \in States
      BY <2>3 DEF States
    <2>7. TypeOK'
      BY <1>2, <1>3, <2>3, <2>6 DEF TypeOK
    <2> QED
      BY <1>2, <2>3, <2>5, <2>7 DEF TypeInv
  <1> QED
    BY <1>4, <1>5

\* A machine reset establishes the invariant but for the loader, which keeps
\* it.
LEMMA ResetKeeps == ASSUME BusInv, Reset PROVE BusInv'
  <1>1. TypeInv
    BY DEF BusInv
  <1>2. /\ resetting' = TRUE /\ phase' = "pos" /\ gap' = 0 /\ cpu' = "idle" /\ rest' = MinIdle
        /\ status' = "passive" /\ locked' = FALSE
        /\ ff1' = FALSE /\ ff2' = FALSE /\ aen' = TRUE /\ dmaWait' = FALSE
        /\ period' = TRUE /\ running' = FALSE /\ settle' = 0 /\ prevWrite' = NoOp
        /\ dreq' = {} /\ DmaReset /\ cycle' = cycle
        /\ download' = download /\ lead' = lead /\ ext' = ext /\ load' = load
    BY DEF Reset, loadVars
  <1>3. RequestType' /\ CounterType' /\ dmaState' = "SI" /\ ackInt' = None
        /\ dack' = None /\ command' \in Commands /\ mode' \in [Channels -> Modes] /\ DmaInv'
    BY <1>1, <1>2, ClearedDma
  <1>4. ProcessorType' /\ ArbiterType'
    BY <1>1, <1>2 DEF ProcessorType, ArbiterType, TypeInv, Writes
  <1>5. TypeOK'
    BY <1>1, <1>2, <1>3, BusAssumption DEF TypeInv, TypeOK, States
  <1> QED
    BY <1>3, <1>4, <1>5 DEF BusInv, TypeInv

\* While the machine is in reset only the loader moves.
LEMMA InResetKeeps == ASSUME BusInv, InReset PROVE BusInv'
  <1>1. TypeInv /\ DmaInv /\ Loader /\ resetting' \in BOOLEAN
    BY DEF BusInv, InReset
  <1>2. /\ download' \in {"none", "active", "over"} /\ load' \in 0 .. 4
        /\ lead' \in 0 .. FirstWord /\ ext' \in BOOLEAN
    BY <1>1, LoaderTypes
  <1>3. UNCHANGED <<phase, gap, cpuVars, arbVars, settle, prevWrite, dreq, dmaVars>>
    BY DEF InReset, readyVars
  <1>4. TypeInv'
    BY <1>1, <1>2, <1>3 DEF TypeInv, TypeOK, ProcessorType, ArbiterType, RequestType,
       CounterType, cpuVars, arbVars, dmaVars
  <1>5. DmaInv'
    BY <1>1, <1>3 DEF DmaInv, QuietInv, ServiceInv, LineInv, HoldInv, Idling, InTransfer,
       CascadeS4, Given, Ends, Cascade, SingleOnly, Serving, Selected, StillRequested,
       DmaRequestState, cpuVars, arbVars, dmaVars
  <1> QED
    BY <1>4, <1>5 DEF BusInv

\* A step that changes nothing keeps the invariant.
LEMMA StutterKeeps == ASSUME BusInv, UNCHANGED vars PROVE BusInv'
  <1>1. UNCHANGED <<resetting, phase, gap, cpuVars, arbVars, settle, prevWrite, dreq,
                    loadVars, dmaVars>>
    BY DEF vars, readyVars
  <1>2. TypeInv'
    BY <1>1 DEF BusInv, TypeInv, TypeOK, ProcessorType, ArbiterType, RequestType,
       CounterType, cpuVars, arbVars, loadVars, dmaVars
  <1>3. DmaInv'
    BY <1>1 DEF BusInv, DmaInv, QuietInv, ServiceInv, LineInv, HoldInv, Idling, InTransfer,
       CascadeS4, Given, Ends, Cascade, SingleOnly, Serving, Selected, StillRequested,
       DmaRequestState, cpuVars, arbVars, dmaVars
  <1> QED
    BY <1>2, <1>3 DEF BusInv

\* The machine starts with the invariant.
LEMMA InitHolds == ASSUME Init PROVE BusInv
  <1>1. NChannels \in Nat \ {0} /\ Half \in Nat \ {0}
    BY Kf8237Assumption
  <1>2. command \in Commands /\ mode \in [Channels -> Modes]
    BY BusAssumption DEF Init
  <1>3. CounterType
    BY BusAssumption, <1>1 DEF Init, CounterType, Word
  <1>4. ProcessorType /\ ArbiterType
    BY DEF Init, ProcessorType, ArbiterType, Kinds, Writes
  <1>5. RequestType
    <2>1. /\ holdRequest = FALSE /\ eop = FALSE /\ rotate = NChannels - 1 /\ dreq = {}
          /\ request = {} /\ mask = InitMask /\ dreqFf = {} /\ strobes = {}
      BY DEF Init
    <2>2. NChannels - 1 \in Channels /\ InitMask \subseteq Channels
      BY <1>1, BusAssumption DEF Channels
    <2> QED
      BY <2>1, <2>2 DEF RequestType
  <1>6. TypeOK
    <2>1. /\ resetting = FALSE /\ phase = "pos" /\ gap = 0 /\ cpu = "idle" /\ rest = 0
          /\ settle = 0 /\ download = "none" /\ load = 0 /\ lead = FirstWord
          /\ dmaState = "SI" /\ ackInt = None /\ dack = None
      BY DEF Init
    <2>2. MinIdle \in Nat /\ IoSettle \in Nat /\ FirstWord \in Nat
      BY BusAssumption
    <2>3. rest \in 0 .. MinIdle /\ settle \in 0 .. IoSettle /\ lead \in 0 .. FirstWord
      BY <2>1, <2>2
    <2>4. load \in 0 .. 4 /\ gap \in Nat /\ dmaState \in States
      BY <2>1 DEF States
    <2>5. resetting \in BOOLEAN
      BY <2>1
    <2> QED
      BY <1>2, <2>1, <2>3, <2>4, <2>5, Zenon DEF TypeOK
  <1>7. /\ dmaState = "SI" /\ ackInt = None /\ dack = None /\ strobes = {}
        /\ eop = FALSE /\ dreqFf = {} /\ prevWrite = NoOp
    BY DEF Init
  <1>8. DmaInv
    BY <1>7 DEF DmaInv, QuietInv, ServiceInv, LineInv, HoldInv, Idling, InTransfer,
       CascadeS4, Given
  <1> QED
    BY <1>3, <1>4, <1>5, <1>6, <1>8 DEF BusInv, TypeInv

\* The types, and the discipline of the 8237, hold in every state of every bus:
\* any number of channels, any pacing of the CPU clock, any program of the 8237
\* and any writes to it, resets and images included.
THEOREM Inductive == Spec => []BusInv
  <1>1. BusInv /\ [Next]_vars => BusInv'
    BY ClockKeeps, ResetKeeps, InResetKeeps, StutterKeeps DEF Next
  <1> QED
    BY <1>1, InitHolds, PTL DEF Spec

-----------------------------------------------------------------------------
(* What follows for the runs' properties.                                  *)

\* The registers of the bus hold what they may hold.
THEOREM TypesHold == Spec => []TypeOK
  BY Inductive, PTL DEF BusInv, TypeInv

\* What the 8237 drives, it drives alone and on its own address.
DmaDrivesAlone == strobes # {} => Owner = "dma" /\ ~CpuCommand

\* The invariant says so.
LEMMA DrivesAlone == BusInv => DmaDrivesAlone
  <1> SUFFICES ASSUME BusInv, strobes # {} PROVE Owner = "dma" /\ ~CpuCommand
    BY DEF DmaDrivesAlone
  <1>1. TypeInv /\ QuietInv /\ ServiceInv /\ HoldInv
    BY DEF BusInv, DmaInv
  <1>2. Given
    BY <1>1 DEF QuietInv, Given, InTransfer, CascadeS4
  <1>3. dmaWait /\ aen
    BY <1>1, <1>2 DEF HoldInv
  <1>4. dack = ackInt /\ ackInt # None
    BY <1>1, <1>2 DEF ServiceInv, Given, InTransfer, TypeInv, TypeOK
  <1> QED
    BY <1>3, <1>4 DEF Owner, CpuCommand

\* And says so of the next state.
LEMMA DrivesAloneNext == BusInv' => DmaDrivesAlone'
  BY DrivesAlone, PTL

\* Whenever the 8237 drives a command its address is on the bus and the
\* processor drives nothing, also with images being loaded.
THEOREM DmaAlwaysAlone == Spec => []DmaDrivesAlone
  BY Inductive, DrivesAlone, PTL

\* Without a write nothing but the 8237 moves its registers.
LEMMA WritesBeforeDack == BusInv /\ [Next]_vars => [Untouched]_vars
  <1> SUFFICES ASSUME BusInv, Next, ~resetting',
                      base' # base \/ mode' # mode \/ command' # command
               PROVE dack = None /\ strobes = {}
    BY DEF Untouched
  <1>1. TypeInv /\ QuietInv
    BY DEF BusInv, DmaInv
  <1>2. ~Reset
    BY DEF Reset
  <1>3. ~InReset
    BY DEF InReset, dmaVars
  <1>4. Clock
    BY <1>2, <1>3 DEF Next
  <1>5. Taken.op # "none"
    <2>1. CASE Taken.op # "master"
      <3>1. DmaRuns
        BY <1>4, <2>1 DEF DmaRuns
      <3>2. Requests(Edge, dreq, Taken) /\ base' = Written(base, Taken)
        BY <3>1, RunFacts DEF Counters
      <3>3. Taken.op = "none" => mode' = mode /\ command' = command
        BY <3>2 DEF Requests
      <3>4. Taken.op = "none" => base' = base
        BY <3>2 DEF Written
      <3> QED
        BY <3>3, <3>4
    <2> QED
      BY <2>1
  <1> QED
    BY <1>1, <1>5, TakenFacts DEF QuietInv

\* No register of the 8237 is written once it has given DACK, at any pacing of
\* the CPU clock, under any program and in any mode.
THEOREM Untouchable == Spec => RegistersStill
  <1>1. Spec => []BusInv /\ [][Next]_vars
    BY Inductive, PTL DEF Spec
  <1> QED
    BY <1>1, WritesBeforeDack, PTL DEF RegistersStill

-----------------------------------------------------------------------------
(* The address under a command.  Once the images are loaded, the bus is    *)
(* between the processor and the 8237.                                     *)

\* No image is being loaded: the state of the machine once it runs.
NoImages == Loading = FALSE

\* The loader waits, and asks for nothing.
LoadInv == download = "none" /\ load = 0 /\ ext = FALSE

\* The 8288 is in a cycle only when its period flip-flop is down: the latch is
\* closed.
PacingInv == running => ~period

\* The address on the bus in a transfer is that of the channel being served.
AddressInv == InTransfer => transferAddress = current[ackInt].addr

\* No step starts an image.
LEMMA LoadKept == ASSUME NoImages, LoadInv, [Next]_vars PROVE LoadInv'
  <1>1. ASSUME Loader PROVE LoadInv'
    <2>1. download' = "none"
      <3>1. Download /\ ~Loading /\ download = "none"
        BY <1>1 DEF Loader, LoadInv, NoImages
      <3> QED
        BY <3>1 DEF Download
    <2>2. load' = 0 /\ ext' = FALSE
      <3>1. load = 0 /\ download = "none"
        BY DEF LoadInv
      <3>2. /\ ext' = (download = "active")
            /\ load' = IF download = "active" /\ ~pr2 /\ Owner = "ext" THEN 1 ELSE 0
        BY <1>1, <3>1 DEF Loader
      <3>3. (download = "active") = FALSE
        BY <3>1
      <3> QED
        BY <3>2, <3>3, Zenon
    <2> QED
      BY <2>1, <2>2 DEF LoadInv
  <1>2. CASE Clock
    BY <1>1, <1>2, ClockParts
  <1>3. CASE Reset
    BY <1>3 DEF Reset, LoadInv, loadVars
  <1>4. CASE InReset
    BY <1>1, <1>4 DEF InReset
  <1>5. CASE UNCHANGED vars
    BY <1>5 DEF vars, loadVars, LoadInv
  <1> QED
    BY <1>2, <1>3, <1>4, <1>5 DEF Next

\* Every step keeps the latch closed in a cycle.
LEMMA PacingKept == ASSUME TypeInv, PacingInv, [Next]_vars PROVE PacingInv'
  <1>1. CASE Clock
    BY <1>1, ClockParts, Edges DEF Controller, PacingInv
  <1>2. CASE Reset
    BY <1>2 DEF Reset, PacingInv
  <1>3. CASE InReset
    BY <1>3 DEF InReset, arbVars, PacingInv
  <1>4. CASE UNCHANGED vars
    BY <1>4 DEF vars, arbVars, PacingInv
  <1> QED
    BY <1>1, <1>2, <1>3, <1>4 DEF Next

\* Every step keeps the transfer's address that of its channel.
LEMMA AddressKept == ASSUME BusInv, AddressInv, [Next]_vars PROVE AddressInv'
  <1>1. TypeInv /\ DmaInv /\ QuietInv /\ ServiceInv
    BY DEF BusInv, DmaInv
  <1>2. CASE Clock
    <2>1. CASE Taken.op = "master"
      <3>1. dmaState' = "SI"
        BY <1>2, <2>1, DmaParts DEF DmaReset
      <3> QED
        BY <3>1 DEF AddressInv, InTransfer
    <2>2. CASE Taken.op # "master"
      <3> SUFFICES ASSUME InTransfer' PROVE transferAddress' = current'[ackInt'].addr
        BY DEF AddressInv
      <3>1. DmaRuns /\ Counters(Edge, Ahead, Taken)
        BY <1>2, <2>2, RunFacts DEF DmaRuns
      <3>2. ackInt' = ackInt /\ ackInt # None /\ ~Idling
        <4>1. ~Idling
          BY <3>1, RunFacts, SequencerFacts, NextStates DEF InTransfer, Idling
        <4> QED
          BY <1>1, <3>1, <4>1, ServingKept DEF TypeInv, TypeOK, Idling
      <3>3. dmaState = "S1" => Edge = "neg"
        BY <3>1, RunFacts, SequencerFacts DEF InTransfer
      <3>4. Taken.op = "none"
        BY <1>1, <1>2, <3>2, <3>3, Edges, TakenFacts DEF NoOp
      <3>5. current' = current
        <4>1. ~(dmaState = "S4" /\ eop)
          BY <1>1, <3>1, RunFacts, SequencerFacts, NextStates DEF InTransfer, Ends
        <4>2. Edge = "neg" => ~NextWord(Ahead)
          BY <3>1, RunFacts, SequencerFacts DEF InTransfer, NextWord
        <4> QED
          BY <3>1, <3>4, <4>1, <4>2, CounterMoves
      <3>6. transferAddress' = IF Edge # "neg" THEN transferAddress
                               ELSE current[IF dmaState = "SI" THEN 0 ELSE Selected].addr
        BY <3>1 DEF Counters
      <3>7. Selected = ackInt /\ dmaState # "SI"
        BY <3>2 DEF Selected, Idling
      <3>8. Edge # "neg" => InTransfer
        BY <3>1, GivenBefore, <1>1
      <3> QED
        BY <3>2, <3>5, <3>6, <3>7, <3>8 DEF AddressInv
    <2> QED
      BY <2>1, <2>2
  <1>3. CASE Reset
    BY <1>3 DEF Reset, DmaReset, AddressInv, InTransfer
  <1>4. CASE InReset
    BY <1>4 DEF InReset, dmaVars, AddressInv, InTransfer
  <1>5. CASE UNCHANGED vars
    BY <1>5 DEF vars, dmaVars, AddressInv, InTransfer
  <1> QED
    BY <1>2, <1>3, <1>4, <1>5 DEF Next

\* What keeps the address under a command.
HeldInv == BusInv /\ LoadInv /\ PacingInv /\ AddressInv

\* It holds of every behaviour without images.
LEMMA HeldInductive == ASSUME NoImages PROVE Spec => []HeldInv
  <1>1. Init => HeldInv
    BY InitHolds DEF Init, HeldInv, LoadInv, PacingInv, AddressInv, InTransfer
  <1>2. HeldInv /\ [Next]_vars => HeldInv'
    BY ClockKeeps, ResetKeeps, InResetKeeps, StutterKeeps, LoadKept, PacingKept,
       AddressKept DEF HeldInv, BusInv, Next
  <1> QED
    BY <1>1, <1>2, PTL DEF Spec

\* With no image being loaded, two masters never drive a command at once.
THEOREM OneMasterAtATime == ASSUME NoImages PROVE Spec => []OneMaster
  <1>1. HeldInv => OneMaster
    <2>1. HeldInv => ~LoaderWrite /\ DmaDrivesAlone
      BY DrivesAlone DEF HeldInv, LoadInv, LoaderWrite
    <2>2. HeldInv /\ CpuCommand => strobes = {}
      BY <2>1 DEF DmaDrivesAlone
    <2> QED
      BY <2>1, <2>2 DEF OneMaster, DmaDrivesAlone
  <1> QED
    BY <1>1, HeldInductive, PTL

\* A command that stays active keeps its address if the latch, DACK and the
\* 8237's address register keep theirs.
LEMMA AddressOf ==
    ASSUME HeldInv, HeldInv', CpuCommand /\ CpuCommand' => cpuAddress' = cpuAddress,
           strobes # {} /\ strobes' # {} => dack' = dack /\ transferAddress' = transferAddress
    PROVE Holding
  <1> SUFFICES ASSUME NEW c \in Commanded \cap Commanded' PROVE Address' = Address
    BY DEF Holding
  <1>1. ~LoaderWrite /\ ~LoaderWrite'
    BY DEF HeldInv, LoadInv, LoaderWrite
  <1>2. \/ c \in strobes /\ c \in strobes'
        \/ c = "cpu" /\ CpuCommand /\ CpuCommand'
    <2>1. "cpu" \notin strobes /\ "cpu" \notin strobes'
      BY DEF HeldInv, BusInv, TypeInv, RequestType
    <2> QED
      BY <1>1, <2>1 DEF Commanded
  <1>3. CASE c \in strobes /\ c \in strobes'
    <2>1. Owner = "dma" /\ Owner' = "dma"
      BY <1>3, DrivesAlone, DrivesAloneNext DEF HeldInv, DmaDrivesAlone
    <2>2. Address = <<dack, transferAddress>>
      BY <2>1, Zenon DEF Address
    <2>3. Address' = <<dack', transferAddress'>>
      BY <2>1, Zenon DEF Address
    <2> QED
      BY <1>3, <2>2, <2>3
  <1>4. CASE CpuCommand /\ CpuCommand'
    <2>1. Owner = "cpu" /\ Owner' = "cpu"
      BY <1>4 DEF CpuCommand, Owner
    <2>2. Address = <<cpuAddress>>
      BY <2>1, Zenon DEF Address
    <2>3. Address' = <<cpuAddress'>>
      BY <2>1, Zenon DEF Address
    <2> QED
      BY <1>4, <2>2, <2>3
  <1> QED
    BY <1>2, <1>3, <1>4

\* A step between two such states keeps the address under every command it
\* keeps.
LEMMA HoldsAddress == HeldInv /\ HeldInv' /\ [Next]_vars => [Holding]_vars
  <1> SUFFICES ASSUME HeldInv, HeldInv', Next PROVE Holding
    OBVIOUS
  <1>1. TypeInv /\ DmaInv /\ QuietInv /\ ServiceInv /\ AddressInv /\ PacingInv
    BY DEF HeldInv, BusInv, DmaInv
  <1>2. CASE Clock
    <2>1. CpuCommand => cpuAddress' = cpuAddress
      BY <1>1, <1>2, ClockParts DEF CpuCommand, Processor, AddressLatchEnable, PacingInv
    <2>2. ASSUME strobes # {}, strobes' # {}
          PROVE dack' = dack /\ transferAddress' = transferAddress
      <3>2. DmaRuns
        <4>1. Taken.op = "master" => DmaReset
          BY <1>2, DmaParts
        <4> QED
          BY <1>2, <2>2, <4>1 DEF DmaRuns, DmaReset
      <3>3. Counters(Edge, Ahead, Taken)
        BY <3>2, RunFacts
      <3>4. CASE Edge = "neg"
        <4>1. InTransfer /\ ackInt # None /\ dack = ackInt
          BY <1>1, <1>2, <2>2, <3>4, Edges
             DEF QuietInv, ServiceInv, Given, InTransfer, TypeInv, TypeOK
        <4>2. Ahead # "SI"
          BY <4>1, NextStates DEF InTransfer
        <4>3. dack' = dack
          BY <3>2, <4>1, <4>2, RunFacts, SequencerFacts
        <4>4. transferAddress' = current[Selected].addr /\ Selected = ackInt
          BY <3>3, <3>4, <4>1 DEF Counters, Selected, InTransfer
        <4> QED
          BY <1>1, <4>1, <4>3, <4>4 DEF AddressInv
      <3>5. CASE Edge # "neg"
        BY <3>2, <3>3, <3>5, RunFacts, SequencerFacts DEF Counters
      <3> QED
        BY <3>4, <3>5
    <2> QED
      BY <2>1, <2>2, AddressOf
  <1>3. CASE Reset
    <2>1. strobes' = {} /\ ~CpuCommand'
      BY <1>3 DEF Reset, DmaReset, CpuCommand
    <2> QED
      BY <2>1, AddressOf
  <1>4. CASE InReset
    <2>1. cpuAddress' = cpuAddress /\ dack' = dack /\ transferAddress' = transferAddress
      BY <1>4 DEF InReset, cpuVars, dmaVars
    <2> QED
      BY <2>1, AddressOf
  <1> QED
    BY <1>2, <1>3, <1>4 DEF Next

\* With no image being loaded, no address changes under an active command.
THEOREM AddressStays == ASSUME NoImages PROVE Spec => AddressHeld
  <1>1. Spec => []HeldInv /\ [][Next]_vars
    BY HeldInductive, PTL DEF Spec
  <1> QED
    BY <1>1, HoldsAddress, PTL DEF AddressHeld

-----------------------------------------------------------------------------
(* A transfer was asked for.  The requests a program raises stand, and     *)
(* neither it nor anyone else takes a line back before DACK.               *)

\* No program clears the mask or takes a request bit back.
RequestsStand ==
  \A w \in Writes : w.op # "clearMask" /\ (w.op = "request" => w.val)

\* The channel chosen still asks when DACK is given; in S1 after a transfer it
\* may be a block that goes on, or a demand by the request register.
ChosenInv ==
  /\ dmaState = "S0" => ackInt \in dreq \cup request
  /\ dmaState = "S1" => \/ dack = None /\ ackInt \in dreq \cup request
                        \/ ackInt \in request
                        \/ Serving.transfer = "block" /\ prevWrite = NoOp

\* A transfer goes on without its line only in block mode or by request.
LEMMA GoesOn == ASSUME TypeInv, DmaInv, dmaState = "S4", ~Cascade, ~Ends
    PROVE ackInt \in request \/ Serving.transfer = "block"
  <1>1. ackInt \notin dreqFf
    BY DEF DmaInv, LineInv
  <1>2. Selected \in Channels
    BY Kf8237Assumption DEF TypeInv, TypeOK, Selected, Channels
  <1>3. Serving \in Modes
    BY <1>2 DEF TypeInv, TypeOK, Serving
  <1>4. Serving.transfer \in {"demand", "block"}
    BY <1>3 DEF Modes, Cascade, Ends, SingleOnly
  <1> QED
    BY <1>1, <1>4 DEF Ends, StillRequested, DmaRequestState

\* Every step keeps the choice a request.
LEMMA ChosenKept == ASSUME RequestsStand, BusInv, ChosenInv, [Next]_vars PROVE ChosenInv'
  <1>1. TypeInv /\ DmaInv /\ QuietInv /\ ServiceInv /\ LineInv
    BY DEF BusInv, DmaInv
  <1>2. CASE Clock
    <2>1. CASE Taken.op = "master"
      <3>1. dmaState' = "SI"
        BY <1>2, <2>1, DmaParts DEF DmaReset
      <3> QED
        BY <3>1 DEF ChosenInv
    <2>2. CASE Taken.op # "master"
      <3>1. DmaRuns /\ Requests(Edge, dreq, Taken)
        BY <1>2, <2>2, RunFacts DEF DmaRuns
      <3>2. dmaState # "S4" => request \subseteq request'
        <4>1. Taken \in Writes
          BY <1>1, TakenFacts
        <4>2. Taken.op # "clearMask" /\ (Taken.op = "request" => Taken.val)
          BY <4>1 DEF RequestsStand
        <4> QED
          BY <1>1, <3>1, <4>2 DEF Requests, QuietInv
      <3>3. dack = None => dreq \subseteq dreq'
        BY <1>1, <3>1, RunFacts, LineFacts DEF TypeInv, RequestType, Channels, None
      <3>4. /\ dmaState \in States
            /\ dmaState' = IF Edge = "neg" THEN Ahead ELSE dmaState
            /\ ~(Edge = "neg" /\ Ahead \in {"S2", "SI"}) => dack' = dack
        BY <1>1, <3>1, RunFacts, SequencerFacts DEF TypeInv, TypeOK
      <3>5. CASE dmaState = "SI"
        <4>1. dack = None /\ dmaState' # "S1"
          BY <1>1, <3>4, <3>5, NextStates DEF QuietInv, Idling
        <4>2. ASSUME dmaState' = "S0" PROVE ackInt' \in dreq \cup request
          <5>1. ackInt' = EncodedDma /\ EncodedDma # None
            BY <3>1, <3>4, <3>5, <4>2, RunFacts, SequencerFacts, NextStates
          <5>2. ackInt' \in dreqFf \cup request
            BY <1>1, <5>1, ChosenAsks DEF DmaRequestState
          <5> QED
            BY <1>1, <4>1, <5>1, <5>2 DEF LineInv
        <4> QED
          BY <3>2, <3>3, <3>5, <4>1, <4>2 DEF ChosenInv
      <3>6. CASE dmaState = "S0"
        <4>1. dack = None /\ ackInt' = ackInt /\ ackInt \in dreq \cup request /\ dack' = None
          BY <1>1, <3>1, <3>4, <3>6, RunFacts, SequencerFacts, NextStates
             DEF QuietInv, Idling, ChosenInv
        <4> QED
          BY <3>2, <3>3, <3>6, <4>1 DEF ChosenInv
      <3>7. CASE dmaState = "S1"
        <4>1. ~Idling /\ ackInt' = ackInt /\ Selected' = Selected
          BY <1>1, <3>1, <3>7, ServingKept DEF Idling
        <4>0. dmaState' # "S0"
          BY <3>4, <3>7, NextStates
        <4> SUFFICES ASSUME dmaState' = "S1"
                     PROVE \/ dack' = None /\ ackInt' \in dreq' \cup request'
                           \/ ackInt' \in request'
                           \/ Serving'.transfer = "block" /\ prevWrite' = NoOp
          BY <4>0 DEF ChosenInv
        <4>2. dack' = dack
          BY <3>4
        <4>3. CASE dack = None /\ ackInt \in dreq \cup request
          BY <3>2, <3>3, <3>7, <4>1, <4>2, <4>3
        <4>4. CASE ackInt \in request
          BY <3>2, <3>7, <4>1, <4>4
        <4>5. CASE Serving.transfer = "block" /\ prevWrite = NoOp
          <5>1. Taken = NoOp /\ prevWrite' = NoOp
            BY <1>1, <3>1, <4>1, <4>5, TakenFacts, RunFacts DEF Taken
          <5>2. mode' = mode
            BY <3>1, <5>1, NoWrite
          <5> QED
            BY <4>1, <4>5, <5>1, <5>2 DEF Serving
        <4> QED
          BY <3>7, <4>3, <4>4, <4>5 DEF ChosenInv
      <3>8. CASE dmaState = "S4"
        <4>1. dmaState' # "S0"
          BY <3>4, <3>8, NextStates
        <4> SUFFICES ASSUME dmaState' = "S1"
                     PROVE \/ ackInt' \in request'
                           \/ Serving'.transfer = "block" /\ prevWrite' = NoOp
          BY <4>1 DEF ChosenInv
        <4>2. ~Cascade /\ ~Ends /\ ~Idling
          BY <3>4, <3>8, NextStates DEF Idling
        <4>3. ~eop /\ ackInt' = ackInt /\ Serving' = Serving /\ request' = request
          BY <1>1, <3>1, <3>8, <4>2, ServingKept DEF Ends
        <4>4. prevWrite' = NoOp
          BY <1>1, <3>1, <4>2, TakenFacts, RunFacts
        <4> QED
          BY <1>1, <3>8, <4>2, <4>3, <4>4, GoesOn
      <3>9. CASE InTransfer
        BY <3>4, <3>9, NextStates DEF InTransfer, ChosenInv
      <3> QED
        BY <3>4, <3>5, <3>6, <3>7, <3>8, <3>9 DEF States, InTransfer
    <2> QED
      BY <2>1, <2>2
  <1>3. CASE Reset
    BY <1>3 DEF Reset, DmaReset, ChosenInv
  <1>4. CASE InReset
    BY <1>4 DEF InReset, dmaVars, ChosenInv, Serving, Selected
  <1>5. CASE UNCHANGED vars
    BY <1>5 DEF vars, dmaVars, ChosenInv, Serving, Selected
  <1> QED
    BY <1>2, <1>3, <1>4, <1>5 DEF Next

\* A step into S2 serves a channel that asks.
LEMMA GrantsRequested == BusInv /\ ChosenInv /\ [Next]_vars => [Requested]_vars
  <1> SUFFICES ASSUME BusInv, ChosenInv, Next, dmaState # "S2", dmaState' = "S2",
                      Serving.transfer # "block"
               PROVE ackInt \in dreq \cup request
    BY DEF Requested
  <1>1. TypeInv /\ DmaInv
    BY DEF BusInv
  <1>2. Clock
    BY DEF Next, Reset, InReset, DmaReset, dmaVars
  <1>3. DmaRuns
    BY <1>2, DmaParts DEF DmaReset, DmaRuns
  <1>4. dmaState' = Ahead /\ dmaState \in States
    BY <1>1, <1>3, RunFacts, SequencerFacts DEF TypeInv, TypeOK
  <1>5. dmaState = "S1" \/ (dmaState = "S4" /\ ~Cascade /\ ~Ends)
    BY <1>4, NextStates DEF States
  <1> QED
    BY <1>1, <1>5, GoesOn DEF ChosenInv

\* A channel is given a transfer only while its line or its request bit is up,
\* under every program that does not take a request back.
THEOREM RequestedAlways == ASSUME RequestsStand PROVE Spec => TransferWasRequested
  <1>1. Init => BusInv /\ ChosenInv
    BY InitHolds DEF Init, ChosenInv
  <1>2. BusInv /\ ChosenInv /\ [Next]_vars => (BusInv /\ ChosenInv)'
    BY ClockKeeps, ResetKeeps, InResetKeeps, StutterKeeps, ChosenKept DEF Next
  <1>3. Spec => [](BusInv /\ ChosenInv) /\ [][Next]_vars
    BY <1>1, <1>2, PTL DEF Spec
  <1> QED
    BY <1>3, GrantsRequested, PTL DEF TransferWasRequested

-----------------------------------------------------------------------------
(* Address and count of a channel move together, as long as the program    *)
(* lets the 8237 work.                                                     *)

\* The program has set the channels up and leaves address, count, mode and
\* command alone; master clears, masks and requests are as they will.
Unprogrammed ==
  \A w \in Writes : w.op \notin {"addr", "count", "mode", "command"}

\* One step down from the base count.
LEMMA CountFalls == ASSUME NEW n \in Nat \ {0}, NEW k \in Int, NEW m \in Int
    PROVE (m - ((k - 1) % n)) % n = (((m - k) % n) + 1) % n
  <1>1. (k - 1) \in Int /\ (m - k) \in Int /\ 1 \in Int
    OBVIOUS
  <1>2. (m - ((k - 1) % n)) % n = (m - (k - 1)) % n
    BY <1>1, ModPlus, Zenon
  <1>3. (((m - k) % n) + 1) % n = ((m - k) + 1) % n
    BY <1>1, ModPlus, Zenon
  <1>4. (m - (k - 1)) = (m - k) + 1
    OBVIOUS
  <1> QED
    BY <1>2, <1>3, <1>4

\* One step up from the base address.
LEMMA AddressRises == ASSUME NEW n \in Nat \ {0}, NEW a \in Int, NEW b \in Int
    PROVE (((a + 1) % n) - b) % n = (((a - b) % n) + 1) % n
  <1>1. (a + 1) \in Int /\ (-b) \in Int /\ (a - b) \in Int /\ 1 \in Int
    OBVIOUS
  <1>2. (((a + 1) % n) + (-b)) % n = ((a + 1) + (-b)) % n
    BY <1>1, ModPlus, Zenon
  <1>3. (((a - b) % n) + 1) % n = ((a - b) + 1) % n
    BY <1>1, ModPlus, Zenon
  <1>4. ((a + 1) + (-b)) = (a - b) + 1
    OBVIOUS
  <1>5. (a + 1) % n \in Int
    BY <1>1
  <1>6. ((a + 1) % n) + (-b) = ((a + 1) % n) - b
    BY <1>5
  <1> QED
    BY <1>2, <1>3, <1>4, <1>6

\* How far a channel's address is from its base, in the direction it goes.
Together(m, b, q) ==
  (IF m.down THEN b.addr - q.addr ELSE q.addr - b.addr) % (Half * Half)
    = (b.count - q.count) % (Half * Half)

\* Address and count in step, channel by channel.
LEMMA InStepIs ==
    InStep <=> \A c \in Channels \ (IF command.hold THEN {0} ELSE {}) :
                 Together(mode[c], base[c], current[c])
  BY DEF InStep, Together

\* A clock moves address and count together, or reloads both.
LEMMA InStepKept == ASSUME Unprogrammed, BusInv, InStep, DmaRuns PROVE InStep'
  <1>1. TypeInv /\ DmaInv /\ QuietInv
    BY DEF BusInv, DmaInv
  <1>2. Taken.op \notin {"addr", "count", "mode", "command"}
    BY <1>1, TakenFacts DEF Unprogrammed
  <1>3. Requests(Edge, dreq, Taken) /\ Counters(Edge, Ahead, Taken)
    BY RunFacts
  <1>4. mode' = mode /\ command' = command
    BY <1>2, <1>3 DEF Requests
  <1>5. base' = base
    BY <1>2, <1>3 DEF Counters, Written
  <1>6. CounterType
    BY <1>1 DEF TypeInv
  <1> SUFFICES ASSUME NEW c \in Channels, ~(command.hold /\ c = 0)
               PROVE Together(mode[c], base[c], current'[c])
    BY <1>4, <1>5, Zenon DEF InStep, Together
  <1>7. Together(mode[c], base[c], current[c])
    BY InStepIs
  <1>8. CASE current'[c] = current[c]
    BY <1>7, <1>8
  <1>9. CASE current'[c] = base[c]
    <2>1. base[c].addr - base[c].addr = 0 /\ base[c].count - base[c].count = 0
      BY <1>6 DEF CounterType
    <2> QED
      BY <1>9, <2>1 DEF Together
  <1>10. CASE /\ dmaState # "SI" /\ c = ackInt
              /\ current'[c] = [addr |-> NextAddress, count |-> NextCount]
    <2> DEFINE n == Half * Half
               a == current[c].addr
               k == current[c].count
               b == base[c].addr
               m == base[c].count
    <2>1. n \in Nat \ {0}
      BY Kf8237Assumption
    <2>2. a \in Int /\ k \in Int /\ b \in Int /\ m \in Int
      BY <1>6 DEF CounterType
    <2>3. Selected = c
      BY <1>1, <1>10, NextNumbers DEF TypeInv, TypeOK
    <2>4. /\ NextAddress = IF mode[c].down THEN (a - 1) % n ELSE (a + 1) % n
          /\ NextCount = (k - 1) % n
      BY <1>10, <2>3 DEF NextAddress, NextCount, Serving
    <2>5. Together(mode[c], base[c], current[c]) <=>
            (IF mode[c].down THEN b - a ELSE a - b) % n = (m - k) % n
      BY Zenon DEF Together
    <2>6. Together(mode[c], base[c], current'[c]) <=>
            (IF mode[c].down THEN b - NextAddress ELSE NextAddress - b) % n
              = (m - NextCount) % n
      <3>1. current'[c].addr = NextAddress /\ current'[c].count = NextCount
        BY <1>10
      <3> QED
        BY <3>1, Zenon DEF Together
    <2> HIDE DEF n, a, k, b, m
    <2>7. (m - ((k - 1) % n)) % n = (((m - k) % n) + 1) % n
      BY <2>1, <2>2, CountFalls
    <2>8. (((a + 1) % n) - b) % n = (((a - b) % n) + 1) % n
      BY <2>1, <2>2, AddressRises
    <2>9. (b - ((a - 1) % n)) % n = (((b - a) % n) + 1) % n
      BY <2>1, <2>2, CountFalls
    <2> QED
      BY <1>7, <2>4, <2>5, <2>6, <2>7, <2>8, <2>9, Zenon
  <1>11. dmaState # "SI" => ackInt \in Channels
    BY <1>1 DEF TypeInv, TypeOK
  <1>12. \/ current'[c] = current[c]
         \/ current'[c] = base[c]
         \/ /\ dmaState # "SI" /\ c = ackInt
            /\ current'[c] = [addr |-> NextAddress, count |-> NextCount]
    <2>1. current \in [Channels -> [addr : Int, count : Int]]
      BY <1>6 DEF CounterType
    <2>2. CASE current' = current
      BY <2>2
    <2>3. CASE dmaState = "S4" /\ current' = [current EXCEPT ![ackInt] = base[ackInt]]
      BY <1>11, <2>1, <2>3
    <2>4. CASE dmaState # "SI" /\ current' = [current EXCEPT ![ackInt] =
                                               [addr |-> NextAddress, count |-> NextCount]]
      BY <1>11, <2>1, <2>4
    <2> QED
      BY <1>2, <1>3, <2>2, <2>3, <2>4, CounterMoves
  <1> QED
    BY <1>8, <1>9, <1>10, <1>12

\* A master clear or a reset leaves every counter at its base.
LEMMA InStepCleared == ASSUME DmaReset PROVE InStep'
  <1> SUFFICES ASSUME NEW c \in Channels PROVE Together(mode'[c], base'[c], current'[c])
    BY Zenon DEF InStep, Together
  <1>1. current'[c] = [addr |-> 0, count |-> 0] /\ base'[c] = [addr |-> 0, count |-> 0]
    BY DEF DmaReset
  <1> QED
    BY <1>1 DEF Together

\* Every step keeps address and count in step.
LEMMA InStepNext == ASSUME Unprogrammed, BusInv, InStep, [Next]_vars PROVE InStep'
  <1>1. CASE Clock
    <2>1. Taken.op = "master" => DmaReset
      BY <1>1, DmaParts
    <2> QED
      BY <1>1, <2>1, InStepCleared, InStepKept DEF DmaRuns
  <1>2. CASE Reset
    BY <1>2, InStepCleared DEF Reset
  <1>3. CASE InReset
    BY <1>3 DEF InReset, dmaVars, InStep
  <1>4. CASE UNCHANGED vars
    BY <1>4 DEF vars, dmaVars, InStep
  <1> QED
    BY <1>1, <1>2, <1>3, <1>4 DEF Next

\* A channel's address has moved as far as its count has fallen, through every
\* wrap and autoinitialise, in either direction.
THEOREM MovesTogether == ASSUME Unprogrammed PROVE Spec => []InStep
  <1>1. Init => BusInv /\ InStep
    <2>1. ASSUME Init, NEW c \in Channels PROVE Together(mode[c], base[c], current[c])
      <3>1. current[c] = base[c] /\ base[c].addr \in Int /\ base[c].count \in Int
        BY <2>1, InitHolds DEF Init, BusInv, TypeInv, CounterType
      <3>2. base[c].addr - base[c].addr = 0 /\ base[c].count - base[c].count = 0
        BY <3>1
      <3> QED
        BY <3>1, <3>2 DEF Together
    <2> QED
      BY <2>1, InitHolds, InStepIs
  <1>2. BusInv /\ InStep /\ [Next]_vars => (BusInv /\ InStep)'
    BY ClockKeeps, ResetKeeps, InResetKeeps, StutterKeeps, InStepNext DEF Next
  <1> QED
    BY <1>1, <1>2, PTL DEF Spec

-----------------------------------------------------------------------------
(* The two cycles of an interrupt acknowledge.  A cycle is long over when  *)
(* the next one begins, and a hold that was asked for before LOCK is given *)
(* before the processor can end the cycle that locks.                      *)

\* The processor is idle for two rising edges between its cycles.
LongIdle == MinIdle >= 2

\* The status is that of the cycle, and the 8288 has ended its own cycle before
\* the processor starts another.
StatusInv ==
  /\ cpu = "idle" => status = "passive"
  /\ cpu \in {"T1", "T2", "T3", "T4"} => status = cycle.kind
  /\ cpu = "idle" /\ running => rest >= (IF phase = "pos" THEN 2 ELSE 1)

\* How far a hold may have come in each half of the CPU clock.  A hold that is
\* gone while its second flip-flop still stands was cleared by a master clear.
GrantInv ==
  /\ phase = "neg" /\ ff1 => FreeUnderLock \/ period
  /\ phase = "pos" /\ ff2 => ~CpuCommand
  /\ phase = "neg" /\ ff2 /\ holdRequest => aen
  /\ phase = "pos" /\ ff2 /\ ~holdRequest =>
       dmaState = "SI" /\ mask = Channels /\ request = {} /\ prevWrite = NoOp
  /\ cpu = "T2" /\ phase = "neg" /\ ~FreeUnderLock => ~ff1

\* Under LOCK a hold is either given already and makes the processor wait, or
\* not given at all.
LockInv ==
  /\ locked /\ cpu = "T3" =>
       /\ ~ff1
       /\ phase = "pos" /\ ff2 /\ holdRequest => aen
       /\ phase = "neg" /\ ff2 /\ holdRequest => dmaWait
       /\ phase = "neg" /\ aen => dmaWait
  /\ locked /\ cpu \in {"T4", "idle", "T1", "T2"} => ~aen /\ ~ff1 /\ ~ff2

\* What keeps the pair of acknowledge cycles together.
PairInv == BusInv /\ LoadInv /\ StatusInv /\ GrantInv /\ LockInv

\* What the processor does in a clock.
CpuStarts == /\ cpu = "idle" /\ Edge = "pos" /\ rest <= 1
             /\ cpu' = "T1" /\ status' = cycle'.kind /\ locked' = locked
CpuIdles  == /\ cpu = "idle" /\ UNCHANGED <<cpu, cycle, status, locked>>
             /\ rest' = IF Edge = "pos" /\ rest > 0 THEN rest - 1 ELSE rest
CpuInCycle == /\ cpu \in {"T1", "T2", "T3"} /\ UNCHANGED <<cycle, status>>
              /\ (Edge = "neg" /\ cpu = "T1" => cpu' = "T2")
              /\ (Edge = "neg" /\ cpu = "T2" => cpu' = "T3")
              /\ (Edge = "neg" /\ cpu = "T3" => cpu' = IF pr2' THEN "T4" ELSE "T3")
              /\ (Edge # "neg" => cpu' = cpu)
              /\ locked' = IF Edge = "neg" /\ cpu = "T2"
                           THEN cycle.kind = "inta" /\ ~locked ELSE locked
CpuEnds   == /\ cpu = "T4" /\ cpu' = "idle" /\ status' = "passive"
             /\ UNCHANGED <<cycle, locked>>
             /\ rest' = IF Edge = "pos" THEN MinIdle - 1 ELSE MinIdle

\* Those are all the processor can do.
LEMMA CpuSteps == ASSUME Clock PROVE CpuStarts \/ CpuIdles \/ CpuInCycle \/ CpuEnds
  <1>1. Processor(Edge)
    BY ClockParts
  <1>2. CASE Idle(Edge)
    BY <1>2 DEF Idle, StartCycle, CpuStarts, CpuIdles
  <1>3. CASE InCycle(Edge)
    <2>1. /\ cpu \in {"T1", "T2", "T3"} /\ UNCHANGED <<cycle, status>>
          /\ locked' = IF Edge = "neg" /\ cpu = "T2"
                       THEN cycle.kind = "inta" /\ ~locked ELSE locked
      BY <1>3 DEF InCycle
    <2>2. cpu' = CASE Edge = "neg" /\ cpu = "T1" -> "T2"
                   [] Edge = "neg" /\ cpu = "T2" -> "T3"
                   [] Edge = "neg" /\ cpu = "T3" /\ pr2' -> "T4"
                   [] OTHER -> cpu
      BY <1>3 DEF InCycle
    <2>3. /\ Edge = "neg" /\ cpu = "T1" => cpu' = "T2"
          /\ Edge = "neg" /\ cpu = "T2" => cpu' = "T3"
          /\ Edge = "neg" /\ cpu = "T3" => cpu' = IF pr2' THEN "T4" ELSE "T3"
          /\ Edge # "neg" => cpu' = cpu
      BY <2>2
    <2> QED
      BY <2>1, <2>3 DEF CpuInCycle
  <1>4. CASE EndCycle(Edge)
    BY <1>4 DEF EndCycle, CpuEnds
  <1> QED
    BY <1>1, <1>2, <1>3, <1>4 DEF Processor

\* What the 8288 and the hold do in a clock.
LEMMA BusSteps == ASSUME TypeInv, DmaInv, LoadInv, Clock
    PROVE /\ period' = IF Edge = "pos" THEN ~running /\ status = "passive" ELSE period
          /\ running' = IF Edge = "neg" THEN status # "passive" /\ ~period ELSE running
          /\ strobed' = IF Edge = "neg" THEN status ELSE strobed
          /\ HoldRequest = holdRequest
          /\ HoldAcknowledge = (holdRequest /\ (ff1 \/ ff2))
          /\ Edge # "pos" /\ holdRequest' => holdRequest
          /\ Edge = "pos" /\ holdRequest' => holdRequest \/ (dmaState = "SI" /\ EncodedDma # None)
                                              \/ dmaState = "S0"
          /\ pr2' => (Edge = "neg" => ~dmaWait)
          /\ Arbiter(Edge)
  <1>1. ext = FALSE /\ holdRequest \in BOOLEAN
    BY DEF LoadInv, TypeInv, RequestType
  <1>2. Controller(Edge) /\ Arbiter(Edge) /\ Ready(Edge)
    BY ClockParts
  <1>3. HoldRequest = holdRequest /\ HoldAcknowledge = (holdRequest /\ (ff1 \/ ff2))
    BY <1>1 DEF HoldRequest, HoldAcknowledge
  <1>4. /\ period' = IF Edge = "pos" THEN ~running /\ status = "passive" ELSE period
        /\ running' = IF Edge = "neg" THEN status # "passive" /\ ~period ELSE running
        /\ strobed' = IF Edge = "neg" THEN status ELSE strobed
    BY <1>2 DEF Controller
  <1>5. pr2' => (Edge = "neg" => ~dmaWait)
    <2>1. pr2' = IF Edge = "neg" THEN pr1 /\ CpuReady ELSE pr2
      BY <1>2 DEF Ready
    <2> QED
      BY <2>1 DEF CpuReady
  <1>6. CASE Taken.op = "master"
    <2>1. holdRequest' = FALSE
      BY <1>6, DmaParts DEF DmaReset
    <2> QED
      BY <1>2, <1>3, <1>4, <1>5, <2>1
  <1>7. CASE Taken.op # "master"
    <2>1. Sequencer(Edge, Ahead)
      BY <1>7, DmaParts
    <2>2. Edge = "pos" /\ holdRequest' => holdRequest \/ Ahead = "S0"
      BY <2>1, SequencerFacts
    <2>3. Ahead = "S0" => (dmaState = "SI" /\ EncodedDma # None) \/ dmaState = "S0"
      BY NextStates DEF TypeInv, TypeOK, States
    <2>4. Edge # "pos" => holdRequest' = holdRequest
      BY <2>1, SequencerFacts
    <2> QED
      BY <1>2, <1>3, <1>4, <1>5, <2>2, <2>3, <2>4
  <1> QED
    BY <1>6, <1>7

\* A clock keeps the status that of the cycle.
LEMMA StatusClock ==
    ASSUME LongIdle, TypeInv, DmaInv, LoadInv, StatusInv, Clock
    PROVE StatusInv'
  <1>1. /\ MinIdle \in Nat \ {0} /\ rest \in 0 .. MinIdle /\ phase \in {"pos", "neg"}
        /\ cpu \in {"idle", "T1", "T2", "T3", "T4"}
    BY BusAssumption DEF TypeInv, TypeOK
  <1>2. /\ Edge = "pos" => phase = "pos" /\ phase' = "neg"
        /\ Edge = "neg" => phase = "neg" /\ phase' = "pos"
        /\ Edge = "none" => phase' = phase
        /\ Edge \in {"pos", "neg", "none"}
    BY Edges
  <1>3. running' = IF Edge = "neg" THEN status # "passive" /\ ~period ELSE running
    BY BusSteps
  <1>4. CASE CpuStarts
    BY <1>4 DEF CpuStarts, StatusInv
  <1>5. CASE CpuIdles
    <2>1. cpu = "idle" /\ cpu' = "idle" /\ status' = status /\ status = "passive"
      BY <1>5 DEF CpuIdles, StatusInv
    <2>2. Edge = "neg" => ~running'
      BY <1>3, <2>1
    <2>3. rest' = IF Edge = "pos" /\ rest > 0 THEN rest - 1 ELSE rest
      BY <1>5 DEF CpuIdles
    <2>4. running' => rest' >= (IF phase' = "pos" THEN 2 ELSE 1)
      <3>1. Edge # "neg" /\ running' => running
        BY <1>3
      <3>2. running => rest >= (IF phase = "pos" THEN 2 ELSE 1)
        BY <2>1 DEF StatusInv
      <3>3. CASE Edge = "pos"
        BY <1>1, <1>2, <2>3, <3>1, <3>2, <3>3
      <3>4. CASE Edge = "none"
        BY <1>2, <2>3, <3>1, <3>2, <3>4
      <3> QED
        BY <1>2, <2>2, <3>3, <3>4
    <2> QED
      BY <2>1, <2>4 DEF StatusInv
  <1>6. CASE CpuInCycle
    <2>1. cpu \in {"T1", "T2", "T3"} /\ cpu' \in {"T1", "T2", "T3", "T4"}
      BY <1>2, <1>6 DEF CpuInCycle
    <2> QED
      BY <1>6, <2>1 DEF CpuInCycle, StatusInv
  <1>7. CASE CpuEnds
    BY <1>1, <1>2, <1>7 DEF CpuEnds, StatusInv, LongIdle
  <1> QED
    BY <1>4, <1>5, <1>6, <1>7, CpuSteps

\* A hold does not rise on a second flip-flop that still stands.
LEMMA NoLateHold ==
    ASSUME TypeInv, DmaInv, LoadInv, GrantInv, Clock, Edge = "pos", ff2, holdRequest'
    PROVE holdRequest
  <1> SUFFICES ASSUME ~holdRequest PROVE FALSE
    OBVIOUS
  <1>1. phase = "pos"
    BY Edges
  <1>2. dmaState = "SI" /\ mask = Channels /\ request = {}
    BY <1>1 DEF GrantInv
  <1>3. DmaRequestState = {}
    BY <1>2 DEF DmaRequestState, TypeInv, RequestType
  <1>4. EncodedDma = None
    BY <1>3 DEF EncodedDma
  <1> QED
    BY <1>2, <1>4, BusSteps

\* A clock moves a hold no further than its half of the CPU clock allows.
LEMMA GrantClock == ASSUME PairInv, Clock PROVE GrantInv'
  <1>1. TypeInv /\ DmaInv /\ QuietInv /\ LoadInv /\ StatusInv /\ GrantInv
    BY DEF PairInv, BusInv, DmaInv
  <1>2. /\ Edge = "pos" => phase = "pos" /\ phase' = "neg"
        /\ Edge = "neg" => phase = "neg" /\ phase' = "pos"
        /\ Edge = "none" => phase' = phase
        /\ Edge \in {"pos", "neg", "none"} /\ phase \in {"pos", "neg"}
    BY <1>1, Edges DEF TypeInv, TypeOK
  <1>3. /\ ff1' = IF Edge = "pos" THEN Free /\ holdRequest ELSE ff1
        /\ ff2' = IF Edge = "neg" THEN holdRequest /\ (ff2 \/ ff1) ELSE ff2
        /\ aen' = IF Edge = "pos" THEN holdRequest /\ (ff1 \/ ff2) ELSE aen
    BY <1>1, BusSteps, ArbiterFacts
  <1>4. phase' = "neg" /\ ff1' => FreeUnderLock' \/ period'
    <2> SUFFICES ASSUME phase' = "neg", ff1', ~FreeUnderLock' PROVE period'
      OBVIOUS
    <2>1. CASE Edge = "pos"
      <3>1. FreeUnderLock /\ status' \notin {"passive", "halt"}
        BY <1>3, <2>1 DEF Free, FreeUnderLock
      <3>2. CpuStarts
        BY <3>1, CpuSteps DEF CpuIdles, CpuInCycle, CpuEnds, FreeUnderLock
      <3>3. status = "passive" /\ ~running
        BY <1>1, <1>2, <2>1, <3>2 DEF CpuStarts, StatusInv, TypeInv, TypeOK
      <3> QED
        BY <1>1, <2>1, <3>3, BusSteps
    <2>2. CASE Edge = "none"
      <3>1. status' = status \/ status' = "passive"
        BY <2>2, CpuSteps DEF CpuStarts, CpuIdles, CpuInCycle, CpuEnds
      <3>2. ~FreeUnderLock
        BY <3>1 DEF FreeUnderLock
      <3> QED
        BY <1>1, <1>2, <1>3, <2>2, <3>2, BusSteps DEF GrantInv
    <2> QED
      BY <1>2, <2>1, <2>2
  <1>5. phase' = "pos" /\ ff2' => ~CpuCommand'
    <2> SUFFICES ASSUME phase' = "pos", ff2' PROVE ~CpuCommand'
      OBVIOUS
    <2>1. CASE Edge = "neg"
      <3>1. holdRequest /\ (ff2 \/ ff1) /\ phase = "neg"
        BY <1>2, <1>3, <2>1
      <3>2. CASE ff2
        BY <1>1, <1>3, <2>1, <3>1, <3>2 DEF GrantInv, CpuCommand
      <3>3. CASE ff1
        <4>1. FreeUnderLock \/ period
          BY <1>1, <3>1, <3>3 DEF GrantInv
        <4> QED
          BY <1>1, <2>1, <4>1, BusSteps DEF FreeUnderLock, CpuCommand
      <3> QED
        BY <3>1, <3>2, <3>3
    <2>2. CASE Edge = "none"
      BY <1>1, <1>2, <1>3, <2>2, BusSteps DEF GrantInv, CpuCommand
    <2> QED
      BY <1>2, <2>1, <2>2
  <1>6. phase' = "neg" /\ ff2' /\ holdRequest' => aen'
    <2>1. CASE Edge = "pos"
      BY <1>1, <1>3, <2>1, NoLateHold
    <2>2. CASE Edge = "none"
      BY <1>1, <1>2, <1>3, <2>2, BusSteps DEF GrantInv
    <2> QED
      BY <1>2, <2>1, <2>2
  <1>7. phase' = "pos" /\ ff2' /\ ~holdRequest' =>
          dmaState' = "SI" /\ mask' = Channels /\ request' = {} /\ prevWrite' = NoOp
    <2> SUFFICES ASSUME phase' = "pos", ff2', ~holdRequest'
                 PROVE dmaState' = "SI" /\ mask' = Channels /\ request' = {} /\ prevWrite' = NoOp
      OBVIOUS
    <2>1. CASE Taken.op = "master"
      <3>1. prevWrite' = NoOp
        BY <1>1, <2>1, ClockParts, TakenFacts
      <3> QED
        BY <2>1, <3>1, DmaParts DEF DmaReset
    <2>2. CASE Taken.op # "master"
      <3>1. DmaRuns
        BY <2>2 DEF DmaRuns
      <3>2. Edge # "pos" /\ holdRequest' = holdRequest
        BY <1>2, <3>1, RunFacts, SequencerFacts
      <3>3. Edge = "none" /\ phase = "pos" /\ ff2
        BY <1>2, <1>3, <3>2
      <3>4. /\ dmaState = "SI" /\ mask = Channels /\ request = {} /\ prevWrite = NoOp
            /\ ~CpuCommand
        BY <1>1, <3>2, <3>3 DEF GrantInv
      <3>5. DmaAccess = NoOp /\ Taken = NoOp
        BY <3>4 DEF DmaAccess, Taken
      <3>6. mask' = mask /\ request' \subseteq request
        BY <3>1, <3>5, RunFacts, NoWrite
      <3>7. dmaState' = dmaState
        BY <3>1, <3>3, RunFacts, SequencerFacts
      <3> QED
        BY <3>1, <3>4, <3>5, <3>6, <3>7, RunFacts
    <2> QED
      BY <2>1, <2>2
  <1>8. cpu' = "T2" /\ phase' = "neg" /\ ~FreeUnderLock' => ~ff1'
    <2> SUFFICES ASSUME cpu' = "T2", phase' = "neg", ~FreeUnderLock' PROVE ~ff1'
      OBVIOUS
    <2>1. CpuInCycle /\ Edge # "neg"
      BY <1>2, CpuSteps DEF CpuStarts, CpuIdles, CpuEnds
    <2>2. cpu = "T2" /\ ~FreeUnderLock
      BY <2>1 DEF CpuInCycle, FreeUnderLock
    <2> QED
      BY <1>1, <1>2, <1>3, <2>1, <2>2 DEF GrantInv, Free, FreeUnderLock
  <1> QED
    BY <1>4, <1>5, <1>6, <1>7, <1>8 DEF GrantInv

\* A clock gives no hold under LOCK but one that makes the processor wait.
LEMMA LockClock == ASSUME PairInv, Clock PROVE LockInv'
  <1>1. TypeInv /\ DmaInv /\ LoadInv /\ StatusInv /\ GrantInv /\ LockInv
    BY DEF PairInv, BusInv
  <1>2. /\ Edge = "pos" => phase = "pos" /\ phase' = "neg"
        /\ Edge = "neg" => phase = "neg" /\ phase' = "pos"
        /\ Edge = "none" => phase' = phase
        /\ Edge \in {"pos", "neg", "none"} /\ phase \in {"pos", "neg"}
    BY <1>1, Edges DEF TypeInv, TypeOK
  <1>3. /\ ff1' = IF Edge = "pos" THEN Free /\ holdRequest ELSE ff1
        /\ ff2' = IF Edge = "neg" THEN holdRequest /\ (ff2 \/ ff1) ELSE ff2
        /\ aen' = IF Edge = "pos" THEN holdRequest /\ (ff1 \/ ff2) ELSE aen
        /\ dmaWait' = IF Edge = "pos" THEN aen ELSE dmaWait
        /\ Edge # "pos" /\ holdRequest' => holdRequest
        /\ pr2' => (Edge = "neg" => ~dmaWait)
    BY <1>1, BusSteps, ArbiterFacts
  <1>4. locked => ~Free
    BY DEF Free
  <1>5. ASSUME ~aen, ~ff1, ~ff2, locked PROVE ~aen' /\ ~ff1' /\ ~ff2'
    BY <1>3, <1>4, <1>5
  <1>6. CASE CpuStarts
    BY <1>1, <1>5, <1>6 DEF CpuStarts, LockInv
  <1>7. CASE CpuIdles
    BY <1>1, <1>5, <1>7 DEF CpuIdles, LockInv
  <1>8. CASE CpuEnds
    BY <1>1, <1>5, <1>8 DEF CpuEnds, LockInv
  <1>9. CASE CpuInCycle /\ cpu = "T1"
    <2>1. cpu' \in {"T1", "T2"} /\ locked' = locked
      BY <1>2, <1>9 DEF CpuInCycle
    <2> QED
      BY <1>1, <1>5, <1>9, <2>1 DEF LockInv
  <1>10. CASE CpuInCycle /\ cpu = "T2" /\ Edge # "neg"
    <2>1. cpu' = "T2" /\ locked' = locked
      BY <1>10 DEF CpuInCycle
    <2> QED
      BY <1>1, <1>5, <1>10, <2>1 DEF LockInv
  <1>11. CASE CpuInCycle /\ cpu = "T2" /\ Edge = "neg"
    <2> SUFFICES ASSUME locked'
                 PROVE ~ff1' /\ (ff2' /\ holdRequest' => aen')
      BY <1>2, <1>11 DEF CpuInCycle, LockInv
    <2>1. cycle.kind = "inta" /\ phase = "neg" /\ status = "inta"
      BY <1>1, <1>2, <1>11 DEF CpuInCycle, StatusInv
    <2>2. ~ff1
      BY <1>1, <1>11, <2>1 DEF GrantInv, FreeUnderLock
    <2> QED
      BY <1>1, <1>3, <1>11, <2>1, <2>2 DEF GrantInv
  <1>12. CASE CpuInCycle /\ cpu = "T3"
    <2>1. locked' = locked
      BY <1>12 DEF CpuInCycle
    <2> SUFFICES ASSUME locked PROVE LockInv'
      BY <2>1, <1>2, <1>12 DEF LockInv
    <2>2. CASE Edge = "pos"
      <3>1. cpu' = "T3" /\ phase = "pos" /\ phase' = "neg" /\ ~ff1
        BY <1>1, <1>2, <1>12, <2>2 DEF CpuInCycle, LockInv
      <3>2. ff2 /\ holdRequest' => holdRequest
        BY <1>1, <2>2, NoLateHold
      <3>3. ff2 /\ holdRequest => aen
        BY <1>1, <1>12, <3>1 DEF LockInv
      <3> QED
        BY <1>3, <1>4, <2>2, <3>1, <3>2, <3>3 DEF LockInv
    <2>3. CASE Edge = "none"
      <3>1. cpu' = "T3"
        BY <1>12, <2>3 DEF CpuInCycle
      <3> QED
        BY <1>1, <1>2, <1>3, <1>12, <2>3, <3>1 DEF LockInv
    <2>4. CASE Edge = "neg"
      <3>1. phase = "neg" /\ phase' = "pos" /\ ~ff1 /\ (ff2 /\ holdRequest => dmaWait)
            /\ (aen => dmaWait)
        BY <1>1, <1>2, <1>12, <2>4 DEF LockInv
      <3>2. cpu' = IF pr2' THEN "T4" ELSE "T3"
        BY <1>12, <2>4 DEF CpuInCycle
      <3>3. CASE pr2'
        BY <1>3, <2>4, <3>1, <3>2, <3>3 DEF LockInv
      <3>4. CASE ~pr2'
        BY <1>1, <1>3, <2>4, <3>1, <3>2, <3>4 DEF LockInv, GrantInv
      <3> QED
        BY <3>3, <3>4
    <2> QED
      BY <1>2, <2>2, <2>3, <2>4
  <1> QED
    BY <1>6, <1>7, <1>8, <1>9, <1>10, <1>11, <1>12, CpuSteps DEF CpuInCycle

\* A reset drops the cycle, LOCK and every hold.
LEMMA PairReset == ASSUME Reset, MinIdle \in Nat, LongIdle
    PROVE StatusInv' /\ GrantInv' /\ LockInv'
  <1>1. /\ phase' = "pos" /\ cpu' = "idle" /\ rest' = MinIdle /\ status' = "passive"
        /\ locked' = FALSE /\ ff1' = FALSE /\ ff2' = FALSE /\ running' = FALSE
    BY DEF Reset
  <1> QED
    BY <1>1 DEF StatusInv, GrantInv, LockInv

\* A step of the loader alone, in reset, changes none of it.
LEMMA PairUnchanged ==
    ASSUME PairInv, UNCHANGED <<phase, cpuVars, arbVars, prevWrite, dmaVars>>
    PROVE StatusInv' /\ GrantInv' /\ LockInv'
  BY DEF PairInv, StatusInv, GrantInv, LockInv, FreeUnderLock, CpuCommand, cpuVars, arbVars,
     dmaVars

\* It holds of every behaviour without images.
LEMMA PairInductive == ASSUME NoImages, LongIdle PROVE Spec => []PairInv
  <1>1. Init => PairInv
    <2> SUFFICES ASSUME Init PROVE PairInv
      OBVIOUS
    <2>1. /\ phase = "pos" /\ cpu = "idle" /\ status = "passive" /\ locked = FALSE
          /\ ff1 = FALSE /\ ff2 = FALSE /\ running = FALSE
          /\ download = "none" /\ load = 0 /\ ext = FALSE
      BY DEF Init
    <2>2. StatusInv /\ GrantInv /\ LockInv /\ LoadInv
      BY <2>1 DEF StatusInv, GrantInv, LockInv, LoadInv
    <2> QED
      BY <2>2, InitHolds DEF PairInv
  <1>2. PairInv /\ [Next]_vars => PairInv'
    <2> SUFFICES ASSUME PairInv, [Next]_vars PROVE PairInv'
      OBVIOUS
    <2>1. BusInv /\ TypeInv /\ DmaInv /\ LoadInv /\ StatusInv
      BY DEF PairInv, BusInv
    <2>2. BusInv' /\ LoadInv'
      BY <2>1, ClockKeeps, ResetKeeps, InResetKeeps, StutterKeeps, LoadKept DEF Next
    <2>3. CASE Clock
      BY <2>1, <2>2, <2>3, StatusClock, GrantClock, LockClock DEF PairInv
    <2>4. CASE Reset
      BY <2>2, <2>4, PairReset, BusAssumption DEF PairInv
    <2>5. CASE InReset
      BY <2>2, <2>5, PairUnchanged DEF InReset, PairInv
    <2>6. CASE UNCHANGED vars
      BY <2>2, <2>6, PairUnchanged DEF vars, PairInv
    <2> QED
      BY <2>3, <2>4, <2>5, <2>6 DEF Next
  <1> QED
    BY <1>1, <1>2, PTL DEF Spec

\* With no image being loaded and the processor idle for two rising edges between
\* its cycles, no other master comes between the two acknowledge cycles.
THEOREM PairStaysLocked == ASSUME NoImages, LongIdle PROVE Spec => []LockedPair
  <1>1. PairInv => LockedPair
    BY DEF PairInv, LockInv, LockedPair, Owner, HoldAcknowledge
  <1> QED
    BY <1>1, PairInductive, PTL

-----------------------------------------------------------------------------
(* No cycle is lost.  The processor ends a cycle by flip-flops that READY  *)
(* sets one clock after a command has opened, so what counts is where they *)
(* stand when it opens.                                                    *)

\* The guard of I/O cycles is over before a transfer that began it gives the bus
\* back: Chipset.sv has 4 clocks at the fastest speed and none at the others.
ShortGuard == IoSettle <= 4

\* What the 8288 would drive, if the arbiter lets it.
CommandDue == running /\ strobed \in {"mem", "io", "inta"}
\* The 8237 moves a byte, with two commands.
Moves == Serving.type \in {"read", "write"}
BothCommands == IF Serving.type = "read" THEN {"memr", "iow"} ELSE {"ior", "memw"}

\* The 8288's command is that of the processor's state, on the cycle's address.
CycleInv ==
  /\ cpu = "T1" => phase = "neg" /\ period /\ ~running
  /\ cpu = "T2" => ~running /\ cpuAddress = turn /\ (phase = "neg" => ~period)
  /\ cpu \in {"T3", "T4"} => running /\ strobed = status /\ cpuAddress = turn
  /\ cpu = "T4" => phase = "pos"

\* A command that is open is not taken from the processor.
KeepsInv ==
  /\ phase = "pos" /\ ff1 /\ holdRequest => ff2
  /\ phase = "neg" /\ cpu = "T3" /\ CommandDue /\ ~dmaWait => ~aen
  /\ cpu \in {"T4", "idle"} /\ CommandDue => ~aen

\* The commands of a transfer open in order, and both before it can end.
StrobeInv ==
  /\ Given /\ ~Moves => strobes = {}
  /\ Given /\ Moves =>
       /\ strobes \subseteq BothCommands
       /\ dmaState = "S2" /\ phase = "neg" /\ command.compressed => strobes = BothCommands
       /\ (dmaState = "S2" /\ phase = "neg") \/ dmaState = "S3" => strobes \cap {"memr", "ior"} # {}
       /\ (dmaState = "S3" /\ phase = "neg") \/ dmaState = "SW" => strobes = BothCommands

\* What nobody addresses is ready, and a transfer has seen what is not.
SlaveInv ==
  /\ Commanded = {} => slave
  /\ dmaState = "SW" /\ ~slave => IF phase = "pos" THEN rnw ELSE prevRnw

\* The guard runs only in a transfer or in a processor's cycle, and it is over
\* before either gives up the bus.
SettleInv ==
  /\ settle > 0 => Given \/ (cpu = "T3" /\ CpuCommand)
  /\ Given /\ ~Moves => settle = 0
  /\ dmaState = "SW" /\ phase = "neg" => settle <= 3
  /\ dmaState = "S4" /\ ~Cascade => settle <= (IF phase = "pos" THEN 2 ELSE 1)
  /\ dmaState = "SW" \/ (dmaState = "S4" /\ ~Cascade /\ phase = "pos") => (IoActive => prevIo)

\* With the processor's bus at rest, READY's flip-flops come to rest.
RestInv == ~aen /\ ~CpuCommand =>
  /\ phase = "neg" => (rnw => prevRnw)
  /\ phase = "pos" => ~rnw
  /\ phase = "neg" /\ ~dmaWait => ~prevRnw

\* A command of the processor that asks for a wait is seen to before its READY is.
WaitInv ==
  /\ CpuCommand /\ phase = "pos" /\ ~dmaWait /\ IoActive /\ ~prevIo => ~prevRnw /\ ~prevBus
  /\ CpuCommand /\ phase = "neg" /\ ~dmaWait /\ IoActive /\ cpu = "T3" => prevIo /\ prevBus
  /\ CpuCommand /\ phase = "neg" /\ ~dmaWait /\ pr1 /\ ~rnw /\ cpu = "T3" => settle = 0 /\ slave
  /\ CpuCommand /\ cpu \in {"T4", "idle"} =>
       ~rnw /\ settle = 0 /\ slave /\ (IoActive => prevBus /\ prevIo)

\* All of it.
ServedInv ==
  /\ PairInv /\ PacingInv
  /\ CycleInv /\ KeepsInv /\ StrobeInv /\ SlaveInv /\ SettleInv /\ RestInv /\ WaitInv

-----------------------------------------------------------------------------
(* What a clock does to READY, to the bus and to the processor.            *)

\* READY's flip-flops.
LEMMA ReadyFacts == ASSUME Ready(Edge)
    PROVE /\ ~IoChannelReady => rnw'
          /\ IoChannelReady /\ prevRnw => ~rnw'
          /\ IoChannelReady /\ ~prevRnw /\ ~prevBus /\ BusState => rnw'
          /\ IoChannelReady /\ ~prevRnw /\ (prevBus \/ ~BusState) => (rnw' => rnw)
          /\ prevBus' = BusState /\ prevIo' = IoActive
          /\ prevRnw' = IF Edge = "pos" THEN rnw ELSE prevRnw
          /\ Edge = "pos" => (pr1' => ~dmaWait /\ ~rnw)
          /\ Edge # "pos" => pr1' = pr1
          /\ Edge = "neg" /\ pr2' => pr1 /\ ~dmaWait /\ ~rnw
          /\ settle' = IF IoActive /\ ~prevIo THEN IoSettle
                       ELSE IF settle > 0 THEN settle - 1 ELSE 0
  BY DEF Ready, CpuReady

\* The latch of the address.
LEMMA TurnFacts == ASSUME Clock
    PROVE /\ cpu # "idle" => turn' = turn
          /\ cpuAddress' = IF AddressLatchEnable THEN turn ELSE cpuAddress
  <1>1. Processor(Edge)
    BY ClockParts
  <1> QED
    BY <1>1 DEF Processor, Idle, InCycle, EndCycle

\* Who may have commands on the bus.
LEMMA WhoCommands == ASSUME BusInv, LoadInv
    PROVE /\ strobes # {} => Given
          /\ Given => aen /\ ~CpuCommand
          /\ Commanded = strobes \cup (IF CpuCommand THEN {"cpu"} ELSE {})
          /\ ~aen => strobes = {} /\ (BusState => IoActive)
          /\ strobes = {} => (IoActive <=> CpuCommand /\ strobed = "io")
          /\ strobes = {} => (BusState <=> IoActive)
          /\ ~CpuCommand /\ strobes = {} => ~BusState /\ ~IoActive /\ Commanded = {}
  <1>1. QuietInv /\ HoldInv /\ ~LoaderWrite
    BY DEF BusInv, DmaInv, LoadInv, LoaderWrite
  <1>2. strobes # {} => Given
    BY <1>1 DEF QuietInv, Given, CascadeS4
  <1>3. Given => aen
    BY <1>1 DEF HoldInv
  <1> QED
    BY <1>1, <1>2, <1>3 DEF CpuCommand, Commanded, BusState, IoActive
LEMMA WhoCommandsNext == ASSUME BusInv', LoadInv'
    PROVE /\ strobes' # {} => Given'
          /\ Given' => aen' /\ ~CpuCommand'
          /\ Commanded' = strobes' \cup (IF CpuCommand' THEN {"cpu"} ELSE {})
          /\ ~aen' => strobes' = {}
          /\ strobes' = {} => (IoActive' <=> CpuCommand' /\ strobed' = "io")
          /\ ~CpuCommand' /\ strobes' = {} => ~IoActive' /\ Commanded' = {}
  <1>1. (BusInv /\ LoadInv =>
          /\ strobes # {} => Given
          /\ Given => aen /\ ~CpuCommand
          /\ Commanded = strobes \cup (IF CpuCommand THEN {"cpu"} ELSE {})
          /\ ~aen => strobes = {}
          /\ strobes = {} => (IoActive <=> CpuCommand /\ strobed = "io")
          /\ ~CpuCommand /\ strobes = {} => ~IoActive /\ Commanded = {})'
    BY WhoCommands, PTL
  <1> QED
    BY <1>1

-----------------------------------------------------------------------------
(* The processor's command.                                                *)

\* The half of the CPU clock, and what is registered at its edges.
LEMMA HalfFacts == ASSUME PairInv, Clock
    PROVE /\ Edge = "pos" => phase = "pos" /\ phase' = "neg"
          /\ Edge = "neg" => phase = "neg" /\ phase' = "pos"
          /\ Edge = "none" => phase' = phase
          /\ Edge \in {"pos", "neg", "none"} /\ phase \in {"pos", "neg"}
          /\ aen' = IF Edge = "pos" THEN holdRequest /\ (ff1 \/ ff2) ELSE aen
          /\ dmaWait' = IF Edge = "pos" THEN aen ELSE dmaWait
          /\ running' = IF Edge = "neg" THEN status # "passive" /\ ~period ELSE running
          /\ strobed' = IF Edge = "neg" THEN status ELSE strobed
          /\ period' = IF Edge = "pos" THEN ~running /\ status = "passive" ELSE period
          /\ BusInv /\ TypeInv /\ DmaInv /\ LoadInv /\ StatusInv /\ GrantInv
  <1>1. BusInv /\ TypeInv /\ DmaInv /\ LoadInv /\ StatusInv /\ GrantInv
    BY DEF PairInv, BusInv
  <1> QED
    BY <1>1, Edges, BusSteps, ArbiterFacts DEF TypeInv, TypeOK

\* The processor goes through its states at falling edges.
LEMMA StateFacts == ASSUME PairInv, Clock
    PROVE /\ cpu' = "T1" => \/ cpu = "T1" /\ Edge # "neg" /\ CpuInCycle
                            \/ CpuStarts
          /\ cpu' = "T2" => \/ cpu = "T1" /\ Edge = "neg" /\ CpuInCycle
                            \/ cpu = "T2" /\ Edge # "neg" /\ CpuInCycle
          /\ cpu' = "T3" => \/ cpu = "T2" /\ Edge = "neg" /\ CpuInCycle
                            \/ cpu = "T3" /\ CpuInCycle
          /\ cpu' = "T4" => cpu = "T3" /\ Edge = "neg" /\ pr2' /\ CpuInCycle
          /\ cpu' = "idle" => CpuIdles \/ CpuEnds
          /\ CpuStarts => status = "passive" /\ ~running
  <1>1. TypeInv /\ StatusInv /\ Edge \in {"pos", "neg", "none"} /\ (Edge = "pos" => phase = "pos")
    BY HalfFacts
  <1>2. CASE CpuStarts
    <2>1. status = "passive" /\ ~running
      BY <1>1, <1>2 DEF CpuStarts, StatusInv, TypeInv, TypeOK
    <2> QED
      BY <1>2, <2>1 DEF CpuStarts
  <1>3. CASE CpuIdles
    BY <1>3 DEF CpuIdles, CpuStarts
  <1>4. CASE CpuInCycle
    BY <1>1, <1>4 DEF CpuInCycle, CpuStarts
  <1>5. CASE CpuEnds
    BY <1>5 DEF CpuEnds, CpuStarts
  <1> QED
    BY <1>2, <1>3, <1>4, <1>5, CpuSteps

\* A clock keeps the command and the address that of the cycle.
LEMMA CycleClock == ASSUME PairInv, PacingInv, CycleInv, Clock PROVE CycleInv'
  <1>1. cpu \in {"T1", "T2", "T3", "T4"} => status # "passive"
    BY HalfFacts DEF StatusInv, TypeInv, ProcessorType, Kinds
  <1>2. CpuInCycle => status' = status /\ turn' = turn
    BY TurnFacts DEF CpuInCycle
  <1>3. cpu' = "T1" => phase' = "neg" /\ period' /\ ~running'
    <2>1. CASE CpuStarts
      BY <2>1, HalfFacts, StateFacts DEF CpuStarts
    <2>2. CASE cpu = "T1" /\ Edge # "neg"
      <3>1. Edge = "none"
        BY <2>2, HalfFacts DEF CycleInv
      <3> QED
        BY <2>2, <3>1, HalfFacts DEF CycleInv
    <2> QED
      BY <2>1, <2>2, StateFacts
  <1>4. cpu' = "T2" => ~running' /\ cpuAddress' = turn' /\ (phase' = "neg" => ~period')
    <2>1. CASE cpu = "T1" /\ Edge = "neg" /\ CpuInCycle
      BY <1>1, <1>2, <2>1, HalfFacts, TurnFacts DEF CycleInv, AddressLatchEnable
    <2>2. CASE cpu = "T2" /\ Edge # "neg" /\ CpuInCycle
      BY <1>1, <1>2, <2>2, HalfFacts, TurnFacts DEF CycleInv
    <2> QED
      BY <2>1, <2>2, StateFacts
  <1>5. cpu' \in {"T3", "T4"} => running' /\ strobed' = status' /\ cpuAddress' = turn'
    <2>1. CASE cpu = "T2" /\ Edge = "neg" /\ CpuInCycle
      BY <1>1, <1>2, <2>1, HalfFacts, TurnFacts DEF CycleInv
    <2>2. CASE cpu = "T3" /\ CpuInCycle
      <3>1. running' /\ running
        BY <1>1, <2>2, HalfFacts DEF CycleInv, PacingInv
      <3> QED
        BY <1>1, <1>2, <2>2, <3>1, HalfFacts, TurnFacts DEF CycleInv
    <2> QED
      BY <2>1, <2>2, StateFacts
  <1>6. cpu' = "T4" => phase' = "pos"
    BY HalfFacts, StateFacts
  <1> QED
    BY <1>3, <1>4, <1>5, <1>6 DEF CycleInv

\* The bus is not taken from the processor under its command.
LEMMA NotTaken == ASSUME PairInv, KeepsInv, Clock, CpuCommand, Edge = "pos" PROVE ~aen'
  <1>1. phase = "pos" /\ ~ff2
    BY HalfFacts DEF GrantInv
  <1> QED
    BY <1>1, HalfFacts DEF KeepsInv

\* A clock keeps it that way.
LEMMA KeepsClock == ASSUME PairInv, CycleInv, KeepsInv, Clock PROVE KeepsInv'
  <1>1. phase' = "pos" /\ ff1' /\ holdRequest' => ff2'
    <2>1. Edge # "pos" /\ holdRequest' => holdRequest
      BY HalfFacts, BusSteps
    <2>2. /\ ff1' = IF Edge = "pos" THEN Free /\ HoldRequest ELSE ff1
          /\ ff2' = IF Edge = "neg" THEN HoldRequest /\ (ff2 \/ ff1) ELSE ff2
          /\ HoldRequest = holdRequest
      BY HalfFacts, BusSteps, ArbiterFacts
    <2> QED
      BY <2>1, <2>2, HalfFacts DEF KeepsInv
  <1>2. phase' = "neg" /\ cpu' = "T3" /\ CommandDue' /\ ~dmaWait' => ~aen'
    <2> SUFFICES ASSUME phase' = "neg", cpu' = "T3", CommandDue', ~dmaWait' PROVE ~aen'
      OBVIOUS
    <2>1. Edge # "neg" /\ cpu = "T3"
      BY HalfFacts, StateFacts
    <2>2. CommandDue
      BY <2>1, HalfFacts DEF CommandDue
    <2> QED
      BY <2>1, <2>2, HalfFacts, NotTaken DEF KeepsInv, CommandDue, CpuCommand
  <1>3. cpu' \in {"T4", "idle"} /\ CommandDue' => ~aen'
    <2> SUFFICES ASSUME cpu' \in {"T4", "idle"}, CommandDue' PROVE ~aen'
      OBVIOUS
    <2>1. CASE cpu' = "T4"
      <3>1. cpu = "T3" /\ Edge = "neg" /\ pr2' /\ phase = "neg"
        BY <2>1, HalfFacts, StateFacts
      <3>2. ~dmaWait /\ CommandDue
        BY <3>1, HalfFacts, BusSteps DEF CommandDue, CycleInv
      <3> QED
        BY <3>1, <3>2, HalfFacts DEF KeepsInv
    <2>2. CASE cpu' = "idle"
      <3>1. Edge # "neg" /\ cpu \in {"T4", "idle"}
        BY <2>2, HalfFacts, StateFacts DEF CommandDue, CpuIdles, CpuEnds, StatusInv, CycleInv
      <3>2. CommandDue
        BY <3>1, HalfFacts DEF CommandDue
      <3> QED
        BY <3>1, <3>2, HalfFacts, NotTaken DEF KeepsInv, CommandDue, CpuCommand
    <2> QED
      BY <2>1, <2>2
  <1> QED
    BY <1>1, <1>2, <1>3 DEF KeepsInv

\* When a command of the processor opens and closes.
LEMMA CommandSteps == ASSUME PairInv, PacingInv, CycleInv, KeepsInv, Clock
    PROVE /\ CpuCommand /\ Edge # "neg" => CpuCommand' /\ strobed' = strobed
          /\ CpuCommand /\ ~CpuCommand' => Edge = "neg" /\ cpu = "idle"
          /\ CpuCommand /\ CpuCommand' => strobed' = strobed
          /\ ~CpuCommand /\ CpuCommand' => cpu' = "T3" /\ (Edge = "neg" \/ (Edge = "pos" /\ aen))
          /\ CpuCommand => cpu \in {"T3", "T4", "idle"}
  <1>1. CpuCommand /\ Edge # "neg" => CpuCommand' /\ strobed' = strobed
    BY HalfFacts, NotTaken DEF CpuCommand
  <1>2. running => cpu \in {"T3", "T4", "idle"}
    BY HalfFacts DEF CycleInv, TypeInv, TypeOK
  <1>3. ASSUME Edge = "neg"
        PROVE /\ cpu = "idle" => ~running'
              /\ cpu = "T1" => ~running'
              /\ cpu = "T2" => cpu' = "T3"
              /\ cpu = "T3" => (CpuCommand' <=> CpuCommand) /\ strobed' = strobed
              /\ cpu # "T4"
    <2>1. phase = "neg" /\ aen' = aen /\ strobed' = status
          /\ running' = (status # "passive" /\ ~period)
      BY <1>3, HalfFacts
    <2>2. cpu = "idle" => ~running'
      BY <2>1, HalfFacts DEF StatusInv
    <2>3. cpu = "T1" => ~running'
      BY <2>1 DEF CycleInv
    <2>4. cpu = "T2" => cpu' = "T3"
      BY <1>3, CpuSteps DEF CpuStarts, CpuIdles, CpuInCycle, CpuEnds
    <2>5. cpu = "T3" => (CpuCommand' <=> CpuCommand) /\ strobed' = strobed
      <3>1. cpu = "T3" => running /\ ~period /\ strobed = status /\ status # "passive"
        BY HalfFacts DEF CycleInv, PacingInv, StatusInv, TypeInv, ProcessorType, Kinds
      <3> QED
        BY <2>1, <3>1 DEF CpuCommand
    <2> QED
      BY <2>1, <2>2, <2>3, <2>4, <2>5 DEF CycleInv
  <1>4. CpuCommand => running /\ ~aen
    BY DEF CpuCommand
  <1>5. CpuCommand' => running' /\ ~aen'
    BY DEF CpuCommand
  <1>6. cpu \in {"idle", "T1", "T2", "T3", "T4"}
    BY HalfFacts DEF TypeInv, TypeOK
  <1>7. CASE Edge = "neg"
    BY <1>2, <1>3, <1>4, <1>5, <1>6, <1>7
  <1>8. CASE Edge # "neg"
    <2> SUFFICES ASSUME ~CpuCommand, CpuCommand' PROVE Edge = "pos" /\ aen /\ cpu' = "T3"
      BY <1>1, <1>2, <1>4, <1>8
    <2>1. CommandDue /\ aen /\ Edge = "pos"
      BY <1>8, HalfFacts DEF CommandDue, CpuCommand
    <2>2. cpu = "T3"
      BY <1>2, <2>1 DEF KeepsInv, CommandDue
    <2> QED
      BY <2>1, <2>2, CpuSteps DEF CpuStarts, CpuIdles, CpuInCycle, CpuEnds
  <1> QED
    BY <1>7, <1>8

-----------------------------------------------------------------------------
(* The 8237's transfer.                                                    *)

\* A master clear comes with no transfer under way.
LEMMA ClearFacts == ASSUME PairInv, Clock, Taken.op = "master"
    PROVE ~Given /\ strobes = {} /\ dmaState' = "SI" /\ strobes' = {} /\ ~Given'
  <1>1. DmaReset /\ TypeInv /\ QuietInv
    BY DmaParts, HalfFacts DEF DmaInv, NoOp
  <1>2. prevWrite # NoOp
    BY <1>1, TakenFacts DEF NoOp
  <1>3. ~Given /\ strobes = {}
    BY <1>1, <1>2 DEF QuietInv, Given, InTransfer, Idling
  <1> QED
    BY <1>1, <1>3 DEF DmaReset, Given, InTransfer

\* Where a transfer goes in a clock.
LEMMA GoesFacts == ASSUME PairInv, DmaRuns
    PROVE /\ ~Given /\ Given' => /\ dmaState = "S1" /\ dmaState' = "S2" /\ Edge = "neg"
                                 /\ strobes = {} /\ aen
          /\ Given => /\ Serving' = Serving /\ command' = command
                      /\ (Moves' <=> Moves) /\ BothCommands' = BothCommands
                      /\ (Cascade' <=> Cascade)
          /\ Edge # "neg" => dmaState' = dmaState
          /\ Edge # "pos" => strobes' = strobes
          /\ Edge = "pos" /\ dmaState # "S4" => strobes' = strobes \cup Opened
          /\ Edge = "pos" /\ dmaState = "S4" => strobes' = {}
          /\ Edge = "neg" /\ dmaState = "S2" /\ Moves =>
               dmaState' = IF command.compressed THEN "SW" ELSE "S3"
          /\ Edge = "neg" /\ dmaState = "S3" /\ Moves => dmaState' = "SW"
          /\ Edge = "neg" /\ dmaState = "SW" =>
               dmaState' = IF DmaReady THEN "S4" ELSE "SW"
          /\ Edge = "neg" /\ dmaState = "S4" /\ ~Cascade => dmaState' \in {"SI", "S1", "S2"}
          /\ dmaState \in {"S2", "S3", "SW"} => ~Cascade
  <1>1. TypeInv /\ DmaInv /\ QuietInv /\ ServiceInv /\ HoldInv
    BY HalfFacts DEF DmaRuns, DmaInv
  <1>2. /\ dmaState' = IF Edge = "neg" THEN Ahead ELSE dmaState
        /\ Edge # "pos" => strobes' = strobes
        /\ Edge = "pos" /\ dmaState = "S4" => strobes' = {}
        /\ Edge = "pos" /\ dmaState # "S4" => strobes' = strobes \cup Opened
    BY RunFacts, SequencerFacts
  <1>3. ~Given /\ Given' => /\ dmaState = "S1" /\ dmaState' = "S2" /\ Edge = "neg"
                            /\ strobes = {} /\ aen
    <2> SUFFICES ASSUME ~Given, Given'
                 PROVE dmaState = "S1" /\ dmaState' = "S2" /\ Edge = "neg" /\ strobes = {} /\ aen
      OBVIOUS
    <2>1. dmaState = "S1" /\ dmaState' = "S2" /\ Edge = "neg" /\ phase = "neg"
      BY <1>1, GivenBefore, HalfFacts DEF DmaRuns
    <2> QED
      BY <1>1, <2>1 DEF QuietInv, HoldInv, InTransfer, Idling, CascadeS4
  <1>4. Given => /\ Serving' = Serving /\ command' = command
                 /\ (Moves' <=> Moves) /\ BothCommands' = BothCommands
                 /\ (Cascade' <=> Cascade)
    <2> SUFFICES ASSUME Given
                 PROVE /\ Serving' = Serving /\ command' = command
                       /\ (Moves' <=> Moves) /\ BothCommands' = BothCommands
                       /\ (Cascade' <=> Cascade)
      OBVIOUS
    <2>1. ~Idling /\ dmaState # "S1"
      BY DEF Given, InTransfer, Idling
    <2>2. Serving' = Serving /\ (Cascade' <=> Cascade)
      BY <1>1, <2>1, ServingKept
    <2>3. command' = command
      BY <1>1, <2>1, TakenFacts, RunFacts, NoWrite
    <2> QED
      BY <2>2, <2>3 DEF Moves, BothCommands
  <1>5. Edge = "neg" /\ dmaState = "S2" /\ Moves =>
               dmaState' = IF command.compressed THEN "SW" ELSE "S3"
    <2>1. dmaState = "S2" /\ Moves => ~BeforeS4
      BY DEF BeforeS4, Moves
    <2> QED
      BY <1>2, <2>1 DEF Ahead, NextState
  <1>6. Edge = "neg" /\ dmaState = "S3" /\ Moves => dmaState' = "SW"
    <2>1. dmaState = "S3" /\ Moves => ~BeforeS4
      BY DEF BeforeS4, Moves
    <2> QED
      BY <1>2, <2>1 DEF Ahead, NextState
  <1>7. Edge = "neg" /\ dmaState = "SW" => dmaState' = IF DmaReady THEN "S4" ELSE "SW"
    <2>1. dmaState = "SW" => BeforeS4
      BY DEF BeforeS4
    <2> QED
      BY <1>2, <2>1 DEF Ahead, NextState
  <1>8. Edge = "neg" /\ dmaState = "S4" /\ ~Cascade => dmaState' \in {"SI", "S1", "S2"}
    BY <1>2, NextStates
  <1>9. dmaState \in {"S2", "S3", "SW"} => ~Cascade
    BY <1>1 DEF ServiceInv, InTransfer
  <1> QED
    BY <1>2, <1>3, <1>4, <1>5, <1>6, <1>7, <1>8, <1>9

\* A clock opens the commands in order.
LEMMA StrobeClock == ASSUME PairInv, StrobeInv, Clock PROVE StrobeInv'
  <1>1. CASE Taken.op = "master"
    BY <1>1, ClearFacts DEF StrobeInv
  <1>2. CASE DmaRuns
    <2>1. QuietInv /\ dmaState \in States
      BY HalfFacts DEF DmaInv, TypeInv, TypeOK
    <2>2. CASE ~Given'
      BY <2>2 DEF StrobeInv
    <2>3. CASE ~Given /\ Given'
      <3>1. dmaState' = "S2" /\ phase' = "pos" /\ strobes' = {}
        BY <1>2, <2>3, GoesFacts, HalfFacts
      <3> QED
        BY <3>1 DEF StrobeInv
    <2>4. CASE Given /\ Given' /\ Edge = "none"
      <3>1. /\ dmaState' = dmaState /\ strobes' = strobes /\ phase' = phase
            /\ command' = command /\ (Moves' <=> Moves) /\ BothCommands' = BothCommands
        BY <1>2, <2>4, GoesFacts, HalfFacts
      <3> QED
        BY <2>4, <3>1 DEF StrobeInv
    <2>5. CASE Given /\ Given' /\ Edge = "pos"
      <3>1. /\ dmaState' = dmaState /\ phase = "pos" /\ phase' = "neg"
            /\ command' = command /\ (Moves' <=> Moves) /\ BothCommands' = BothCommands
        BY <1>2, <2>5, GoesFacts, HalfFacts
      <3>2. CASE dmaState = "S4"
        <4>1. strobes' = {}
          BY <1>2, <2>5, <3>2, GoesFacts
        <4> QED
          BY <3>1, <3>2, <4>1 DEF StrobeInv
      <3>3. CASE dmaState # "S4"
        <4>1. strobes' = strobes \cup Opened
          BY <1>2, <2>5, <3>3, GoesFacts
        <4>2. CASE ~Moves
          <5>1. Opened = {}
            BY <4>2 DEF Moves, Opened
          <5> QED
            BY <2>5, <3>1, <4>1, <4>2, <5>1 DEF StrobeInv
        <4>3. CASE Moves
          <5>1. Opened \subseteq BothCommands
            BY <4>3 DEF Moves, Opened, BothCommands
          <5>2. dmaState = "S2" => Opened \cap {"memr", "ior"} # {}
            <6>1. CASE Serving.type = "read"
              BY <6>1 DEF Opened
            <6>2. CASE Serving.type = "write"
              BY <6>2 DEF Opened
            <6> QED
              BY <4>3, <6>1, <6>2 DEF Moves
          <5>3. dmaState = "S2" /\ command.compressed => Opened = BothCommands
            <6>1. CASE Serving.type = "read"
              BY <6>1 DEF Opened, BothCommands
            <6>2. CASE Serving.type = "write"
              BY <6>2 DEF Opened, BothCommands
            <6> QED
              BY <4>3, <6>1, <6>2 DEF Moves
          <5>4. dmaState = "S3" => strobes \cup Opened = BothCommands
            <6>1. CASE Serving.type = "read"
              BY <2>5, <4>3, <6>1 DEF Opened, BothCommands, StrobeInv
            <6>2. CASE Serving.type = "write"
              BY <2>5, <4>3, <6>2 DEF Opened, BothCommands, StrobeInv
            <6> QED
              BY <4>3, <6>1, <6>2 DEF Moves
          <5> QED
            BY <2>5, <3>1, <4>1, <4>3, <5>1, <5>2, <5>3, <5>4 DEF StrobeInv
        <4> QED
          BY <4>2, <4>3
      <3> QED
        BY <3>2, <3>3
    <2>6. CASE Given /\ Given' /\ Edge = "neg"
      <3>1. /\ phase = "neg" /\ phase' = "pos" /\ strobes' = strobes
            /\ command' = command /\ (Moves' <=> Moves) /\ BothCommands' = BothCommands
        BY <1>2, <2>6, GoesFacts, HalfFacts
      <3>2. CASE ~Moves
        BY <2>6, <3>1, <3>2 DEF StrobeInv
      <3>3. CASE Moves
        <4>1. dmaState' = "S3" => dmaState = "S2"
          BY <1>2, <2>6, <3>3, GoesFacts DEF Given, InTransfer
        <4>2. dmaState' = "SW" => \/ dmaState = "S2" /\ command.compressed
                                  \/ dmaState \in {"S3", "SW"}
          BY <1>2, <2>6, <3>3, GoesFacts DEF Given, InTransfer
        <4> QED
          BY <2>6, <3>1, <3>3, <4>1, <4>2 DEF StrobeInv
      <3> QED
        BY <3>2, <3>3
    <2> QED
      BY <2>2, <2>3, <2>4, <2>5, <2>6, HalfFacts
  <1> QED
    BY <1>1, <1>2 DEF DmaRuns

-----------------------------------------------------------------------------
(* READY.                                                                  *)

\* What is addressed stays ready while nothing else is.
LEMMA SlaveFacts == ASSUME Clock
    PROVE /\ Commanded' = {} => slave'
          /\ slave /\ Commanded' \subseteq Commanded => slave'
  BY ClockParts DEF Slave

\* A clock keeps what is not addressed ready.
LEMMA SlaveClock == ASSUME PairInv, SlaveInv, Clock, BusInv', LoadInv' PROVE SlaveInv'
  <1>1. dmaState' = "SW" /\ ~slave' => IF phase' = "pos" THEN rnw' ELSE prevRnw'
    <2> SUFFICES ASSUME dmaState' = "SW", ~slave'
                 PROVE  IF phase' = "pos" THEN rnw' ELSE prevRnw'
      OBVIOUS
    <2>1. DmaRuns /\ Given'
      BY ClearFacts DEF DmaRuns, Given, InTransfer
    <2>2. Given
      BY <2>1, GoesFacts
    <2>3. Commanded = strobes /\ Commanded' = strobes'
      BY <2>1, <2>2, HalfFacts, WhoCommands, WhoCommandsNext
    <2>4. strobes' = strobes
      BY <2>1, GoesFacts, OpenedFacts
    <2>5. ~slave
      BY <2>3, <2>4, SlaveFacts
    <2>6. rnw' /\ prevRnw' = IF Edge = "pos" THEN rnw ELSE prevRnw
      BY <2>5, ClockParts, ReadyFacts DEF IoChannelReady
    <2>7. Edge # "neg" => dmaState = "SW"
      BY <2>1, GoesFacts
    <2> QED
      BY <2>5, <2>6, <2>7, HalfFacts DEF SlaveInv
  <1> QED
    BY <1>1, SlaveFacts DEF SlaveInv

\* The guard in a clock: it counts down unless an I/O command opens.
LEMMA SettleFacts == ASSUME TypeInv, Clock
    PROVE /\ settle \in Nat /\ settle' \in Nat /\ (ShortGuard => settle <= 4)
          /\ ~(IoActive /\ ~prevIo) /\ settle = 0 => settle' = 0
          /\ ~(IoActive /\ ~prevIo) /\ settle > 0 => settle' = settle - 1
  <1>1. settle \in 0 .. IoSettle /\ IoSettle \in Nat
    BY BusAssumption DEF TypeInv, TypeOK
  <1>2. settle' = IF IoActive /\ ~prevIo THEN IoSettle ELSE IF settle > 0 THEN settle - 1 ELSE 0
    BY ClockParts, ReadyFacts
  <1> QED
    BY <1>1, <1>2 DEF ShortGuard

\* A transfer gives up the bus at the falling edge of S4.
LEMMA GivesUp == ASSUME PairInv, Clock, Given, ~Given'
    PROVE dmaState = "S4" /\ ~Cascade /\ phase = "neg" /\ strobes = {}
  <1>1. DmaRuns
    BY ClearFacts DEF DmaRuns
  <1>2. QuietInv /\ (Cascade' <=> Cascade)
    BY <1>1, HalfFacts, GoesFacts DEF DmaInv
  <1>3. dmaState \in {"S2", "S3", "SW"} => ~Cascade'
    BY <1>1, <1>2, GoesFacts
  <1>4. dmaState \in {"S2", "S3", "SW"} => dmaState' \in {"S2", "S3", "SW", "S4"}
    BY <1>1, RunFacts, SequencerFacts, NextStates
  <1>5. dmaState = "S4" /\ ~Cascade
    BY <1>3, <1>4 DEF Given, InTransfer
  <1>6. Edge = "neg"
    BY <1>1, <1>2, <1>5, GoesFacts DEF Given
  <1> QED
    BY <1>2, <1>5, <1>6, HalfFacts DEF QuietInv, InTransfer

\* A processor that ends its cycle ends no guard: it has waited for it.
LEMMA EndsReady == ASSUME PairInv, CycleInv, KeepsInv, WaitInv, Clock, CpuCommand,
                          cpu' \in {"T4", "idle"}
    PROVE ~rnw /\ settle = 0 /\ slave /\ (IoActive => prevBus /\ prevIo)
  <1>1. CASE cpu' = "T4"
    <2>1. cpu = "T3" /\ Edge = "neg" /\ pr2'
      BY <1>1, StateFacts
    <2>2. pr1 /\ ~dmaWait /\ ~rnw /\ phase = "neg"
      BY <2>1, ClockParts, ReadyFacts, HalfFacts
    <2> QED
      BY <2>1, <2>2 DEF WaitInv
  <1>2. CASE cpu' = "idle"
    <2>1. cpu \in {"T4", "idle"}
      BY <1>2, StateFacts DEF CpuIdles, CpuEnds
    <2> QED
      BY <2>1 DEF WaitInv
  <1> QED
    BY <1>1, <1>2

\* A clock keeps the guard within a transfer or a cycle.
LEMMA SettleClock ==
    ASSUME ShortGuard, PairInv, PacingInv, CycleInv, KeepsInv, StrobeInv, SettleInv, WaitInv, Clock,
           BusInv', LoadInv'
    PROVE  SettleInv'
  <1>1. /\ TypeInv /\ QuietInv /\ BusInv /\ LoadInv /\ dmaState \in States
        /\ cpu' \in {"idle", "T1", "T2", "T3", "T4"}
    BY HalfFacts DEF DmaInv, TypeInv, TypeOK, BusInv
  <1>2. CASE ~Given /\ ~Given'
    <2>1. strobes = {} /\ (IoActive => CpuCommand)
      BY <1>1, <1>2, WhoCommands
    <2>2. settle' > 0 => cpu' = "T3" /\ CpuCommand'
      <3> SUFFICES ASSUME settle' > 0 PROVE cpu' = "T3" /\ CpuCommand'
        OBVIOUS
      <3>1. settle > 0 \/ (IoActive /\ ~prevIo)
        BY <1>1, SettleFacts
      <3>2. CpuCommand
        BY <1>2, <2>1, <3>1 DEF SettleInv
      <3>3. cpu' \notin {"T4", "idle"}
        BY <1>1, <3>1, <3>2, EndsReady, SettleFacts
      <3>4. cpu \in {"T3", "T4", "idle"}
        BY <3>2, CommandSteps
      <3>5. cpu = "T3" /\ cpu' = "T3"
        <4>1. cpu \notin {"T4", "idle"}
          BY <1>1, <3>1, <3>2, SettleFacts DEF WaitInv
        <4> QED
          BY <3>3, <3>4, <4>1, CpuSteps, Edges, <1>1 DEF CpuStarts, CpuIdles, CpuInCycle, CpuEnds
      <3> QED
        BY <3>2, <3>5, CommandSteps
    <2>3. dmaState' \notin {"S2", "S3", "SW"} /\ ~(dmaState' = "S4" /\ ~Cascade')
      BY <1>2 DEF Given, InTransfer
    <2> QED
      BY <1>2, <2>2, <2>3, SettleFacts, <1>1 DEF SettleInv
  <1>3. CASE Given /\ ~Given'
    <2>1. dmaState = "S4" /\ ~Cascade /\ phase = "neg" /\ strobes = {}
      BY <1>3, GivesUp
    <2>2. ~IoActive
      BY <1>1, <1>3, <2>1, WhoCommands
    <2>3. settle <= 1
      BY <2>1 DEF SettleInv
    <2>4. settle' = 0
      BY <1>1, <2>2, <2>3, SettleFacts
    <2>5. dmaState' \notin {"S2", "S3", "SW"} /\ ~(dmaState' = "S4" /\ ~Cascade')
      BY <1>3 DEF Given, InTransfer
    <2> QED
      BY <1>3, <2>4, <2>5 DEF SettleInv
  <1>4. CASE ~Given /\ Given'
    <2>1. dmaState' = "S2" /\ strobes = {} /\ aen
      BY <1>4, ClearFacts, GoesFacts DEF DmaRuns
    <2>2. ~IoActive /\ settle = 0
      BY <1>1, <1>4, <2>1, WhoCommands, SettleFacts DEF SettleInv, CpuCommand
    <2>3. settle' = 0
      BY <1>1, <2>2, SettleFacts
    <2> QED
      BY <1>4, <2>1, <2>3 DEF SettleInv
  <1>5. CASE Given /\ Given'
    <2>1. DmaRuns
      BY <1>5, ClearFacts DEF DmaRuns
    <2>2. ~CpuCommand /\ ~CpuCommand' /\ (Moves' <=> Moves) /\ (Cascade' <=> Cascade)
      BY <1>1, <1>5, <2>1, WhoCommands, WhoCommandsNext, GoesFacts
    <2>3. IoActive = (strobes \cap {"ior", "iow"} # {})
         /\ IoActive' = (strobes' \cap {"ior", "iow"} # {})
      BY <2>2 DEF IoActive
    <2>4. ~Moves => settle' = 0
      BY <1>1, <1>5, <2>3, SettleFacts DEF SettleInv, StrobeInv
    <2>5. dmaState' = "SW" /\ phase' = "neg" => settle' <= 3
      <3> SUFFICES ASSUME dmaState' = "SW", phase' = "neg" PROVE settle' <= 3
        OBVIOUS
      <3>1. Edge # "neg" /\ dmaState = "SW"
        BY <2>1, HalfFacts, GoesFacts
      <3>2. ~(IoActive /\ ~prevIo)
        BY <3>1 DEF SettleInv
      <3>3. Edge = "none" => settle <= 3
        BY <3>1, HalfFacts DEF SettleInv
      <3>4. settle <= 4 /\ settle \in Nat
        BY <1>1, SettleFacts
      <3>5. Edge \in {"pos", "none"}
        BY <3>1, HalfFacts
      <3>6. settle' = IF settle > 0 THEN settle - 1 ELSE 0
        BY <1>1, <3>2, <3>4, SettleFacts
      <3> QED
        BY <3>4, <3>6
    <2>6. dmaState' = "S4" => settle' <= (IF phase' = "pos" THEN 2 ELSE 1)
      <3> SUFFICES ASSUME dmaState' = "S4", Moves PROVE settle' <= (IF phase' = "pos" THEN 2 ELSE 1)
        BY <2>4
      <3>1. settle \in Nat
        BY <1>1, SettleFacts
      <3>2. CASE Edge = "neg"
        <4>1. dmaState = "SW" /\ phase = "neg" /\ phase' = "pos"
          BY <1>5, <2>1, <3>2, HalfFacts, GoesFacts DEF Given, InTransfer
        <4>2. settle <= 3 /\ ~(IoActive /\ ~prevIo)
          BY <4>1 DEF SettleInv
        <4>3. settle' = IF settle > 0 THEN settle - 1 ELSE 0
          BY <1>1, <3>1, <4>2, SettleFacts
        <4> QED
          BY <3>1, <4>1, <4>2, <4>3
      <3>3. CASE Edge # "neg"
        <4>1. dmaState = "S4" /\ ~Cascade
          BY <1>5, <2>1, <3>3, GoesFacts DEF Given, InTransfer
        <4>2. settle <= (IF phase = "pos" THEN 2 ELSE 1)
          BY <4>1 DEF SettleInv
        <4>3. ~(IoActive /\ ~prevIo)
          <5>1. CASE phase = "pos"
            BY <4>1, <5>1 DEF SettleInv
          <5>2. CASE phase # "pos"
            <6>1. strobes = {}
              BY <1>1, <4>1, <5>2 DEF QuietInv, InTransfer
            <6> QED
              BY <2>3, <6>1
          <5> QED
            BY <5>1, <5>2
        <4>4. settle' = IF settle > 0 THEN settle - 1 ELSE 0
          BY <1>1, <3>1, <4>3, SettleFacts
        <4>5. (phase = "pos" /\ phase' = "neg") \/ phase' = phase
          BY <3>3, HalfFacts
        <4> QED
          BY <3>1, <4>2, <4>4, <4>5
      <3> QED
        BY <3>2, <3>3
    <2>7. dmaState' = "SW" \/ (dmaState' = "S4" /\ phase' = "pos") => (IoActive' => prevIo')
      <3> SUFFICES ASSUME dmaState' = "SW" \/ (dmaState' = "S4" /\ phase' = "pos")
                   PROVE  IoActive' => IoActive
        BY ClockParts, ReadyFacts
      <3>1. Edge = "pos" => dmaState = "SW"
        BY <2>1, HalfFacts, GoesFacts
      <3>2. strobes' = strobes
        BY <2>1, <3>1, GoesFacts, OpenedFacts
      <3> QED
        BY <2>3, <3>2
    <2> QED
      BY <1>5, <2>2, <2>4, <2>5, <2>6, <2>7 DEF SettleInv
  <1> QED
    BY <1>2, <1>3, <1>4, <1>5

\* With no command on the bus READY only comes back.
LEMMA ComesBack == ASSUME PairInv, SlaveInv, SettleInv, Clock, ~CpuCommand, ~Given
    PROVE rnw' => rnw /\ ~prevRnw
  <1>1. strobes = {} /\ Commanded = {} /\ ~BusState
    BY HalfFacts, WhoCommands
  <1>2. slave /\ settle = 0
    BY <1>1, HalfFacts, SettleFacts DEF SlaveInv, SettleInv
  <1> QED
    BY <1>1, <1>2, ClockParts, ReadyFacts DEF IoChannelReady

\* A clock keeps READY at rest with the bus.
LEMMA RestClock ==
    ASSUME PairInv, PacingInv, CycleInv, KeepsInv, SlaveInv, SettleInv, RestInv, WaitInv, Clock
    PROVE  RestInv'
  <1> SUFFICES ASSUME ~aen', ~CpuCommand'
               PROVE  /\ phase' = "neg" => (rnw' => prevRnw')
                      /\ phase' = "pos" => ~rnw'
                      /\ phase' = "neg" /\ ~dmaWait' => ~prevRnw'
    BY DEF RestInv
  <1>1. prevRnw' = IF Edge = "pos" THEN rnw ELSE prevRnw
    BY ClockParts, ReadyFacts
  <1>2. BusInv /\ LoadInv /\ HoldInv
    BY HalfFacts DEF DmaInv
  <1>3. CASE Edge = "pos"
    <2>1. phase = "pos" /\ phase' = "neg" /\ dmaWait' = aen /\ ~(holdRequest /\ (ff1 \/ ff2))
      BY <1>3, HalfFacts
    <2>2. ~Given
      BY <1>2, <2>1 DEF HoldInv, Given, InTransfer, Idling, CascadeS4
    <2>3. ~CpuCommand
      BY <1>3, CommandSteps
    <2>4. rnw' => rnw
      BY <2>2, <2>3, ComesBack
    <2>5. ~aen => ~rnw
      BY <2>1, <2>3 DEF RestInv
    <2> QED
      BY <1>1, <1>3, <2>1, <2>4, <2>5
  <1>4. CASE Edge = "none"
    <2>1. phase' = phase /\ ~aen /\ dmaWait' = dmaWait
      BY <1>4, HalfFacts
    <2>2. ~CpuCommand
      BY <1>4, CommandSteps
    <2>3. rnw' => rnw
      BY <1>2, <2>1, <2>2, ComesBack, WhoCommands
    <2> QED
      BY <1>1, <1>4, <2>1, <2>2, <2>3 DEF RestInv
  <1>5. CASE Edge = "neg"
    <2>1. phase = "neg" /\ phase' = "pos" /\ ~aen
      BY <1>5, HalfFacts
    <2>2. CASE ~CpuCommand
      BY <1>2, <2>1, <2>2, ComesBack, WhoCommands DEF RestInv
    <2>3. CASE CpuCommand
      <3>1. cpu = "idle"
        BY <2>3, CommandSteps
      <3>2. ~rnw /\ settle = 0 /\ slave /\ (IoActive => prevBus)
        BY <2>3, <3>1 DEF WaitInv
      <3>3. BusState => prevBus
        BY <1>2, <2>1, <3>2, WhoCommands
      <3>4. ~rnw'
        BY <3>2, <3>3, ClockParts, ReadyFacts DEF IoChannelReady
      <3> QED
        BY <2>1, <3>4
    <2> QED
      BY <2>2, <2>3
  <1> QED
    BY <1>3, <1>4, <1>5, HalfFacts

\* A clock keeps a command of the processor waiting for what it asked.
LEMMA WaitClock ==
    ASSUME PairInv, PacingInv, CycleInv, KeepsInv, RestInv, WaitInv, Clock, BusInv', LoadInv'
    PROVE  WaitInv'
  <1> SUFFICES ASSUME CpuCommand' PROVE WaitInv'
    BY DEF WaitInv
  <1>1. /\ BusInv /\ LoadInv /\ TypeInv /\ ~aen' /\ strobes' = {}
        /\ (IoActive' <=> strobed' = "io") /\ Commanded' = {"cpu"}
    BY HalfFacts, WhoCommandsNext DEF CpuCommand
  <1>2. prevBus' = BusState /\ prevIo' = IoActive
         /\ prevRnw' = IF Edge = "pos" THEN rnw ELSE prevRnw
    BY ClockParts, ReadyFacts
  <1>3. ASSUME CpuCommand
        PROVE /\ ~aen /\ strobes = {} /\ Commanded = {"cpu"}
              /\ (IoActive' <=> IoActive) /\ (BusState <=> IoActive)
              /\ slave => slave'
    <2>1. ~aen /\ strobes = {} /\ Commanded = {"cpu"} /\ (IoActive <=> strobed = "io")
          /\ (BusState <=> IoActive)
      BY <1>1, <1>3, WhoCommands DEF CpuCommand
    <2>2. strobed' = strobed
      BY <1>3, CommandSteps
    <2> QED
      BY <1>1, <2>1, <2>2, SlaveFacts
  <1>4. phase' = "pos" /\ ~dmaWait' /\ IoActive' /\ ~prevIo' => ~prevRnw' /\ ~prevBus'
    <2> SUFFICES ASSUME phase' = "pos", ~dmaWait', IoActive', ~prevIo'
                 PROVE  ~prevRnw' /\ ~prevBus'
      OBVIOUS
    <2>1. ~CpuCommand
      BY <1>2, <1>3
    <2>2. Edge = "neg" /\ phase = "neg" /\ ~aen /\ ~dmaWait
      BY <1>1, <2>1, CommandSteps, HalfFacts
    <2>3. ~prevRnw
      BY <2>1, <2>2 DEF RestInv
    <2>4. ~BusState
      BY <1>1, <1>2, <2>2, WhoCommands
    <2> QED
      BY <1>2, <2>2, <2>3, <2>4
  <1>5. ASSUME phase' = "neg", ~dmaWait', cpu' = "T3"
        PROVE  /\ CpuCommand /\ cpu = "T3"
               /\ \/ Edge = "pos" /\ phase = "pos"
                  \/ Edge = "none" /\ phase = "neg" /\ ~dmaWait
    BY <1>1, <1>5, CommandSteps, HalfFacts, StateFacts
  <1>6. phase' = "neg" /\ ~dmaWait' /\ IoActive' /\ cpu' = "T3" => prevIo' /\ prevBus'
    BY <1>2, <1>3, <1>5
  <1>7. phase' = "neg" /\ ~dmaWait' /\ pr1' /\ ~rnw' /\ cpu' = "T3" => settle' = 0 /\ slave'
    <2> SUFFICES ASSUME phase' = "neg", ~dmaWait', pr1', ~rnw', cpu' = "T3"
                 PROVE  settle' = 0 /\ slave'
      OBVIOUS
    <2>1. slave /\ settle = 0
      BY ClockParts, ReadyFacts, SettleFacts DEF IoChannelReady
    <2>2. CASE Edge = "pos" /\ phase = "pos"
      <3>1. ~dmaWait
        BY <2>2, ClockParts, ReadyFacts
      <3>2. IoActive /\ ~prevIo => ~prevRnw /\ ~prevBus
        BY <1>5, <2>2, <3>1 DEF WaitInv
      <3>3. ~(IoActive /\ ~prevIo)
        BY <1>3, <1>5, <2>1, <3>2, ClockParts, ReadyFacts DEF IoChannelReady
      <3> QED
        BY <1>1, <1>3, <1>5, <2>1, <3>3, SettleFacts
    <2>3. CASE Edge = "none" /\ phase = "neg" /\ ~dmaWait
      <3>1. ~(IoActive /\ ~prevIo)
        BY <1>5, <2>3 DEF WaitInv
      <3> QED
        BY <1>1, <1>3, <1>5, <2>1, <3>1, SettleFacts
    <2> QED
      BY <1>5, <2>2, <2>3
  <1>8. cpu' \in {"T4", "idle"} =>
          ~rnw' /\ settle' = 0 /\ slave' /\ (IoActive' => prevBus' /\ prevIo')
    <2> SUFFICES ASSUME cpu' \in {"T4", "idle"}
                 PROVE  ~rnw' /\ settle' = 0 /\ slave' /\ (IoActive' => prevBus' /\ prevIo')
      OBVIOUS
    <2>1. CpuCommand
      BY CommandSteps
    <2>2. ~rnw /\ settle = 0 /\ slave /\ (IoActive => prevBus /\ prevIo)
      BY <2>1, EndsReady
    <2>3. ~rnw'
      BY <1>3, <2>1, <2>2, ClockParts, ReadyFacts DEF IoChannelReady
    <2> QED
      BY <1>1, <1>2, <1>3, <2>1, <2>2, <2>3, SettleFacts
  <1> QED
    BY <1>4, <1>6, <1>7, <1>8 DEF WaitInv

-----------------------------------------------------------------------------
(* Every cycle is served.                                                  *)

\* A clock keeps the whole invariant.
LEMMA ServedClock == ASSUME ShortGuard, ServedInv, Clock, PairInv', PacingInv' PROVE ServedInv'
  <1>1. BusInv' /\ LoadInv'
    BY DEF PairInv
  <1> QED
    BY <1>1, CycleClock, KeepsClock, StrobeClock, SlaveClock, SettleClock, RestClock, WaitClock
       DEF ServedInv

\* A reset brings READY and the guard to rest.
LEMMA ServedReset == ASSUME ServedInv, Reset, PairInv', PacingInv' PROVE ServedInv'
  <1>1. /\ cpu' = "idle" /\ running' = FALSE /\ ff1' = FALSE /\ aen' = TRUE /\ settle' = 0
        /\ slave' = TRUE /\ dmaState' = "SI"
    BY DEF Reset, DmaReset
  <1>2. ~Given' /\ ~CpuCommand' /\ ~CommandDue'
    BY <1>1 DEF Given, InTransfer, CpuCommand, CommandDue
  <1> QED
    BY <1>1, <1>2 DEF ServedInv, CycleInv, KeepsInv, StrobeInv, SlaveInv,
       SettleInv, RestInv, WaitInv

\* A step of the loader alone, in reset, changes none of it.
LEMMA ServedUnchanged ==
    ASSUME ServedInv, PairInv', PacingInv',
           UNCHANGED <<phase, cpuVars, arbVars, readyVars, slave, prevWrite, dmaVars>>
    PROVE  ServedInv'
  <1>1. ~LoaderWrite /\ ~LoaderWrite'
    BY DEF ServedInv, PairInv, LoadInv, LoaderWrite
  <1>2. (Given' <=> Given) /\ (Moves' <=> Moves) /\ (Cascade' <=> Cascade)
         /\ BothCommands' = BothCommands
    BY DEF dmaVars, Given, InTransfer, Cascade, Serving, Selected, Moves, BothCommands
  <1>3. (CpuCommand' <=> CpuCommand) /\ (CommandDue' <=> CommandDue)
    BY DEF arbVars, CpuCommand, CommandDue
  <1>4. Commanded' = Commanded /\ (IoActive' <=> IoActive)
    BY <1>1, <1>3 DEF Commanded, IoActive, arbVars, dmaVars
  <1>5. CycleInv' /\ KeepsInv'
    BY <1>3 DEF ServedInv, CycleInv, KeepsInv, cpuVars, arbVars, dmaVars
  <1>6. StrobeInv'
    BY <1>2 DEF ServedInv, StrobeInv, dmaVars
  <1>7. SlaveInv' /\ SettleInv'
    BY <1>2, <1>3, <1>4 DEF ServedInv, SlaveInv, SettleInv, cpuVars, readyVars, dmaVars
  <1>8. RestInv' /\ WaitInv'
    BY <1>3, <1>4 DEF ServedInv, RestInv, WaitInv, cpuVars, arbVars, readyVars
  <1> QED
    BY <1>5, <1>6, <1>7, <1>8 DEF ServedInv

\* The bus as it is at first.
LEMMA ServedInit == ASSUME Init, PairInv, PacingInv PROVE ServedInv
  <1>1. /\ cpu = "idle" /\ running = FALSE /\ ff1 = FALSE /\ settle = 0 /\ slave = TRUE
        /\ dmaState = "SI" /\ phase = "pos" /\ rnw = FALSE
    BY DEF Init
  <1>2. ~Given /\ ~CpuCommand /\ ~CommandDue
    BY <1>1 DEF Given, InTransfer, CpuCommand, CommandDue
  <1> QED
    BY <1>1, <1>2 DEF ServedInv, CycleInv, KeepsInv, StrobeInv, SlaveInv,
       SettleInv, RestInv, WaitInv

\* It holds of every behaviour without images.
LEMMA ServedInductive == ASSUME NoImages, LongIdle, ShortGuard PROVE Spec => []ServedInv
  <1>1. Init => PacingInv
    BY DEF Init, PacingInv
  <1>2. PairInv /\ PacingInv /\ [Next]_vars => PacingInv'
    BY PacingKept DEF PairInv, BusInv
  <1>3. Spec => [](PairInv /\ PacingInv)
    BY <1>1, <1>2, PairInductive, PTL DEF Spec
  <1>4. Init /\ PairInv /\ PacingInv => ServedInv
    BY ServedInit
  <1>5. ServedInv /\ [Next]_vars /\ PairInv' /\ PacingInv' => ServedInv'
    <2> SUFFICES ASSUME ServedInv, [Next]_vars, PairInv', PacingInv' PROVE ServedInv'
      OBVIOUS
    <2>1. CASE Clock
      BY <2>1, ServedClock
    <2>2. CASE Reset
      BY <2>2, ServedReset
    <2>3. CASE InReset
      BY <2>3, ServedUnchanged DEF InReset
    <2>4. CASE UNCHANGED vars
      BY <2>4, ServedUnchanged DEF vars
    <2> QED
      BY <2>1, <2>2, <2>3, <2>4 DEF Next
  <1> QED
    BY <1>3, <1>4, <1>5, PTL DEF Spec

\* A processor's cycle ends with its command on the bus and what it addresses ready.
LEMMA CycleServed == ASSUME ServedInv, Clock, cpu = "T3", cpu' = "T4", cycle.kind # "halt"
    PROVE CpuCommand /\ cpuAddress = turn /\ IoChannelReady
  <1>1. PairInv /\ CycleInv /\ KeepsInv /\ WaitInv
    BY DEF ServedInv
  <1>2. Edge = "neg" /\ phase = "neg" /\ pr1 /\ ~dmaWait /\ ~rnw
    BY <1>1, StateFacts, HalfFacts, ClockParts, ReadyFacts
  <1>3. running /\ strobed = cycle.kind /\ cpuAddress = turn
    BY <1>1, HalfFacts DEF CycleInv, StatusInv
  <1>4. strobed \in {"mem", "io", "inta"}
    BY <1>1, <1>3, HalfFacts DEF TypeInv, ProcessorType, Kinds
  <1>5. CpuCommand
    BY <1>1, <1>2, <1>3, <1>4 DEF KeepsInv, CommandDue, CpuCommand
  <1>6. settle = 0 /\ slave
    BY <1>1, <1>2, <1>5 DEF WaitInv
  <1> QED
    BY <1>3, <1>5, <1>6 DEF IoChannelReady

\* A transfer ends with both its commands open and what they address ready.
LEMMA TransferServed ==
    ASSUME ServedInv, Clock, dmaState # "S4", dmaState' = "S4", ~Cascade, Moves
    PROVE  Cardinality(strobes) = 2 /\ slave
  <1>1. PairInv /\ StrobeInv /\ SlaveInv /\ DmaRuns /\ dmaState \in States
    BY ClearFacts, HalfFacts DEF ServedInv, DmaRuns, TypeInv, TypeOK
  <1>2. Edge = "neg" /\ phase = "neg"
    BY <1>1, GoesFacts, HalfFacts
  <1>3. dmaState' = Ahead
    BY <1>1, <1>2, RunFacts, SequencerFacts
  <1>4. dmaState = "SW"
    BY <1>1, <1>2, <1>3, GoesFacts, NextStates DEF States
  <1>5. ~prevRnw
    BY <1>1, <1>2, <1>4, GoesFacts DEF DmaReady
  <1>6. slave
    BY <1>1, <1>2, <1>4, <1>5 DEF SlaveInv
  <1>7. strobes = BothCommands
    BY <1>1, <1>4 DEF StrobeInv, Given, InTransfer
  <1>8. \A a, b : a # b => Cardinality({a, b}) = 2
    <2> SUFFICES ASSUME NEW a, NEW b, a # b PROVE Cardinality({a, b}) = 2
      OBVIOUS
    <2>1. IsFiniteSet({a}) /\ Cardinality({a}) = 1
      BY FS_Singleton
    <2>2. Cardinality({a} \cup {b}) = 2
      BY <2>1, FS_AddElement
    <2>3. {a, b} = {a} \cup {b}
      OBVIOUS
    <2> QED
      BY <2>2, <2>3
  <1> QED
    BY <1>6, <1>7, <1>8 DEF BothCommands

\* With no image being loaded, the processor idle for two rising edges between its
\* cycles and the I/O guard no longer than a transfer's last four clocks, no cycle of
\* the processor and no transfer of the 8237 ends before it is served
\* (mcl86_biu_max.sv:825-842, Ready.sv).
THEOREM EveryCycleServed == ASSUME NoImages, LongIdle, ShortGuard PROVE Spec => CyclesServed
  <1> DEFINE Served ==
        /\ cpu = "T3" /\ cpu' = "T4" /\ cycle.kind # "halt"
             => CpuCommand /\ cpuAddress = turn /\ IoChannelReady
        /\ dmaState # "S4" /\ dmaState' = "S4" /\ ~Cascade
                /\ Serving.type \in {"read", "write"}
             => Cardinality(strobes) = 2 /\ slave
  <1>1. ServedInv /\ [Next]_vars => [Served]_vars
    <2> SUFFICES ASSUME ServedInv, Next PROVE Served
      OBVIOUS
    <2>1. CASE Clock
      BY <2>1, CycleServed, TransferServed DEF Moves
    <2>2. CASE Reset
      BY <2>2 DEF Reset, DmaReset
    <2>3. CASE InReset
      BY <2>3 DEF InReset, cpuVars, dmaVars
    <2> QED
      BY <2>1, <2>2, <2>3 DEF Next
  <1>2. CyclesServed <=> [][Served]_vars
    BY DEF CyclesServed
  <1> QED
    BY <1>1, <1>2, ServedInductive, PTL DEF Spec
=============================================================================
