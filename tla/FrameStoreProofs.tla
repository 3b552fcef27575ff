-------------------------- MODULE FrameStoreProofs --------------------------
(***************************************************************************)
(* What the frame buffers promise holds for every geometry: the inductive    *)
(* invariant, what one clock does to each register, as facts that the proofs *)
(* cite; then that the invariant is kept, clock, reset and start, and that   *)
(* the safety properties follow.  The invariant holds for every geometry of  *)
(* picture, burst, page, FIFO and raster that SizeAssumption admits, and     *)
(* every stall of the memory.                                                *)
(***************************************************************************)
EXTENDS FrameStoreProps, ModFacts, TLAPS

Place == (0 .. 3) \X Nat

Burstful == [at : Place, left : Int]
VideoType == [vblank : BOOLEAN, words : Nat]
CapType == [buffer : Buffers, capturing : BOOLEAN, linesFull : BOOLEAN, keptUp : BOOLEAN,
            lines : Nat, push : Place, frameBuffer : Buffers, valid : BOOLEAN]
FifoType == [at : [0 .. Depth - 1 -> Place], wr : 0 .. 2 * Depth - 1, rd : 0 .. 2 * Depth - 1]
WrType == [state : {"idle", "prep", "burst"}, at : Place, beats : Int, restart : BOOLEAN]
ArbType == [state : {"idle", "read", "write"}, beats : Int, at : Place, count : Int,
            reading : BOOLEAN, grant : BOOLEAN, pending : BOOLEAN]
MemType == [write : Burstful, read : Burstful]
RdType == [v : Int, field : {0, 1}, buffer : Buffers, valid : BOOLEAN, line : Place,
           fetch : Place, left : Int, fill : Nat, state : {"idle", "request", "data"},
           req : BOOLEAN, at : Place, count : Int, beats : Int]

(* The registers have their types; that a counter of beats does not pass zero  *)
(* is no business of this part.                                             *)
FType ==
    /\ setup \in Setups /\ resetting \in BOOLEAN
    /\ video \in VideoType /\ cap \in CapType /\ fifo \in FifoType /\ wr \in WrType
    /\ arb \in ArbType /\ mem \in MemType /\ rd \in RdType
    /\ calm \in 0 .. 3 /\ passed \in 0 .. 3

(* A burst is counted by the capture, the arbiter and the memory alike, and    *)
(* the beat the memory is to take next is the one the capture is to give.     *)
(* A reset leaves the arbiter alone with the rest of a burst.                 *)
WriteInv ==
    arb.state = "write" =>
       \/ wr.state = "burst" /\ wr.beats = arb.beats /\ Due.at = wr.at
       \/ resetting /\ wr.state = "idle" /\ ~cap.valid /\ ~rd.valid

(* The memory counts what the arbiter counts.                                 *)
CountInv ==
    /\ mem.write.left # 0 => arb.state = "write" /\ mem.write.left = arb.beats
    /\ arb.state = "write" /\ mem.write.left = 0 => arb.beats = arb.count

ReadInv ==
    /\ mem.read.left # 0 => arb.state = "read" /\ mem.read.left = arb.beats /\ ~arb.reading
    /\ arb.reading => arb.state = "read" /\ arb.beats = arb.count
    /\ arb.grant => arb.state = "read"

(* When a reset is over its last effect is on an arbiter nobody asks.          *)
PendingInv == arb.pending /\ ~resetting => arb.state = "idle" /\ ~rd.req /\ passed = 0

(* Between the start of a picture and its end its buffer is a third one.       *)
BufferInv == ~video.vblank => cap.buffer \notin {cap.frameBuffer, rd.buffer}

(* A picture that began during a burst waits for it, and nothing of it comes   *)
(* before that; and nothing comes after a picture.                           *)
PictureInv ==
    /\ wr.restart => cap.lines = 0 /\ video.words = 0 /\ ~Pushing /\ fifo.wr = 0
    /\ ~wr.restart => wr.at[1] = cap.buffer
    /\ video.vblank => video.words = 0 /\ ~Pushing

(* The FIFO holds what a burst was begun with.                                *)
LevelInv ==
    /\ wr.state # "idle" => wr.beats > 0
    /\ ~wr.restart => Level <= Depth /\ (wr.state # "idle" => wr.beats <= Level)

(* What has been pushed of a picture that can still be published is all of    *)
(* it so far, in order.                                                      *)
CaptureInv ==
    ~video.vblank /\ ~wr.restart /\ cap.capturing /\ cap.linesFull /\ cap.keptUp =>
      /\ Queued
      /\ PushedSoFar = cap.lines * Words + Least(video.words, Words)
      /\ Pushing => cap.push = Ahead(wr.at, Level)

(* The next n words to leave the FIFO.                                        *)
Held(n) == \A k \in 0 .. n - 1 : fifo.at[(fifo.rd + k) % Depth] = Ahead(wr.at, k)

(* What is still to be written of a picture that is published or shown is its  *)
(* tail, in order; when the next picture begins, the burst it waits for.       *)
TailInv ==
    Shown(wr.at[1]) =>
      /\ video.vblank /\ ~wr.restart => Queued
      /\ wr.restart /\ wr.state # "idle" => wr.beats <= Depth /\ Held(wr.beats)

(* The readout, when no read came up short in the last three lines.  A line's   *)
(* request is granted before the next line's is made.                       *)
FetchInv ==
    calm = 3 /\ ~resetting =>
      /\ rd.state = "idle" => ~rd.req /\ arb.state # "read"
      /\ rd.state = "request" =>
           /\ rd.req => rd.at = rd.fetch /\ rd.count = RdBurst
           /\ arb.state = "read" => /\ rd.req /\ arb.grant /\ arb.reading
                                    /\ arb.at = rd.fetch /\ arb.count = RdBurst
      /\ rd.state = "data" =>
           /\ ~rd.req /\ ~arb.grant /\ arb.state = "read"
           /\ rd.beats = arb.beats /\ 0 < rd.beats /\ rd.beats <= rd.left
           /\ IF arb.reading THEN arb.at = rd.fetch
              ELSE mem.read.left # 0 /\ mem.read.at = rd.fetch
      /\ rd.state # "idle" =>
           rd.valid /\ rd.left > 0 /\ rd.fetch = <<rd.buffer, Line * Words + rd.fill>>

(* The line to be fetched next.                                               *)
LineInv ==
    /\ rd.v >= 0
    /\ rd.valid =>
         \/ /\ rd.v + 2 <= VStart
            /\ rd.line = <<rd.buffer, rd.field * Words>>
         \/ /\ rd.v + 2 > VStart /\ rd.v + 2 <= VStart + Lines \div 2
            /\ rd.line = <<rd.buffer, (2 * (rd.v + 2 - VStart) + rd.field) * Words>>
         \/ rd.v + 2 > VStart + Lines \div 2

(* What is read at such a time was written before.                            *)
SettledInv ==
    /\ rd.state # "idle" => rd.valid
    /\ calm = 3 /\ rd.valid /\ wr.at[1] = rd.buffer => wr.state = "idle" /\ Level = 0

(* A read is granted over a waiting write once; the next grant is the write's. *)
TurnInv ==
    calm = 3 => /\ passed <= 1
                /\ passed = 1 /\ ~resetting => arb.state # "idle" \/ ~rd.req

FInv ==
    /\ FType /\ WriteInv /\ CountInv /\ ReadInv /\ PendingInv /\ BufferInv /\ PictureInv /\ LevelInv
    /\ CaptureInv /\ TailInv /\ FetchInv /\ LineInv /\ SettledInv /\ TurnInv

-----------------------------------------------------------------------------
(* One clock, given what the source, the memory and the option do in it.       *)
ClockOf(e, tick, busy, answer, enable) ==
    /\ ~resetting
    /\ Video(e)
    /\ IF e = "picture" THEN StartPicture(enable) ELSE Account(e, enable)
    /\ Writer(e, busy)
    /\ Fifo(e, busy)
    /\ Port(busy, answer = "beat", answer = "short", answer = "abandon")
    /\ IF tick THEN LineTick(enable) ELSE Fetch(answer = "beat")
    /\ History(tick, answer = "short")
    /\ resetting' \in {FALSE, setup.resets}
    /\ e \in Events /\ tick \in BOOLEAN /\ (tick => MayTick)
    /\ busy \in Busies /\ answer \in Answers /\ enable \in BOOLEAN
    /\ UNCHANGED setup

(* A clock is one choice of what the source, the memory and the option do.   *)
LEMMA ClockCase == ASSUME Clock, UNCHANGED setup
    PROVE \E e, tick, busy, answer, enable : ClockOf(e, tick, busy, answer, enable)
  <1>1. PICK e \in Events, tick \in IF MayTick THEN BOOLEAN ELSE {FALSE}, busy \in Busies,
             answer \in Answers :
             \E enable \in IF (tick /\ Adopt) \/ e \in {"picture", "blank", "lastLineEnd"}
                           THEN Enables ELSE {TRUE} :
               /\ ~resetting
               /\ Video(e)
               /\ IF e = "picture" THEN StartPicture(enable) ELSE Account(e, enable)
               /\ Writer(e, busy)
               /\ Fifo(e, busy)
               /\ Port(busy, answer = "beat", answer = "short", answer = "abandon")
               /\ IF tick THEN LineTick(enable) ELSE Fetch(answer = "beat")
               /\ History(tick, answer = "short")
               /\ resetting' \in {FALSE, setup.resets}
    BY Zenon DEF Clock
  <1>2. tick \in BOOLEAN /\ (tick => MayTick)
    <2>1. CASE MayTick
      BY <2>1
    <2>2. CASE ~MayTick
      BY <2>2
    <2> QED
      BY <2>1, <2>2
  <1>3. (IF (tick /\ Adopt) \/ e \in {"picture", "blank", "lastLineEnd"}
         THEN Enables ELSE {TRUE}) \subseteq BOOLEAN
    BY SizeAssumption DEF SizeAssumption
  <1>4. PICK enable \in BOOLEAN :
               /\ ~resetting
               /\ Video(e)
               /\ IF e = "picture" THEN StartPicture(enable) ELSE Account(e, enable)
               /\ Writer(e, busy)
               /\ Fifo(e, busy)
               /\ Port(busy, answer = "beat", answer = "short", answer = "abandon")
               /\ IF tick THEN LineTick(enable) ELSE Fetch(answer = "beat")
               /\ History(tick, answer = "short")
               /\ resetting' \in {FALSE, setup.resets}
    BY <1>1, <1>3, Zenon
  <1>5. ClockOf(e, tick, busy, answer, enable)
    BY <1>1, <1>2, <1>4 DEF ClockOf
  <1> QED
    BY <1>5

(* What the assumption on the constants says of the picture at hand.         *)
LEMMA SetupFacts == ASSUME FType
    PROVE /\ Words \in Nat \ {0} /\ Lines \in Nat \ {0} /\ Lines \div 2 \in Nat
          /\ FieldLines \in Nat /\ setup.lengths \subseteq Nat \ {0} /\ setup.resets \in BOOLEAN
          /\ Burst \in Nat \ {0} /\ Page \in Nat \ {0} /\ Depth \in Nat \ {0} /\ 2 * Depth \in Nat \ {0}
          /\ VStart \in Nat /\ VStart >= 2
          /\ Depth >= Burst /\ FieldLines >= VStart + Lines \div 2
          /\ Lines = 2 * (Lines \div 2)
  <1>1. Setup(setup)
    BY SizeAssumption DEF FType, SizeAssumption
  <1>2. Words \in Nat \ {0} /\ Lines \in Nat \ {0} /\ Lines % 2 = 0
    BY <1>1 DEF Setup, Words, Lines
  <1>3. Lines \div 2 \in Int /\ Lines = 2 * (Lines \div 2) + (Lines % 2)
    BY <1>2, DivMod
  <1> QED
    BY <1>1, <1>2, <1>3, SizeAssumption DEF SizeAssumption, Setup, FieldLines, Lines

(* The level of the FIFO is a remainder (ega_fb_capture.v, fifo_level).      *)
LEMMA LevelType == ASSUME FType PROVE Level \in 0 .. 2 * Depth - 1
  <1>1. fifo.wr - fifo.rd \in Int
    BY SetupFacts DEF FType, FifoType
  <1> QED
    BY <1>1, SetupFacts, DivMod DEF Level

(* There is a word at least before the next page begins.                     *)
LEMMA EdgeType == ASSUME NEW at \in Place PROVE ToEdge(at) \in 1 .. Page
  <1>1. at[2] \in Int
    BY DEF Place
  <1>2. Page \in Nat \ {0}
    BY SizeAssumption DEF SizeAssumption
  <1>3. at[2] % Page \in 0 .. Page - 1
    BY <1>1, <1>2, DivMod
  <1> QED
    BY <1>2, <1>3 DEF ToEdge

(* The next burst of either side is not longer than it may be, nor empty     *)
(* while words are left.                                                     *)
LEMMA BurstFacts == ASSUME FType
    PROVE /\ WrBurst \in Nat \ {0} /\ WrBurst <= Burst
          /\ RdBurst \in Int /\ (rd.left > 0 => RdBurst > 0) /\ RdBurst <= rd.left
  <1>1. ToEdge(wr.at) \in 1 .. Page /\ ToEdge(rd.fetch) \in 1 .. Page
    BY EdgeType DEF FType, WrType, RdType
  <1>2. rd.left \in Int
    BY DEF FType, RdType
  <1> QED
    BY <1>1, <1>2, SizeAssumption DEF SizeAssumption, WrBurst, RdBurst, Least

(* When each event of the source can come.                                   *)
LEMMA EventFacts == ASSUME NEW e \in Events, FType
    PROVE /\ e \in {"none", "word", "lineEnd", "lastLineEnd", "blank", "picture"}
          /\ e # "none" => ~Pushing
          /\ e = "picture" => video.vblank /\ (Drained \/ InFlight)
          /\ e = "word" => ~video.vblank /\ (video.words = 0 => ~wr.restart)
          /\ e \in {"lineEnd", "lastLineEnd"} => ~video.vblank /\ video.words > 0
          /\ e = "lastLineEnd" => video.words >= Words
          /\ e = "blank" => ~video.vblank /\ video.words = 0
  <1> video.words \in Nat
    BY DEF FType, VideoType
  <1> QED
    BY DEF Events

(* Of three buffers there is always one that is neither published nor shown  *)
(* (ega_fb_capture.v:60-64).                                                 *)
LEMMA FreeFacts == ASSUME FType
    PROVE FreeBuffer \in Buffers \ {cap.frameBuffer, rd.buffer}
  <1> DEFINE Free(b) == /\ b \notin {cap.frameBuffer, rd.buffer}
                        /\ \A c \in Buffers : c < b => c \in {cap.frameBuffer, rd.buffer}
  <1>1. cap.frameBuffer \in Buffers /\ rd.buffer \in Buffers
    BY DEF FType, CapType, RdType
  <1>2. \E b \in Buffers : Free(b)
    BY <1>1 DEF Buffers
  <1> QED
    BY <1>2 DEF FreeBuffer

(* What an address is.                                                       *)
LEMMA PlaceFacts ==
    /\ NoWord \in Place /\ <<0, 0>> \in Place
    /\ \A b \in Buffers, n \in Nat : <<b, n>> \in Place
    /\ \A at \in Place, n \in Nat : Ahead(at, n) \in Place
    /\ \A at \in Place : at[1] \in 0 .. 3 /\ at[2] \in Nat /\ at = <<at[1], at[2]>>
  BY DEF Place, NoWord, Buffers, Ahead

(* Setting a register to a value of its type keeps the record in its type.      *)
LEMMA CapSet == ASSUME NEW r \in CapType
    PROVE /\ \A x \in Buffers : [r EXCEPT !.buffer = x] \in CapType
          /\ \A x \in Buffers : [r EXCEPT !.frameBuffer = x] \in CapType
          /\ \A x \in BOOLEAN : [r EXCEPT !.capturing = x] \in CapType
          /\ \A x \in BOOLEAN : [r EXCEPT !.linesFull = x] \in CapType
          /\ \A x \in BOOLEAN : [r EXCEPT !.keptUp = x] \in CapType
          /\ \A x \in BOOLEAN : [r EXCEPT !.valid = x] \in CapType
          /\ \A x \in Nat : [r EXCEPT !.lines = x] \in CapType
          /\ \A x \in Place : [r EXCEPT !.push = x] \in CapType
  BY DEF CapType

LEMMA WrSet == ASSUME NEW r \in WrType
    PROVE /\ \A x \in {"idle", "prep", "burst"} : [r EXCEPT !.state = x] \in WrType
          /\ \A x \in Place : [r EXCEPT !.at = x] \in WrType
          /\ \A x \in Int : [r EXCEPT !.beats = x] \in WrType
          /\ \A x \in BOOLEAN : [r EXCEPT !.restart = x] \in WrType
  BY DEF WrType

LEMMA ArbSet == ASSUME NEW r \in ArbType
    PROVE /\ \A x \in {"idle", "read", "write"} : [r EXCEPT !.state = x] \in ArbType
          /\ \A x \in Int : [r EXCEPT !.beats = x] \in ArbType
          /\ \A x \in Int : [r EXCEPT !.count = x] \in ArbType
          /\ \A x \in Place : [r EXCEPT !.at = x] \in ArbType
          /\ \A x \in BOOLEAN : [r EXCEPT !.reading = x] \in ArbType
          /\ \A x \in BOOLEAN : [r EXCEPT !.grant = x] \in ArbType
          /\ \A x \in BOOLEAN : [r EXCEPT !.pending = x] \in ArbType
  BY DEF ArbType

LEMMA RdSet == ASSUME NEW r \in RdType
    PROVE /\ \A x \in Int : [r EXCEPT !.v = x] \in RdType
          /\ \A x \in Int : [r EXCEPT !.left = x] \in RdType
          /\ \A x \in Int : [r EXCEPT !.count = x] \in RdType
          /\ \A x \in Int : [r EXCEPT !.beats = x] \in RdType
          /\ \A x \in Nat : [r EXCEPT !.fill = x] \in RdType
          /\ \A x \in {0, 1} : [r EXCEPT !.field = x] \in RdType
          /\ \A x \in Buffers : [r EXCEPT !.buffer = x] \in RdType
          /\ \A x \in BOOLEAN : [r EXCEPT !.valid = x] \in RdType
          /\ \A x \in BOOLEAN : [r EXCEPT !.req = x] \in RdType
          /\ \A x \in Place : [r EXCEPT !.line = x] \in RdType
          /\ \A x \in Place : [r EXCEPT !.fetch = x] \in RdType
          /\ \A x \in Place : [r EXCEPT !.at = x] \in RdType
          /\ \A x \in {"idle", "request", "data"} : [r EXCEPT !.state = x] \in RdType
  BY DEF RdType

(* What a clock does to the line being sent.                                 *)
LEMMA VideoClock ==
    ASSUME FType, NEW e, NEW tick, NEW busy, NEW answer, NEW enable,
           ClockOf(e, tick, busy, answer, enable)
    PROVE /\ video' \in VideoType
          /\ video'.vblank = (IF e \in {"blank", "lastLineEnd"} THEN TRUE
                             ELSE IF e = "picture" THEN FALSE ELSE video.vblank)
          /\ video'.words = (IF e = "word" THEN video.words + 1
                            ELSE IF e \in {"none", "picture"} THEN video.words ELSE 0)
  <1>1. e \in {"none", "word", "lineEnd", "lastLineEnd", "blank", "picture"}
    BY EventFacts DEF ClockOf
  <1>2. Video(e) /\ video \in VideoType
    BY DEF ClockOf, FType
  <1>3. video' \in VideoType
    <2>1. CASE e = "none"
      BY <1>2, <2>1 DEF Video, VideoType
    <2>2. CASE e = "word"
      BY <1>2, <2>2 DEF Video, VideoType
    <2>3. CASE e = "lineEnd"
      BY <1>2, <2>3 DEF Video, VideoType
    <2>4. CASE e \in {"blank", "lastLineEnd"}
      BY <1>2, <2>4 DEF Video, VideoType
    <2>5. CASE e = "picture"
      BY <1>2, <2>5 DEF Video, VideoType
    <2> QED
      BY <1>1, <2>1, <2>2, <2>3, <2>4, <2>5
  <1> QED
    BY <1>1, <1>2, <1>3 DEF Video, VideoType

(* The capture's video side stays in type: a word's address is a natural     *)
(* number, whatever the geometry.                                            *)
LEMMA CapClock ==
    ASSUME FType, NEW e, NEW tick, NEW busy, NEW answer, NEW enable,
           ClockOf(e, tick, busy, answer, enable)
    PROVE cap' \in CapType
  <1>1. cap \in CapType /\ video.words \in Nat /\ enable \in BOOLEAN
    BY DEF ClockOf, FType, VideoType
  <1>2. CASE e = "picture"
    <2>1. StartPicture(enable)
      BY <1>2 DEF ClockOf
    <2> QED
      <3>1. FreeBuffer \in Buffers /\ 0 \in Nat /\ NoWord \in Place
        BY FreeFacts, PlaceFacts
      <3> QED
        BY <1>1, <2>1, <3>1, CapSet, Zenon DEF StartPicture
  <1>3. CASE e # "picture"
    <2>1. Account(e, enable)
      BY <1>3 DEF ClockOf
    <2> DEFINE lines == IF Ends(e) THEN cap.lines + 1 ELSE cap.lines
               over == e \in {"blank", "lastLineEnd"}
               publish == over /\ cap.capturing /\ cap.linesFull /\ cap.keptUp /\ lines = Lines
               push == IF e = "word" /\ cap.capturing /\ video.words < Words
                       THEN <<cap.buffer, cap.lines * Words + video.words>> ELSE NoWord
               full == cap.linesFull /\ ~Short(e)
               kept == cap.keptUp /\ ~(Pushing /\ FifoFull)
               frame == IF publish THEN cap.buffer ELSE cap.frameBuffer
               valid == (cap.valid \/ publish) /\ (over => enable)
    <2>2. cap.lines * Words + video.words \in Nat
      BY <1>1, SetupFacts DEF CapType
    <2>0. cap.buffer \in Buffers /\ cap.frameBuffer \in Buffers /\ cap.lines \in Nat
      BY <1>1 DEF CapType
    <2>6. <<cap.buffer, cap.lines * Words + video.words>> \in Place
      BY <2>0, <2>2, PlaceFacts
    <2>7. push \in Place
      BY <2>6, PlaceFacts
    <2>8. lines \in Nat
      BY <2>0
    <2>9. frame \in Buffers
      BY <2>0
    <2>3. push \in Place /\ lines \in Nat /\ frame \in Buffers
      BY <2>7, <2>8, <2>9
    <2>4. full \in BOOLEAN /\ kept \in BOOLEAN /\ valid \in BOOLEAN
      BY <1>1
    <2>5. cap' = [cap EXCEPT !.push = push, !.linesFull = full, !.keptUp = kept, !.lines = lines,
                             !.frameBuffer = frame, !.valid = valid]
      BY <1>1, <2>1 DEF Account, CapType
    <2> HIDE DEF lines, over, publish, push, full, kept, frame, valid
    <2> QED
      BY <1>1, <2>3, <2>4, <2>5, CapSet, Zenon
  <1> QED
    BY <1>2, <1>3

(* The capture's DDR side stays in type.                                     *)
LEMMA WrClock ==
    ASSUME FType, NEW e, NEW tick, NEW busy, NEW answer, NEW enable,
           ClockOf(e, tick, busy, answer, enable)
    PROVE wr' \in WrType
  <1>1. wr \in WrType /\ Writer(e, busy)
    BY DEF FType, ClockOf
  <1>2. <<cap'.buffer, 0>> \in Place /\ Ahead(wr.at, 1) \in Place
    BY <1>1, CapClock, PlaceFacts DEF CapType, WrType
  <1>3. NextBurst \in Int /\ wr.beats - 1 \in Int
    BY <1>1, BurstFacts DEF NextBurst, WrType
  <1> DEFINE again == wr.restart \/ e = "picture"
             state == IF wr.beats = 1 THEN "idle" ELSE wr.state
             popped == [wr EXCEPT !.at = Ahead(wr.at, 1), !.beats = wr.beats - 1, !.state = state]
  <1>4. again \in BOOLEAN /\ state \in {"idle", "prep", "burst"}
    BY <1>1 DEF WrType
  <1>5. CASE Restart(e)
    <2>1. wr' = [wr EXCEPT !.at = <<cap'.buffer, 0>>, !.restart = FALSE]
      BY <1>1, <1>5 DEF Writer, Restart
    <2> QED
      BY <1>1, <1>2, <2>1, WrSet, Zenon
  <1>6. CASE ~Restart(e) /\ wr.state = "idle"
    <2>1. wr' = IF NextBurst = 0 THEN wr ELSE [wr EXCEPT !.state = "prep", !.beats = NextBurst]
      BY <1>1, <1>6 DEF Writer
    <2> QED
      BY <1>1, <1>3, <2>1, WrSet, Zenon
  <1>7. CASE wr.state = "prep"
    <2>1. wr' = [wr EXCEPT !.state = "burst", !.restart = again]
      BY <1>1, <1>7 DEF Writer, Restart
    <2> QED
      BY <1>1, <1>4, <2>1, WrSet, Zenon
  <1>8. CASE wr.state = "burst"
    <2>1. wr' = [IF ~Popped(busy) THEN wr ELSE popped EXCEPT !.restart = again]
      BY <1>1, <1>8 DEF Writer, Restart
    <2> HIDE DEF again, state
    <2>2. popped \in WrType
      BY <1>1, <1>2, <1>3, <1>4, WrSet, Zenon
    <2> HIDE DEF popped
    <2> QED
      BY <1>1, <1>4, <2>1, <2>2, WrSet, Zenon
  <1> QED
    BY <1>1, <1>5, <1>6, <1>7, <1>8 DEF WrType

(* The slots that the two pointers name are in the memory of the FIFO.       *)
LEMMA SlotType == ASSUME FType
    PROVE /\ fifo.wr % Depth \in 0 .. Depth - 1 /\ (fifo.wr + 1) % (2 * Depth) \in 0 .. 2 * Depth - 1
          /\ fifo.rd % Depth \in 0 .. Depth - 1 /\ (fifo.rd + 1) % (2 * Depth) \in 0 .. 2 * Depth - 1
  <1>1. fifo.wr \in 0 .. 2 * Depth - 1 /\ fifo.rd \in 0 .. 2 * Depth - 1
    BY DEF FType, FifoType
  <1>2. fifo.wr \in Int /\ fifo.rd \in Int /\ fifo.wr + 1 \in Int /\ fifo.rd + 1 \in Int
    BY <1>1
  <1> QED
    BY <1>2, SetupFacts, DivMod

(* The FIFO stays in type.                                                   *)
LEMMA FifoClock ==
    ASSUME FType, NEW e, NEW tick, NEW busy, NEW answer, NEW enable,
           ClockOf(e, tick, busy, answer, enable)
    PROVE fifo' \in FifoType
  <1>1. fifo \in FifoType /\ Fifo(e, busy) /\ cap.push \in Place
    BY DEF FType, ClockOf, CapType
  <1>2. 0 \in 0 .. 2 * Depth - 1
    BY SetupFacts
  <1> DEFINE popped == IF Popped(busy) THEN [fifo.at EXCEPT ![fifo.rd % Depth] = NoWord] ELSE fifo.at
             pushed == IF Pushing /\ ~FifoFull THEN [popped EXCEPT ![fifo.wr % Depth] = cap.push]
                       ELSE popped
             wptr == IF e = "picture" THEN 0
                     ELSE IF Pushing /\ ~FifoFull THEN (fifo.wr + 1) % (2 * Depth) ELSE fifo.wr
             rptr == IF Restart(e) THEN 0
                     ELSE IF Popped(busy) THEN (fifo.rd + 1) % (2 * Depth) ELSE fifo.rd
  <1>3. popped \in [0 .. Depth - 1 -> Place]
    BY <1>1, PlaceFacts DEF FifoType
  <1>4. pushed \in [0 .. Depth - 1 -> Place]
    BY <1>1, <1>3
  <1>5. wptr \in 0 .. 2 * Depth - 1 /\ rptr \in 0 .. 2 * Depth - 1
    BY <1>1, <1>2, SlotType DEF FifoType
  <1>6. fifo' = [at |-> pushed, wr |-> wptr, rd |-> rptr]
    BY <1>1 DEF Fifo
  <1> QED
    BY <1>4, <1>5, <1>6 DEF FifoType

(* The next beat the memory is to take has an address.                       *)
LEMMA DueType == ASSUME FType PROVE Due \in Burstful
  <1>1. arb \in ArbType /\ mem \in MemType
    BY DEF FType
  <1>2. CASE mem.write.left = 0
    BY <1>1, <1>2 DEF ArbType, Burstful, Due
  <1>3. CASE mem.write.left # 0
    BY <1>1, <1>3 DEF MemType, Due
  <1> QED
    BY <1>2, <1>3

(* The arbiter stays in type, with a reset or without.                       *)
LEMMA ArbStep ==
    ASSUME FType, NEW busy \in BOOLEAN, NEW beat \in BOOLEAN, NEW abandon \in BOOLEAN,
           Arbiter(busy, beat, abandon)
    PROVE arb' \in ArbType
  <1>1. arb \in ArbType
    BY DEF FType
  <1>2. IdleArbiter \in ArbType
    BY PlaceFacts DEF ArbType, IdleArbiter
  <1>3. Ended \in ArbType
    BY <1>1, <1>2 DEF ArbType, Ended
  <1>4. OneBeat \in ArbType
    <2>1. CASE arb.beats = 1
      BY <1>3, <2>1 DEF OneBeat
    <2>2. CASE arb.beats # 1
      BY <1>1, <2>2 DEF ArbType, OneBeat
    <2> QED
      BY <2>1, <2>2
  <1>5. GrantRead \in ArbType
    BY <1>1 DEF FType, RdType, ArbType, GrantRead
  <1>6. GrantWrite \in ArbType
    BY <1>1 DEF FType, WrType, ArbType, GrantWrite
  <1> DEFINE offered(a) == [a EXCEPT !.reading = @ /\ busy, !.grant = FALSE]
             next == CASE arb.state = "idle" /\ rd.req -> GrantRead
                       [] arb.state = "idle" /\ ~rd.req /\ wr.state = "burst" -> GrantWrite
                       [] arb.state = "read" ->
                            offered(IF beat THEN OneBeat ELSE IF abandon THEN Ended ELSE arb)
                       [] arb.state = "write" /\ ~busy -> OneBeat
                       [] OTHER -> arb
  <1>7. \A a \in ArbType : offered(a) \in ArbType
    BY DEF ArbType
  <1>8. next \in ArbType
    <2>1. CASE arb.state = "idle" /\ rd.req
      BY <1>5, <2>1
    <2>2. CASE arb.state = "idle" /\ ~rd.req /\ wr.state = "burst"
      BY <1>6, <2>2
    <2>3. CASE arb.state = "read"
      <3> DEFINE a == IF beat THEN OneBeat ELSE IF abandon THEN Ended ELSE arb
      <3>1. a \in ArbType
        BY <1>1, <1>3, <1>4
      <3>2. next = offered(a)
        BY <2>3
      <3> QED
        BY <1>7, <3>1, <3>2
    <2>4. CASE arb.state = "write" /\ ~busy
      BY <1>4, <2>4
    <2>5. CASE arb.state # "read" /\ ~(arb.state = "idle" /\ rd.req)
               /\ ~(arb.state = "idle" /\ ~rd.req /\ wr.state = "burst")
               /\ ~(arb.state = "write" /\ ~busy)
      BY <1>1, <2>5
    <2> QED
      BY <2>1, <2>2, <2>3, <2>4, <2>5
  <1>9. arb' = IF ResetTaken THEN IdleArbiter
               ELSE [next EXCEPT !.pending = @ \/ (resetting /\ arb.state # "idle")]
    BY DEF Arbiter
  <1> HIDE DEF next
  <1> QED
    BY <1>2, <1>8, <1>9 DEF ArbType

(* The memory's bursts stay in type.                                         *)
LEMMA MemStep ==
    ASSUME FType, NEW busy \in BOOLEAN, NEW beat \in BOOLEAN, NEW short \in BOOLEAN,
           Memory(busy, beat, short)
    PROVE mem' \in MemType
  <1>1. arb \in ArbType /\ mem \in MemType
    BY DEF FType
  <1>2. Burstless \in Burstful /\ [at |-> arb.at, left |-> arb.count] \in Burstful
    BY <1>1, PlaceFacts DEF Burstful, Burstless, ArbType
  <1>3. ASSUME NEW b \in Burstful PROVE Served(b) \in Burstful
    <2>0. b.at \in Place /\ b.left \in Int
      BY DEF Burstful
    <2>1. Ahead(b.at, 1) \in Place
      BY <2>0, PlaceFacts
    <2>3. b.left - 1 \in Int
      BY <2>0
    <2>2. [at |-> Ahead(b.at, 1), left |-> b.left - 1] \in Burstful
      BY <2>1, <2>3 DEF Burstful
    <2> QED
      BY <1>2, <2>2 DEF Served
  <1>4. Served(Due) \in Burstful /\ Served(mem.read) \in Burstful
    BY <1>1, <1>3, DueType DEF MemType
  <1> DEFINE w == IF arb.state = "write" /\ ~busy THEN Served(Due) ELSE mem.write
             r == CASE arb.reading /\ ~busy -> [at |-> arb.at, left |-> arb.count]
                    [] beat -> Served(mem.read)
                    [] short -> Burstless
                    [] OTHER -> mem.read
  <1>5. w \in Burstful
    BY <1>1, <1>4 DEF MemType
  <1>6. r \in Burstful
    BY <1>1, <1>2, <1>4 DEF MemType
  <1>7. mem' = [write |-> w, read |-> r]
    BY DEF Memory
  <1> QED
    BY <1>5, <1>6, <1>7 DEF MemType

(* The readout stays in type.                                                *)
LEMMA RdClock ==
    ASSUME FType, NEW e, NEW tick, NEW busy, NEW answer, NEW enable,
           ClockOf(e, tick, busy, answer, enable)
    PROVE rd' \in RdType
  <1>1. rd \in RdType /\ cap \in CapType /\ enable \in BOOLEAN
    BY DEF FType, ClockOf
  <1>2. /\ rd.v + 1 \in Int /\ 1 - rd.field \in {0, 1} /\ rd.fill + 1 \in Nat
        /\ rd.left - 1 \in Int /\ rd.beats - 1 \in Int /\ 0 \in Int /\ 0 \in Nat
        /\ RdBurst \in Int /\ Words \in Int
    BY <1>1, BurstFacts, SetupFacts DEF RdType
  <1>3. /\ rd.fetch \in Place /\ rd.line \in Place /\ <<0, 0>> \in Place
        /\ Ahead(rd.fetch, 1) \in Place
    BY <1>1, PlaceFacts DEF RdType
  <1>4. CASE tick
    <2>1. LineTick(enable)
      BY <1>4 DEF ClockOf
    <2>2. CASE FieldEnd
      <3> DEFINE b == IF Adopt THEN cap.frameBuffer ELSE rd.buffer
                 v == IF Adopt THEN cap.valid /\ enable ELSE rd.valid
      <3>1. b \in Buffers /\ v \in BOOLEAN
        BY <1>1 DEF RdType, CapType
      <3>2. FirstLine \in Place
        BY <3>1, SetupFacts, PlaceFacts DEF FirstLine
      <3>3. rd' = [rd EXCEPT !.v = 0, !.field = 1 - rd.field, !.line = FirstLine, !.state = "idle",
                             !.buffer = b, !.valid = v]
        BY <2>1, <2>2 DEF LineTick
      <3> HIDE DEF b, v
      <3> QED
        BY <1>1, <1>2, <3>1, <3>2, <3>3, RdSet, Zenon
    <2>3. CASE ~FieldEnd /\ Active(rd.v + 2) /\ rd.valid
      <3>1. 2 * Words \in Nat
        BY SetupFacts
      <3>2. Ahead(rd.line, 2 * Words) \in Place
        BY <1>3, <3>1, PlaceFacts
      <3>3. rd' = [rd EXCEPT !.v = rd.v + 1, !.fetch = rd.line, !.line = Ahead(rd.line, 2 * Words),
                             !.left = Words, !.fill = 0, !.state = "request"]
        BY <2>1, <2>3 DEF LineTick
      <3> QED
        BY <1>1, <1>2, <1>3, <3>2, <3>3, RdSet, Zenon
    <2>4. CASE ~FieldEnd /\ ~(Active(rd.v + 2) /\ rd.valid)
      <3>1. rd' = [rd EXCEPT !.v = rd.v + 1, !.state = "idle"]
        BY <2>1, <2>4 DEF LineTick
      <3> QED
        BY <1>1, <1>2, <3>1, RdSet, Zenon
    <2> QED
      BY <2>2, <2>3, <2>4
  <1>5. CASE ~tick
    <2>1. Fetch(answer = "beat")
      BY <1>5 DEF ClockOf
    <2>2. CASE rd.state = "idle"
      <3>1. rd' = [rd EXCEPT !.req = FALSE]
        BY <2>1, <2>2 DEF Fetch, Taking
      <3> QED
        BY <1>1, <3>1, RdSet, Zenon
    <2>3. CASE rd.state = "request" /\ ~arb.grant
      <3>1. rd' = [rd EXCEPT !.req = TRUE, !.at = rd.fetch, !.count = RdBurst]
        BY <2>1, <2>3 DEF Fetch, Taking
      <3> QED
        BY <1>1, <1>2, <1>3, <3>1, RdSet, Zenon
    <2>4. CASE rd.state = "request" /\ arb.grant
      <3>1. rd' = [rd EXCEPT !.req = FALSE, !.at = <<0, 0>>, !.count = 0, !.beats = RdBurst,
                             !.state = "data"]
        BY <2>1, <2>4 DEF Fetch, Granted, Taking
      <3> QED
        BY <1>1, <1>2, <1>3, <3>1, RdSet, Zenon
    <2>5. CASE Taking(answer = "beat")
      <3> DEFINE s == IF rd.beats > 1 THEN rd.state ELSE IF rd.left = 1 THEN "idle" ELSE "request"
      <3>1. s \in {"idle", "request", "data"}
        BY <1>1 DEF RdType
      <3>2. rd' = [rd EXCEPT !.fill = rd.fill + 1, !.fetch = Ahead(rd.fetch, 1), !.left = rd.left - 1,
                             !.beats = rd.beats - 1, !.state = s]
        BY <2>1, <2>5 DEF Fetch, Taking
      <3> HIDE DEF s
      <3> QED
        BY <1>1, <1>2, <1>3, <3>1, <3>2, RdSet, Zenon
    <2>6. CASE rd.state = "data" /\ ~Taking(answer = "beat")
      <3>1. rd' = rd
        BY <2>1, <2>6 DEF Fetch
      <3> QED
        BY <1>1, <3>1
    <2> QED
      BY <1>1, <2>2, <2>3, <2>4, <2>5, <2>6 DEF RdType
  <1> QED
    BY <1>4, <1>5 DEF ClockOf

Publishes(e) ==
    /\ e \in {"blank", "lastLineEnd"} /\ cap.capturing /\ cap.linesFull /\ cap.keptUp
    /\ (IF Ends(e) THEN cap.lines + 1 ELSE cap.lines) = Lines

(* Each register of the capture's video side after a clock                   *)
(* (ega_fb_capture.v:155-266).                                               *)
LEMMA CapFacts ==
    ASSUME FType, NEW e, NEW tick, NEW busy, NEW answer, NEW enable,
           ClockOf(e, tick, busy, answer, enable)
    PROVE /\ e = "picture" =>
               /\ cap'.buffer = FreeBuffer /\ cap'.lines = 0 /\ cap'.push = NoWord
               /\ cap'.frameBuffer = cap.frameBuffer /\ cap'.valid = cap.valid
          /\ e # "picture" =>
               /\ cap'.buffer = cap.buffer /\ cap'.capturing = cap.capturing
               /\ (cap'.linesFull <=> cap.linesFull /\ ~Short(e))
               /\ (cap'.keptUp <=> cap.keptUp /\ ~(Pushing /\ FifoFull))
               /\ cap'.lines = (IF Ends(e) THEN cap.lines + 1 ELSE cap.lines)
               /\ cap'.push = (IF e = "word" /\ cap.capturing /\ video.words < Words
                              THEN <<cap.buffer, cap.lines * Words + video.words>> ELSE NoWord)
               /\ cap'.frameBuffer = (IF Publishes(e) THEN cap.buffer ELSE cap.frameBuffer)
               /\ cap'.valid => cap.valid \/ Publishes(e)
  <1>1. cap \in CapType
    BY DEF FType
  <1>2. CASE e = "picture"
    <2>1. StartPicture(enable)
      BY <1>2 DEF ClockOf
    <2> QED
      BY <1>1, <1>2, <2>1 DEF CapType, StartPicture
  <1>3. CASE e # "picture"
    <2>1. Account(e, enable)
      BY <1>3 DEF ClockOf
    <2> QED
      BY <1>1, <1>3, <2>1 DEF CapType, Account, Publishes
  <1> QED
    BY <1>2, <1>3

(* Each register of the capture's DDR side after a clock, by what it is      *)
(* doing.                                                                    *)
LEMMA WrFacts ==
    ASSUME FType, NEW e, NEW tick, NEW busy, NEW answer, NEW enable,
           ClockOf(e, tick, busy, answer, enable)
    PROVE /\ Restart(e) => wr'.at = <<cap'.buffer, 0>> /\ ~wr'.restart /\ wr'.state = "idle"
          /\ ~Restart(e) =>
               /\ wr'.at = (IF Popped(busy) THEN Ahead(wr.at, 1) ELSE wr.at)
               /\ wr'.restart <=> wr.restart \/ e = "picture"
               /\ wr.state = "idle" =>
                    IF NextBurst = 0 THEN wr' = wr ELSE wr'.state = "prep" /\ wr'.beats = NextBurst
               /\ wr.state = "prep" => wr'.state = "burst" /\ wr'.beats = wr.beats
               /\ wr.state = "burst" /\ ~Popped(busy) => wr'.state = "burst" /\ wr'.beats = wr.beats
               /\ Popped(busy) =>
                    /\ wr.state = "burst" /\ wr'.beats = wr.beats - 1
                    /\ wr'.state = IF wr.beats = 1 THEN "idle" ELSE "burst"
  <1>1. wr \in WrType /\ Writer(e, busy)
    BY DEF FType, ClockOf
  <1>2. CASE Restart(e)
    BY <1>1, <1>2 DEF WrType, Writer, Restart
  <1>3. CASE ~Restart(e) /\ wr.state = "idle"
    BY <1>1, <1>3 DEF WrType, Writer, Restart, Popped
  <1>4. CASE wr.state = "prep"
    BY <1>1, <1>4 DEF WrType, Writer, Restart, Popped
  <1>5. CASE wr.state = "burst"
    <2>1. CASE Popped(busy)
      BY <1>1, <1>5, <2>1 DEF WrType, Writer, Restart
    <2>2. CASE ~Popped(busy)
      BY <1>1, <1>5, <2>2 DEF WrType, Writer, Restart
    <2> QED
      BY <2>1, <2>2
  <1> QED
    BY <1>1, <1>2, <1>3, <1>4, <1>5 DEF WrType

(* The pointers after a clock, and the only slots that change: the one pushed*)
(* to and the one popped.                                                    *)
LEMMA FifoFacts ==
    ASSUME FType, NEW e, NEW tick, NEW busy, NEW answer, NEW enable,
           ClockOf(e, tick, busy, answer, enable)
    PROVE /\ fifo'.wr = (IF e = "picture" THEN 0
                        ELSE IF Pushing /\ ~FifoFull THEN (fifo.wr + 1) % (2 * Depth) ELSE fifo.wr)
          /\ fifo'.rd = (IF Restart(e) THEN 0
                        ELSE IF Popped(busy) THEN (fifo.rd + 1) % (2 * Depth) ELSE fifo.rd)
          /\ Pushing /\ ~FifoFull => fifo'.at[fifo.wr % Depth] = cap.push
          /\ \A s \in 0 .. Depth - 1 :
               /\ Popped(busy) => s # fifo.rd % Depth
               /\ Pushing /\ ~FifoFull => s # fifo.wr % Depth
               => fifo'.at[s] = fifo.at[s]
  <1>1. fifo \in FifoType /\ Fifo(e, busy)
    BY DEF FType, ClockOf
  <1> DEFINE popped == IF Popped(busy) THEN [fifo.at EXCEPT ![fifo.rd % Depth] = NoWord] ELSE fifo.at
             pushed == IF Pushing /\ ~FifoFull THEN [popped EXCEPT ![fifo.wr % Depth] = cap.push]
                       ELSE popped
  <1>2. fifo'.at = pushed
    BY <1>1 DEF Fifo
  <1>3. DOMAIN popped = 0 .. Depth - 1
    BY <1>1 DEF FifoType
  <1>4. \A s \in 0 .. Depth - 1 : (Popped(busy) => s # fifo.rd % Depth) => popped[s] = fifo.at[s]
    BY <1>1 DEF FifoType
  <1> HIDE DEF popped
  <1>5. Pushing /\ ~FifoFull => pushed[fifo.wr % Depth] = cap.push
    BY <1>3, SlotType
  <1>6. \A s \in 0 .. Depth - 1 :
            (Pushing /\ ~FifoFull => s # fifo.wr % Depth) => pushed[s] = popped[s]
    BY <1>3
  <1>7. /\ fifo'.wr = (IF e = "picture" THEN 0
                      ELSE IF Pushing /\ ~FifoFull THEN (fifo.wr + 1) % (2 * Depth) ELSE fifo.wr)
        /\ fifo'.rd = (IF Restart(e) THEN 0
                      ELSE IF Popped(busy) THEN (fifo.rd + 1) % (2 * Depth) ELSE fifo.rd)
    BY <1>1 DEF Fifo
  <1> HIDE DEF pushed
  <1> QED
    BY <1>2, <1>4, <1>5, <1>6, <1>7

(* A push raises the level by one, a pop lowers it by one, and a restart     *)
(* empties the FIFO.                                                         *)
LEMMA LevelFacts ==
    ASSUME FType, NEW e, NEW tick, NEW busy, NEW answer, NEW enable,
           ClockOf(e, tick, busy, answer, enable)
    PROVE /\ Restart(e) /\ (e = "picture" \/ (fifo.wr = 0 /\ ~Pushing)) => Level' = 0
          /\ ~Restart(e) /\ e # "picture" =>
               /\ ~Popped(busy) /\ ~(Pushing /\ ~FifoFull) => Level' = Level
               /\ ~Popped(busy) /\ Pushing /\ ~FifoFull => Level' = Level + 1
               /\ Popped(busy) /\ ~(Pushing /\ ~FifoFull) /\ Level > 0 => Level' = Level - 1
               /\ Popped(busy) /\ Pushing /\ ~FifoFull => Level' = Level
          /\ Level' \in 0 .. 2 * Depth - 1
  <1>1. fifo.wr \in 0 .. 2 * Depth - 1 /\ fifo.rd \in 0 .. 2 * Depth - 1
    BY DEF FType, FifoType
  <1>2. fifo.wr \in Int /\ fifo.rd \in Int /\ 2 * Depth \in Nat \ {0} /\ Depth \in Nat \ {0}
    BY <1>1, SetupFacts
  <1>3. /\ Level \in 0 .. 2 * Depth - 1
        /\ Level + 1 < 2 * Depth =>
             (((fifo.wr + 1) % (2 * Depth)) - fifo.rd) % (2 * Depth) = Level + 1
        /\ Level > 0 => (fifo.wr - ((fifo.rd + 1) % (2 * Depth))) % (2 * Depth) = Level - 1
        /\ (((fifo.wr + 1) % (2 * Depth)) - ((fifo.rd + 1) % (2 * Depth))) % (2 * Depth) = Level
    BY <1>2, LevelMoves, Zenon DEF Level
  <1>4. ~FifoFull => Level + 1 < 2 * Depth
    BY <1>2, <1>3 DEF FifoFull
  <1>5. Level' = (fifo'.wr - fifo'.rd) % (2 * Depth)
    BY DEF Level
  <1>6. 0 % (2 * Depth) = 0
    BY <1>2
  <1>7. Level' \in 0 .. 2 * Depth - 1
    <2>1. fifo'.wr - fifo'.rd \in Int
      BY FifoClock DEF FifoType
    <2> QED
      BY <1>2, <1>5, <2>1, DivMod
  <1>8. Restart(e) /\ (e = "picture" \/ (fifo.wr = 0 /\ ~Pushing)) => Level' = 0
    <2>1. Restart(e) /\ (e = "picture" \/ (fifo.wr = 0 /\ ~Pushing)) => fifo'.wr - fifo'.rd = 0
      BY FifoFacts
    <2> QED
      BY <1>5, <1>6, <2>1
  <1> QED
    BY <1>3, <1>4, <1>5, <1>7, <1>8, FifoFacts DEF Level

(* What the memory makes of a beat, an answer or a refusal.                  *)
LEMMA MemFacts ==
    ASSUME NEW busy, NEW beat, NEW short, NEW abandon, Port(busy, beat, short, abandon)
    PROVE /\ mem'.write = (IF arb.state = "write" /\ ~busy THEN Served(Due) ELSE mem.write)
          /\ arb.reading /\ ~busy /\ ~beat /\ ~short =>
               mem'.read = [at |-> arb.at, left |-> arb.count]
          /\ ~(arb.reading /\ ~busy) /\ beat /\ ~short => mem'.read = Served(mem.read)
          /\ ~(arb.reading /\ ~busy) /\ ~beat /\ short => mem'.read = Burstless
          /\ ~(arb.reading /\ ~busy) /\ ~beat /\ ~short => mem'.read = mem.read
  BY DEF Port, Memory

(* Each register of the arbiter after a clock, by its state                  *)
(* (ega_ddr_arbiter.v).                                                      *)
LEMMA ArbFacts ==
    ASSUME FType, NEW busy \in BOOLEAN, NEW beat \in BOOLEAN, NEW short, NEW abandon \in BOOLEAN,
           Port(busy, beat, short, abandon)
    PROVE /\ arb.state = "idle" =>
               /\ ResetTaken => arb' = IdleArbiter
               /\ ~ResetTaken /\ rd.req =>
                    /\ arb'.state = "read" /\ arb'.beats = rd.count /\ arb'.at = rd.at
                    /\ arb'.count = rd.count /\ arb'.reading = TRUE /\ arb'.grant = TRUE
                    /\ arb'.pending = arb.pending
               /\ ~ResetTaken /\ ~rd.req /\ wr.state = "burst" =>
                    /\ arb'.state = "write" /\ arb'.beats = wr.beats /\ arb'.at = wr.at
                    /\ arb'.count = wr.beats /\ arb'.reading = arb.reading
                    /\ arb'.grant = arb.grant /\ arb'.pending = arb.pending
               /\ ~ResetTaken /\ ~rd.req /\ wr.state # "burst" => arb' = arb
          /\ arb.state = "read" =>
               /\ arb'.grant = FALSE /\ arb'.pending = (arb.pending \/ resetting)
               /\ ~beat /\ ~abandon =>
                    /\ arb'.state = "read" /\ arb'.beats = arb.beats /\ arb'.at = arb.at
                    /\ arb'.count = arb.count /\ arb'.reading = (arb.reading /\ busy)
               /\ beat /\ arb.beats # 1 =>
                    /\ arb'.state = "read" /\ arb'.beats = arb.beats - 1 /\ arb'.at = arb.at
                    /\ arb'.count = arb.count /\ arb'.reading = (arb.reading /\ busy)
               /\ (beat /\ arb.beats = 1) \/ (~beat /\ abandon) =>
                    arb'.state = "idle" /\ arb'.reading = FALSE
          /\ arb.state = "write" =>
               /\ arb'.pending = (arb.pending \/ resetting)
               /\ busy => /\ arb'.state = "write" /\ arb'.beats = arb.beats /\ arb'.at = arb.at
                          /\ arb'.count = arb.count
               /\ ~busy /\ arb.beats # 1 =>
                    /\ arb'.state = "write" /\ arb'.beats = arb.beats - 1 /\ arb'.at = arb.at
                    /\ arb'.count = arb.count
               /\ ~busy /\ arb.beats = 1 => arb'.state = "idle"
               /\ arb'.reading => arb.reading
               /\ arb'.grant => arb.grant
  <1>1. arb \in ArbType /\ Arbiter(busy, beat, abandon)
    BY DEF FType, Port
  <1>2. CASE arb.state = "idle"
    BY <1>1, <1>2 DEF ArbType, Arbiter, ResetTaken, GrantRead, GrantWrite
  <1>3. CASE arb.state = "read"
    <2> DEFINE of == IF beat THEN OneBeat ELSE IF abandon THEN Ended ELSE arb
    <2>1. arb' = [[of EXCEPT !.reading = @ /\ busy, !.grant = FALSE]
                  EXCEPT !.pending = @ \/ (resetting /\ arb.state # "idle")]
      BY <1>1, <1>3 DEF Arbiter, ResetTaken
    <2>2. of \in ArbType
      <3>1. IdleArbiter \in ArbType
        BY PlaceFacts DEF ArbType, IdleArbiter
      <3>2. arb.beats - 1 \in Int /\ arb.pending \in BOOLEAN
        BY <1>1 DEF ArbType
      <3>3. Ended \in ArbType
        BY <3>1, <3>2, ArbSet, Zenon DEF Ended
      <3>4. OneBeat \in ArbType
        BY <1>1, <3>2, <3>3, ArbSet, Zenon DEF OneBeat
      <3> QED
        BY <1>1, <3>3, <3>4
    <2>3. /\ (~beat /\ ~abandon) \/ (beat /\ arb.beats # 1) =>
               /\ of.state = "read" /\ of.at = arb.at /\ of.count = arb.count
               /\ of.reading = arb.reading /\ of.pending = arb.pending
          /\ ~beat /\ ~abandon => of.beats = arb.beats
          /\ beat /\ arb.beats # 1 => of.beats = arb.beats - 1
          /\ (beat /\ arb.beats = 1) \/ (~beat /\ abandon) =>
               of.state = "idle" /\ of.reading = FALSE /\ of.pending = arb.pending
      BY <1>1, <1>3 DEF ArbType, OneBeat, Ended, IdleArbiter
    <2> HIDE DEF of
    <2>4. /\ arb'.state = of.state /\ arb'.beats = of.beats /\ arb'.at = of.at
          /\ arb'.count = of.count /\ arb'.reading = (of.reading /\ busy) /\ arb'.grant = FALSE
          /\ arb'.pending = (of.pending \/ resetting)
      BY <1>3, <2>1, <2>2 DEF ArbType
    <2> QED
      BY <1>1, <1>3, <2>2, <2>3, <2>4 DEF ArbType
  <1>4. CASE arb.state = "write"
    BY <1>1, <1>4 DEF ArbType, Arbiter, ResetTaken, OneBeat, Ended, IdleArbiter
  <1> QED
    BY <1>1, <1>2, <1>3, <1>4 DEF ArbType

(* The readout takes up the published buffer or keeps its own, and turns away*)
(* from a fetch only when a line begins.                                     *)
LEMMA RdFacts ==
    ASSUME FType, NEW e, NEW tick, NEW busy, NEW answer, NEW enable,
           ClockOf(e, tick, busy, answer, enable)
    PROVE /\ rd'.buffer \in {rd.buffer, cap.frameBuffer}
          /\ rd'.valid /\ rd'.buffer # rd.buffer => cap.valid
          /\ rd'.valid => rd.valid \/ (cap.valid /\ rd'.buffer = cap.frameBuffer)
          /\ tick => rd'.req = rd.req /\ rd'.state \in {"idle", "request"}
          /\ tick /\ rd'.state # "idle" => rd.valid /\ rd'.valid
          /\ ~tick /\ rd'.state # "idle" => rd.state # "idle"
          /\ ~tick => /\ rd'.v = rd.v /\ rd'.field = rd.field /\ rd'.line = rd.line
                      /\ rd'.buffer = rd.buffer /\ rd'.valid = rd.valid
  <1>1. rd \in RdType /\ cap \in CapType /\ enable \in BOOLEAN /\ tick \in BOOLEAN
    BY DEF FType, ClockOf
  <1>2. CASE tick
    <2>1. LineTick(enable)
      BY <1>2 DEF ClockOf
    <2>2. CASE FieldEnd
      BY <1>1, <1>2, <2>1, <2>2 DEF RdType, CapType, LineTick
    <2>3. CASE ~FieldEnd
      BY <1>1, <1>2, <2>1, <2>3 DEF RdType, LineTick
    <2> QED
      BY <2>2, <2>3
  <1>3. CASE ~tick
    <2>1. Fetch(answer = "beat")
      BY <1>3 DEF ClockOf
    <2> QED
      BY <1>1, <1>3, <2>1 DEF RdType, Fetch, Granted, Taking
  <1> QED
    BY <1>1, <1>2, <1>3

(* What the two histories say of the clock before.                           *)
LEMMA CalmFacts ==
    ASSUME FType, NEW e, NEW tick, NEW busy, NEW answer, NEW enable,
           ClockOf(e, tick, busy, answer, enable)
    PROVE /\ calm' = 3 => answer # "short" /\ calm >= 2 /\ (~tick => calm = 3)
          /\ passed' = (IF wr.state # "burst" \/ arb.state = "write" THEN 0
                        ELSE IF arb.state = "idle" /\ rd.req THEN Least(3, passed + 1) ELSE passed)
  <1>1. calm \in 0 .. 3 /\ tick \in BOOLEAN /\ History(tick, answer = "short")
    BY DEF FType, ClockOf
  <1>2. CASE answer = "short"
    BY <1>1, <1>2 DEF History
  <1>3. CASE answer # "short"
    BY <1>1, <1>3 DEF History, Least
  <1> QED
    BY <1>2, <1>3

(* The readout at the end of a line: the next line is fetched if it is one of*)
(* the picture (ega_fb_readout.v:282-288, 325-357).                                   *)
LEMMA RdTickFacts ==
    ASSUME FType, NEW enable \in BOOLEAN, LineTick(enable)
    PROVE /\ FieldEnd =>
               /\ rd'.v = 0 /\ rd'.field = 1 - rd.field /\ rd'.state = "idle"
               /\ rd'.line = <<rd'.buffer, IF rd.field = 1 THEN 0 ELSE Words>>
          /\ ~FieldEnd =>
               /\ rd'.v = rd.v + 1 /\ rd'.field = rd.field /\ rd'.buffer = rd.buffer
               /\ rd'.valid = rd.valid
          /\ ~FieldEnd /\ Active(rd.v + 2) /\ rd.valid =>
               /\ rd'.fetch = rd.line /\ rd'.line = Ahead(rd.line, 2 * Words)
               /\ rd'.left = Words /\ rd'.fill = 0 /\ rd'.state = "request"
          /\ ~FieldEnd /\ ~(Active(rd.v + 2) /\ rd.valid) => rd'.line = rd.line /\ rd'.state = "idle"
          /\ rd'.req = rd.req
  <1>1. rd \in RdType
    BY DEF FType
  <1>2. CASE FieldEnd
    BY <1>1, <1>2 DEF RdType, LineTick, FirstLine
  <1>3. CASE ~FieldEnd /\ Active(rd.v + 2) /\ rd.valid
    BY <1>1, <1>3 DEF RdType, LineTick
  <1>4. CASE ~FieldEnd /\ ~(Active(rd.v + 2) /\ rd.valid)
    BY <1>1, <1>4 DEF RdType, LineTick
  <1> QED
    BY <1>2, <1>3, <1>4

(* The readout within a line.                                                *)
LEMMA RdFetchFacts ==
    ASSUME FType, NEW beat \in BOOLEAN, Fetch(beat)
    PROVE /\ rd.state = "idle" => rd'.state = "idle" /\ ~rd'.req
          /\ rd.state = "request" /\ ~arb.grant =>
               /\ rd'.state = "request" /\ rd'.req /\ rd'.at = rd.fetch /\ rd'.count = RdBurst
               /\ rd'.fetch = rd.fetch /\ rd'.left = rd.left /\ rd'.fill = rd.fill
          /\ rd.state = "request" /\ arb.grant =>
               /\ rd'.state = "data" /\ ~rd'.req /\ rd'.beats = RdBurst
               /\ rd'.fetch = rd.fetch /\ rd'.left = rd.left /\ rd'.fill = rd.fill
          /\ Taking(beat) =>
               /\ rd'.state = IF rd.beats > 1 THEN "data"
                              ELSE IF rd.left = 1 THEN "idle" ELSE "request"
               /\ rd'.fetch = Ahead(rd.fetch, 1) /\ rd'.left = rd.left - 1
               /\ rd'.fill = rd.fill + 1 /\ rd'.beats = rd.beats - 1 /\ rd'.req = rd.req
          /\ rd.state = "data" /\ ~Taking(beat) => rd' = rd
  <1>1. rd \in RdType
    BY DEF FType
  <1>2. CASE rd.state = "idle"
    BY <1>1, <1>2 DEF RdType, Fetch, Taking
  <1>3. CASE rd.state = "request" /\ ~arb.grant
    BY <1>1, <1>3 DEF RdType, Fetch, Taking
  <1>4. CASE rd.state = "request" /\ arb.grant
    BY <1>1, <1>4 DEF RdType, Fetch, Granted, Taking
  <1>5. CASE Taking(beat)
    BY <1>1, <1>5 DEF RdType, Fetch, Taking
  <1>6. CASE rd.state = "data" /\ ~Taking(beat)
    BY <1>1, <1>6 DEF Fetch
  <1> QED
    BY <1>1, <1>2, <1>3, <1>4, <1>5, <1>6 DEF RdType, Taking

(* A read burst begins only because it is asked for, with the address and the*)
(* length asked for.                                                         *)
LEMMA GrantFacts ==
    ASSUME FType, NEW busy \in BOOLEAN, NEW beat \in BOOLEAN, NEW short, NEW abandon \in BOOLEAN,
           Port(busy, beat, short, abandon), arb.state # "read", arb'.state = "read"
    PROVE /\ rd.req /\ arb'.grant /\ arb'.reading
          /\ arb'.at = rd.at /\ arb'.count = rd.count
  <1>1. arb.state \in {"idle", "read", "write"}
    BY DEF FType, ArbType
  <1>2. arb.state = "idle"
    <2>1. arb.state = "write" => arb'.state \in {"write", "idle"}
      BY ArbFacts
    <2> QED
      BY <1>1, <2>1
  <1>3. ~ResetTaken
    <2>1. ResetTaken => arb' = IdleArbiter
      BY <1>2, ArbFacts
    <2> QED
      BY <2>1 DEF IdleArbiter
  <1>4. rd.req
    <2>1. ~rd.req /\ wr.state = "burst" => arb'.state = "write"
      BY <1>2, <1>3, ArbFacts
    <2>2. ~rd.req /\ wr.state # "burst" => arb' = arb
      BY <1>2, <1>3, ArbFacts
    <2> QED
      BY <1>2, <2>1, <2>2
  <1> QED
    BY <1>2, <1>3, <1>4, ArbFacts
-----------------------------------------------------------------------------

(* The memory answers only what it was asked; the watchdog ends only a read  *)
(* of which nothing is coming.                                               *)
LEMMA AnswerFacts == ASSUME NEW busy \in Busies, NEW answer \in Answers
    PROVE /\ busy \in BOOLEAN
          /\ answer = "beat" => mem.read.left # 0
          /\ answer = "short" => mem.read.left # 0 /\ calm = 3
          /\ answer = "abandon" => Stuck
  <1>1. busy \in BOOLEAN
    BY DEF Busies
  <1>2. answer = "beat" => mem.read.left # 0
    BY DEF Answers
  <1>3. answer = "short" => mem.read.left # 0 /\ calm = 3
    BY DEF Answers
  <1>4. answer = "abandon" => Stuck
    BY DEF Answers
  <1> QED
    BY <1>1, <1>2, <1>3, <1>4

(* All registers stay in type.                                               *)
LEMMA TypeClock ==
    ASSUME FType, NEW e, NEW tick, NEW busy, NEW answer, NEW enable,
           ClockOf(e, tick, busy, answer, enable)
    PROVE FType'
  <1>1. setup' \in Setups /\ resetting' \in BOOLEAN
    BY SetupFacts DEF FType, ClockOf
  <1>2. arb' \in ArbType /\ mem' \in MemType
    <2>1. busy \in BOOLEAN /\ Port(busy, answer = "beat", answer = "short", answer = "abandon")
      BY AnswerFacts DEF ClockOf
    <2>2. /\ (answer = "beat") \in BOOLEAN /\ (answer = "short") \in BOOLEAN
          /\ (answer = "abandon") \in BOOLEAN
      OBVIOUS
    <2>3. Arbiter(busy, answer = "beat", answer = "abandon")
      BY <2>1 DEF Port
    <2>4. Memory(busy, answer = "beat", answer = "short")
      BY <2>1 DEF Port
    <2> QED
      BY <2>1, <2>2, <2>3, <2>4, ArbStep, MemStep
  <1>3. calm' \in 0 .. 3 /\ passed' \in 0 .. 3
    <2>1. calm \in 0 .. 3 /\ passed \in 0 .. 3 /\ History(tick, answer = "short")
      BY DEF FType, ClockOf
    <2> QED
      BY <2>1 DEF History, Least
  <1> QED
    BY <1>1, <1>2, <1>3, VideoClock, CapClock, WrClock, FifoClock, RdClock DEF FType

(* The buffer being captured is chosen apart from the two others, and they   *)
(* change to it only when the picture is over.                               *)
LEMMA BufferClock ==
    ASSUME FInv, NEW e, NEW tick, NEW busy, NEW answer, NEW enable,
           ClockOf(e, tick, busy, answer, enable)
    PROVE BufferInv'
  <1>1. FType /\ BufferInv
    BY DEF FInv
  <1>2. e \in Events
    BY DEF ClockOf
  <1>3. rd'.buffer \in {rd.buffer, cap.frameBuffer}
    BY <1>1, RdFacts
  <1>4. CASE e = "picture"
    BY <1>1, <1>3, <1>4, CapFacts, FreeFacts DEF BufferInv
  <1>5. CASE e # "picture" /\ ~video'.vblank
    <2>1. ~video.vblank /\ e \notin {"blank", "lastLineEnd"}
      BY <1>1, <1>5, VideoClock
    <2>2. cap'.buffer = cap.buffer /\ cap'.frameBuffer = cap.frameBuffer
      BY <1>1, <1>5, <2>1, CapFacts DEF Publishes
    <2> QED
      BY <1>1, <1>3, <2>1, <2>2 DEF BufferInv
  <1> QED
    BY <1>4, <1>5 DEF BufferInv

(* A picture that waits for the burst before it has pushed nothing yet: the  *)
(* source sends no word before the restart.                                  *)
LEMMA PictureClock ==
    ASSUME FInv, NEW e, NEW tick, NEW busy, NEW answer, NEW enable,
           ClockOf(e, tick, busy, answer, enable)
    PROVE PictureInv'
  <1>1. FType /\ PictureInv /\ e \in Events
    BY DEF FInv, ClockOf
  <1>2. e # "word" => cap'.push = NoWord
    BY <1>1, CapFacts
  <1>3. wr'.restart => cap'.lines = 0 /\ video'.words = 0 /\ ~(cap'.push # NoWord) /\ fifo'.wr = 0
    <2> SUFFICES ASSUME wr'.restart
                 PROVE  cap'.lines = 0 /\ video'.words = 0 /\ cap'.push = NoWord /\ fifo'.wr = 0
      OBVIOUS
    <2>1. ~Restart(e) /\ (wr.restart \/ e = "picture")
      BY <1>1, WrFacts
    <2>2. CASE e = "picture"
      <3>1. video.words = 0
        BY <1>1, <2>2, EventFacts DEF PictureInv
      <3> QED
        BY <1>1, <2>2, <3>1, CapFacts, VideoClock, FifoFacts
    <2>3. CASE e # "picture" /\ wr.restart
      <3>1. cap.lines = 0 /\ video.words = 0 /\ ~Pushing /\ fifo.wr = 0
        BY <1>1, <2>3 DEF PictureInv
      <3>2. e \in {"none", "blank"}
        BY <1>1, <2>3, <3>1, EventFacts
      <3> QED
        BY <1>1, <2>3, <3>1, <3>2, CapFacts, VideoClock, FifoFacts DEF Ends
    <2> QED
      BY <2>1, <2>2, <2>3
  <1>4. ~wr'.restart => wr'.at[1] = cap'.buffer
    <2>1. CASE Restart(e)
      BY <1>1, <2>1, WrFacts
    <2>2. CASE ~Restart(e) /\ ~wr'.restart
      <3>1. e # "picture" /\ ~wr.restart
        BY <1>1, <2>2, WrFacts
      <3>2. wr'.at = Ahead(wr.at, 1) \/ wr'.at = wr.at
        BY <1>1, <2>2, WrFacts
      <3>3. wr'.at[1] = wr.at[1]
        BY <3>2 DEF Ahead
      <3> QED
        BY <1>1, <3>1, <3>3, CapFacts DEF PictureInv
    <2> QED
      BY <2>1, <2>2
  <1>5. video'.vblank => video'.words = 0 /\ ~(cap'.push # NoWord)
    BY <1>1, <1>2, VideoClock, EventFacts DEF PictureInv
  <1> QED
    BY <1>3, <1>4, <1>5 DEF PictureInv, Pushing

(* What is left of a burst after a beat.                                     *)
LEMMA ServedFacts == ASSUME NEW b
    PROVE /\ b.left = 1 => Served(b).left = 0
          /\ b.left # 1 => Served(b).left = b.left - 1 /\ Served(b).at = Ahead(b.at, 1)
  BY DEF Served, Burstless

(* Arbiter and memory go on counting together, with a reset or without.      *)
LEMMA PortCounts ==
    ASSUME FType, CountInv, ReadInv,
           NEW busy \in BOOLEAN, NEW beat \in BOOLEAN, NEW short \in BOOLEAN, NEW abandon \in BOOLEAN,
           Port(busy, beat, short, abandon),
           beat \/ short => mem.read.left # 0, abandon => Stuck, ~(beat /\ short)
    PROVE CountInv' /\ ReadInv'
  <1>1. /\ mem.write.left \in Int /\ mem.read.left \in Int /\ arb.count \in Int /\ arb.beats \in Int
        /\ Due.left \in Int
    BY DueType DEF FType, MemType, ArbType, Burstful
  <1>2. arb.state \in {"idle", "read", "write"}
    BY DEF FType, ArbType
  <1>3. CASE arb.state = "idle"
    <2>1. mem.write.left = 0 /\ mem.read.left = 0 /\ ~arb.reading /\ ~arb.grant /\ ~beat /\ ~short
      BY <1>3 DEF CountInv, ReadInv
    <2>2. mem'.write = mem.write /\ mem'.read = mem.read
      BY <1>3, <2>1, MemFacts
    <2>3. \/ arb' = IdleArbiter \/ arb' = arb
          \/ arb'.state = "read" /\ arb'.beats = arb'.count
          \/ /\ arb'.state = "write" /\ arb'.beats = arb'.count
             /\ arb'.reading = arb.reading /\ arb'.grant = arb.grant
      BY <1>3, ArbFacts
    <2>4. IdleArbiter.state = "idle" /\ IdleArbiter.reading = FALSE /\ IdleArbiter.grant = FALSE
      BY DEF IdleArbiter
    <2> QED
      BY <1>3, <2>1, <2>2, <2>3, <2>4 DEF CountInv, ReadInv
  <1>4. CASE arb.state = "read"
    <2>1. mem.write.left = 0 /\ mem'.write = mem.write
      BY <1>4, MemFacts DEF CountInv
    <2>2. CountInv'
      BY <1>4, <2>1, ArbFacts DEF CountInv
    <2>3. CASE arb.reading
      <3>1. mem.read.left = 0 /\ ~beat /\ ~short /\ ~abandon /\ arb.beats = arb.count
        BY <2>3 DEF ReadInv, Stuck
      <3>2. CASE busy
        <4>1. mem'.read = mem.read
          BY <3>1, <3>2, MemFacts
        <4> QED
          BY <2>2, <1>4, <3>1, <3>2, <4>1, ArbFacts DEF ReadInv
      <3>3. CASE ~busy
        <4>1. mem'.read = [at |-> arb.at, left |-> arb.count]
          BY <2>3, <3>1, <3>3, MemFacts
        <4>2. mem'.read.left = arb.count
          BY <4>1
        <4>3. arb'.state = "read" /\ arb'.beats = arb.beats /\ ~arb'.reading /\ ~arb'.grant
          BY <1>4, <3>1, <3>3, ArbFacts
        <4> QED
          BY <2>2, <3>1, <4>2, <4>3 DEF ReadInv
      <3> QED
        BY <2>2, <3>2, <3>3
    <2>4. CASE ~arb.reading /\ beat
      <3>1. mem.read.left = arb.beats /\ ~short /\ ~abandon
        BY <2>4 DEF ReadInv, Stuck
      <3>2. mem'.read = Served(mem.read)
        BY <2>4, <3>1, MemFacts
      <3> QED
        BY <2>2, <1>1, <1>4, <2>4, <3>1, <3>2, ServedFacts, ArbFacts DEF ReadInv
    <2>5. CASE ~arb.reading /\ ~beat
      <3>1. mem'.read = IF short THEN Burstless ELSE mem.read
        BY <2>5, MemFacts
      <3>2. Burstless.left = 0
        BY DEF Burstless
      <3>3. abandon => mem.read.left = 0 /\ ~short
        BY DEF Stuck
      <3> QED
        BY <2>2, <1>4, <2>5, <3>1, <3>2, <3>3, ArbFacts DEF ReadInv
    <2> QED
      BY <2>2, <2>3, <2>4, <2>5
  <1>5. CASE arb.state = "write"
    <2>1. ~arb.reading /\ ~arb.grant /\ mem.read.left = 0 /\ ~beat /\ ~short
      BY <1>5 DEF ReadInv
    <2>2. mem'.read = mem.read
      BY <2>1, MemFacts
    <2>3. ReadInv'
      BY <1>5, <2>1, <2>2, ArbFacts DEF ReadInv
    <2>4. Due.left = arb.beats
      BY <1>5 DEF CountInv, Due
    <2>5. CountInv'
      <3>1. CASE busy
        <4>1. mem'.write = mem.write
          BY <1>5, <3>1, MemFacts
        <4> QED
          BY <1>5, <3>1, <4>1, ArbFacts DEF CountInv
      <3>2. CASE ~busy
        <4>1. mem'.write = Served(Due)
          BY <1>5, <3>2, MemFacts
        <4> QED
          BY <1>1, <1>5, <2>4, <3>2, <4>1, ServedFacts, ArbFacts DEF CountInv
      <3> QED
        BY <3>1, <3>2
    <2> QED
      BY <2>3, <2>5
  <1> QED
    BY <1>2, <1>3, <1>4, <1>5

(* The same in a clock.                                                      *)
LEMMA PortClock ==
    ASSUME FInv, NEW e, NEW tick, NEW busy, NEW answer, NEW enable,
           ClockOf(e, tick, busy, answer, enable)
    PROVE CountInv' /\ ReadInv'
  <1> DEFINE beat == answer = "beat"
             short == answer = "short"
             abandon == answer = "abandon"
  <1>1. FType /\ CountInv /\ ReadInv
    BY DEF FInv
  <1>2. busy \in Busies /\ answer \in Answers /\ Port(busy, beat, short, abandon)
    BY DEF ClockOf
  <1>3. /\ beat \in BOOLEAN /\ short \in BOOLEAN /\ abandon \in BOOLEAN
        /\ busy \in BOOLEAN
        /\ beat \/ short => mem.read.left # 0
        /\ abandon => Stuck
        /\ ~(beat /\ short)
    BY <1>2, AnswerFacts
  <1> HIDE DEF beat, short, abandon
  <1> QED
    BY <1>1, <1>2, <1>3, PortCounts

(* A write burst begins as the capture asked for it, and each beat moves     *)
(* capture, arbiter and memory by one.                                       *)
LEMMA WriteClock ==
    ASSUME FInv, NEW e, NEW tick, NEW busy, NEW answer, NEW enable,
           ClockOf(e, tick, busy, answer, enable)
    PROVE WriteInv'
  <1>1. FType /\ WriteInv /\ CountInv /\ ReadInv /\ ~resetting /\ wr \in WrType /\ arb \in ArbType
    BY DEF FInv, ClockOf, FType
  <1>2. /\ busy \in BOOLEAN /\ (answer = "beat") \in BOOLEAN /\ (answer = "abandon") \in BOOLEAN
        /\ Port(busy, answer = "beat", answer = "short", answer = "abandon")
    BY AnswerFacts DEF ClockOf
  <1> SUFFICES ASSUME arb'.state = "write"
               PROVE  wr'.state = "burst" /\ wr'.beats = arb'.beats /\ Due'.at = wr'.at
    BY DEF WriteInv
  <1>3. Due' = IF mem'.write.left = 0 THEN [at |-> arb'.at, left |-> arb'.count] ELSE mem'.write
    BY DEF Due
  <1>4. CASE arb.state = "idle"
    <2>1. /\ wr.state = "burst" /\ arb'.beats = wr.beats /\ arb'.at = wr.at
          /\ mem.write.left = 0 /\ mem'.write = mem.write /\ ~Popped(busy)
      <3>1. arb' # IdleArbiter
        BY DEF IdleArbiter
      <3> QED
        BY <1>1, <1>2, <1>4, <3>1, ArbFacts, MemFacts DEF CountInv, Popped
    <2>2. ~Restart(e)
      BY <2>1 DEF Restart
    <2> QED
      BY <1>1, <1>3, <2>1, <2>2, WrFacts
  <1>5. CASE arb.state = "write"
    <2>1. wr.state = "burst" /\ wr.beats = arb.beats /\ Due.at = wr.at /\ ~Restart(e)
      BY <1>1, <1>5 DEF WriteInv, Restart
    <2>2. CASE busy
      <3>1. ~Popped(busy) /\ mem'.write = mem.write
        BY <1>2, <1>5, <2>2, MemFacts DEF Popped
      <3>2. arb'.beats = arb.beats /\ arb'.at = arb.at /\ arb'.count = arb.count
        BY <1>1, <1>2, <1>5, <2>2, ArbFacts
      <3>3. Due' = Due
        BY <1>3, <3>1, <3>2 DEF Due
      <3> QED
        BY <1>1, <2>1, <3>1, <3>2, <3>3, WrFacts
    <2>3. CASE ~busy
      <3>1. Popped(busy) /\ mem'.write = Served(Due)
        BY <1>2, <1>5, <2>1, <2>3, MemFacts DEF Popped
      <3>2. arb.beats # 1 /\ arb'.beats = arb.beats - 1
        BY <1>1, <1>2, <1>5, <2>3, ArbFacts
      <3>3. Due.left = arb.beats /\ arb.beats \in Int
        BY <1>1, <1>5 DEF CountInv, Due, ArbType
      <3>4. mem'.write.left # 0 /\ mem'.write.at = Ahead(Due.at, 1)
        BY <3>1, <3>2, <3>3, ServedFacts
      <3> QED
        BY <1>1, <1>3, <2>1, <3>1, <3>2, <3>4, WrFacts
    <2> QED
      BY <1>2, <2>2, <2>3
  <1>6. CASE arb.state = "read"
    BY <1>1, <1>2, <1>6, ArbFacts
  <1> QED
    BY <1>1, <1>4, <1>5, <1>6 DEF ArbType

(* No clock leaves the reset pending: it is taken at once when the reset is  *)
(* over.                                                                     *)
LEMMA PendingClock ==
    ASSUME FInv, NEW e, NEW tick, NEW busy, NEW answer, NEW enable,
           ClockOf(e, tick, busy, answer, enable)
    PROVE ~arb'.pending
  <1>1. FType /\ PendingInv /\ ~resetting /\ arb \in ArbType
    BY DEF FInv, ClockOf, FType
  <1>2. /\ busy \in BOOLEAN /\ (answer = "beat") \in BOOLEAN /\ (answer = "abandon") \in BOOLEAN
        /\ Port(busy, answer = "beat", answer = "short", answer = "abandon")
    BY AnswerFacts DEF ClockOf
  <1>3. CASE arb.pending
    <2>1. arb' = IdleArbiter
      BY <1>1, <1>2, <1>3, ArbFacts DEF PendingInv, ResetTaken
    <2> QED
      BY <2>1 DEF IdleArbiter
  <1>4. CASE ~arb.pending
    <2>1. ~ResetTaken
      BY <1>1, <1>4 DEF ResetTaken
    <2>2. CASE arb.state = "idle"
      <3>1. arb'.pending = arb.pending \/ arb' = arb
        BY <1>1, <1>2, <2>1, <2>2, ArbFacts
      <3> QED
        BY <1>4, <3>1
    <2>3. CASE arb.state = "read"
      BY <1>1, <1>2, <1>4, <2>3, ArbFacts
    <2>4. CASE arb.state = "write"
      BY <1>1, <1>2, <1>4, <2>4, ArbFacts
    <2> QED
      BY <1>1, <2>2, <2>3, <2>4 DEF ArbType
  <1> QED
    BY <1>3, <1>4

(* The beats of a burst that is offered are in the FIFO                      *)
(* (ega_fb_capture.v:362-379).                                               *)
LEMMA BurstLevel == ASSUME FType
    PROVE /\ Level \in Int /\ NextBurst \in Int /\ NextBurst >= 0
          /\ (NextBurst # 0 => NextBurst <= Level)
          /\ (Level = 0 => NextBurst = 0)
  <1>1. Level \in 0 .. 2 * Depth - 1 /\ WrBurst \in Nat \ {0}
    BY LevelType, BurstFacts
  <1> QED
    BY <1>1, SetupFacts DEF NextBurst

(* The FIFO never holds less than the burst needs, nor more than it has room *)
(* for.                                                                      *)
LEMMA LevelClock ==
    ASSUME FInv, NEW e, NEW tick, NEW busy, NEW answer, NEW enable,
           ClockOf(e, tick, busy, answer, enable)
    PROVE LevelInv'
  <1>1. FType /\ LevelInv /\ PictureInv /\ e \in Events /\ wr \in WrType
    BY DEF FInv, ClockOf, FType
  <1>2. Depth \in Nat \ {0} /\ Level \in Int /\ wr.beats \in Int
    BY <1>1, SetupFacts, BurstLevel DEF WrType
  <1>3. wr'.state # "idle" => wr'.beats > 0
    <2>1. CASE Restart(e)
      BY <1>1, <2>1, WrFacts
    <2>2. CASE ~Restart(e) /\ wr.state = "idle"
      BY <1>1, <2>2, WrFacts, BurstLevel
    <2>3. CASE ~Restart(e) /\ wr.state # "idle"
      BY <1>1, <1>2, <2>3, WrFacts DEF LevelInv, WrType
    <2> QED
      BY <2>1, <2>2, <2>3
  <1>4. ASSUME ~wr'.restart PROVE Level' <= Depth /\ (wr'.state # "idle" => wr'.beats <= Level')
    <2>1. CASE Restart(e)
      <3>1. e = "picture" \/ (fifo.wr = 0 /\ ~Pushing)
        BY <2>1 , <1>1 DEF Restart, PictureInv
      <3>2. Level' = 0 /\ wr'.state = "idle"
        BY <1>1, <2>1, <3>1, LevelFacts, WrFacts
      <3> QED
        BY <1>2, <3>2
    <2>2. CASE ~Restart(e)
      <3>1. ~wr.restart /\ e # "picture"
        BY <1>1, <1>4, <2>2, WrFacts
      <3>2. Level <= Depth /\ (wr.state # "idle" => wr.beats > 0 /\ wr.beats <= Level)
        BY <1>1, <3>1 DEF LevelInv
      <3>3. Popped(busy) => Level > 0 /\ wr.state = "burst"
        BY <1>2, <3>2 DEF Popped
      <3>4. Pushing /\ ~FifoFull => Level < Depth
        BY <1>2 DEF FifoFull
      <3>5. Level' = Level + (IF Pushing /\ ~FifoFull THEN 1 ELSE 0) - (IF Popped(busy) THEN 1 ELSE 0)
        BY <1>1, <1>2, <2>2, <3>1, <3>3, LevelFacts
      <3>6. Level' <= Depth
        BY <1>2, <3>2, <3>4, <3>5
      <3>7. wr'.state # "idle" => wr'.beats <= Level'
        <4>1. CASE wr.state = "idle"
          BY <1>1, <1>2, <2>2, <3>3, <3>5, <4>1, WrFacts, BurstLevel
        <4>2. CASE wr.state # "idle" /\ Popped(busy)
          BY <1>1, <1>2, <2>2, <3>2, <3>5, <4>2, WrFacts
        <4>3. CASE wr.state # "idle" /\ ~Popped(busy)
          BY <1>1, <1>2, <2>2, <3>2, <3>5, <4>3, WrFacts DEF WrType
        <4> QED
          BY <4>1, <4>2, <4>3
      <3> QED
        BY <3>6, <3>7
    <2> QED
      BY <2>1, <2>2
  <1> QED
    BY <1>3, <1>4 DEF LevelInv

(* Addresses ahead add up.                                                   *)
LEMMA AheadFacts == ASSUME NEW at \in Place, NEW i \in Int, NEW j \in Int
    PROVE /\ Ahead(Ahead(at, i), j) = Ahead(at, i + j) /\ Ahead(at, 0) = at
          /\ Ahead(at, i)[1] = at[1] /\ Ahead(at, i)[2] = at[2] + i
  BY DEF Ahead, Place

(* Words in the FIFO stay there, and in order, until they are popped.           *)
LEMMA HeldClock ==
    ASSUME FType, NEW e, NEW tick, NEW busy, NEW answer, NEW enable,
           ClockOf(e, tick, busy, answer, enable), ~Restart(e),
           NEW n \in Int, n <= Depth, Held(n), Pushing /\ ~FifoFull => n <= Level
    PROVE \A k \in 0 .. (IF Popped(busy) THEN n - 2 ELSE n - 1) :
            fifo'.at[(fifo'.rd + k) % Depth] = Ahead(wr'.at, k)
  <1>1. fifo.wr \in Int /\ fifo.rd \in Int /\ Level \in Int /\ Depth \in Nat \ {0}
    BY SetupFacts, BurstLevel DEF FType, FifoType
  <1>2. ASSUME NEW k \in 0 .. n - 1, Popped(busy) => k > 0
        PROVE  fifo'.at[(fifo.rd + k) % Depth] = Ahead(wr.at, k)
    <2> DEFINE s == (fifo.rd + k) % Depth
    <2>1. k \in Int /\ 0 <= k /\ k < n /\ k < Depth
      BY <1>1
    <2>2. s \in 0 .. Depth - 1
      <3>1. fifo.rd + k \in Int
        BY <1>1, <2>1
      <3> QED
        BY <1>1, <3>1, DivMod
    <2>3. Popped(busy) => s # fifo.rd % Depth
      <3>1. fifo.rd + k \in Int /\ (fifo.rd + k) - fifo.rd < Depth
        BY <1>1, <2>1
      <3>2. Popped(busy) => fifo.rd < fifo.rd + k
        BY <1>1, <1>2, <2>1
      <3> QED
        BY <1>1, <3>1, <3>2, ModApart
    <2>4. Pushing /\ ~FifoFull => s # fifo.wr % Depth
      <3> SUFFICES ASSUME Pushing /\ ~FifoFull PROVE s # fifo.wr % Depth
        OBVIOUS
      <3>1. k < Level /\ Level < Depth
        BY <1>1, <2>1 DEF FifoFull
      <3>2. /\ fifo.rd + k \in Int /\ fifo.rd + Level \in Int
            /\ fifo.rd + k < fifo.rd + Level /\ (fifo.rd + Level) - (fifo.rd + k) < Depth
        BY <1>1, <2>1, <3>1
      <3>3. (fifo.rd + k) % Depth # (fifo.rd + Level) % Depth
        BY <1>1, <3>2, ModApart
      <3>4. fifo.wr % Depth = (fifo.rd + Level) % Depth
        BY <1>1, SlotAtLevel, Zenon DEF Level
      <3> QED
        BY <3>3, <3>4
    <2>5. fifo.at[s] = Ahead(wr.at, k)
      BY <1>2 DEF Held
    <2>6. fifo'.at[s] = fifo.at[s]
      BY <2>2, <2>3, <2>4, FifoFacts
    <2> QED
      BY <2>5, <2>6
  <1>3. CASE Popped(busy)
    <2>1. fifo'.rd = (fifo.rd + 1) % (2 * Depth) /\ wr'.at = Ahead(wr.at, 1)
      BY <1>3, FifoFacts, WrFacts
    <2> SUFFICES ASSUME NEW k \in 0 .. n - 2
                 PROVE  fifo'.at[(fifo'.rd + k) % Depth] = Ahead(wr'.at, k)
      BY <1>3
    <2>2. k \in Int /\ k + 1 \in 0 .. n - 1 /\ k + 1 > 0 /\ fifo.rd + 1 \in Int
      BY <1>1
    <2>3. (((fifo.rd + 1) % (2 * Depth)) + k) % Depth = ((fifo.rd + 1) + k) % Depth
      BY <1>1, <2>2, SlotMoves, Zenon
    <2>4. (fifo.rd + 1) + k = fifo.rd + (k + 1)
      BY <1>1, <2>2
    <2>5. fifo'.at[(fifo.rd + (k + 1)) % Depth] = Ahead(wr.at, k + 1)
      BY <1>2, <2>2
    <2>6. Ahead(Ahead(wr.at, 1), k) = Ahead(wr.at, k + 1)
      <3>1. wr.at \in Place /\ 1 + k = k + 1
        BY <2>2 DEF FType, WrType
      <3> QED
        BY <2>2, <3>1, AheadFacts
    <2> QED
      BY <2>1, <2>3, <2>4, <2>5, <2>6
  <1>4. CASE ~Popped(busy)
    <2>1. fifo'.rd = fifo.rd /\ wr'.at = wr.at
      BY <1>4, FifoFacts, WrFacts
    <2> QED
      BY <1>2, <1>4, <2>1
  <1> QED
    BY <1>3, <1>4

(* A word that is pushed becomes the last of the FIFO.                          *)
LEMMA PushClock ==
    ASSUME FType, NEW e, NEW tick, NEW busy, NEW answer, NEW enable,
           ClockOf(e, tick, busy, answer, enable), ~Restart(e), e # "picture",
           Held(Level), Level <= Depth, Popped(busy) => Level > 0,
           Pushing => ~FifoFull /\ cap.push = Ahead(wr.at, Level)
    PROVE Held(Level)'
  <1>1. fifo.wr \in Int /\ fifo.rd \in Int /\ Level \in Int /\ Depth \in Nat \ {0}
    BY SetupFacts, BurstLevel DEF FType, FifoType
  <1>2. Level' = Level + (IF Pushing THEN 1 ELSE 0) - (IF Popped(busy) THEN 1 ELSE 0)
    BY <1>1, LevelFacts
  <1>3. \A k \in 0 .. (IF Popped(busy) THEN Level - 2 ELSE Level - 1) :
           fifo'.at[(fifo'.rd + k) % Depth] = Ahead(wr'.at, k)
    BY <1>1, HeldClock
  <1>4. ASSUME Pushing, NEW k, k = Level' - 1
        PROVE  fifo'.at[(fifo'.rd + k) % Depth] = Ahead(wr'.at, k)
    <2>1. fifo'.at[(fifo.rd + Level) % Depth] = Ahead(wr.at, Level)
      <3>1. fifo.wr % Depth = (fifo.rd + Level) % Depth
        BY <1>1, SlotAtLevel, Zenon DEF Level
      <3> QED
        BY <1>4, <3>1, FifoFacts
    <2>2. CASE Popped(busy)
      <3>1. k = Level - 1 /\ k \in Int /\ fifo.rd + 1 \in Int
        BY <1>1, <1>2, <1>4, <2>2
      <3>2. fifo'.rd = (fifo.rd + 1) % (2 * Depth) /\ wr'.at = Ahead(wr.at, 1)
        BY <2>2, FifoFacts, WrFacts
      <3>3. (((fifo.rd + 1) % (2 * Depth)) + k) % Depth = ((fifo.rd + 1) + k) % Depth
        BY <1>1, <3>1, SlotMoves, Zenon
      <3>4. (fifo.rd + 1) + k = fifo.rd + Level /\ 1 + k = Level
        BY <1>1, <3>1
      <3>5. Ahead(Ahead(wr.at, 1), k) = Ahead(wr.at, 1 + k)
        BY <3>1, AheadFacts DEF FType, WrType
      <3> QED
        BY <2>1, <3>2, <3>3, <3>4, <3>5
    <2>3. CASE ~Popped(busy)
      <3>1. k = Level
        BY <1>1, <1>2, <1>4, <2>3
      <3>2. fifo'.rd = fifo.rd /\ wr'.at = wr.at
        BY <2>3, FifoFacts, WrFacts
      <3> QED
        BY <2>1, <3>1, <3>2
    <2> QED
      BY <2>2, <2>3
  <1>5. Level' \in Int /\ \A k \in 0 .. Level' - 1 :
           \/ k \in 0 .. (IF Popped(busy) THEN Level - 2 ELSE Level - 1)
           \/ Pushing /\ k = Level' - 1
    BY <1>1, <1>2
  <1>6. \A k \in 0 .. Level' - 1 : fifo'.at[(fifo'.rd + k) % Depth] = Ahead(wr'.at, k)
    BY <1>3, <1>4, <1>5
  <1> QED
    BY <1>6 DEF Held

(* The lesser of two numbers.                                                *)
LEMMA LeastFacts == ASSUME NEW a \in Int, NEW b \in Int
    PROVE /\ a <= b => Least(a, b) = a
          /\ a >= b => Least(a, b) = b
          /\ Least(a, b) \in Int
  BY DEF Least

(* A line more is the words of a line more.                                  *)
LEMMA Distribute == ASSUME NEW a \in Int, NEW b \in Int, NEW c \in Int
    PROVE (a + b) * c = a * c + b * c
  OBVIOUS

(* A word is pushed to the address after the last one, as long as the picture*)
(* can still be published: a full FIFO or a short line rules that out        *)
(* (ega_fb_capture.v:17-21).                                                 *)
LEMMA CaptureClock ==
    ASSUME FInv, NEW e, NEW tick, NEW busy, NEW answer, NEW enable,
           ClockOf(e, tick, busy, answer, enable)
    PROVE CaptureInv'
  <1>1. FType /\ CaptureInv /\ PictureInv /\ LevelInv /\ e \in Events
    BY DEF FInv, ClockOf
  <1>2. /\ Words \in Nat \ {0} /\ Level \in Int /\ video.words \in Nat /\ cap.lines \in Nat
        /\ wr.at \in Place /\ wr.at[2] \in Nat /\ wr.beats \in Int /\ Depth \in Nat /\ Words' = Words
    BY <1>1, SetupFacts, BurstLevel, PlaceFacts DEF FType, VideoType, CapType, WrType, ClockOf, Words
  <1> SUFFICES ASSUME ~video'.vblank, ~wr'.restart, cap'.capturing, cap'.linesFull, cap'.keptUp
               PROVE  /\ Held(Level)'
                      /\ PushedSoFar' = cap'.lines * Words + Least(video'.words, Words)
                      /\ cap'.push # NoWord => cap'.push = Ahead(wr'.at, Level')
    BY <1>2 DEF CaptureInv, Held, Queued, Pushing
  <1>3. /\ cap'.push = NoWord => PushedSoFar' = wr'.at[2] + Level' + 0
        /\ cap'.push # NoWord => PushedSoFar' = wr'.at[2] + Level' + 1
        /\ ~Pushing => PushedSoFar = wr.at[2] + Level + 0
        /\ Pushing => PushedSoFar = wr.at[2] + Level + 1
    BY DEF PushedSoFar, Pushing
  <1>4. CASE Restart(e)
    <2>1. cap'.lines = 0 /\ video'.words = 0 /\ cap'.push = NoWord
      <3>1. CASE e = "picture"
        BY <1>1, <3>1, CapFacts, VideoClock, EventFacts DEF PictureInv
      <3>2. CASE e # "picture"
        <4>1. cap.lines = 0 /\ video.words = 0 /\ wr.restart
          BY <1>1, <1>4, <3>2 DEF PictureInv, Restart
        <4>2. e \in {"none", "blank"}
          BY <1>1, <3>2, <4>1, EventFacts
        <4> QED
          BY <1>1, <3>2, <4>1, <4>2, CapFacts, VideoClock DEF Ends
      <3> QED
        BY <3>1, <3>2
    <2>2. Level' = 0
      BY <1>1, <1>4, LevelFacts DEF Restart, PictureInv
    <2>3. wr'.at[2] = 0
      BY <1>1, <1>4, WrFacts
    <2>4. Held(Level)'
      BY <2>2 DEF Held
    <2> QED
      BY <1>2, <1>3, <2>1, <2>2, <2>3, <2>4, LeastFacts
  <1>5. CASE ~Restart(e)
    <2>1. ~wr.restart /\ e # "picture"
      BY <1>1, <1>5, WrFacts
    <2>2. ~video.vblank /\ e \in {"none", "word", "lineEnd"}
      BY <1>1, <2>1, VideoClock, EventFacts
    <2>3. /\ cap.capturing /\ cap.linesFull /\ cap.keptUp /\ ~Short(e)
          /\ ~(Pushing /\ FifoFull)
      BY <1>1, <2>1, CapFacts
    <2>4. /\ Held(Level) /\ PushedSoFar = cap.lines * Words + Least(video.words, Words)
          /\ Pushing => cap.push = Ahead(wr.at, Level)
      BY <1>1, <2>1, <2>2, <2>3 DEF CaptureInv, Held, Queued
    <2>5. Level <= Depth /\ (Popped(busy) => Level > 0)
      BY <1>1, <1>2, <2>1 DEF LevelInv, Popped
    <2>6. Held(Level)'
      BY <1>1, <1>5, <2>1, <2>3, <2>4, <2>5, PushClock
    <2>7. /\ wr'.at[2] + Level' = PushedSoFar /\ wr'.at[1] = cap.buffer
          /\ Level' \in Int /\ wr'.at[2] \in Int
      <3>1. Level' = Level + (IF Pushing THEN 1 ELSE 0) - (IF Popped(busy) THEN 1 ELSE 0)
        BY <1>1, <1>2, <1>5, <2>1, <2>3, <2>5, LevelFacts
      <3>2. wr'.at = (IF Popped(busy) THEN Ahead(wr.at, 1) ELSE wr.at) /\ wr.at[1] = cap.buffer
        BY <1>1, <1>5, <2>1, WrFacts DEF PictureInv
      <3>3. wr'.at[2] = wr.at[2] + (IF Popped(busy) THEN 1 ELSE 0) /\ wr'.at[1] = cap.buffer
        <4>1. Ahead(wr.at, 1)[1] = wr.at[1] /\ Ahead(wr.at, 1)[2] = wr.at[2] + 1
          BY DEF Ahead
        <4> QED
          BY <1>2, <3>2, <4>1
      <3> QED
        BY <1>2, <3>1, <3>3 DEF PushedSoFar
    <2>8. wr'.at \in Place
      BY <1>1, WrClock DEF WrType
    <2>9. CASE e = "none"
      <3>1. cap'.push = NoWord /\ cap'.lines = cap.lines /\ video'.words = video.words
        <4>1. e # "word" /\ ~Ends(e) /\ e # "picture"
          BY <2>9 DEF Ends
        <4>2. video'.words = video.words
          BY <1>1, <2>9, VideoClock
        <4> QED
          BY <1>1, <4>1, <4>2, CapFacts
      <3>2. PushedSoFar' = PushedSoFar
        BY <1>3, <2>7, <3>1
      <3> QED
        BY <2>4, <2>6, <3>1, <3>2
    <2>10. CASE e = "word"
      <3>1. ~Pushing
        BY <1>1, <2>10, EventFacts
      <3>2. cap'.lines = cap.lines /\ video'.words = video.words + 1
        BY <1>1, <2>1, <2>10, CapFacts, VideoClock DEF Ends
      <3>3. CASE video.words < Words
        <4>1. cap'.push = <<cap.buffer, cap.lines * Words + video.words>>
          BY <1>1, <2>1, <2>3, <2>10, <3>3, CapFacts
        <4>2. cap.buffer \in Buffers
          BY <1>1 DEF FType, CapType
        <4>3. cap'.push # NoWord
          BY <4>1, <4>2 DEF NoWord, Buffers
        <4>9. Least(video.words, Words) = video.words
          BY <1>2, <3>3, LeastFacts
        <4>4. PushedSoFar = cap.lines * Words + video.words
          BY <2>4, <4>9
        <4>5. cap'.push = Ahead(wr'.at, Level')
          BY <2>7, <4>1, <4>4 DEF Ahead
        <4>6. Least(video'.words, Words) = video.words + 1
          BY <1>2, <3>2, <3>3, LeastFacts
        <4>7. cap.lines * Words \in Int
          BY <1>2
        <4>8. PushedSoFar' = cap'.lines * Words + Least(video'.words, Words)
          BY <1>2, <1>3, <2>7, <3>2, <4>3, <4>4, <4>6, <4>7
        <4> QED
          BY <2>6, <4>5, <4>8
      <3>4. CASE video.words >= Words
        <4>4. ~(video.words < Words)
          BY <1>2, <3>4
        <4>1. cap'.push = NoWord
          BY <1>1, <2>1, <4>4, CapFacts
        <4>2. Least(video'.words, Words) = Words /\ Least(video.words, Words) = Words
          BY <1>2, <3>2, <3>4, LeastFacts
        <4>3. PushedSoFar' = PushedSoFar
          BY <1>2, <1>3, <2>4, <2>7, <4>1
        <4> QED
          BY <1>3, <2>4, <2>6, <3>2, <4>1, <4>2, <4>3
      <3> QED
        BY <1>2, <3>3, <3>4
    <2>11. CASE e = "lineEnd"
      <3>1. cap'.lines = cap.lines + 1 /\ cap'.push = NoWord /\ video'.words = 0
        BY <1>1, <2>1, <2>3, <2>11, CapFacts, VideoClock DEF Ends
      <3>6. video.words >= Words
        BY <1>2, <2>3, <2>11 DEF Short, Ends
      <3>2. Least(video.words, Words) = Words /\ Least(0, Words) = 0
        BY <1>2, <3>6, LeastFacts
      <3>3. (cap.lines + 1) * Words = cap.lines * Words + 1 * Words
        BY <1>2, Distribute
      <3>4. cap.lines * Words \in Int
        BY <1>2
      <3>5. PushedSoFar' = cap'.lines * Words + Least(video'.words, Words)
        BY <1>2, <1>3, <2>4, <2>7, <3>1, <3>2, <3>3, <3>4
      <3> QED
        BY <1>3, <2>6, <3>1, <3>5
    <2> QED
      BY <2>2, <2>9, <2>10, <2>11
  <1> QED
    BY <1>4, <1>5

(* When a picture is published, all of it has been pushed, in order.         *)
LEMMA PublishFacts == ASSUME FInv, NEW e \in Events, Publishes(e)
    PROVE /\ ~video.vblank /\ ~wr.restart /\ ~Pushing
          /\ Held(Level) /\ wr.at[1] = cap.buffer /\ PushedSoFar = Lines * Words
  <1>1. FType /\ CaptureInv /\ PictureInv
    BY DEF FInv
  <1>2. /\ Words \in Nat \ {0} /\ Lines \in Nat \ {0} /\ video.words \in Nat /\ cap.lines \in Nat
    BY <1>1, SetupFacts DEF FType, VideoType, CapType
  <1>3. /\ e \in {"blank", "lastLineEnd"} /\ cap.capturing /\ cap.linesFull /\ cap.keptUp
        /\ (IF Ends(e) THEN cap.lines + 1 ELSE cap.lines) = Lines
    BY DEF Publishes
  <1>4. ~video.vblank /\ ~Pushing
    BY <1>1, <1>3, EventFacts
  <1>5. ~wr.restart
    <2> SUFFICES ASSUME wr.restart PROVE FALSE
      OBVIOUS
    <2>1. cap.lines = 0 /\ video.words = 0
      BY <1>1 DEF PictureInv
    <2>2. e = "blank"
      BY <1>1, <1>3, <2>1, EventFacts
    <2> QED
      BY <1>2, <1>3, <2>1, <2>2 DEF Ends
  <1>6. Held(Level) /\ PushedSoFar = cap.lines * Words + Least(video.words, Words)
    BY <1>1, <1>3, <1>4, <1>5 DEF CaptureInv, Held, Queued
  <1>7. cap.lines * Words + Least(video.words, Words) = Lines * Words
    <2>1. CASE e = "blank"
      <3>1. video.words = 0 /\ cap.lines = Lines
        BY <1>1, <1>3, <2>1, EventFacts DEF Ends
      <3>2. Least(0, Words) = 0
        BY <1>2, LeastFacts
      <3>3. Lines * Words \in Int
        BY <1>2
      <3> QED
        BY <3>1, <3>2, <3>3
    <2>2. CASE e = "lastLineEnd"
      <3>1. video.words >= Words /\ cap.lines + 1 = Lines
        BY <1>1, <1>3, <2>2, EventFacts DEF Ends
      <3>2. Least(video.words, Words) = Words
        <4>1. video.words \in Int /\ Words \in Int /\ video.words >= Words
          BY <1>2, <3>1
        <4> QED
          BY <4>1 DEF Least
      <3>3. (cap.lines + 1) * Words = cap.lines * Words + 1 * Words
        BY <1>2, Distribute
      <3> QED
        BY <1>2, <3>1, <3>2, <3>3
    <2> QED
      BY <1>3, <2>1, <2>2
  <1> QED
    BY <1>1, <1>4, <1>5, <1>6, <1>7 DEF PictureInv

(* A buffer that is shown or published has been so before, or is published   *)
(* now.                                                                      *)
LEMMA ShownClock ==
    ASSUME FType, NEW e, NEW tick, NEW busy, NEW answer, NEW enable,
           ClockOf(e, tick, busy, answer, enable),
           NEW b, (cap'.valid /\ b = cap'.frameBuffer) \/ (rd'.valid /\ b = rd'.buffer)
    PROVE Shown(b) \/ (Publishes(e) /\ b = cap.buffer)
  <1>1. CASE cap'.valid /\ b = cap'.frameBuffer
    <2>1. CASE e = "picture"
      BY <1>1, <2>1, CapFacts DEF Shown
    <2>2. CASE e # "picture" /\ Publishes(e)
      BY <1>1, <2>2, CapFacts
    <2>3. CASE e # "picture" /\ ~Publishes(e)
      BY <1>1, <2>3, CapFacts DEF Shown
    <2> QED
      BY <2>1, <2>2, <2>3
  <1>2. CASE rd'.valid /\ b = rd'.buffer
    BY <1>2, RdFacts DEF Shown
  <1> QED
    BY <1>1, <1>2

(* What is still to be written of a picture on the screen is its tail, and it*)
(* goes out in order.                                                        *)
LEMMA TailClock ==
    ASSUME FInv, NEW e, NEW tick, NEW busy, NEW answer, NEW enable,
           ClockOf(e, tick, busy, answer, enable)
    PROVE TailInv'
  <1>1. FType /\ TailInv /\ PictureInv /\ LevelInv /\ BufferInv /\ e \in Events
    BY DEF FInv, ClockOf
  <1>2. /\ Level \in Int /\ Level \in 0 .. 2 * Depth - 1 /\ wr.at \in Place /\ wr.beats \in Int
        /\ Depth \in Nat
    BY <1>1, SetupFacts, LevelType, BurstLevel DEF FType, WrType
  <1> DEFINE b == wr'.at[1]
  <1> SUFFICES ASSUME (cap'.valid /\ b = cap'.frameBuffer) \/ (rd'.valid /\ b = rd'.buffer)
               PROVE  /\ video'.vblank /\ ~wr'.restart => Held(Level)'
                      /\ wr'.restart /\ wr'.state # "idle" => wr'.beats <= Depth /\ Held(wr.beats)'
    BY DEF TailInv, Shown, Held, Queued
  <1>3. CASE Restart(e)
    <2>1. ~wr'.restart /\ Level' = 0
      BY <1>1, <1>3, WrFacts, LevelFacts DEF Restart, PictureInv
    <2> QED
      BY <2>1 DEF Held
  <1>4. CASE ~Restart(e)
    <2>1. b = wr.at[1]
      <3>1. wr'.at = Ahead(wr.at, 1) \/ wr'.at = wr.at
        BY <1>1, <1>4, WrFacts
      <3> QED
        BY <3>1 DEF Ahead
    <2>2. Shown(wr.at[1]) \/ (Publishes(e) /\ wr.at[1] = cap.buffer)
      BY <1>1, <2>1, ShownClock
    <2>3. ASSUME video'.vblank, ~wr'.restart PROVE Held(Level)'
      <3>1. ~wr.restart /\ e # "picture"
        BY <1>1, <1>4, <2>3, WrFacts
      <3>2. Held(Level) /\ ~Pushing
        <4>1. CASE Publishes(e)
          BY <1>1, <4>1, PublishFacts
        <4>2. CASE ~Publishes(e) /\ video.vblank
          BY <1>1, <2>2, <3>1, <4>2 DEF TailInv, PictureInv, Held, Queued
        <4>3. CASE ~Publishes(e) /\ ~video.vblank
          <5>1. ~Shown(cap.buffer) /\ wr.at[1] = cap.buffer
            BY <1>1, <3>1, <4>3 DEF BufferInv, PictureInv, Shown
          <5> QED
            BY <2>2, <4>3, <5>1
        <4> QED
          BY <4>1, <4>2, <4>3
      <3>3. Level <= Depth /\ (Popped(busy) => Level > 0)
        BY <1>1, <1>2, <3>1 DEF LevelInv, Popped
      <3> QED
        BY <1>1, <1>4, <3>1, <3>2, <3>3, PushClock
    <2>4. ASSUME wr'.restart, wr'.state # "idle" PROVE wr'.beats <= Depth /\ Held(wr.beats)'
      <3>1. wr.restart \/ e = "picture"
        BY <1>1, <1>4, <2>4, WrFacts
      <3>2. wr.state # "idle"
        BY <1>4, <3>1 DEF Restart
      <3>3. Shown(wr.at[1]) /\ ~Pushing
        <4>1. ~Publishes(e)
          BY <1>1, <3>1, PublishFacts DEF Publishes
        <4>2. ~Pushing
          BY <1>1, <3>1, EventFacts DEF PictureInv
        <4> QED
          BY <2>2, <4>1, <4>2
      <3>4. wr.beats <= Depth /\ Held(wr.beats) /\ wr.beats > 0
        <4>1. CASE wr.restart
          BY <1>1, <3>2, <3>3, <4>1 DEF TailInv, LevelInv
        <4>2. CASE ~wr.restart
          <5>1. video.vblank
            BY <1>1, <3>1, <4>2, EventFacts
          <5>2. Held(Level)
            BY <1>1, <3>3, <4>2, <5>1 DEF TailInv, Held, Queued
          <5>3. wr.beats > 0 /\ wr.beats <= Level /\ Level <= Depth
            BY <1>1, <3>2, <4>2 DEF LevelInv
          <5>4. \A k \in 0 .. wr.beats - 1 : k \in 0 .. Level - 1
            BY <1>2, <5>3
          <5> QED
            BY <1>2, <5>2, <5>3, <5>4 DEF Held
        <4> QED
          BY <4>1, <4>2
      <3>5. \A k \in 0 .. (IF Popped(busy) THEN wr.beats - 2 ELSE wr.beats - 1) :
               fifo'.at[(fifo'.rd + k) % Depth] = Ahead(wr'.at, k)
        BY <1>1, <1>2, <1>4, <3>3, <3>4, HeldClock
      <3>6. wr'.beats = IF Popped(busy) THEN wr.beats - 1 ELSE wr.beats
        BY <1>1, <1>4, <3>2, WrFacts DEF FType, WrType
      <3>7. wr'.beats - 1 = IF Popped(busy) THEN wr.beats - 2 ELSE wr.beats - 1
        BY <1>2, <3>6
      <3> QED
        BY <1>2, <3>4, <3>5, <3>6, <3>7 DEF Held
    <2> QED
      BY <2>3, <2>4
  <1> QED
    BY <1>3, <1>4

(* Three lines are time enough for the tail to be in memory.                 *)
LEMMA SettledClock ==
    ASSUME FInv, NEW e, NEW tick, NEW busy, NEW answer, NEW enable,
           ClockOf(e, tick, busy, answer, enable)
    PROVE SettledInv'
  <1>1. FType /\ SettledInv /\ PictureInv /\ BufferInv /\ e \in Events /\ tick \in BOOLEAN
    BY DEF FInv, ClockOf
  <1>2. rd'.state # "idle" => rd'.valid
    BY <1>1, RdFacts DEF SettledInv
  <1>3. ASSUME calm' = 3, rd'.valid, wr'.at[1] = rd'.buffer
        PROVE  wr'.state = "idle" /\ Level' = 0
    <2>1. CASE Restart(e)
      BY <1>1, <2>1, WrFacts, LevelFacts DEF Restart, PictureInv
    <2>2. CASE ~Restart(e)
      <3>1. wr'.at[1] = wr.at[1]
        <4>1. wr'.at = Ahead(wr.at, 1) \/ wr'.at = wr.at
          BY <1>1, <2>2, WrFacts
        <4> QED
          BY <4>1 DEF Ahead
      <3>2. ASSUME ~video.vblank, ~wr.restart PROVE FALSE
        BY <1>1, <1>3, <3>1, <3>2, RdFacts DEF PictureInv, BufferInv
      <3>3. wr.state = "idle" /\ Level = 0 /\ ~wr.restart /\ video.vblank
        <4>1. CASE tick
          <5>1. calm >= 2 /\ MayTick
            BY <1>1, <1>3, <4>1, CalmFacts DEF ClockOf
          <5>2. ~wr.restart /\ (video.vblank => Drained)
            BY <1>1, <5>1 DEF MayTick, FType
          <5> QED
            BY <3>2, <5>2 DEF Drained
        <4>2. CASE ~tick
          <5>1. calm = 3 /\ rd.valid /\ wr.at[1] = rd.buffer
            BY <1>1, <1>3, <3>1, <4>2, RdFacts, CalmFacts
          <5>2. wr.state = "idle" /\ Level = 0
            BY <1>1, <5>1 DEF SettledInv
          <5> QED
            BY <2>2, <3>2, <5>2 DEF Restart
        <4> QED
          BY <1>1, <4>1, <4>2
      <3>4. e # "picture" /\ ~Pushing /\ ~Popped(busy)
        BY <1>1, <2>2, <3>3 DEF Restart, PictureInv, Popped
      <3>5. Level' = Level
        BY <1>1, <2>2, <3>4, LevelFacts
      <3>6. wr'.state = "idle"
        BY <1>1, <2>2, <3>3, WrFacts, BurstLevel
      <3> QED
        BY <3>3, <3>5, <3>6
    <2> QED
      BY <2>1, <2>2
  <1> QED
    BY <1>2, <1>3 DEF SettledInv

(* The line the readout fetches next, when it is one of the picture.         *)
LEMMA LineToFetch == ASSUME FType, LineInv, rd.valid, Active(rd.v + 2)
    PROVE rd.line = <<rd.buffer, (2 * (rd.v + 2 - VStart) + rd.field) * Words>>
  <1>1. /\ rd.v \in Int /\ rd.field \in {0, 1} /\ Words \in Nat \ {0} /\ VStart \in Nat
        /\ Lines \div 2 \in Nat
    BY SetupFacts DEF FType, RdType
  <1>2. rd.v + 2 >= VStart /\ rd.v + 2 < VStart + Lines \div 2
    BY DEF Active
  <1>3. CASE rd.v + 2 = VStart
    <2> DEFINE n == 2 * (rd.v + 2 - VStart) + rd.field
    <2>1. n = rd.field
      BY <1>1, <1>3
    <2>2. rd.line = <<rd.buffer, rd.field * Words>>
      BY <1>1, <1>2, <1>3 DEF LineInv
    <2> HIDE DEF n
    <2>3. rd.line = <<rd.buffer, n * Words>>
      BY <2>1, <2>2
    <2> QED
      BY <2>3 DEF n
  <1>4. CASE rd.v + 2 > VStart
    BY <1>1, <1>2, <1>4 DEF LineInv
  <1> QED
    BY <1>1, <1>2, <1>3, <1>4

(* The readout's line address moves by two lines with each line, from the    *)
(* field's first one (ega_fb_readout.v:330-346).                             *)
LEMMA LineClock ==
    ASSUME FInv, NEW e, NEW tick, NEW busy, NEW answer, NEW enable,
           ClockOf(e, tick, busy, answer, enable)
    PROVE LineInv'
  <1>1. FType /\ LineInv /\ enable \in BOOLEAN /\ tick \in BOOLEAN /\ rd'.valid \in BOOLEAN
    BY RdClock DEF FInv, ClockOf, RdType
  <1>2. /\ rd.v \in Int /\ rd.field \in {0, 1} /\ Words \in Nat \ {0} /\ VStart \in Nat /\ VStart >= 2
        /\ Lines \div 2 \in Nat /\ Words' = Words /\ Lines' = Lines /\ rd.field \in Int
    BY <1>1, SetupFacts DEF FType, RdType, ClockOf, Words, Lines
  <1>3. CASE ~tick
    <2>1. rd'.v = rd.v /\ rd'.field = rd.field /\ rd'.line = rd.line /\ rd'.buffer = rd.buffer
          /\ rd'.valid = rd.valid
      BY <1>1, <1>3, RdFacts
    <2> QED
      BY <1>1, <1>2, <2>1 DEF LineInv
  <1>4. CASE tick
    <2>1. LineTick(enable)
      BY <1>4 DEF ClockOf
    <2>2. CASE FieldEnd
      <3>1. rd'.v = 0 /\ rd'.field = 1 - rd.field
            /\ rd'.line = <<rd'.buffer, IF rd.field = 1 THEN 0 ELSE Words>>
        BY <1>1, <2>1, <2>2, RdTickFacts
      <3>2. (1 - rd.field) * Words = IF rd.field = 1 THEN 0 ELSE Words
        <4>1. CASE rd.field = 1
          BY <1>2, <4>1
        <4>2. CASE rd.field = 0
          BY <1>2, <4>2
        <4> QED
          BY <1>2, <4>1, <4>2
      <3>3. rd'.v >= 0 /\ rd'.v + 2 <= VStart
        BY <1>2, <3>1
      <3>4. rd'.line = <<rd'.buffer, rd'.field * Words'>>
        BY <1>2, <3>1, <3>2
      <3> QED
        BY <3>3, <3>4 DEF LineInv
    <2>3. CASE ~FieldEnd
      <3>1. rd'.v = rd.v + 1 /\ rd'.field = rd.field /\ rd'.buffer = rd.buffer /\ rd'.valid = rd.valid
        BY <1>1, <2>1, <2>3, RdTickFacts
      <3>2. rd'.v >= 0
        BY <1>1, <1>2, <3>1 DEF LineInv
      <3>3. CASE rd.valid /\ Active(rd.v + 2)
        <4>1. rd'.line = Ahead(rd.line, 2 * Words)
          BY <1>1, <2>1, <2>3, <3>3, RdTickFacts
        <4>2. rd.v + 2 >= VStart /\ rd.v + 2 < VStart + Lines \div 2
          BY <3>3 DEF Active
        <4> DEFINE n == 2 * (rd.v + 2 - VStart) + rd.field
        <4>3. rd.line = <<rd.buffer, n * Words>>
          BY <1>1, <3>3, LineToFetch
        <4>4. n \in Int
          BY <1>2
        <4> DEFINE m == 2 * (rd.v + 1 + 2 - VStart) + rd.field
        <4>5. m = n + 2
          BY <1>2
        <4>6. (n + 2) * Words = n * Words + 2 * Words
          BY <1>2, <4>4, Distribute
        <4>7. rd'.line = <<rd.buffer, (n + 2) * Words>>
          BY <4>1, <4>3, <4>6 DEF Ahead
        <4>8. rd'.line = <<rd'.buffer, (2 * (rd'.v + 2 - VStart) + rd'.field) * Words'>>
          BY <1>2, <3>1, <4>5, <4>7
        <4>9. rd'.v + 2 > VStart /\ rd'.v + 2 <= VStart + Lines' \div 2
          BY <1>2, <3>1, <4>2
        <4> QED
          BY <3>2, <4>8, <4>9 DEF LineInv
      <3>4. CASE rd.valid /\ ~Active(rd.v + 2)
        <4>1. rd'.line = rd.line
          BY <1>1, <2>1, <2>3, <3>4, RdTickFacts
        <4>2. rd.v + 2 < VStart \/ rd.v + 2 >= VStart + Lines \div 2
          BY <1>2, <3>4 DEF Active
        <4>3. CASE rd.v + 2 < VStart
          <5>1. rd.line = <<rd.buffer, rd.field * Words>>
            BY <1>1, <1>2, <3>4, <4>3 DEF LineInv
          <5>2. rd'.line = <<rd'.buffer, rd'.field * Words'>>
            BY <1>2, <3>1, <4>1, <5>1
          <5>3. rd'.v + 2 <= VStart
            BY <1>2, <3>1, <4>3
          <5> QED
            BY <3>2, <5>2, <5>3 DEF LineInv
        <4>4. CASE rd.v + 2 >= VStart + Lines \div 2
          <5>1. rd'.v + 2 > VStart + Lines' \div 2
            BY <1>2, <3>1, <4>4
          <5> QED
            BY <3>2, <5>1 DEF LineInv
        <4> QED
          BY <4>2, <4>3, <4>4
      <3> QED
        BY <1>1, <3>1, <3>2, <3>3, <3>4 DEF LineInv
    <2> QED
      BY <2>2, <2>3
  <1> QED
    BY <1>1, <1>3, <1>4

(* A writer passed over once is not passed over again: its turn comes while  *)
(* the readout has nothing to ask for.                                       *)
LEMMA TurnClock ==
    ASSUME FInv, NEW e, NEW tick, NEW busy, NEW answer, NEW enable,
           ClockOf(e, tick, busy, answer, enable)
    PROVE TurnInv'
  <1> SUFFICES ASSUME calm' = 3
               PROVE  /\ passed' <= 1
                      /\ passed' = 1 /\ ~resetting' => arb'.state # "idle" \/ ~rd'.req
    BY DEF TurnInv
  <1>1. FType /\ TurnInv /\ FetchInv /\ ReadInv /\ PendingInv /\ ~resetting /\ tick \in BOOLEAN
    BY DEF FInv, ClockOf
  <1>2. /\ busy \in BOOLEAN /\ Port(busy, answer = "beat", answer = "short", answer = "abandon")
        /\ (answer = "beat" => mem.read.left # 0) /\ (answer = "abandon" => Stuck)
    BY AnswerFacts DEF ClockOf
  <1>3. passed \in 0 .. 3 /\ arb.state \in {"idle", "read", "write"}
        /\ rd.state \in {"idle", "request", "data"}
    BY <1>1 DEF FType, ArbType, RdType
  <1>4. CASE wr.state # "burst" \/ arb.state = "write"
    <2>1. passed' = 0
      BY <1>1, <1>4, CalmFacts
    <2> QED
      BY <2>1
  <1>5. CASE wr.state = "burst" /\ arb.state # "write"
    <2>1. ~tick /\ calm = 3
      <3>1. CASE tick
        <4>1. calm >= 2 /\ MayTick
          BY <1>1, <3>1, CalmFacts DEF ClockOf
        <4> QED
          BY <1>1, <1>5, <4>1 DEF MayTick, FType
      <3> QED
        BY <1>1, <3>1, CalmFacts
    <2>2. passed <= 1 /\ (passed = 1 => arb.state # "idle" \/ ~rd.req)
      BY <1>1, <2>1 DEF TurnInv
    <2>3. CASE arb.state = "idle" /\ rd.req
      <3>1. passed' = 1
        BY <1>1, <1>3, <1>5, <2>2, <2>3, CalmFacts DEF Least
      <3>2. ~ResetTaken
        BY <1>1, <2>3 DEF PendingInv, ResetTaken
      <3>3. arb'.state = "read"
        BY <1>1, <1>2, <2>3, <3>2, ArbFacts
      <3> QED
        BY <3>1, <3>3
    <2>4. CASE arb.state = "idle" /\ ~rd.req
      <3>1. passed' = passed
        BY <1>1, <1>5, <2>4, CalmFacts
      <3>2. passed = 1 => ~ResetTaken
        BY <1>1 DEF PendingInv, ResetTaken
      <3>3. ~ResetTaken => arb'.state = "write"
        BY <1>1, <1>2, <1>5, <2>4, ArbFacts
      <3> QED
        BY <2>2, <3>1, <3>2, <3>3
    <2>5. CASE arb.state = "read"
      <3>1. passed' = passed
        BY <1>1, <1>5, <2>5, CalmFacts
      <3>2. Fetch(answer = "beat")
        BY <2>1 DEF ClockOf
      <3>3. CASE rd.state = "request"
        <4>1. arb.reading /\ mem.read.left = 0
          BY <1>1, <2>1, <2>5, <3>3 DEF FetchInv, ReadInv
        <4>2. answer # "beat" /\ answer # "abandon"
          BY <1>2, <4>1 DEF Stuck
        <4>3. arb'.state = "read"
          BY <1>1, <1>2, <2>5, <4>2, ArbFacts
        <4> QED
          BY <2>2, <3>1, <4>3
      <3>4. CASE rd.state = "data"
        <4>1. ~rd.req
          BY <1>1, <2>1, <3>4 DEF FetchInv
        <4>2. ~rd'.req
          BY <1>1, <3>2, <3>4, <4>1, RdFetchFacts
        <4> QED
          BY <2>2, <3>1, <4>2
      <3>5. rd.state # "idle"
        BY <1>1, <2>1, <2>5 DEF FetchInv
      <3> QED
        BY <1>3, <3>3, <3>4, <3>5
    <2> QED
      BY <1>3, <1>5, <2>3, <2>4, <2>5
  <1> QED
    BY <1>4, <1>5

(* A line that begins in time begins with nothing in flight.                 *)
LEMMA FetchTick ==
    ASSUME FInv, NEW e, NEW busy, NEW answer, NEW enable,
           ClockOf(e, TRUE, busy, answer, enable)
    PROVE FetchInv'
  <1> SUFFICES ASSUME calm' = 3, ~resetting' PROVE FetchInv'
    BY DEF FetchInv
  <1>1. FType /\ LineInv /\ enable \in BOOLEAN /\ LineTick(enable)
    BY DEF FInv, ClockOf
  <1>2. /\ busy \in BOOLEAN /\ Port(busy, answer = "beat", answer = "short", answer = "abandon")
    BY AnswerFacts DEF ClockOf
  <1>3. arb.state \in {"idle", "read", "write"}
    BY <1>1 DEF FType, ArbType
  <1>4. rd.state = "idle" /\ ~rd.req /\ arb.state # "read"
    <2>1. calm >= 2 /\ MayTick
      BY <1>1, CalmFacts DEF ClockOf
    <2> QED
      BY <1>1, <2>1 DEF MayTick, FType
  <1>5. arb'.state # "read"
    <2>1. (answer = "beat") \in BOOLEAN /\ (answer = "abandon") \in BOOLEAN
      OBVIOUS
    <2> QED
      BY <1>1, <1>2, <1>4, <2>1, GrantFacts
  <1>6. ~rd'.req
    BY <1>1, <1>4, RdTickFacts
  <1>7. CASE rd'.state = "idle"
    BY <1>5, <1>6, <1>7 DEF FetchInv
  <1>8. CASE rd'.state # "idle"
    <2>1. ~FieldEnd /\ Active(rd.v + 2) /\ rd.valid
      BY <1>1, <1>8, RdTickFacts
    <2>2. rd'.state = "request" /\ rd'.valid /\ rd'.left = Words /\ rd'.fill = 0
          /\ rd'.fetch = rd.line /\ rd'.buffer = rd.buffer /\ rd'.v = rd.v + 1
          /\ rd'.field = rd.field
      BY <1>1, <2>1, RdTickFacts
    <2>3. Words \in Nat \ {0} /\ VStart \in Nat /\ rd.v \in Int /\ rd.field \in Int /\ Words' = Words
      BY <1>1, SetupFacts DEF FType, RdType, ClockOf, Words
    <2>4. rd'.left > 0
      BY <2>2, <2>3
    <2>5. rd'.fetch = <<rd'.buffer, Line' * Words' + rd'.fill>>
      <3> DEFINE n == 2 * (rd.v + 2 - VStart) + rd.field
      <3>1. rd'.fetch = <<rd.buffer, n * Words>>
        BY <1>1, <2>1, <2>2, LineToFetch
      <3>2. Line' = n
        BY <2>2, <2>3 DEF Line
      <3>3. n \in Int
        BY <2>3
      <3> HIDE DEF n
      <3>4. n * Words + 0 = n * Words
        BY <2>3, <3>3
      <3> QED
        BY <2>2, <2>3, <3>1, <3>2, <3>4
    <2> QED
      BY <1>5, <1>6, <2>2, <2>4, <2>5 DEF FetchInv
  <1> QED
    BY <1>7, <1>8

(* Request, grant and data follow each other: the words of a line come from  *)
(* the burst asked for, one by one.                                          *)
LEMMA FetchClock ==
    ASSUME FInv, NEW e, NEW tick, NEW busy, NEW answer, NEW enable,
           ClockOf(e, tick, busy, answer, enable)
    PROVE FetchInv'
  <1>1. CASE tick = TRUE
    BY <1>1, FetchTick
  <1>2. CASE tick = FALSE
    <2> SUFFICES ASSUME calm' = 3, ~resetting' PROVE FetchInv'
      BY DEF FetchInv
    <2>1. FType /\ FetchInv /\ ReadInv /\ ~resetting /\ Fetch(answer = "beat") /\ UNCHANGED setup
      BY <1>2 DEF FInv, ClockOf
    <2>2. /\ busy \in BOOLEAN /\ Port(busy, answer = "beat", answer = "short", answer = "abandon")
          /\ (answer = "beat" => mem.read.left # 0) /\ (answer = "abandon" => Stuck)
      BY AnswerFacts DEF ClockOf
    <2>3. calm = 3 /\ answer # "short"
      BY <1>2, <2>1, CalmFacts
    <2>4. /\ rd.state \in {"idle", "request", "data"} /\ arb.state \in {"idle", "read", "write"}
          /\ rd.left \in Int /\ rd.fill \in Nat /\ rd.beats \in Int /\ arb.beats \in Int
          /\ arb.count \in Int /\ rd.fetch \in Place /\ arb.at \in Place /\ mem.read.left \in Int
      BY <2>1 DEF FType, RdType, ArbType, MemType, Burstful
    <2>5. rd'.v = rd.v /\ rd'.field = rd.field /\ rd'.buffer = rd.buffer /\ rd'.valid = rd.valid
      BY <1>2, <2>1, RdFacts
    <2>6. Line' = Line /\ Words' = Words
      BY <2>1, <2>5 DEF Line, Words
    <2>7. rd.state # "idle" =>
             rd.valid /\ rd.left > 0 /\ rd.fetch = <<rd.buffer, Line * Words + rd.fill>>
      BY <2>1, <2>3 DEF FetchInv
    <2>8. CASE rd.state = "idle"
      <3>1. ~rd.req /\ arb.state # "read"
        BY <2>1, <2>3, <2>8 DEF FetchInv
      <3>2. rd'.state = "idle" /\ ~rd'.req
        BY <2>1, <2>8, RdFetchFacts
      <3>3. arb'.state # "read"
        <4>1. (answer = "beat") \in BOOLEAN /\ (answer = "abandon") \in BOOLEAN
          OBVIOUS
        <4> QED
          BY <2>1, <2>2, <3>1, <4>1, GrantFacts
      <3> QED
        BY <3>2, <3>3 DEF FetchInv
    <2>9. CASE rd.state = "request" /\ ~arb.grant
      <3>1. arb.state # "read" /\ (rd.req => rd.at = rd.fetch /\ rd.count = RdBurst)
        BY <2>1, <2>3, <2>9 DEF FetchInv
      <3>2. /\ rd'.state = "request" /\ rd'.req /\ rd'.at = rd.fetch /\ rd'.count = RdBurst
            /\ rd'.fetch = rd.fetch /\ rd'.left = rd.left /\ rd'.fill = rd.fill
        BY <2>1, <2>9, RdFetchFacts
      <3>3. RdBurst' = RdBurst
        BY <3>2 DEF RdBurst, ToEdge
      <3>4. arb'.state = "read" => /\ arb'.grant /\ arb'.reading /\ arb'.at = rd.fetch
                                   /\ arb'.count = RdBurst
        <4>1. (answer = "beat") \in BOOLEAN /\ (answer = "abandon") \in BOOLEAN
          OBVIOUS
        <4> QED
          BY <2>1, <2>2, <3>1, <4>1, GrantFacts
      <3>5. rd'.valid /\ rd'.left > 0 /\ rd'.fetch = <<rd'.buffer, Line' * Words' + rd'.fill>>
        BY <2>5, <2>6, <2>7, <2>9, <3>2
      <3> QED
        BY <3>2, <3>3, <3>4, <3>5 DEF FetchInv
    <2>10. CASE rd.state = "request" /\ arb.grant
      <3>1. arb.state = "read"
        BY <2>1, <2>10 DEF ReadInv
      <3>2. /\ rd.req /\ arb.reading /\ arb.at = rd.fetch /\ arb.count = RdBurst
            /\ mem.read.left = 0 /\ arb.beats = arb.count
        BY <2>1, <2>3, <2>10, <3>1 DEF FetchInv, ReadInv
      <3>3. answer # "beat" /\ answer # "abandon"
        BY <2>2, <3>2 DEF Stuck
      <3>4. /\ rd'.state = "data" /\ ~rd'.req /\ rd'.beats = RdBurst
            /\ rd'.fetch = rd.fetch /\ rd'.left = rd.left /\ rd'.fill = rd.fill
        BY <2>1, <2>10, RdFetchFacts
      <3>5. /\ arb'.state = "read" /\ ~arb'.grant /\ arb'.beats = arb.beats /\ arb'.at = arb.at
            /\ arb'.reading = (arb.reading /\ busy)
        BY <2>1, <2>2, <3>1, <3>3, ArbFacts
      <3>6. ~busy => mem'.read = [at |-> arb.at, left |-> arb.count]
        BY <2>2, <2>3, <3>2, <3>3, MemFacts
      <3>7. RdBurst \in Int /\ RdBurst > 0 /\ RdBurst <= rd.left
        BY <2>1, <2>7, <2>10, BurstFacts
      <3>8. IF arb'.reading THEN arb'.at = rd'.fetch
            ELSE mem'.read.left # 0 /\ mem'.read.at = rd'.fetch
        BY <2>2, <3>2, <3>4, <3>5, <3>6, <3>7
      <3>9. rd'.valid /\ rd'.left > 0 /\ rd'.fetch = <<rd'.buffer, Line' * Words' + rd'.fill>>
        BY <2>5, <2>6, <2>7, <2>10, <3>4
      <3>10. rd'.beats = arb'.beats /\ 0 < rd'.beats /\ rd'.beats <= rd'.left
        BY <3>2, <3>4, <3>5, <3>7
      <3> QED
        BY <3>4, <3>5, <3>8, <3>9, <3>10 DEF FetchInv
    <2>11. CASE rd.state = "data"
      <3>1. /\ ~rd.req /\ ~arb.grant /\ arb.state = "read"
            /\ rd.beats = arb.beats /\ 0 < rd.beats /\ rd.beats <= rd.left
            /\ IF arb.reading THEN arb.at = rd.fetch
               ELSE mem.read.left # 0 /\ mem.read.at = rd.fetch
        BY <2>1, <2>3, <2>11 DEF FetchInv
      <3>2. answer # "abandon"
        BY <2>2, <3>1 DEF Stuck
      <3>3. CASE answer = "beat"
        <4>1. /\ Taking(TRUE) /\ ~arb.reading /\ mem.read.left = arb.beats
              /\ mem.read.at = rd.fetch
          BY <2>1, <2>2, <2>11, <3>1, <3>3 DEF ReadInv, Taking
        <4>2. Fetch(TRUE) /\ Port(busy, TRUE, FALSE, FALSE)
          <5>1. (answer = "beat") = TRUE /\ (answer = "short") = FALSE /\ (answer = "abandon") = FALSE
            BY <3>3
          <5> QED
            BY <2>1, <2>2, <5>1, Zenon
        <4>3. /\ rd'.state = IF rd.beats > 1 THEN "data"
                             ELSE IF rd.left = 1 THEN "idle" ELSE "request"
              /\ rd'.fetch = Ahead(rd.fetch, 1) /\ rd'.left = rd.left - 1
              /\ rd'.fill = rd.fill + 1 /\ rd'.beats = rd.beats - 1 /\ rd'.req = rd.req
          BY <2>1, <4>1, <4>2, RdFetchFacts
        <4>4. rd'.fetch = <<rd'.buffer, Line' * Words' + rd'.fill>>
          <5> DEFINE p == Line * Words
          <5>0. p \in Int
            BY <2>1, SetupFacts DEF FType, RdType, Line
          <5> HIDE DEF p
          <5>1. rd.fetch = <<rd.buffer, p + rd.fill>>
            BY <2>7, <2>11 DEF p
          <5>2. rd'.fetch = <<rd.buffer, (p + rd.fill) + 1>>
            BY <4>3, <5>1 DEF Ahead
          <5>3. (p + rd.fill) + 1 = p + (rd.fill + 1)
            BY <2>4, <5>0
          <5>4. rd'.fetch = <<rd'.buffer, p + rd'.fill>>
            BY <2>5, <4>3, <5>2, <5>3
          <5> QED
            BY <2>6, <5>4 DEF p
        <4>5. CASE rd.beats > 1
          <5>1. /\ arb'.state = "read" /\ arb'.beats = arb.beats - 1 /\ ~arb'.reading /\ ~arb'.grant
            <6>1. arb.beats # 1
              BY <2>4, <3>1, <4>5
            <6>2. /\ arb'.grant = FALSE /\ arb'.state = "read" /\ arb'.beats = arb.beats - 1
                  /\ arb'.reading = (arb.reading /\ busy)
              BY <2>1, <2>2, <3>1, <4>2, <6>1, ArbFacts
            <6> QED
              BY <2>2, <4>1, <6>2
          <5>2. mem'.read = Served(mem.read)
            BY <4>1, <4>2, MemFacts
          <5>3. mem'.read.left # 0 /\ mem'.read.at = Ahead(rd.fetch, 1)
            BY <2>4, <3>1, <4>1, <4>5, <5>2, ServedFacts
          <5>4. rd'.state = "data" /\ 0 < rd'.beats /\ rd'.beats <= rd'.left /\ rd'.left > 0
                /\ rd'.beats = arb'.beats
            BY <2>4, <3>1, <4>3, <4>5, <5>1
          <5> QED
            BY <2>5, <2>7, <2>11, <3>1, <4>3, <4>4, <5>1, <5>3, <5>4 DEF FetchInv
        <4>6. CASE rd.beats = 1
          <5>1. arb'.state = "idle"
            BY <2>1, <2>2, <3>1, <4>1, <4>2, <4>6, ArbFacts
          <5>2. rd'.state = IF rd.left = 1 THEN "idle" ELSE "request"
            BY <4>3, <4>6
          <5>3. rd'.state = "request" => rd'.left > 0
            BY <2>4, <3>1, <4>3, <4>6, <5>2
          <5> QED
            BY <2>5, <2>7, <2>11, <3>1, <4>3, <4>4, <5>1, <5>2, <5>3 DEF FetchInv
        <4> QED
          BY <2>4, <3>1, <4>5, <4>6
      <3>4. CASE answer # "beat"
        <4>1. rd' = rd
          <5>1. ~Taking(answer = "beat")
            BY <3>4 DEF Taking
          <5> QED
            BY <2>1, <2>11, <5>1, RdFetchFacts
        <4>2. /\ arb'.state = "read" /\ ~arb'.grant /\ arb'.beats = arb.beats /\ arb'.at = arb.at
              /\ arb'.reading = (arb.reading /\ busy)
          BY <2>1, <2>2, <3>1, <3>2, <3>4, ArbFacts
        <4>3. IF arb'.reading THEN arb'.at = rd'.fetch
              ELSE mem'.read.left # 0 /\ mem'.read.at = rd'.fetch
          <5>1. CASE arb.reading /\ busy
            BY <3>1, <4>1, <4>2, <5>1
          <5>2. CASE arb.reading /\ ~busy
            <6>1. mem'.read = [at |-> arb.at, left |-> arb.count]
              BY <2>2, <2>3, <3>4, <5>2, MemFacts
            <6>2. arb.count # 0
              BY <2>1, <2>4, <3>1, <5>2 DEF ReadInv
            <6> QED
              BY <3>1, <4>1, <4>2, <5>2, <6>1, <6>2
          <5>3. CASE ~arb.reading
            <6>1. mem'.read = mem.read
              BY <2>2, <2>3, <3>4, <5>3, MemFacts
            <6> QED
              BY <3>1, <4>1, <4>2, <5>3, <6>1
          <5> QED
            BY <2>2, <5>1, <5>2, <5>3
        <4> QED
          BY <2>6, <2>7, <2>11, <3>1, <4>1, <4>2, <4>3 DEF FetchInv
      <3> QED
        BY <3>3, <3>4
    <2> QED
      BY <2>4, <2>8, <2>9, <2>10, <2>11
  <1> QED
    BY <1>1, <1>2 DEF ClockOf

(* A reset in the midst of anything leaves only the rest of a burst behind   *)
(* (ega_ddr_arbiter.v:70-80).                                                *)
LEMMA ResetKeeps == ASSUME FInv, Reset, UNCHANGED setup PROVE FInv'
  <1>1. PICK busy \in Busies, answer \in Answers \ {"short"} :
           /\ resetting
           /\ video' = FreshVideo
           /\ cap' = FreshCap
           /\ wr' = [FreshWriter EXCEPT !.restart = wr.restart]
           /\ fifo' = [fifo EXCEPT !.wr = 0, !.rd = 0]
           /\ rd' = FreshReader
           /\ Port(busy, answer = "beat", FALSE, answer = "abandon")
           /\ calm' = 3 /\ passed' = 0
           /\ resetting' \in BOOLEAN
           /\ resetting' = FALSE => arb'.state = "idle"
    BY Zenon DEF Reset
  <1>2. FType /\ CountInv /\ ReadInv
    BY DEF FInv
  <1>3. busy \in BOOLEAN /\ (answer = "beat" => mem.read.left # 0) /\ (answer = "abandon" => Stuck)
    BY AnswerFacts
  <1>4. (answer = "beat") \in BOOLEAN /\ (answer = "abandon") \in BOOLEAN
    OBVIOUS
  <1>5. wr.restart \in BOOLEAN /\ Depth \in Nat \ {0}
    BY <1>2, SetupFacts DEF FType, WrType
  <1>6. /\ wr'.state = "idle" /\ wr'.at = <<0, 0>> /\ wr'.beats = 0 /\ wr'.restart = wr.restart
        /\ fifo'.wr = 0 /\ fifo'.rd = 0
    BY <1>1, <1>2 DEF FreshWriter, FType, FifoType
  <1>7. /\ video'.vblank /\ video'.words = 0
        /\ cap'.buffer = 0 /\ cap'.lines = 0 /\ cap'.push = NoWord /\ ~cap'.valid
    BY <1>1 DEF FreshVideo, FreshCap
  <1>8. /\ rd'.v = 0 /\ ~rd'.valid /\ rd'.state = "idle" /\ ~rd'.req
    BY <1>1 DEF FreshReader
  <1>9. ~resetting' => arb'.state = "idle"
    BY <1>1
  <1>10. FType'
    <2>1. arb' \in ArbType
      BY <1>1, <1>2, <1>3, <1>4, ArbStep DEF Port
    <2>2. mem' \in MemType
      BY <1>1, <1>2, <1>3, <1>4, MemStep DEF Port
    <2>3. video' \in VideoType /\ cap' \in CapType
      BY <1>1, PlaceFacts DEF FreshVideo, FreshCap, VideoType, CapType, Buffers
    <2>4. wr' \in WrType
      <3>1. FreshWriter \in WrType
        BY PlaceFacts DEF FreshWriter, WrType
      <3> QED
        BY <1>1, <1>5, <3>1, WrSet, Zenon
    <2>5. fifo' \in FifoType
      <3>1. 0 \in 0 .. 2 * Depth - 1
        BY <1>5
      <3> QED
        BY <1>1, <1>2, <3>1 DEF FType, FifoType
    <2>6. rd' \in RdType
      BY <1>1, PlaceFacts DEF FreshReader, RdType, Buffers
    <2> QED
      BY <1>1, <1>2, <2>1, <2>2, <2>3, <2>4, <2>5, <2>6 DEF FType
  <1>11. WriteInv'
    BY <1>6, <1>7, <1>8, <1>9 DEF WriteInv
  <1>12. CountInv' /\ ReadInv'
    BY <1>1, <1>2, <1>3, <1>4, PortCounts
  <1>13. PendingInv' /\ TurnInv'
    BY <1>1, <1>8, <1>9 DEF PendingInv, TurnInv
  <1>14. BufferInv' /\ CaptureInv' /\ TailInv'
    BY <1>7, <1>8 DEF BufferInv, CaptureInv, TailInv, Shown
  <1>15. PictureInv'
    BY <1>6, <1>7 DEF PictureInv, Pushing
  <1>16. Level' = 0
    <2>1. 0 - 0 = 0 /\ 0 % (2 * Depth) = 0
      BY <1>5
    <2> QED
      BY <1>6, <2>1 DEF Level
  <1>17. LevelInv' /\ SettledInv'
    BY <1>5, <1>6, <1>8, <1>16 DEF LevelInv, SettledInv
  <1>18. FetchInv'
    BY <1>8, <1>9 DEF FetchInv
  <1>19. LineInv'
    BY <1>8 DEF LineInv
  <1> QED
    BY <1>10, <1>11, <1>12, <1>13, <1>14, <1>15, <1>17, <1>18, <1>19 DEF FInv

(* Power up.                                                                 *)
LEMMA InitHolds == Init => FInv
  <1> SUFFICES ASSUME Init PROVE FInv
    OBVIOUS
  <1>1. /\ setup \in Setups /\ resetting = FALSE
        /\ video = FreshVideo /\ cap = FreshCap /\ wr = FreshWriter /\ rd = FreshReader
        /\ fifo = [at |-> [i \in 0 .. Depth - 1 |-> NoWord], wr |-> 0, rd |-> 0]
        /\ arb = IdleArbiter
        /\ mem = [write |-> Burstless, read |-> Burstless]
        /\ calm = 3 /\ passed = 0
    BY DEF Init
  <1>2. Depth \in Nat \ {0}
    BY SizeAssumption DEF SizeAssumption
  <1>3. FType
    <2>1. arb \in ArbType
      BY <1>1, PlaceFacts DEF IdleArbiter, ArbType
    <2>2. mem \in MemType
      BY <1>1, PlaceFacts DEF MemType, Burstful, Burstless
    <2>3. video \in VideoType /\ cap \in CapType
      BY <1>1, PlaceFacts DEF FreshVideo, FreshCap, VideoType, CapType, Buffers
    <2>4. wr \in WrType
      BY <1>1, PlaceFacts DEF FreshWriter, WrType
    <2>5. fifo \in FifoType
      BY <1>1, <1>2, PlaceFacts DEF FifoType
    <2>6. rd \in RdType
      BY <1>1, PlaceFacts DEF FreshReader, RdType, Buffers
    <2>7. resetting \in BOOLEAN /\ setup \in Setups
      BY <1>1, Zenon
    <2>8. calm \in 0 .. 3 /\ passed \in 0 .. 3
      BY <1>1
    <2> QED
      BY <2>1, <2>2, <2>3, <2>4, <2>5, <2>6, <2>7, <2>8, <1>1 DEF FType
  <1>4. /\ wr.state = "idle" /\ wr.at = <<0, 0>> /\ ~wr.restart /\ fifo.wr = 0 /\ fifo.rd = 0
        /\ video.vblank /\ video.words = 0
        /\ cap.buffer = 0 /\ cap.lines = 0 /\ cap.push = NoWord /\ ~cap.valid
        /\ rd.v = 0 /\ ~rd.valid /\ rd.state = "idle" /\ ~rd.req
        /\ arb.state = "idle" /\ ~arb.reading /\ ~arb.grant /\ ~arb.pending
        /\ mem.write.left = 0 /\ mem.read.left = 0
    BY <1>1 DEF FreshWriter, FreshVideo, FreshCap, FreshReader, IdleArbiter, Burstless
  <1>5. WriteInv /\ CountInv /\ ReadInv /\ PendingInv /\ TurnInv /\ FetchInv /\ LineInv
    BY <1>1, <1>4 DEF WriteInv, CountInv, ReadInv, PendingInv, TurnInv, FetchInv, LineInv
  <1>6. BufferInv /\ CaptureInv /\ TailInv /\ PictureInv
    BY <1>4 DEF BufferInv, CaptureInv, TailInv, Shown, PictureInv, Pushing
  <1>7. Level = 0
    <2>1. 0 - 0 = 0 /\ 0 % (2 * Depth) = 0
      BY <1>2
    <2> QED
      BY <1>4, <2>1 DEF Level
  <1>8. LevelInv /\ SettledInv
    BY <1>2, <1>4, <1>7 DEF LevelInv, SettledInv
  <1> QED
    BY <1>3, <1>5, <1>6, <1>8 DEF FInv

(* A clock keeps the invariant.                                              *)
LEMMA ClockKeeps ==
    ASSUME FInv, NEW e, NEW tick, NEW busy, NEW answer, NEW enable,
           ClockOf(e, tick, busy, answer, enable)
    PROVE FInv'
  <1>1. FType /\ UNCHANGED setup
    BY DEF FInv, ClockOf
  <1>2. FType' /\ BufferInv' /\ PictureInv' /\ LevelInv'
    BY <1>1, TypeClock, BufferClock, PictureClock, LevelClock
  <1>3. WriteInv' /\ CountInv' /\ ReadInv' /\ PendingInv'
    <2>1. WriteInv' /\ CountInv' /\ ReadInv' /\ ~arb'.pending
      BY WriteClock, PortClock, PendingClock
    <2> QED
      BY <2>1 DEF PendingInv
  <1>4. CaptureInv' /\ TailInv'
    BY CaptureClock, TailClock
  <1>5. FetchInv' /\ LineInv' /\ SettledInv' /\ TurnInv'
    BY FetchClock, LineClock, SettledClock, TurnClock
  <1> QED
    BY <1>2, <1>3, <1>4, <1>5 DEF FInv

(* A step keeps the invariant.                                               *)
LEMMA StepKeeps == FInv /\ [Next]_vars => FInv'
  <1> SUFFICES ASSUME FInv, [Next]_vars PROVE FInv'
    OBVIOUS
  <1>1. CASE Clock /\ UNCHANGED setup
    BY <1>1, ClockCase, ClockKeeps
  <1>2. CASE Reset /\ UNCHANGED setup
    BY <1>2, ResetKeeps
  <1>3. CASE UNCHANGED vars
    BY <1>3 DEF vars, FInv, FType, VideoType, CapType, FifoType, WrType, ArbType, MemType, RdType,
       WriteInv, CountInv, ReadInv, PendingInv, BufferInv, PictureInv, LevelInv, CaptureInv, TailInv,
       FetchInv, LineInv, SettledInv, TurnInv, Due, Pushing, Level, Queued, PushedSoFar, Words, Lines,
       Held, Shown, RdBurst, ToEdge, Line
  <1> QED
    BY <1>1, <1>2, <1>3 DEF Next

(* The registers of source, capture, arbiter, memory and readout stay in step*)
(* for ever, for every geometry of picture, burst, page, FIFO and raster.    *)
THEOREM Inductive == Spec => []FInv
  BY InitHolds, StepKeeps, PTL DEF Spec

(* The beat the memory takes is the word that belongs there, if anyone sees  *)
(* the buffer.                                                               *)
LEMMA DueIsHeld == ASSUME FInv, arb.state = "write", Shown(Due.at[1]) PROVE Din = Due.at
  <1>1. FType /\ WriteInv /\ BufferInv /\ PictureInv /\ LevelInv /\ TailInv
    BY DEF FInv
  <1>2. wr.state = "burst" /\ Due.at = wr.at
    BY <1>1 DEF WriteInv, Shown
  <1>3. wr.beats \in Int /\ wr.beats > 0 /\ Level \in Int /\ wr.at \in Place /\ fifo.rd \in Int
    BY <1>1, <1>2, LevelType, BurstLevel, SetupFacts DEF LevelInv, FType, WrType, FifoType
  <1>4. PICK n \in Int : n > 0 /\ Held(n)
    <2>1. CASE wr.restart
      <3>1. Held(wr.beats)
        BY <1>1, <1>2, <2>1 DEF TailInv
      <3> QED
        BY <1>3, <3>1
    <2>2. CASE ~wr.restart
      <3>1. video.vblank
        BY <1>1, <1>2, <2>2 DEF BufferInv, PictureInv, Shown
      <3>2. Held(Level)
        BY <1>1, <1>2, <2>2, <3>1 DEF TailInv, Held, Queued
      <3>3. Level > 0
        BY <1>1, <1>2, <1>3, <2>2 DEF LevelInv
      <3> QED
        BY <1>3, <3>2, <3>3
    <2> QED
      BY <2>1, <2>2
  <1>5. fifo.at[(fifo.rd + 0) % Depth] = Ahead(wr.at, 0)
    <2>1. 0 \in 0 .. n - 1
      BY <1>4
    <2> QED
      BY <1>4, <2>1, Zenon DEF Held
  <1>6. fifo.rd + 0 = fifo.rd /\ Ahead(wr.at, 0) = wr.at
    BY <1>3, PlaceFacts DEF Ahead
  <1> QED
    BY <1>2, <1>5, <1>6 DEF Din

(* A step publishes only whole frames and writes only what belongs there.    *)
LEMMA WholeStep == FInv /\ [Next]_vars => [Whole]_vars
  <1> SUFFICES ASSUME FInv, Next PROVE Whole
    OBVIOUS
  <1>1. ASSUME cap'.frameBuffer # cap.frameBuffer, ~resetting
        PROVE  Queued /\ wr.at[1] = cap.buffer /\ PushedSoFar = Lines * Words
    <2>1. Clock /\ UNCHANGED setup
      BY <1>1 DEF Next, Reset
    <2>2. PICK e, tick, busy, answer, enable : ClockOf(e, tick, busy, answer, enable)
      BY <2>1, ClockCase
    <2>3. Publishes(e)
      BY <1>1, <2>2, CapFacts DEF FInv
    <2>4. e \in Events
      BY <2>2 DEF ClockOf
    <2> QED
      BY <2>3, <2>4, PublishFacts DEF Held, Queued
  <1>2. ASSUME mem'.write # mem.write, Shown(Due.at[1]) PROVE Din = Due.at
    <2>1. \E busy, beat, short, abandon : Port(busy, beat, short, abandon)
      <3>1. CASE Clock /\ UNCHANGED setup
        <4>1. PICK e, tick, busy, answer, enable : ClockOf(e, tick, busy, answer, enable)
          BY <3>1, ClockCase
        <4>2. Port(busy, answer = "beat", answer = "short", answer = "abandon")
          BY <4>1 DEF ClockOf
        <4> QED
          BY <4>2
      <3>2. CASE Reset
        <4>1. PICK busy \in Busies, answer \in Answers \ {"short"} :
                  Port(busy, answer = "beat", FALSE, answer = "abandon")
          BY <3>2 DEF Reset
        <4> QED
          BY <4>1
      <3> QED
        BY <3>1, <3>2 DEF Next
    <2>2. arb.state = "write"
      BY <1>2, <2>1, MemFacts
    <2> QED
      BY <1>2, <2>2, DueIsHeld
  <1> QED
    BY <1>1, <1>2 DEF Whole

(* A step takes only the word that belongs there.                            *)
LEMMA InPlaceStep == FInv /\ [Next]_vars => [InPlace]_vars
  <1> SUFFICES ASSUME FInv, Next, Taking(mem'.read.left < mem.read.left), ~resetting, calm = 3
               PROVE  /\ mem.read.at = <<rd.buffer, Line * Words + rd.fill>>
                      /\ wr.at[1] = rd.buffer => wr.state = "idle" /\ Level = 0
    BY DEF InPlace
  <1>1. FType /\ FetchInv /\ ReadInv /\ SettledInv
    BY DEF FInv
  <1>2. rd.state = "data" /\ arb.state = "read" /\ mem'.read.left < mem.read.left
    BY DEF Taking
  <1>3. /\ rd.valid /\ rd.fetch = <<rd.buffer, Line * Words + rd.fill>>
        /\ rd.beats = arb.beats /\ 0 < rd.beats
        /\ ~arb.reading => mem.read.at = rd.fetch
    BY <1>1, <1>2 DEF FetchInv
  <1>4. ~arb.reading
    <2> SUFFICES ASSUME arb.reading PROVE FALSE
      OBVIOUS
    <2>1. mem.read.left = 0 /\ arb.count = rd.beats
      BY <1>1, <1>3 DEF ReadInv
    <2>2. Clock /\ UNCHANGED setup
      BY DEF Next, Reset
    <2>3. PICK e, tick, busy, answer, enable : ClockOf(e, tick, busy, answer, enable)
      BY <2>2, ClockCase
    <2>4. /\ busy \in BOOLEAN /\ Port(busy, answer = "beat", answer = "short", answer = "abandon")
          /\ answer # "beat" /\ answer # "short"
      BY <2>1, <2>3, AnswerFacts DEF ClockOf
    <2>5. mem'.read = mem.read \/ mem'.read = [at |-> arb.at, left |-> arb.count]
      BY <2>4, MemFacts
    <2>6. rd.beats \in Int
      BY <1>1 DEF FType, RdType
    <2> QED
      BY <1>2, <1>3, <2>1, <2>5, <2>6
  <1> QED
    BY <1>1, <1>3, <1>4 DEF SettledInv

(* Capture, arbiter and memory count the same beats of a burst, with a reset *)
(* in its midst or without (ega_ddr_arbiter.v:70-80).                        *)
THEOREM SameBurst == Spec => []BurstsAgree
  <1>1. FInv => BurstsAgree
    <2> SUFFICES ASSUME FInv PROVE BurstsAgree
      OBVIOUS
    <2>1. FType /\ WriteInv /\ CountInv /\ ReadInv
      BY DEF FInv
    <2>2. mem.write.left \in Int /\ mem.read.left \in Int
      BY <2>1 DEF FType, MemType, Burstful
    <2> QED
      BY <2>1, <2>2 DEF WriteInv, CountInv, ReadInv, BurstsAgree
  <1> QED
    BY <1>1, Inductive, PTL

(* The loser of a tie waits for one burst, unless a read came up short       *)
(* (ega_ddr_arbiter.v:6-11).                                                 *)
THEOREM TakingTurns == Spec => []WriterNotPassedOver
  <1>1. FInv => WriterNotPassedOver
    BY DEF FInv, TurnInv, WriterNotPassedOver
  <1> QED
    BY <1>1, Inductive, PTL

(* The capture keeps away from what is published or shown                    *)
(* (ega_fb_capture.v:60-64).                                                 *)
THEOREM ThirdBuffer == Spec => []WriterKeepsAway
  <1>1. FInv => WriterKeepsAway
    BY DEF FInv, BufferInv, WriterKeepsAway, Shown
  <1> QED
    BY <1>1, Inductive, PTL

(* Only whole frames are published, and nothing else is written to them      *)
(* (ega_fb_capture.v:17-21).                                                 *)
THEOREM WholeFrames == Spec => FramesAreWhole
  <1>1. Spec => []FInv /\ [][Next]_vars
    BY Inductive, PTL DEF Spec
  <1> QED
    BY <1>1, WholeStep, PTL DEF FramesAreWhole

(* What the readout takes is the next word of its line, and nothing is still *)
(* to be written there (ega_fb_readout.v:275-306).                           *)
THEOREM WholeLines == Spec => ShownIsWhole
  <1>1. Spec => []FInv /\ [][Next]_vars
    BY Inductive, PTL DEF Spec
  <1> QED
    BY <1>1, InPlaceStep, PTL DEF ShownIsWhole
=============================================================================
