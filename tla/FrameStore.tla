----------------------------- MODULE FrameStore -----------------------------
(***************************************************************************)
(* The frame buffers in DDR: ega_fb_capture.v writes the picture into one   *)
(* of three buffers, ega_fb_readout.v shows another line by line on a       *)
(* slower raster of two fields, and ega_ddr_arbiter.v lets the two take     *)
(* turns on one port.  One step is one clock of the video pipeline, in      *)
(* which every register moves.                                             *)
(*                                                                         *)
(* A line comes in words of two dots.  An address is a buffer and a place    *)
(* there; a word is known by the address it is to go to.                    *)
(***************************************************************************)
EXTENDS Integers

CONSTANTS
    Setups,          \* pictures, and what may happen to them
    Burst, Page,     \* BURST, and the words that a burst may not leave: 32, 512
    Depth,           \* FIFO_DEPTH
    VStart,          \* lines of a field above the picture
    Enables          \* what enable may be

Buffers == {0, 1, 2}

(* The lines of a picture, and the words of a line, as promised; the words a   *)
(* line of the source may have, and how many lines; the lines of a field;    *)
(* whether a read may come up short, and whether video_retime_reset may come. *)
Setup(s) ==
    /\ s.words \in Nat \ {0} /\ s.lines \in Nat \ {0} /\ s.lines % 2 = 0
    /\ s.lengths \subseteq Nat \ {0} /\ s.most \in Nat
    /\ s.faults \in BOOLEAN /\ s.resets \in BOOLEAN
    /\ s.field \in Nat /\ s.field >= VStart + s.lines \div 2

ASSUME SizeAssumption ==
    /\ \A s \in Setups : Setup(s)
    /\ Burst \in Nat \ {0} /\ Page \in Nat \ {0}
    /\ Depth \in Nat /\ Depth >= Burst
    /\ VStart \in Nat /\ VStart >= 2
    /\ Enables \subseteq BOOLEAN

VARIABLES
    setup,      \* the picture, which stays the same
    resetting,  \* video_retime_reset
    video,      \* vblank_q, and the words of the line so far
    cap,        \* the capture's video side
    fifo,       \* its beats
    wr,         \* its DDR side
    arb,        \* the arbiter
    mem,        \* the memory's bursts in progress
    rd,         \* the readout
    calm,       \* history: line ticks since a read came up short, 3 for more
    passed      \* history: reads granted while the writer waits, 3 for more

vars == <<setup, resetting, video, cap, fifo, wr, arb, mem, rd, calm, passed>>

Words == setup.words
Lines == setup.lines
FieldLines == setup.field
NoWord == <<3, 0>>
Burstless == [at |-> <<0, 0>>, left |-> 0]
Least(a, b) == IF a < b THEN a ELSE b
Ahead(at, n) == <<at[1], at[2] + n>>
ToEdge(at) == Page - (at[2] % Page)

-----------------------------------------------------------------------------
(* The source.  There is blanking before the first line of a picture, dots    *)
(* are clocks apart, the geometry that is promised stands still, and a last  *)
(* line that ends with the picture is not short.  A burst in flight across   *)
(* the blanking is over by the first word.                                  *)

Level == (fifo.wr - fifo.rd) % (2 * Depth)
FifoFull == Level >= Depth
Pushing == cap.push # NoWord

(* The memory keeps up with the blanking: the picture's tail is in memory, or  *)
(* on its way there in one burst, when the next picture starts.              *)
Drained == Level = 0 /\ wr.state = "idle" /\ ~wr.restart
InFlight == wr.state = "burst" /\ Level <= wr.beats

Events ==
    {"none"} \cup
    CASE Pushing -> {}
      [] ~Pushing /\ video.vblank -> IF Drained \/ InFlight THEN {"picture"} ELSE {}
      [] ~Pushing /\ ~video.vblank /\ video.words > 0 ->
           (IF \E n \in setup.lengths : n > video.words THEN {"word"} ELSE {})
           \cup (IF video.words \in setup.lengths THEN {"lineEnd"} ELSE {})
           \cup (IF video.words \in setup.lengths /\ video.words >= Words
                 THEN {"lastLineEnd"} ELSE {})
      [] OTHER -> {"blank"} \cup (IF cap.lines < setup.most /\ ~wr.restart THEN {"word"} ELSE {})

Video(e) ==
    video' =
      CASE e = "none" -> video
        [] e = "word" -> [video EXCEPT !.words = @ + 1]
        [] e = "lineEnd" -> [video EXCEPT !.words = 0]
        [] e \in {"blank", "lastLineEnd"} -> [video EXCEPT !.words = 0, !.vblank = TRUE]
        [] e = "picture" -> [video EXCEPT !.vblank = FALSE]

-----------------------------------------------------------------------------
(* ega_fb_capture.v, video side.  word_count is the words of the line up to    *)
(* the promised ones.                                                       *)

(* Mutant: two buffers would do.                                             *)
FreeOfTwo == CHOOSE b \in {0, 1} : b # rd.buffer
FreeBuffer == CHOOSE b \in Buffers :
    /\ b \notin {cap.frameBuffer, rd.buffer}
    /\ \A c \in Buffers : c < b => c \in {cap.frameBuffer, rd.buffer}

StartPicture(enable) ==
    cap' = [cap EXCEPT !.buffer = FreeBuffer, !.capturing = enable, !.linesFull = TRUE,
                       !.keptUp = TRUE, !.lines = 0, !.push = NoWord]

Ends(e) == e \in {"lineEnd", "lastLineEnd"} /\ cap.capturing
Short(e) == Ends(e) /\ video.words < Words

Account(e, enable) ==
    LET lines == IF Ends(e) THEN cap.lines + 1 ELSE cap.lines
        over  == e \in {"blank", "lastLineEnd"}
        publish == over /\ cap.capturing /\ cap.linesFull /\ cap.keptUp /\ lines = Lines
    IN  cap' = [cap EXCEPT
            !.push = IF e = "word" /\ cap.capturing /\ video.words < Words
                     THEN <<cap.buffer, cap.lines * Words + video.words>>
                     ELSE NoWord,
            !.linesFull = @ /\ ~Short(e),
            !.keptUp = @ /\ ~(Pushing /\ FifoFull),
            !.lines = lines,
            !.frameBuffer = IF publish THEN cap.buffer ELSE @,
            !.valid = (@ \/ publish) /\ (over => enable)]

-----------------------------------------------------------------------------
(* ega_fb_capture.v, DDR side.                                              *)

Popped(busy) == wr.state = "burst" /\ arb.state = "write" /\ ~busy
(* Mutant: walks away from a burst in flight.                                *)
RestartAtOnce(e) == e = "picture" \/ wr.restart
Restart(e) == (e = "picture" \/ wr.restart) /\ wr.state = "idle"
WrBurst == Least(Burst, ToEdge(wr.at))

(* The beats of the next burst, 0 if there are not enough for one: after the   *)
(* picture its tail goes out beat by beat.  ddram_addr and ddram_burstcnt are *)
(* what at and beats are until the burst is granted.                        *)
NextBurst ==
    CASE Level >= WrBurst -> WrBurst
      [] Level < WrBurst /\ Level > 0 /\ video'.vblank -> 1
      [] OTHER -> 0

Writer(e, busy) ==
    wr' = CASE Restart(e) -> [wr EXCEPT !.at = <<cap'.buffer, 0>>, !.restart = FALSE]
            [] ~Restart(e) /\ wr.state = "idle" ->
                 IF NextBurst = 0 THEN wr
                 ELSE [wr EXCEPT !.state = "prep", !.beats = NextBurst]
            [] wr.state = "prep" ->
                 [wr EXCEPT !.state = "burst", !.restart = @ \/ e = "picture"]
            [] wr.state = "burst" ->
                 [IF ~Popped(busy) THEN wr
                  ELSE [wr EXCEPT !.at = Ahead(@, 1), !.beats = @ - 1,
                                  !.state = IF wr.beats = 1 THEN "idle" ELSE @]
                  EXCEPT !.restart = @ \/ e = "picture"]

(* A word that was popped is not kept; nobody reads it again.                 *)
Fifo(e, busy) ==
    LET push == Pushing /\ ~FifoFull
        popped == IF Popped(busy) THEN [fifo.at EXCEPT ![fifo.rd % Depth] = NoWord] ELSE fifo.at
    IN  fifo' = [at |-> IF push THEN [popped EXCEPT ![fifo.wr % Depth] = cap.push] ELSE popped,
                 wr |-> IF e = "picture" THEN 0
                        ELSE IF push THEN (fifo.wr + 1) % (2 * Depth) ELSE fifo.wr,
                 rd |-> IF Restart(e) THEN 0
                        ELSE IF Popped(busy) THEN (fifo.rd + 1) % (2 * Depth) ELSE fifo.rd]

-----------------------------------------------------------------------------
(* ega_ddr_arbiter.v.  The watchdog ends a read of which no beat is coming;     *)
(* beats that come later than that are not modelled.                        *)

IdleArbiter == [state |-> "idle", beats |-> 0, at |-> <<0, 0>>, count |-> 0,
                reading |-> FALSE, grant |-> FALSE, pending |-> FALSE]
(* Mutant: a reset ends the burst.                                           *)
ResetAtOnce == resetting \/ arb.pending
ResetTaken == (resetting \/ arb.pending) /\ arb.state = "idle"
Stuck == arb.state = "read" /\ ~arb.reading /\ mem.read.left = 0

GrantRead == [arb EXCEPT !.state = "read", !.beats = rd.count, !.at = rd.at,
                         !.count = rd.count, !.reading = TRUE, !.grant = TRUE]
GrantWrite == [arb EXCEPT !.state = "write", !.beats = wr.beats, !.at = wr.at,
                          !.count = wr.beats]
Ended == [IdleArbiter EXCEPT !.pending = arb.pending]
OneBeat == IF arb.beats = 1 THEN Ended ELSE [arb EXCEPT !.beats = @ - 1]

Arbiter(busy, beat, abandon) ==
    LET offered(a) == [a EXCEPT !.reading = @ /\ busy, !.grant = FALSE]
        next == CASE arb.state = "idle" /\ rd.req -> GrantRead
                  [] arb.state = "idle" /\ ~rd.req /\ wr.state = "burst" -> GrantWrite
                  [] arb.state = "read" ->
                       offered(IF beat THEN OneBeat ELSE IF abandon THEN Ended ELSE arb)
                  [] arb.state = "write" /\ ~busy -> OneBeat
                  [] OTHER -> arb
    IN  arb' = IF ResetTaken THEN IdleArbiter
               ELSE [next EXCEPT !.pending = @ \/ (resetting /\ arb.state # "idle")]

-----------------------------------------------------------------------------
(* The memory (external).  It counts the beats of a burst by itself.         *)

Due == IF mem.write.left = 0 THEN [at |-> arb.at, left |-> arb.count] ELSE mem.write
Served(burst) == IF burst.left = 1 THEN Burstless
                 ELSE [at |-> Ahead(burst.at, 1), left |-> burst.left - 1]
Din == IF wr.state = "burst" THEN fifo.at[fifo.rd % Depth] ELSE NoWord

Memory(busy, beat, short) ==
    mem' = [write |-> IF arb.state = "write" /\ ~busy THEN Served(Due) ELSE mem.write,
            read |-> CASE arb.reading /\ ~busy -> [at |-> arb.at, left |-> arb.count]
                       [] beat -> Served(mem.read)
                       [] short -> Burstless
                       [] OTHER -> mem.read]

-----------------------------------------------------------------------------
(* ega_fb_readout.v, interlaced.                                             *)

FieldEnd == rd.v = FieldLines - 1
Adopt == FieldEnd /\ rd.field = 1
RdBurst == Least(Least(Burst, ToEdge(rd.fetch)), rd.left)
Active(v) == v >= VStart /\ v < VStart + Lines \div 2

(* Mutant: the first line's address comes from the buffer being left.         *)
FirstLineOfLast == <<rd.buffer, IF rd.field = 1 THEN 0 ELSE Words>>
FirstLine == <<IF Adopt THEN cap.frameBuffer ELSE rd.buffer,
               IF rd.field = 1 THEN 0 ELSE Words>>

LineTick(enable) ==
    rd' = CASE FieldEnd ->
                 [rd EXCEPT !.v = 0, !.field = 1 - @, !.line = FirstLine, !.state = "idle",
                            !.buffer = IF Adopt THEN cap.frameBuffer ELSE @,
                            !.valid = IF Adopt THEN cap.valid /\ enable ELSE @]
            [] ~FieldEnd /\ Active(rd.v + 2) /\ rd.valid ->
                 [rd EXCEPT !.v = @ + 1, !.fetch = rd.line, !.line = Ahead(@, 2 * Words),
                            !.left = Words, !.fill = 0, !.state = "request"]
            [] OTHER -> [rd EXCEPT !.v = @ + 1, !.state = "idle"]

(* Mutant: the request stays up.                                             *)
StillAsking == [rd EXCEPT !.beats = RdBurst, !.state = "data"]
Granted == [rd EXCEPT !.req = FALSE, !.at = <<0, 0>>, !.count = 0, !.beats = RdBurst,
                      !.state = "data"]
Taking(beat) == rd.state = "data" /\ beat /\ arb.state = "read"

Fetch(beat) ==
    rd' = CASE rd.state = "idle" -> [rd EXCEPT !.req = FALSE]
            [] rd.state = "request" /\ ~arb.grant ->
                 [rd EXCEPT !.req = TRUE, !.at = rd.fetch, !.count = RdBurst]
            [] rd.state = "request" /\ arb.grant -> Granted
            [] Taking(beat) ->
                 [rd EXCEPT !.fill = @ + 1, !.fetch = Ahead(@, 1), !.left = @ - 1,
                            !.beats = @ - 1,
                            !.state = IF rd.beats > 1 THEN @
                                      ELSE IF rd.left = 1 THEN "idle" ELSE "request"]
            [] OTHER -> rd

(* A line lasts long enough for its fetch and for the writer, unless a read    *)
(* has come up short; the watchdog has less than two lines to wait.          *)
MayTick == CASE calm = 0 -> TRUE
             [] calm = 1 -> ~Stuck
             [] OTHER -> /\ rd.state = "idle" /\ ~rd.req /\ arb.state # "read"
                         /\ wr.state = "burst" => arb.state = "write"
                         /\ Level < Burst /\ ~wr.restart
                         /\ video.vblank => Drained

-----------------------------------------------------------------------------
(* One clock.  The memory may be busy and may answer what it was asked.       *)

Busies == IF arb.state = "write" \/ arb.reading THEN BOOLEAN ELSE {FALSE}
Answers == (IF mem.read.left = 0 THEN {"none"}
            ELSE {"none", "beat"} \cup (IF setup.faults /\ calm = 3 THEN {"short"} ELSE {}))
           \cup (IF Stuck THEN {"abandon"} ELSE {})

Port(busy, beat, short, abandon) ==
    /\ Arbiter(busy, beat, abandon)
    /\ Memory(busy, beat, short)

History(tick, short) ==
    /\ calm' = CASE short -> 0
                 [] ~short /\ tick -> Least(3, calm + 1)
                 [] OTHER -> calm
    /\ passed' = IF wr.state # "burst" \/ arb.state = "write" THEN 0
                 ELSE IF arb.state = "idle" /\ rd.req THEN Least(3, passed + 1) ELSE passed

Clock ==
    \E e \in Events, tick \in IF MayTick THEN BOOLEAN ELSE {FALSE}, busy \in Busies,
      answer \in Answers :
      \E enable \in IF (tick /\ Adopt) \/ e \in {"picture", "blank", "lastLineEnd"}
                    THEN Enables ELSE {TRUE} :
        /\ ~resetting
        /\ Video(e)
        /\ IF e = "picture" THEN StartPicture(enable) ELSE Account(e, enable)
        /\ Writer(e, busy)
        /\ Fifo(e, busy)
        /\ Port(busy, answer = "beat", answer = "short", answer = "abandon")
        /\ IF tick THEN LineTick(enable) ELSE Fetch(answer = "beat")
        /\ History(tick, answer = "short")
        /\ resetting' \in {FALSE, setup.resets}

-----------------------------------------------------------------------------
(* video_retime_reset.  It resets the source too, and lasts until the arbiter  *)
(* has ended its burst; restart_pending is not reset.                         *)

FreshVideo == [vblank |-> TRUE, words |-> 0]
FreshCap == [buffer |-> 0, capturing |-> FALSE, linesFull |-> TRUE, keptUp |-> TRUE,
             lines |-> 0, push |-> NoWord, frameBuffer |-> 0, valid |-> FALSE]
FreshWriter == [state |-> "idle", at |-> <<0, 0>>, beats |-> 0, restart |-> FALSE]
FreshReader == [v |-> 0, field |-> 0, buffer |-> 0, valid |-> FALSE, line |-> <<0, 0>>,
                fetch |-> <<0, 0>>, left |-> 0, fill |-> 0, state |-> "idle",
                req |-> FALSE, at |-> <<0, 0>>, count |-> 0, beats |-> 0]

Reset ==
    \E busy \in Busies, answer \in Answers \ {"short"} :
        /\ resetting
        /\ video' = FreshVideo
        /\ cap' = FreshCap
        /\ wr' = [FreshWriter EXCEPT !.restart = wr.restart]
        /\ fifo' = [fifo EXCEPT !.wr = 0, !.rd = 0]
        /\ rd' = FreshReader
        /\ Port(busy, answer = "beat", FALSE, answer = "abandon")
        /\ calm' = 3 /\ passed' = 0
        /\ resetting' \in BOOLEAN
        /\ resetting' = FALSE => arb'.state = "idle"

Init ==
    /\ setup \in Setups /\ resetting = FALSE
    /\ video = FreshVideo /\ cap = FreshCap /\ wr = FreshWriter /\ rd = FreshReader
    /\ fifo = [at |-> [i \in 0 .. Depth - 1 |-> NoWord], wr |-> 0, rd |-> 0]
    /\ arb = IdleArbiter
    /\ mem = [write |-> Burstless, read |-> Burstless]
    /\ calm = 3 /\ passed = 0

Next == (Clock \/ Reset) /\ UNCHANGED setup

Spec == Init /\ [][Next]_vars
=============================================================================
