--------------------------- MODULE FrameStoreProps ---------------------------
(***************************************************************************)
(* What the frame buffers promise.                                          *)
(***************************************************************************)
EXTENDS FrameStore

(* Memory, arbiter and capture count the same beats of a burst, also when a   *)
(* reset meets it: the memory is never left with a write of which no beat is  *)
(* to come, nor with a read whose beats would be taken for another's          *)
(* (ega_ddr_arbiter.v:70-80, ega_fb_capture.v:327-333).                     *)
BurstsAgree ==
    /\ mem.write.left > 0 => arb.state = "write" /\ mem.write.left = arb.beats
    /\ arb.state = "write" /\ mem.write.left = 0 => arb.beats = arb.count
    /\ arb.state = "write" /\ wr.state = "burst" => wr.beats = arb.beats
    /\ mem.read.left > 0 => arb.state = "read" /\ mem.read.left = arb.beats

(* The loser of a tie waits for one burst, not for a queue                    *)
(* (ega_ddr_arbiter.v:6-11), but for the three lines after a read that came   *)
(* up short: a fetch that is overrun asks again before it has let go.         *)
WriterNotPassedOver == calm = 3 => passed <= 1

Shown(b) == (cap.valid /\ b = cap.frameBuffer) \/ (rd.valid /\ b = rd.buffer)

(* From the first line of a picture to its last the capture is at work on a   *)
(* buffer that is neither published nor on the screen, whichever way          *)
(* publishing, taking up and choosing meet (ega_fb_capture.v:60-64).        *)
WriterKeepsAway == ~video.vblank => ~Shown(cap.buffer)

Queued == \A k \in 0 .. Level - 1 : fifo.at[(fifo.rd + k) % Depth] = Ahead(wr.at, k)
PushedSoFar == wr.at[2] + Level + (IF Pushing THEN 1 ELSE 0)

Whole ==
    /\ cap'.frameBuffer # cap.frameBuffer /\ ~resetting =>
         Queued /\ wr.at[1] = cap.buffer /\ PushedSoFar = Lines * Words
    /\ mem'.write # mem.write /\ Shown(Due.at[1]) => Din = Due.at

(* A frame is published only when each of its words is in the buffer or on    *)
(* its way there, in order; and while a buffer is published or shown, no      *)
(* word is written to it but the one that belongs there                      *)
(* (ega_fb_capture.v:17-21, 327-333).                                       *)
FramesAreWhole == [][Whole]_vars

Line == 2 * (rd.v + 1 - VStart) + rd.field
InPlace ==
    Taking(mem'.read.left < mem.read.left) /\ ~resetting /\ calm = 3 /\ calm' = 3
    => /\ mem.read.at = <<rd.buffer, Line * Words + rd.fill>>
       /\ wr.at[1] = rd.buffer => wr.state = "idle" /\ Level = 0

(* Each beat that the readout takes is the next word of the line it is to     *)
(* show after this one, in the buffer it shows, of which no word is still to  *)
(* be written; after a read that came up short, within three lines            *)
(* (ega_fb_readout.v:275-281, 295-306, ega_ddr_arbiter.v:58-66).            *)
ShownIsWhole == [][InPlace]_vars
=============================================================================
