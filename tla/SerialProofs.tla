---------------------------- MODULE SerialProofs ----------------------------
(* Proofs about the protocol of the serial server.                         *)
EXTENDS SerialServer, SequenceTheorems, TLAPS

(* Every frame there may be, and every byte.                               *)
Frames == [op : {"inquire", "read", "write", "ack", "sector", "noise", "none"}, drive : {0, 1},
           lba : Nat, count : Nat, data : Data \cup {NoData}]
Byte == [of : Frames, pos : 1 .. SecLen]

(* What the client sent last: a command or the number of sectors left, and, *)
(* of a write, the sector it is about.                                      *)
Asking == request # NoFrame
First == IF left = request.count THEN request ELSE Ack(left)
Behind == IF request.op = "write" THEN SecLen ELSE 0

(* The sector is the one that is due.                                      *)
SectorSent == IF request.op = "write"
              THEN /\ sector.data \in Data
                   /\ sector = SectorOf(request, request.count - left, sector.data)
              ELSE sector = NoFrame

(* Where every variable is, and what the client's are together.            *)
TypeInv ==
    /\ setup \in Setups
    /\ buff \in Seq(Byte) /\ line \in Seq(Byte)
    /\ readto \in {0, 1, CmdLen, SecLen}
    /\ workCount \in Nat /\ workOffset \in Nat /\ mylba \in Nat /\ img \in {0, 1}
    /\ image \in [Images -> [setup.lba -> Data]]
    /\ request \in Commands[setup] \cup {NoFrame}
    /\ Asking => left \in 1 .. request.count /\ SectorSent
    /\ ~Asking => sector = NoFrame
    /\ silent \in BOOLEAN /\ disturbed \in BOOLEAN /\ unanswered \in Nat

(* A byte on the line was sent after those before it and ahead of those     *)
(* behind it: there is room for them in what was sent.                      *)
LineInv ==
    /\ ~Asking => line = <<>>
    /\ Asking =>
         /\ Len(line) <= Size(First) + Behind
         /\ \A j \in 1 .. Len(line) :
              \/ line[j].of \in Noise /\ line[j].pos = 1
              \/ /\ line[j].of = First /\ line[j].pos <= Size(First)
                 /\ Len(line) - j <= Size(First) - line[j].pos + Behind
              \/ /\ request.op = "write" /\ line[j].of = sector
                 /\ Len(line) - j <= SecLen - line[j].pos

(* The buffer is looked at before it can overflow, and work that waits in    *)
(* it begins with a header.                                                *)
BuffInv ==
    /\ IF readto = 0 THEN buff = <<>> ELSE Len(buff) < readto
    /\ readto = CmdLen => buff # <<>> /\ HeaderByte(buff[1])
    /\ readto \in {1, SecLen} => workCount # 0

(* The server works on the client's request, and has n sectors of it left.   *)
Working(n) ==
    /\ workCommand = request.op /\ img = request.drive /\ mylba = request.lba
    /\ workOffset = request.count - n /\ workCount = n
    /\ Answerable(request)

(* A new command is next on the line: two bytes of it, or one after a fault. *)
Untouched ==
    /\ left = request.count /\ line # <<>>
    /\ line[1].of \in {request} \cup Noise
    /\ ~disturbed => Len(line) > 1 /\ line[1].of = request /\ line[2].of = request

(* Who waits for the number of sectors left has answered the client, or has  *)
(* that number next, or another's command.                                 *)
AckInv ==
    readto = 1 /\ Asking =>
      \/ Untouched
      \/ Working(left) /\ left < request.count
      \/ Working(left - 1) /\ line = <<>>

(* Who waits for a sector waits for this one, or will not find it whole.     *)
SectorInv ==
    readto = SecLen /\ Asking =>
      \/ Untouched
      \/ Working(left) /\ request.op = "write"
      \/ \E i \in 1 .. Len(buff) : buff[i].of # sector

(* The number of the sector that is due.                                   *)
Here == request.lba + request.count - left

(* An answer on its way is the right one, the only one, and the last thing   *)
(* the server has done.                                                    *)
ReplyInv ==
    reply # NoReply =>
      /\ Asking /\ Answerable(request) /\ line = <<>>
      /\ reply = RD!Right
      /\ request.op = "write" => image[request.drive][Here] = sector.data
      /\ \/ readto = 0 /\ workCount = 0
         \/ readto = 1 /\ Working(left - 1)

(* What keeps the server a remote disk.                                    *)
SafeInv == TypeInv /\ LineInv /\ BuffInv /\ AckInv /\ SectorInv /\ ReplyInv

-----------------------------------------------------------------------------
(* A server with nothing in hand.                                          *)
Free == readto = 0 /\ workCount = 0
(* No work, and no sector awaited.                                         *)
Listening == workCount = 0 /\ readto \in {0, CmdLen}

(* What the client sends behind a write's command or acknowledgement.      *)
Sector == IF request.op = "write" THEN Bytes(sector) ELSE <<>>

(* Nothing has come of the command yet.                                    *)
Starting ==
    /\ left = request.count
    /\ line = Bytes(request) \o Sector
    /\ silent \/ readto = 0
    /\ reply = NoReply
(* It goes its way.                                                        *)
InCommand ==
    /\ readto = CmdLen /\ workCount = 0 /\ ~silent
    /\ left = request.count /\ reply = NoReply
    /\ buff \o line = Bytes(request) \o Sector
InSector ==
    /\ readto = SecLen /\ Working(left) /\ request.op = "write"
    /\ ~silent /\ reply = NoReply
    /\ buff \o line = Bytes(sector)
AtAck ==
    /\ readto = 1 /\ Working(left) /\ left < request.count
    /\ ~silent /\ reply = NoReply
    /\ line = Bytes(Ack(left)) \o Sector
Answered ==
    /\ reply # NoReply /\ ~silent
    /\ readto = 0 => left = 1
(* It meets work that was left, or is thrown away.                          *)
Blocked ==
    /\ readto = CmdLen /\ workCount # 0 /\ ~silent
    /\ left = request.count /\ reply = NoReply
    /\ buff \o line = Bytes(request) \o Sector
Dropped ==
    /\ Listening /\ reply = NoReply
    /\ \A j \in 1 .. Len(line) : line[j].of = sector

(* An attempt that will be answered.                                       *)
Underway == InCommand \/ InSector \/ AtAck \/ Answered

(* An attempt no fault hits and the server would grant fails only if it met*)
(* work left over, and then the next meets none.                           *)
ProgressInv ==
    TimeoutEnabled /\ PatientClient =>
      /\ unanswered \in 0 .. 1
      /\ ~Asking => silent \/ Free
      /\ ~Asking /\ unanswered = 1 => Listening
      /\ Asking /\ ~disturbed /\ Answerable(request) =>
           \/ Starting /\ (unanswered = 1 => Listening)
           \/ Underway
           \/ unanswered = 0 /\ (Blocked \/ Dropped)
IInv == SafeInv /\ ProgressInv

-----------------------------------------------------------------------------
(* Frames, bytes and the two ends of a read.                               *)

(* The sizes of the frames.                                                *)
LEMMA Sizes == /\ CmdLen \in Nat /\ CmdLen > 1 /\ SecLen \in Nat /\ SecLen > CmdLen
PROOF
  BY SizesAssumption

(* A command the client may give.                                          *)
LEMMA CommandFacts ==
    ASSUME setup \in Setups, NEW c \in Commands[setup]
    PROVE  /\ c \in Frames /\ c # NoFrame
           /\ c.op \in {"inquire", "read", "write"} /\ c.drive \in {0, 1}
           /\ c.lba \in Nat /\ c.count \in Nat /\ c.count > 0 /\ c.data = NoData
           /\ c.lba .. c.lba + c.count - 1 \subseteq setup.lba
           /\ c.op = "inquire" => c.lba = 0 /\ c.count = 1
PROOF
<1>1. /\ setup.operations \subseteq {"inquire", "read", "write"} /\ setup.lba \subseteq Lba
      /\ setup.count \in Nat
  BY SetupsAssumption
<1>2. setup.lba \subseteq Nat
  BY <1>1, SizesAssumption
<1>3. c \in {x \in [op : setup.operations, drive : {0, 1}, lba : setup.lba,
                    count : 1 .. setup.count, data : {NoData}] :
              /\ x.lba .. x.lba + x.count - 1 \subseteq setup.lba
              /\ x.op = "inquire" => x.lba = 0 /\ x.count = 1}
  BY DEF Commands
<1>4. /\ c \in [op : setup.operations, drive : {0, 1}, lba : setup.lba,
                count : 1 .. setup.count, data : {NoData}]
      /\ c.lba .. c.lba + c.count - 1 \subseteq setup.lba
      /\ c.op = "inquire" => c.lba = 0 /\ c.count = 1
  BY <1>3
<1>5. /\ c.op \in {"inquire", "read", "write"} /\ c.drive \in {0, 1}
      /\ c.lba \in Nat /\ c.count \in Nat /\ c.count > 0 /\ c.data = NoData
      /\ c = [op |-> c.op, drive |-> c.drive, lba |-> c.lba, count |-> c.count, data |-> c.data]
  BY <1>1, <1>2, <1>4
<1>6. c \in Frames
  BY <1>5 DEF Frames
<1>7. c # NoFrame
  BY <1>5 DEF NoFrame, Frame
<1> QED
  BY <1>4, <1>5, <1>6, <1>7

(* Two runs of bytes, one behind the other.                                *)
LEMMA Joined ==
    \A a \in Seq(Byte), b \in Seq(Byte) :
        /\ a \o b \in Seq(Byte) /\ Len(a \o b) = Len(a) + Len(b)
        /\ \A i \in 1 .. Len(a) : (a \o b)[i] = a[i]
        /\ \A i \in 1 .. Len(b) : (a \o b)[Len(a) + i] = b[i]
PROOF
  OBVIOUS

(* Where the cut is does not matter.                                       *)
LEMMA Regrouped ==
    \A a \in Seq(Byte), b \in Seq(Byte), c \in Seq(Byte) : (a \o b) \o c = a \o (b \o c)
PROOF
  BY ConcatAssociative

(* At most a byte, and not none.                                           *)
LEMMA OneByte ==
    \A a \in Seq(Byte) : a # <<>> /\ Len(a) <= 1 => Len(a) = 1
PROOF
<1> SUFFICES ASSUME NEW a \in Seq(Byte), a # <<>>, Len(a) <= 1
             PROVE  Len(a) = 1
  OBVIOUS
<1>1. Len(a) \in Nat \ {0}
  BY EmptySeq
<1> DEFINE k == Len(a)
<1>2. k \in Nat \ {0} /\ k <= 1
  BY <1>1
<1> HIDE DEF k
<1>3. k = 1
  BY <1>2
<1> QED
  BY <1>3 DEF k

(* The bytes of a frame.                                                   *)
LEMMA BytesFacts ==
    ASSUME NEW f \in Frames
    PROVE  /\ Size(f) \in 1 .. SecLen
           /\ Bytes(f) \in Seq(Byte) /\ Len(Bytes(f)) = Size(f)
           /\ \A i \in 1 .. Size(f) : Bytes(f)[i] = [of |-> f, pos |-> i]
PROOF
<1>1. Size(f) \in 1 .. SecLen
  BY Sizes DEF Size
<1>2. Bytes(f) \in [1 .. Size(f) -> Byte]
  BY <1>1, Sizes DEF Bytes, Byte
<1>3. Bytes(f) \in Seq(Byte) /\ Len(Bytes(f)) = Size(f)
  BY <1>1, <1>2
<1> QED
  BY <1>1, <1>3 DEF Bytes

(* Each knows its frame and its place.                                     *)
LEMMA ByteAt ==
    ASSUME NEW f \in Frames, NEW i \in 1 .. Size(f)
    PROVE  Bytes(f)[i].of = f /\ Bytes(f)[i].pos = i
PROOF
<1>1. Bytes(f)[i] = [of |-> f, pos |-> i]
  BY BytesFacts
<1> QED
  BY <1>1

(* What the client has to do with.                                         *)
LEMMA AskingFacts ==
    ASSUME TypeInv, Asking
    PROVE  /\ request \in Commands[setup] /\ request \in Frames
           /\ request.op \in {"inquire", "read", "write"} /\ request.drive \in {0, 1}
           /\ request.lba \in Nat /\ request.count \in Nat
           /\ left \in Nat /\ left > 0 /\ left <= request.count
           /\ First \in Frames /\ Size(First) = IF left = request.count THEN CmdLen ELSE 1
           /\ First.op \in {"inquire", "read", "write", "ack"}
           /\ request.op = "write" => sector \in Frames /\ sector.op = "sector"
           /\ Behind \in Nat
PROOF
<1>1. request \in Commands[setup]
  BY DEF TypeInv, Asking
<1>2. /\ request \in Frames
      /\ request.op \in {"inquire", "read", "write"} /\ request.drive \in {0, 1}
      /\ request.lba \in Nat /\ request.count \in Nat
  BY <1>1, CommandFacts DEF TypeInv
<1>3. left \in Nat /\ left > 0 /\ left <= request.count /\ SectorSent
  BY <1>2 DEF TypeInv
<1>4. Ack(left) \in Frames /\ Ack(left).op = "ack"
  BY <1>3 DEF Frames, Ack, Frame
<1>5. /\ First \in Frames /\ Size(First) = IF left = request.count THEN CmdLen ELSE 1
      /\ First.op \in {"inquire", "read", "write", "ack"}
  BY <1>2, <1>4 DEF First, Size
<1>6. request.op = "write" => sector \in Frames /\ sector.op = "sector"
  BY <1>2, <1>3 DEF SectorSent, SectorOf, Frame, Frames
<1>7. Behind \in Nat
  BY Sizes DEF Behind
<1> QED
  BY <1>1, <1>2, <1>3, <1>5, <1>6, <1>7

(* What the line puts in the place of a byte is of no frame of the client's.*)
LEMMA NoiseFacts ==
    ASSUME NEW z \in Noise
    PROVE  z \in Frames /\ z.op = "noise"
PROOF
  BY DEF Noise, Frame, Frames

(* A round takes n bytes off the line.                                     *)
LEMMA GotFacts ==
    ASSUME TypeInv, NEW n \in 1 .. SecLen, Got(n)
    PROVE  /\ n <= Len(line) /\ n <= Wanted /\ Len(line) \in Nat /\ line # <<>>
           /\ line' \in Seq(Byte) /\ Len(line') = Len(line) - n
           /\ \A j \in 1 .. Len(line') : line'[j] = line[j + n]
PROOF
<1>1. line \in Seq(Byte) /\ Len(line) \in Nat /\ n \in Nat /\ n > 0 /\ SecLen \in Nat
  BY Sizes DEF TypeInv
<1>2. n <= Len(line) /\ n <= Wanted /\ line' = SubSeq(line, n + 1, Len(line))
  BY DEF Got
<1>3. line # <<>>
  BY <1>1, <1>2
<1> QED
  BY <1>1, <1>2, <1>3

(* The buffer after the read.                                              *)
LEMMA BuffFacts ==
    ASSUME TypeInv, BuffInv, NEW n \in 1 .. SecLen, Got(n)
    PROVE  /\ Buff(n) \in Seq(Byte) /\ Buff(n) # <<>>
           /\ Len(Buff(n)) = IF Aborted THEN n ELSE Len(buff) + n
           /\ readto # 0 => Len(Buff(n)) <= readto
           /\ readto = 0 => Len(Buff(n)) = 1 /\ n = 1
           /\ Buff(n)[Len(Buff(n))] = line[n]
           /\ ~Aborted /\ buff = <<>> => \A i \in 1 .. n : Buff(n)[i] = line[i]
           /\ Aborted => \A i \in 1 .. n : Buff(n)[i] = line[i]
           /\ ~Aborted => /\ \A i \in 1 .. Len(buff) : Buff(n)[i] = buff[i]
                          /\ \A i \in 1 .. n : Buff(n)[Len(buff) + i] = line[i]
PROOF
<1>1. /\ line \in Seq(Byte) /\ buff \in Seq(Byte) /\ Len(buff) \in Nat
      /\ readto \in Nat /\ n \in Nat /\ n > 0 /\ Len(line) \in Nat /\ n <= Len(line) /\ n <= Wanted
  BY Sizes, GotFacts DEF TypeInv
<1>2. DEFINE s == SubSeq(line, 1, n)
<1>3. s \in Seq(Byte) /\ Len(s) = n /\ \A i \in 1 .. n : s[i] = line[i]
  BY <1>1
<1>4. Buff(n) = IF Aborted THEN s ELSE buff \o s
  BY DEF Buff
<1> HIDE DEF s
<1>5. CASE Aborted
  <2>1. readto # 0 /\ n <= readto
    BY <1>1, <1>5 DEF Aborted, Wanted
  <2> QED
    BY <1>1, <1>3, <1>4, <1>5, <2>1
<1>6. CASE ~Aborted
  <2>1. /\ buff \o s \in Seq(Byte) /\ Len(buff \o s) = Len(buff) + n
        /\ \A i \in 1 .. Len(buff) : (buff \o s)[i] = buff[i]
        /\ \A i \in 1 .. n : (buff \o s)[Len(buff) + i] = s[i]
    BY <1>1, <1>3
  <2>2. IF readto = 0 THEN buff = <<>> /\ n = 1 ELSE Len(buff) + n <= readto
    BY <1>1 DEF BuffInv, Wanted
  <2>3. (buff \o s)[Len(buff) + n] = line[n]
    BY <1>1, <1>3, <2>1
  <2>4. buff \o s # <<>>
    BY <2>1, <1>1
  <2>5. \A i \in 1 .. n : (buff \o s)[Len(buff) + i] = line[i]
    BY <1>1, <1>3, <2>1
  <2>6. buff = <<>> => Len(buff) = 0
    OBVIOUS
  <2>7. buff = <<>> => \A i \in 1 .. n : (buff \o s)[i] = line[i]
    BY <1>1, <2>5, <2>6
  <2> QED
    BY <1>1, <1>4, <1>6, <2>1, <2>2, <2>3, <2>4, <2>5, <2>6, <2>7
<1> QED
  BY <1>5, <1>6

-----------------------------------------------------------------------------
(* What a round leaves alone, and what it knows.                           *)

(* A round happens only while the client waits, and before any answer.      *)
LEMMA RoundFacts ==
    ASSUME SafeInv, NEW n \in 1 .. SecLen, Got(n), UNCHANGED <<setup, client>>
    PROVE  /\ Asking /\ reply = NoReply /\ LineInv'
           /\ \/ line[n].of \in Noise /\ line[n].pos = 1
              \/ /\ line[n].of = First /\ line[n].pos <= Size(First)
                 /\ Len(line') <= Size(First) - line[n].pos + Behind
              \/ /\ request.op = "write" /\ line[n].of = sector
                 /\ Len(line') <= SecLen - line[n].pos
PROOF
<1>1. TypeInv /\ LineInv /\ ReplyInv
  BY DEF SafeInv
<1>2. /\ n <= Len(line) /\ Len(line) \in Nat /\ line # <<>> /\ n \in Nat /\ n > 0
      /\ line' \in Seq(Byte) /\ Len(line') = Len(line) - n
      /\ \A j \in 1 .. Len(line') : line'[j] = line[j + n]
  BY <1>1, GotFacts, Sizes
<1>3. Asking /\ reply = NoReply
  BY <1>1, <1>2 DEF LineInv, ReplyInv
<1>4. /\ Asking' /\ request' = request /\ sector' = sector /\ First' = First /\ Behind' = Behind
      /\ Size(First') = Size(First)
  BY <1>3 DEF client, Asking, First, Behind, Ack, Frame, Size
<1>5. /\ Len(line) <= Size(First) + Behind
      /\ \A j \in 1 .. Len(line) :
           \/ line[j].of \in Noise /\ line[j].pos = 1
           \/ /\ line[j].of = First /\ line[j].pos <= Size(First)
              /\ Len(line) - j <= Size(First) - line[j].pos + Behind
           \/ /\ request.op = "write" /\ line[j].of = sector
              /\ Len(line) - j <= SecLen - line[j].pos
  BY <1>1, <1>3 DEF LineInv
<1>6. Size(First) \in Nat /\ Behind \in Nat
  BY <1>1, <1>3, AskingFacts, Sizes
<1>7. Len(line') <= Size(First) + Behind
  BY <1>2, <1>5, <1>6
<1>8. ASSUME NEW j \in 1 .. Len(line')
      PROVE  \/ line'[j].of \in Noise /\ line'[j].pos = 1
             \/ /\ line'[j].of = First /\ line'[j].pos <= Size(First)
                /\ Len(line') - j <= Size(First) - line'[j].pos + Behind
             \/ /\ request.op = "write" /\ line'[j].of = sector
                /\ Len(line') - j <= SecLen - line'[j].pos
  <2>1. /\ j + n \in 1 .. Len(line) /\ line'[j] = line[j + n] /\ Len(line) - (j + n) = Len(line') - j
    BY <1>2, <1>8
  <2>2. /\ \/ line[j + n].of \in Noise /\ line[j + n].pos = 1
           \/ /\ line[j + n].of = First /\ line[j + n].pos <= Size(First)
              /\ Len(line) - (j + n) <= Size(First) - line[j + n].pos + Behind
           \/ /\ request.op = "write" /\ line[j + n].of = sector
              /\ Len(line) - (j + n) <= SecLen - line[j + n].pos
    BY <1>5, <2>1
  <2> QED
    BY <2>1, <2>2
<1>9. LineInv'
  BY <1>4, <1>7, <1>8 DEF LineInv, Noise, Frame
<1>10. /\ n \in 1 .. Len(line) /\ Len(line') = Len(line) - n
  BY <1>2
<1> QED
  BY <1>3, <1>5, <1>9, <1>10

(* A buffer whose checksum is right is one frame, and the last byte of it is *)
(* on the line: so it is the frame the client sent.                        *)
LEMMA WholeCommand ==
    ASSUME SafeInv, NEW n \in 1 .. SecLen, Got(n), UNCHANGED <<setup, client>>,
           Len(Buff(n)) = CmdLen, Checksum(Buff(n), CmdLen)
    PROVE  /\ Buff(n)[1].of = request /\ line[n].of = request /\ left = request.count
           /\ request.op # "write" => line' = <<>>
PROOF
<1>1. TypeInv /\ BuffInv /\ Asking
  BY RoundFacts DEF SafeInv
<1> DEFINE f == Buff(n)[1].of
<1>2. /\ Buff(n) \in Seq(Byte) /\ Len(Buff(n)) \in Nat /\ Buff(n)[CmdLen] = line[n]
  BY <1>1, BuffFacts, Sizes
<1>3. Buff(n)[1] \in Byte
  BY <1>2, Sizes
<1>4. f \in Frames
  BY <1>3 DEF Byte
<1>5. Buff(n) = Bytes(f)
  BY DEF Checksum
<1> HIDE DEF f
<1>6. Size(f) = CmdLen /\ line[n].of = f /\ line[n].pos = CmdLen
  <2>1. Size(f) = CmdLen
    BY <1>4, <1>5, BytesFacts
  <2> QED
    BY <1>2, <1>4, <1>5, <2>1, ByteAt, Sizes
<1>7. f.op # "sector" /\ f.op # "ack"
  BY <1>6, Sizes DEF Size
<1>8. /\ First.op \in {"inquire", "read", "write", "ack"} /\ Size(First) \in Nat /\ Behind \in Nat
      /\ Size(First) = IF left = request.count THEN CmdLen ELSE 1
      /\ request.op = "write" => sector.op = "sector"
  BY <1>1, AskingFacts, Sizes
<1>9. line[n].of = First /\ Len(line') <= Size(First) - CmdLen + Behind
  BY <1>6, <1>7, <1>8, RoundFacts, Sizes
<1>10. left = request.count /\ f = request
  BY <1>6, <1>8, <1>9, Sizes DEF First
<1>11. ASSUME request.op # "write"
       PROVE  line' = <<>>
  <2>1. Len(line') <= 0
    BY <1>8, <1>9, <1>10, <1>11, Sizes DEF Behind
  <2>2. line' \in Seq(Byte)
    BY <1>1, GotFacts
  <2> QED
    BY <2>1, <2>2
<1> QED
  BY <1>6, <1>10, <1>11 DEF f

(* A sector that passes its checksum is the client's, all of it.           *)
LEMMA WholeSector ==
    ASSUME SafeInv, NEW n \in 1 .. SecLen, Got(n), UNCHANGED <<setup, client>>,
           Len(Buff(n)) = SecLen, Checksum(Buff(n), SecLen)
    PROVE  /\ request.op = "write" /\ line' = <<>>
           /\ \A i \in 1 .. SecLen : Buff(n)[i].of = sector
PROOF
<1>1. TypeInv /\ BuffInv /\ Asking
  BY RoundFacts DEF SafeInv
<1> DEFINE f == Buff(n)[1].of
<1>2. /\ Buff(n) \in Seq(Byte) /\ Len(Buff(n)) \in Nat /\ Buff(n)[SecLen] = line[n]
  BY <1>1, BuffFacts, Sizes
<1>3. Buff(n)[1] \in Byte
  BY <1>2, Sizes
<1>4. f \in Frames
  BY <1>3 DEF Byte
<1>5. Buff(n) = Bytes(f)
  BY DEF Checksum
<1> HIDE DEF f
<1>6. Size(f) = SecLen /\ line[n].of = f /\ line[n].pos = SecLen
  <2>1. Size(f) = SecLen
    BY <1>4, <1>5, BytesFacts
  <2> QED
    BY <1>2, <1>4, <1>5, <2>1, ByteAt, Sizes
<1>7. Size(First) < SecLen /\ Size(First) \in Nat /\ Behind \in Nat
  BY <1>1, AskingFacts, Sizes
<1>8. line[n].of \notin Noise /\ line[n].of # First
  <2>1. f.op = "noise" => Size(f) = CmdLen
    BY DEF Size
  <2> QED
    BY <1>6, <1>7, <2>1, NoiseFacts, Sizes
<1>9. request.op = "write" /\ line[n].of = sector /\ Len(line') <= SecLen - SecLen
  BY <1>6, <1>8, RoundFacts
<1>10. line' = <<>>
  <2>1. line' \in Seq(Byte) /\ Len(line') \in Nat
    BY <1>1, GotFacts
  <2> QED
    BY <1>9, <2>1, Sizes
<1>11. \A i \in 1 .. SecLen : Buff(n)[i].of = sector
  <2>1. \A i \in 1 .. SecLen : Bytes(f)[i].of = f
    BY <1>4, <1>6, ByteAt
  <2> QED
    BY <1>5, <1>6, <1>9, <2>1
<1> QED
  BY <1>9, <1>10, <1>11

(* The one answer, by request.                                             *)
LEMMA RightRead ==
    request.op = "read" =>
      RD!Right = [kind |-> "contents", data |-> image[request.drive][Here],
                  from |-> <<request.drive, Here>>]
PROOF
  BY Zenon DEF RD!Right, RD!Here, Here

(* The echo.                                                               *)
LEMMA RightWrite ==
    request.op = "write" => RD!Right = [kind |-> "echo", data |-> sector.data, from |-> <<>>]
PROOF
  BY Zenon DEF RD!Right

(* The identity.                                                           *)
LEMMA RightInquire ==
    request.op = "inquire" =>
      RD!Right = [kind |-> "identity", data |-> NoData, from |-> <<request.drive>>]
PROOF
  BY Zenon DEF RD!Right

-----------------------------------------------------------------------------
(* The rounds keep the invariant.                                          *)

(* The types the client's half of the state keeps.                         *)
LEMMA TypeKept ==
    ASSUME TypeInv, NEW n \in 1 .. SecLen, Got(n), UNCHANGED <<setup, client>>,
           buff' \in Seq(Byte), readto' \in {0, 1, CmdLen, SecLen},
           workCount' \in Nat, workOffset' \in Nat, mylba' \in Nat, img' \in {0, 1},
           image' \in [Images -> [setup.lba -> Data]], silent' \in BOOLEAN
    PROVE  TypeInv'
PROOF
<1>1. line' \in Seq(Byte)
  BY GotFacts
<1>2. /\ request' = request /\ sector' = sector /\ left' = left /\ disturbed' = disturbed
      /\ unanswered' = unanswered /\ setup' = setup
  BY DEF client
<1>3. Commands[setup'] = Commands[setup]
  BY <1>2
<1> QED
  BY <1>1, <1>2, <1>3 DEF TypeInv, Asking, SectorSent, Images

(* A round that ends with nothing in the buffer and nothing awaited.        *)
LEMMA ClearedSafe ==
    ASSUME SafeInv, NEW n \in 1 .. SecLen, Got(n), UNCHANGED <<setup, client, image, reply>>,
           buff' = <<>>, readto' = 0, workCount' \in Nat, workOffset' \in Nat,
           mylba' \in Nat, img' \in {0, 1}, silent' \in BOOLEAN
    PROVE  SafeInv'
PROOF
<1>1. TypeInv /\ reply = NoReply /\ LineInv'
  BY RoundFacts DEF SafeInv
<1>2. image \in [Images -> [setup.lba -> Data]] /\ <<>> \in Seq(Byte)
  BY <1>1 DEF TypeInv
<1>3. TypeInv'
  BY <1>1, <1>2, TypeKept
<1>4. BuffInv' /\ AckInv' /\ SectorInv'
  BY Sizes DEF BuffInv, AckInv, SectorInv
<1>5. ReplyInv'
  BY <1>1 DEF ReplyInv, NoReply
<1> QED
  BY <1>1, <1>3, <1>4, <1>5 DEF SafeInv

(* A header is found.                                                      *)
LEMMA FindHeaderSafe ==
    ASSUME SafeInv, NEW n \in 1 .. SecLen, FindHeader(n), UNCHANGED setup
    PROVE  SafeInv'
PROOF
<1>1. /\ Got(n) /\ UNCHANGED <<setup, client, image, reply>> /\ silent' = FALSE
      /\ ~(Aborted /\ ~AtFront(n) /\ n # 1) /\ Readto(n) = 0
      /\ buff' = Buff(n) /\ readto' = CmdLen /\ HeaderByte(Buff(n)[1])
      /\ workCount' = Work /\ workOffset' = Offset /\ mylba' = mylba /\ img' = img
  BY DEF FindHeader, Round, AbortWork
<1>2. TypeInv /\ BuffInv /\ reply = NoReply /\ LineInv'
  BY <1>1, RoundFacts DEF SafeInv
<1>3. buff' \in Seq(Byte) /\ buff' # <<>> /\ Len(buff') = 1
  <2>1. Aborted => n = 1
    BY <1>1, Sizes DEF Readto
  <2>2. ~Aborted => readto = 0
    BY <1>1 DEF Readto
  <2> QED
    BY <1>1, <1>2, <2>1, <2>2, BuffFacts
<1>4. workCount' \in Nat /\ workOffset' \in Nat
  BY <1>1, <1>2 DEF Work, Offset, TypeInv
<1>5. TypeInv'
  <2>1. /\ image' \in [Images -> [setup.lba -> Data]] /\ mylba' \in Nat /\ img' \in {0, 1}
        /\ silent' \in BOOLEAN /\ readto' \in {0, 1, CmdLen, SecLen}
    BY <1>1, <1>2 DEF TypeInv
  <2> QED
    BY <1>1, <1>2, <1>3, <1>4, <2>1, TypeKept
<1>6. BuffInv' /\ AckInv' /\ SectorInv'
  BY <1>1, <1>3, Sizes DEF BuffInv, AckInv, SectorInv, HeaderByte
<1>7. ReplyInv'
  BY <1>1, <1>2 DEF ReplyInv, NoReply
<1> QED
  BY <1>2, <1>5, <1>6, <1>7 DEF SafeInv

(* The frames the client sends are no noise, and a command no sector.       *)
LEMMA SectorIsItself ==
    ASSUME TypeInv, Asking, request.op = "write"
    PROVE  sector \notin {request} \cup Noise
PROOF
  BY AskingFacts, NoiseFacts

(* More is to come: what the buffer lacks is on the line, or it is foreign.*)
LEMMA KeepReadingSafe ==
    ASSUME SafeInv, NEW n \in 1 .. SecLen, KeepReading(n), UNCHANGED setup
    PROVE  SafeInv'
PROOF
<1>1. PICK target \in {CmdLen, SecLen} :
        Round(n, target) /\ Len(Buff(n)) # target /\ readto' = target
  BY DEF KeepReading
<1>2. /\ Got(n) /\ UNCHANGED <<setup, client, image, reply>> /\ silent' = FALSE
      /\ Readto(n) = target
      /\ buff' = Buff(n) /\ workCommand' = WorkingOn
      /\ workCount' = Work /\ workOffset' = Offset /\ mylba' = mylba /\ img' = img
  BY <1>1 DEF KeepReading, Round, AbortWork
<1>3. TypeInv /\ BuffInv /\ SectorInv /\ Asking /\ reply = NoReply /\ LineInv'
  BY <1>2, RoundFacts DEF SafeInv
<1>4. target > 1 /\ target \in Nat
  BY <1>1, Sizes
<1>5. /\ request' = request /\ sector' = sector /\ left' = left /\ disturbed' = disturbed
      /\ setup' = setup /\ image' = image
  BY <1>2 DEF client
<1>6. TypeInv'
  <2>1. /\ image' \in [Images -> [setup.lba -> Data]] /\ mylba' \in Nat /\ img' \in {0, 1}
        /\ silent' \in BOOLEAN /\ readto' \in {0, 1, CmdLen, SecLen}
        /\ workCount' \in Nat /\ workOffset' \in Nat
    BY <1>1, <1>2, <1>3 DEF TypeInv, Work, Offset
  <2>2. buff' \in Seq(Byte)
    BY <1>2, <1>3, BuffFacts
  <2> QED
    BY <1>2, <1>3, <2>1, <2>2, TypeKept
<1>7. CASE Aborted
  <2>1. readto' = CmdLen /\ n <= CmdLen /\ HeaderByte(line[1])
    BY <1>1, <1>2, <1>4, <1>7, Sizes DEF Readto, AtFront
  <2>2. Len(buff') = n /\ buff' # <<>> /\ buff'[1] = line[1]
    BY <1>2, <1>3, <1>7, BuffFacts
  <2>3. n < CmdLen
    BY <1>1, <1>2, <2>1, <2>2, Sizes
  <2>4. BuffInv' /\ AckInv' /\ SectorInv'
    BY <2>1, <2>2, <2>3, Sizes DEF BuffInv, AckInv, SectorInv, HeaderByte
  <2> QED
    BY <1>2, <1>3, <1>6, <2>4 DEF SafeInv, ReplyInv, NoReply
<1>8. CASE ~Aborted
  <2>1. /\ readto = target /\ workCount' = workCount /\ workOffset' = workOffset
        /\ workCommand' = workCommand
    BY <1>2, <1>8 DEF Readto, Work, Offset, WorkingOn
  <2>2. /\ Len(buff') = Len(buff) + n /\ Len(buff) \in Nat /\ buff' # <<>> /\ Len(buff') <= readto
        /\ \A i \in 1 .. Len(buff) : buff'[i] = buff[i]
        /\ \A i \in 1 .. n : buff'[Len(buff) + i] = line[i]
    BY <1>2, <1>3, <1>4, <1>8, <2>1, BuffFacts DEF TypeInv
  <2>3. Len(buff') < target
    BY <1>1, <1>2, <1>4, <2>1, <2>2
  <2>4. BuffInv'
    <3>1. readto = CmdLen => buff # <<>> /\ Len(buff) > 0 /\ HeaderByte(buff[1]) /\ buff'[1] = buff[1]
      BY <1>3, <2>2 DEF BuffInv, TypeInv
    <3>2. readto = SecLen => workCount # 0
      BY <1>3 DEF BuffInv
    <3>3. readto' = CmdLen => buff' # <<>> /\ HeaderByte(buff'[1])
      BY <1>1, <2>1, <2>2, <3>1
    <3>4. readto' \in {1, SecLen} => workCount' # 0
      BY <1>1, <1>4, <2>1, <3>2, Sizes
    <3>5. IF readto' = 0 THEN buff' = <<>> ELSE Len(buff') < readto'
      BY <1>1, <1>4, <2>3
    <3> QED
      BY <3>3, <3>4, <3>5 DEF BuffInv, HeaderByte
  <2>5. AckInv'
    BY <1>1, <1>4 DEF AckInv
  <2>6. SectorInv'
    <3> SUFFICES ASSUME readto' = SecLen
                 PROVE  \/ Working(left)' /\ request.op = "write"
                        \/ \E i \in 1 .. Len(buff') : buff'[i].of # sector
      BY <1>5 DEF SectorInv
    <3>1. \/ Untouched
          \/ Working(left) /\ request.op = "write"
          \/ \E i \in 1 .. Len(buff) : buff[i].of # sector
      BY <1>1, <1>3, <2>1 DEF SectorInv
    <3>2. CASE Untouched
      <4>1. line[1].of \in {request} \cup Noise /\ buff'[Len(buff) + 1] = line[1]
        BY <2>2, <3>2 DEF Untouched
      <4>2. Len(buff) + 1 \in 1 .. Len(buff')
        BY <2>2
      <4>3. sector \notin {request} \cup Noise
        <5>1. request.op # "write" => sector = NoFrame
          BY <1>3 DEF TypeInv, SectorSent
        <5>2. NoFrame.op = "none"
          BY DEF NoFrame, Frame
        <5> QED
          BY <1>3, <5>1, <5>2, SectorIsItself, AskingFacts, NoiseFacts
      <4> QED
        BY <4>1, <4>2, <4>3
    <3>3. CASE Working(left) /\ request.op = "write"
      BY <1>2, <1>5, <2>1, <3>3 DEF Working, Answerable, Images, ReadOnly
    <3>4. CASE \E i \in 1 .. Len(buff) : buff[i].of # sector
      <4>1. PICK i \in 1 .. Len(buff) : buff[i].of # sector
        BY <3>4
      <4>2. i \in 1 .. Len(buff') /\ buff'[i] = buff[i]
        BY <2>2
      <4> QED
        BY <4>1, <4>2
    <3> QED
      BY <3>1, <3>2, <3>3, <3>4
  <2> QED
    BY <1>2, <1>3, <1>6, <2>4, <2>5, <2>6 DEF SafeInv, ReplyInv, NoReply
<1> QED
  BY <1>7, <1>8

(* A sector is stored: it is the one that is due.                          *)
LEMMA StoreSectorSafe ==
    ASSUME SafeInv, NEW n \in 1 .. SecLen, StoreSector(n), UNCHANGED setup
    PROVE  /\ SafeInv' /\ Working(left) /\ request.op = "write"
           /\ image' = [image EXCEPT ![request.drive][Here] = sector.data]
           /\ request.drive \in Images \ ReadOnly
           /\ reply' = [kind |-> "echo", data |-> sector.data, from |-> <<>>]
           /\ Working(left - 1)'
PROOF
<1>1. /\ Got(n) /\ UNCHANGED <<setup, client>> /\ silent' = FALSE /\ Readto(n) = SecLen
      /\ Len(Buff(n)) = SecLen /\ Checksum(Buff(n), SecLen) /\ img \notin ReadOnly
      /\ image' = [image EXCEPT ![img][Place] = Buff(n)[1].of.data]
      /\ reply' = [kind |-> "echo", data |-> Buff(n)[1].of.data, from |-> <<>>]
      /\ workOffset' = workOffset + 1 /\ workCount' = workCount - 1
      /\ buff' = <<>> /\ readto' = (IF workCount = 1 THEN 0 ELSE 1)
      /\ workCommand' = workCommand /\ mylba' = mylba /\ img' = img
  BY DEF StoreSector, Round
<1>2. /\ TypeInv /\ BuffInv /\ SectorInv /\ Asking /\ LineInv'
  BY <1>1, RoundFacts DEF SafeInv
<1>3. /\ request.op = "write" /\ line' = <<>>
      /\ \A i \in 1 .. SecLen : Buff(n)[i].of = sector
  BY <1>1, WholeSector
<1>4. ~Aborted /\ readto = SecLen
  BY <1>1, Sizes DEF Readto
<1>5. /\ Len(buff) \in Nat /\ Len(buff) + n = SecLen
      /\ \A i \in 1 .. Len(buff) : Buff(n)[i] = buff[i]
      /\ \A i \in 1 .. n : Buff(n)[Len(buff) + i] = line[i]
  <2>1. Len(buff) \in Nat
    BY <1>2 DEF TypeInv
  <2>2. /\ Len(Buff(n)) = Len(buff) + n
        /\ \A i \in 1 .. Len(buff) : Buff(n)[i] = buff[i]
        /\ \A i \in 1 .. n : Buff(n)[Len(buff) + i] = line[i]
    BY <1>1, <1>2, <1>4, BuffFacts
  <2> QED
    BY <1>1, <2>1, <2>2
<1>6. Working(left)
  <2>1. ~Untouched
    <3>1. SUFFICES ASSUME Untouched
                   PROVE  FALSE
      OBVIOUS
    <3>2. line[1].of \in {request} \cup Noise /\ Buff(n)[Len(buff) + 1] = line[1]
      BY <1>5, <3>1 DEF Untouched
    <3>3. Len(buff) + 1 \in 1 .. SecLen
      BY <1>5, Sizes
    <3>4. line[1].of = sector
      BY <1>3, <3>2, <3>3
    <3> QED
      BY <1>2, <1>3, <3>2, <3>4, SectorIsItself
  <2>2. ~ \E i \in 1 .. Len(buff) : buff[i].of # sector
    BY <1>3, <1>5, Sizes
  <2> QED
    BY <1>2, <1>4, <2>1, <2>2 DEF SectorInv
<1>7. /\ left \in Nat /\ left > 0 /\ left <= request.count /\ request.lba \in Nat
      /\ request.count \in Nat /\ request.drive \in {0, 1}
      /\ request \in Commands[setup] /\ sector.data \in Data
  BY <1>2, <1>3, AskingFacts DEF TypeInv, SectorSent
<1>8. /\ img = request.drive /\ workCount = left /\ workOffset = request.count - left
      /\ mylba = request.lba /\ workCommand = request.op /\ Answerable(request)
  BY <1>6 DEF Working
<1>9. Place = Here
  BY <1>7, <1>8 DEF Place, Here
<1>10. Buff(n)[1].of = sector
  BY <1>3, Sizes
<1>11. request.drive \in Images \ ReadOnly
  BY <1>3, <1>8 DEF Answerable
<1>12. /\ image' = [image EXCEPT ![request.drive][Here] = sector.data]
       /\ reply' = [kind |-> "echo", data |-> sector.data, from |-> <<>>]
  BY <1>1, <1>8, <1>9, <1>10
<1>13. /\ request' = request /\ sector' = sector /\ left' = left /\ disturbed' = disturbed
       /\ setup' = setup
  BY <1>1 DEF client
<1>14. Working(left - 1)'
  BY <1>1, <1>7, <1>8, <1>13 DEF Working, Answerable, Images, ReadOnly
<1>15. Here \in setup.lba
  <2>1. request.lba .. request.lba + request.count - 1 \subseteq setup.lba
    BY <1>2, <1>7, CommandFacts DEF TypeInv
  <2> QED
    BY <1>7, <2>1 DEF Here
<1>16. /\ image \in [Images -> [setup.lba -> Data]]
       /\ image' \in [Images -> [setup.lba -> Data]]
       /\ image'[request.drive][Here] = sector.data
  BY <1>2, <1>7, <1>11, <1>12, <1>15 DEF TypeInv
<1>17. TypeInv'
  <2>1. /\ readto' \in {0, 1, CmdLen, SecLen} /\ workCount' \in Nat /\ workOffset' \in Nat
        /\ mylba' \in Nat /\ img' \in {0, 1} /\ silent' \in BOOLEAN /\ buff' \in Seq(Byte)
    <3>1. /\ readto' \in {0, 1} /\ workCount' \in Nat /\ workOffset' \in Nat
          /\ mylba' \in Nat /\ img' \in {0, 1}
      BY <1>1, <1>7, <1>8
    <3>2. silent' \in BOOLEAN
      BY <1>1
    <3>3. buff' = <<>> /\ <<>> \in Seq(Byte)
      BY <1>1, EmptySeq
    <3> QED
      BY <3>1, <3>2, <3>3
  <2> QED
    BY <1>1, <1>2, <1>16, <2>1, TypeKept
<1>18. BuffInv'
  BY <1>1, <1>7, <1>8, Sizes DEF BuffInv
<1>19. AckInv' /\ SectorInv'
  BY <1>1, <1>3, <1>13, <1>14, Sizes DEF AckInv, SectorInv
<1>20. ReplyInv'
  <2>1. reply' = RD!Right'
    <3>1. (request.op = "write" =>
             RD!Right = [kind |-> "echo", data |-> sector.data, from |-> <<>>])'
      BY RightWrite, PTL
    <3> QED
      BY <1>3, <1>12, <1>13, <3>1
  <2>2. Asking' /\ Answerable(request)'
    BY <1>2, <1>8, <1>13 DEF Asking, Answerable, Images, ReadOnly
  <2>3. image'[request'.drive][Here'] = sector'.data
    BY <1>13, <1>16 DEF Here
  <2>4. readto' = 0 => workCount' = 0
    BY <1>1, <1>7, <1>8
  <2>5. readto' \in {0, 1}
    BY <1>1
  <2> QED
    BY <1>3, <1>14, <2>1, <2>2, <2>3, <2>4, <2>5 DEF ReplyInv
<1> QED
  BY <1>2, <1>3, <1>6, <1>11, <1>12, <1>14, <1>17, <1>18, <1>19, <1>20 DEF SafeInv

(* A command or its continuation, on the client's request.                  *)
LEMMA ServeSafe ==
    ASSUME SafeInv, NEW n \in 1 .. SecLen, Got(n), UNCHANGED <<setup, client>>, silent' = FALSE,
           Serve(request.op, request.drive, request.lba, request.count - left, left),
           Answerable(request), request.op # "write" => line' = <<>>
    PROVE  /\ SafeInv'
           /\ \/ /\ request.op = "write" /\ readto' = SecLen /\ reply' = reply
                 /\ Working(left)'
              \/ /\ request.op # "write" /\ reply' = RD!Right
                 /\ readto' = IF left = 1 THEN 0 ELSE 1
                 /\ Working(left - 1)'
           /\ buff' = <<>> /\ image' = image
PROOF
<1>1. /\ workCommand' = request.op /\ img' = request.drive /\ mylba' = request.lba
      /\ buff' = <<>> /\ image' = image
  BY DEF Serve
<1>2. /\ TypeInv /\ BuffInv /\ Asking /\ LineInv' /\ reply = NoReply
  BY RoundFacts DEF SafeInv
<1>3. /\ left \in Nat /\ left > 0 /\ left <= request.count /\ request.lba \in Nat
      /\ request.count \in Nat /\ request.drive \in {0, 1}
      /\ request.op \in {"inquire", "read", "write"}
  BY <1>2, AskingFacts
<1>4. /\ request' = request /\ sector' = sector /\ left' = left /\ disturbed' = disturbed
      /\ setup' = setup
  BY DEF client
<1>5. Answerable(request)' /\ Asking' /\ request' # NoFrame
  BY <1>2, <1>4 DEF Asking, Answerable, Images, ReadOnly
<1>6. CASE request.op = "write"
  <2>1. /\ readto' = SecLen /\ workOffset' = request.count - left /\ workCount' = left
        /\ reply' = reply
    BY <1>3, <1>6 DEF Serve
  <2>2. Working(left)'
    BY <1>1, <1>4, <1>5, <2>1 DEF Working
  <2>3. TypeInv'
    <3>1. /\ readto' \in {0, 1, CmdLen, SecLen} /\ workCount' \in Nat /\ workOffset' \in Nat
          /\ mylba' \in Nat /\ img' \in {0, 1} /\ silent' \in BOOLEAN /\ buff' \in Seq(Byte)
          /\ image' \in [Images -> [setup.lba -> Data]]
      <4>1. /\ readto' \in {0, 1, CmdLen, SecLen} /\ workCount' \in Nat /\ workOffset' \in Nat
            /\ mylba' \in Nat /\ img' \in {0, 1}
        BY <1>1, <1>3, <2>1
      <4>2. silent' \in BOOLEAN
        OBVIOUS
      <4>3. buff' = <<>> /\ <<>> \in Seq(Byte)
        BY <1>1, EmptySeq
      <4>4. image' \in [Images -> [setup.lba -> Data]]
        BY <1>1, <1>2 DEF TypeInv
      <4> QED
        BY <4>1, <4>2, <4>3, <4>4
    <3> QED
      BY <1>2, <3>1, TypeKept
  <2>4. BuffInv' /\ AckInv' /\ SectorInv'
    BY <1>1, <1>3, <1>4, <1>6, <2>1, <2>2, Sizes DEF BuffInv, AckInv, SectorInv
  <2>5. ReplyInv'
    BY <1>2, <2>1 DEF ReplyInv, NoReply
  <2> QED
    BY <1>1, <1>2, <1>6, <2>1, <2>2, <2>3, <2>4, <2>5 DEF SafeInv
<1>7. CASE request.op # "write"
  <2>1. /\ readto' = (IF left = 1 THEN 0 ELSE 1)
        /\ workOffset' = request.count - left + 1 /\ workCount' = left - 1
    BY <1>3, <1>7 DEF Serve
  <2>2. Working(left - 1)'
    BY <1>1, <1>3, <1>4, <1>5, <2>1 DEF Working
  <2>3. reply' = RD!Right
    <3>1. CASE request.op = "inquire"
      BY <1>7, <3>1, RightInquire DEF Serve
    <3>2. CASE request.op = "read"
      <4>1. Here = request.lba + (request.count - left)
        BY <1>3 DEF Here
      <4>2. reply' = [kind |-> "contents", data |-> image[request.drive][request.lba + (request.count - left)],
                      from |-> <<request.drive, request.lba + (request.count - left)>>]
        BY <1>7, <3>2 DEF Serve
      <4> QED
        BY <3>2, <4>1, <4>2, RightRead
    <3> QED
      BY <1>3, <1>7, <3>1, <3>2
  <2>4. reply' = RD!Right'
    <3>1. CASE request.op = "inquire"
      <4>1. (request.op = "inquire" =>
               RD!Right = [kind |-> "identity", data |-> NoData, from |-> <<request.drive>>])'
        BY RightInquire, PTL
      <4> QED
        BY <1>4, <2>3, <3>1, <4>1, RightInquire
    <3>2. CASE request.op = "read"
      <4>1. (request.op = "read" =>
               RD!Right = [kind |-> "contents", data |-> image[request.drive][Here],
                           from |-> <<request.drive, Here>>])'
        BY RightRead, PTL
      <4>2. Here' = Here
        BY <1>4 DEF Here
      <4> QED
        BY <1>1, <1>4, <2>3, <3>2, <4>1, <4>2, RightRead
    <3> QED
      BY <1>3, <1>7, <3>1, <3>2
  <2>5. TypeInv'
    <3>1. /\ readto' \in {0, 1, CmdLen, SecLen} /\ workCount' \in Nat /\ workOffset' \in Nat
          /\ mylba' \in Nat /\ img' \in {0, 1} /\ silent' \in BOOLEAN /\ buff' \in Seq(Byte)
          /\ image' \in [Images -> [setup.lba -> Data]]
      <4>1. /\ readto' \in {0, 1, CmdLen, SecLen} /\ workCount' \in Nat /\ workOffset' \in Nat
            /\ mylba' \in Nat /\ img' \in {0, 1}
        BY <1>1, <1>3, <2>1
      <4>2. silent' \in BOOLEAN
        OBVIOUS
      <4>3. buff' = <<>> /\ <<>> \in Seq(Byte)
        BY <1>1, EmptySeq
      <4>4. image' \in [Images -> [setup.lba -> Data]]
        BY <1>1, <1>2 DEF TypeInv
      <4> QED
        BY <4>1, <4>2, <4>3, <4>4
    <3> QED
      BY <1>2, <3>1, TypeKept
  <2>6. BuffInv' /\ AckInv' /\ SectorInv'
    BY <1>1, <1>3, <1>4, <1>7, <2>1, <2>2, Sizes DEF BuffInv, AckInv, SectorInv
  <2>7. ReplyInv'
    BY <1>3, <1>4, <1>5, <1>7, <2>1, <2>2, <2>4 DEF ReplyInv
  <2> QED
    BY <1>1, <1>2, <1>7, <2>1, <2>2, <2>3, <2>5, <2>6, <2>7 DEF SafeInv
<1> QED
  BY <1>6, <1>7

(* The number of sectors left has come: it is the client's.                *)
LEMMA ContinueSafe ==
    ASSUME SafeInv, NEW n \in 1 .. SecLen, Continue(n), UNCHANGED setup
    PROVE  /\ Got(n) /\ UNCHANGED <<setup, client>> /\ silent' = FALSE
           /\ readto = 1 /\ n = 1 /\ Working(left) /\ left < request.count
           /\ Serve(request.op, request.drive, request.lba, request.count - left, left)
           /\ Answerable(request) /\ (request.op # "write" => line' = <<>>)
PROOF
<1>1. PICK target \in {1, CmdLen} : Complete(n, target)
  BY DEF Continue
<1>2. /\ Got(n) /\ UNCHANGED <<setup, client>> /\ silent' = FALSE /\ Readto(n) = target
      /\ Len(Buff(n)) = target /\ Work # 0 /\ Says(Buff(n)[1], Work)
      /\ Serve(workCommand, img, mylba, workOffset, Work)
  BY <1>1 DEF Continue, Complete, Round
<1>3. /\ TypeInv /\ BuffInv /\ AckInv /\ Asking
  BY <1>2, RoundFacts DEF SafeInv
<1>4. ~Aborted /\ readto = target /\ Work = workCount
  BY <1>2 DEF Work, Readto
<1>5. readto # CmdLen
  <2>1. SUFFICES ASSUME readto = CmdLen
                 PROVE  FALSE
    OBVIOUS
  <2>2. HeaderByte(buff[1]) /\ buff # <<>>
    BY <1>3, <2>1 DEF BuffInv
  <2>3. Buff(n)[1] = buff[1]
    <3>1. buff \in Seq(Byte) /\ TypeInv
      BY <1>3 DEF TypeInv
    <3>2. 1 \in 1 .. Len(buff)
      BY <2>2, <3>1
    <3>3. \A i \in 1 .. Len(buff) : Buff(n)[i] = buff[i]
      BY <1>2, <1>3, <1>4, BuffFacts
    <3> QED
      BY <3>2, <3>3
  <2> QED
    BY <1>2, <2>2, <2>3, ContentsAssumption DEF HeaderByte, Says
<1>6. readto = 1 /\ n = 1 /\ Buff(n)[1] = line[1]
  <2>1. readto = 1 /\ buff = <<>> /\ Len(buff) = 0
    BY <1>1, <1>3, <1>4, <1>5 DEF BuffInv, TypeInv
  <2> QED
    BY <1>2, <1>3, <1>4, <2>1, BuffFacts
<1>7. ~Untouched
  <2>1. ASSUME line[1].of \in {request} \cup Noise
        PROVE  ~Says(line[1], Work)
    BY <1>3, <2>1, AskingFacts, NoiseFacts DEF Says
  <2> QED
    BY <1>2, <1>6, <2>1 DEF Untouched
<1>8. Working(left) /\ left < request.count
  <2>1. line # <<>>
    BY <1>2, <1>3, GotFacts
  <2> QED
    BY <1>3, <1>6, <1>7, <2>1 DEF AckInv
<1>9. /\ Serve(request.op, request.drive, request.lba, request.count - left, left)
      /\ Answerable(request)
  BY <1>2, <1>4, <1>8 DEF Working
<1>10. request.op # "write" => line' = <<>>
  <2>1. /\ Len(line) <= Size(First) + Behind /\ Size(First) = 1
        /\ (request.op # "write" => Behind = 0)
    BY <1>3, <1>8, AskingFacts DEF SafeInv, LineInv, Behind
  <2>2. line' \in Seq(Byte) /\ Len(line') = Len(line) - 1 /\ Len(line) \in Nat /\ Len(line') \in Nat
    BY <1>2, <1>3, <1>6, GotFacts
  <2> QED
    BY <2>1, <2>2
<1> QED
  BY <1>2, <1>6, <1>8, <1>9, <1>10

(* A command is accepted: it is the client's.                              *)
LEMMA AcceptCommandSafe ==
    ASSUME SafeInv, NEW n \in 1 .. SecLen, AcceptCommand(n), UNCHANGED setup
    PROVE  /\ Got(n) /\ UNCHANGED <<setup, client>> /\ silent' = FALSE
           /\ left = request.count /\ Len(Buff(n)) = CmdLen
           /\ Serve(request.op, request.drive, request.lba, request.count - left, left)
           /\ Answerable(request) /\ (request.op # "write" => line' = <<>>)
PROOF
<1>1. /\ Got(n) /\ UNCHANGED <<setup, client>> /\ silent' = FALSE
      /\ Len(Buff(n)) = CmdLen /\ Checksum(Buff(n), CmdLen)
  BY DEF AcceptCommand, NewCommand, Complete, Round
<1>2. /\ Buff(n)[1].of = request /\ left = request.count
      /\ request.op # "write" => line' = <<>>
  BY <1>1, WholeCommand
<1>3. /\ request.drive \in Images /\ ~(request.op = "write" /\ request.drive \in ReadOnly)
      /\ Serve(request.op, request.drive, request.lba, 0, request.count)
  BY <1>2 DEF AcceptCommand, StartOffset
<1>4. left \in Nat
  BY <1>1, RoundFacts, AskingFacts DEF SafeInv
<1>5. request.count - left = 0
  BY <1>2, <1>4
<1> QED
  BY <1>1, <1>2, <1>3, <1>5 DEF Answerable

(* Every round.                                                            *)
LEMMA RoundSafe ==
    ASSUME SafeInv, NEW n \in 1 .. SecLen, ProcessRequests(n), UNCHANGED setup
    PROVE  SafeInv'
PROOF
<1>1. TypeInv
  BY DEF SafeInv
<1>2. /\ Work \in Nat /\ Offset \in Nat /\ workOffset \in Nat /\ mylba \in Nat /\ img \in {0, 1}
      /\ silent \in BOOLEAN /\ FALSE \in BOOLEAN /\ 0 \in Nat
  BY <1>1 DEF TypeInv, Work, Offset
<1>3. CASE DiscardAll(n)
  BY <1>2, <1>3, ClearedSafe DEF DiscardAll, AbortWork
<1>4. CASE FindHeader(n)
  BY <1>4, FindHeaderSafe
<1>5. CASE DropSpurious(n)
  BY <1>2, <1>5, ClearedSafe DEF DropSpurious, Round, AbortWork
<1>6. CASE KeepReading(n)
  BY <1>6, KeepReadingSafe
<1>7. CASE RefuseSector(n)
  BY <1>2, <1>7, ClearedSafe DEF RefuseSector, Round, AbortWork
<1>8. CASE StoreSector(n)
  BY <1>8, StoreSectorSafe
<1>9. CASE ContinueFault(n)
  BY <1>2, <1>9, ClearedSafe DEF ContinueFault, Complete, Round
<1>10. CASE Continue(n)
  BY <1>10, ContinueSafe, ServeSafe
<1>11. CASE BadCommand(n)
  BY <1>2, <1>11, ClearedSafe DEF BadCommand, Complete, Round, AbortWork
<1>12. CASE RefuseCommand(n)
  <2>1. /\ Got(n) /\ UNCHANGED <<setup, client, image, reply>> /\ silent' = FALSE
        /\ Len(Buff(n)) = CmdLen /\ Checksum(Buff(n), CmdLen)
        /\ buff' = <<>> /\ readto' = 0 /\ workCount' = 0 /\ workOffset' = 0
    BY <1>12 DEF RefuseCommand, NewCommand, Complete, Round
  <2>2. Buff(n)[1].of = request
    BY <2>1, WholeCommand
  <2>3. mylba' = request.lba /\ img' = request.drive
    BY <1>12, <2>2 DEF RefuseCommand
  <2>4. request.lba \in Nat /\ request.drive \in {0, 1}
    BY <1>1, <2>1, RoundFacts, AskingFacts
  <2> QED
    BY <1>2, <2>1, <2>3, <2>4, ClearedSafe
<1>13. CASE AcceptCommand(n)
  BY <1>13, AcceptCommandSafe, ServeSafe
<1> QED
  BY <1>3, <1>4, <1>5, <1>6, <1>7, <1>8, <1>9, <1>10, <1>11, <1>12, <1>13 DEF ProcessRequests

-----------------------------------------------------------------------------
(* So do the client, the line and the end of the server.                    *)

(* The right answer depends on these alone.                                *)
LEMMA RightKept ==
    ASSUME UNCHANGED <<image, request, sector, left>>
    PROVE  RD!Right' = RD!Right /\ Here' = Here
PROOF
<1>1. image' = image /\ request' = request /\ sector' = sector /\ left' = left
  OBVIOUS
<1>2. Here' = Here
  BY <1>1 DEF Here
<1>3. RD!Right' = RD!Right
  BY <1>1, Zenon DEF RD!Right, RD!Here
<1> QED
  BY <1>2, <1>3

(* What is sent: one frame, or two.                                        *)
LEMMA FrameAndSector ==
    ASSUME NEW f \in Frames, NEW g \in Frames
    PROVE  /\ Bytes(f) \o Bytes(g) \in Seq(Byte)
           /\ Len(Bytes(f) \o Bytes(g)) = Size(f) + Size(g)
           /\ \A j \in 1 .. Size(f) : /\ (Bytes(f) \o Bytes(g))[j].of = f
                                      /\ (Bytes(f) \o Bytes(g))[j].pos = j
           /\ \A j \in 1 .. Size(g) : /\ (Bytes(f) \o Bytes(g))[Size(f) + j].of = g
                                      /\ (Bytes(f) \o Bytes(g))[Size(f) + j].pos = j
PROOF
<1>1. /\ Bytes(f) \in Seq(Byte) /\ Len(Bytes(f)) = Size(f)
      /\ Bytes(g) \in Seq(Byte) /\ Len(Bytes(g)) = Size(g)
  BY BytesFacts
<1>2. /\ Bytes(f) \o Bytes(g) \in Seq(Byte)
      /\ Len(Bytes(f) \o Bytes(g)) = Size(f) + Size(g)
      /\ \A j \in 1 .. Size(f) : (Bytes(f) \o Bytes(g))[j] = Bytes(f)[j]
      /\ \A j \in 1 .. Size(g) : (Bytes(f) \o Bytes(g))[Size(f) + j] = Bytes(g)[j]
  <2> DEFINE x == Bytes(f)
             y == Bytes(g)
  <2>1. x \in Seq(Byte) /\ y \in Seq(Byte) /\ Len(x) = Size(f) /\ Len(y) = Size(g)
    BY <1>1
  <2> HIDE DEF x, y
  <2>2. /\ x \o y \in Seq(Byte) /\ Len(x \o y) = Len(x) + Len(y)
        /\ \A j \in 1 .. Len(x) : (x \o y)[j] = x[j]
        /\ \A j \in 1 .. Len(y) : (x \o y)[Len(x) + j] = y[j]
    BY <2>1, Joined, Zenon
  <2>3. /\ x \o y \in Seq(Byte) /\ Len(x \o y) = Size(f) + Size(g)
        /\ \A j \in 1 .. Size(f) : (x \o y)[j] = x[j]
        /\ \A j \in 1 .. Size(g) : (x \o y)[Size(f) + j] = y[j]
    BY <2>1, <2>2, Zenon
  <2> QED
    BY <2>3 DEF x, y
<1> QED
  BY <1>2, ByteAt

(* One frame.                                                              *)
LEMMA FrameAlone ==
    ASSUME NEW f \in Frames, NEW s, s = Bytes(f) \o <<>>
    PROVE  /\ s \in Seq(Byte) /\ Len(s) = Size(f) /\ s = Bytes(f)
           /\ \A j \in 1 .. Size(f) : s[j].of = f /\ s[j].pos = j
PROOF
<1>1. Bytes(f) \in Seq(Byte) /\ Len(Bytes(f)) = Size(f) /\ Size(f) \in Nat
  BY BytesFacts, Sizes
<1>2. s = Bytes(f)
  BY <1>1
<1> QED
  BY <1>1, <1>2, ByteAt

(* The line was empty: what the client sends is all there is on it.        *)
LEMMA SendFacts ==
    ASSUME setup \in Setups, setup' = setup, NEW f \in Frames, request' \in Commands[setup],
           left' \in 1 .. request'.count, First' = f, Send(f, request'.count - left')
    PROVE  /\ line' \in Seq(Byte) /\ Asking' /\ SectorSent' /\ LineInv'
           /\ line' = Bytes(f) \o Sector'
           /\ \A j \in 1 .. Size(f) : line'[j].of = f
           /\ Len(line') >= Size(f)
PROOF
<1>1. /\ request' \in Frames /\ request' # NoFrame
      /\ request'.op \in {"inquire", "read", "write"} /\ request'.drive \in {0, 1}
      /\ request'.lba \in Nat /\ request'.count \in Nat
  BY CommandFacts
<1>2. PICK d \in Data :
        /\ sector' = IF request'.op = "write" THEN SectorOf(request', request'.count - left', d)
                     ELSE NoFrame
        /\ line' = Bytes(f) \o (IF request'.op = "write" THEN Bytes(sector') ELSE <<>>)
  BY DEF Send
<1>3. Asking'
  BY <1>1 DEF Asking, NoFrame, Frame
<1>4. SectorSent'
  BY <1>2 DEF SectorSent, SectorOf, Frame, NoFrame
<1>5. request'.op = "write" => sector' \in Frames /\ Size(sector') = SecLen
  BY <1>1, <1>2 DEF SectorOf, Frame, Frames, Size
<1>6. Size(f) \in Nat /\ Size(f) > 0
  BY BytesFacts, Sizes
<1>7. /\ line' \in Seq(Byte) /\ Len(line') = Size(f) + Behind'
      /\ \A j \in 1 .. Size(f) : line'[j].of = f /\ line'[j].pos = j
      /\ request'.op = "write" => \A j \in 1 .. SecLen : line'[Size(f) + j].of = sector'
                                                        /\ line'[Size(f) + j].pos = j
  <2>1. CASE request'.op = "write"
    <3>1. line' = Bytes(f) \o Bytes(sector') /\ Behind' = SecLen
      BY <1>2, <2>1 DEF Behind
    <3>2. sector' \in Frames /\ Size(sector') = SecLen
      BY <1>5, <2>1
    <3>3. /\ line' \in Seq(Byte) /\ Len(line') = Size(f) + Size(sector')
          /\ \A j \in 1 .. Size(f) : line'[j].of = f /\ line'[j].pos = j
          /\ \A j \in 1 .. Size(sector') : line'[Size(f) + j].of = sector'
                                             /\ line'[Size(f) + j].pos = j
      <4> DEFINE g == sector'
      <4>1. /\ Bytes(f) \o Bytes(g) \in Seq(Byte)
            /\ Len(Bytes(f) \o Bytes(g)) = Size(f) + Size(g)
            /\ \A j \in 1 .. Size(f) : /\ (Bytes(f) \o Bytes(g))[j].of = f
                                       /\ (Bytes(f) \o Bytes(g))[j].pos = j
            /\ \A j \in 1 .. Size(g) : /\ (Bytes(f) \o Bytes(g))[Size(f) + j].of = g
                                       /\ (Bytes(f) \o Bytes(g))[Size(f) + j].pos = j
        <5>1. g \in Frames
          BY <3>2
        <5> HIDE DEF g
        <5> QED
          BY <5>1, FrameAndSector
      <4>2. line' = Bytes(f) \o Bytes(g)
        BY <3>1
      <4> QED
        BY <4>1, <4>2, Zenon
    <3> QED
      BY <2>1, <3>1, <3>2, <3>3
  <2>2. CASE request'.op # "write"
    <3>1. line' = Bytes(f) \o <<>> /\ Behind' = 0
      BY <1>2, <2>2 DEF Behind
    <3> QED
      BY <1>6, <2>2, <3>1, FrameAlone
  <2> QED
    BY <2>1, <2>2
<1>8. /\ Len(line') >= Size(f) /\ Behind' \in Nat /\ (request'.op # "write" => Behind' = 0)
      /\ (request'.op = "write" => Behind' = SecLen)
  BY <1>6, <1>7, Sizes DEF Behind
<1>9. LineInv'
  <2>1. Size(First')  = Size(f)
    OBVIOUS
  <2>2. ASSUME NEW j \in 1 .. Len(line')
        PROVE  \/ /\ line'[j].of = f /\ line'[j].pos <= Size(f)
                  /\ Len(line') - j <= Size(f) - line'[j].pos + Behind'
               \/ /\ request'.op = "write" /\ line'[j].of = sector'
                  /\ Len(line') - j <= SecLen - line'[j].pos
    <3>1. CASE j <= Size(f)
      <4>1. line'[j].of = f /\ line'[j].pos = j
        BY <1>6, <1>7, <3>1
      <4> QED
        BY <1>6, <1>7, <1>8, <3>1, <4>1
    <3>2. CASE j > Size(f)
      <4>1. /\ request'.op = "write" /\ j - Size(f) \in 1 .. SecLen
            /\ Size(f) + (j - Size(f)) = j
        BY <1>6, <1>7, <1>8, <3>2, Sizes
      <4>2. line'[j].of = sector' /\ line'[j].pos = j - Size(f)
        BY <1>7, <4>1
      <4> QED
        BY <1>6, <1>7, <1>8, <4>1, <4>2, Sizes
    <3> QED
      BY <1>6, <3>1, <3>2
  <2>3. Len(line') <= Size(f) + Behind'
    BY <1>6, <1>7, <1>8
  <2> QED
    BY <1>3, <2>1, <2>2, <2>3 DEF LineInv
<1>10. line' = Bytes(f) \o Sector'
  BY <1>2 DEF Sector, Bytes, Size
<1> QED
  BY <1>3, <1>4, <1>7, <1>8, <1>9, <1>10

(* A new command.                                                          *)
LEMMA AskSafe ==
    ASSUME SafeInv, Ask, UNCHANGED setup
    PROVE  /\ SafeInv' /\ Asking' /\ left' = request'.count /\ request' \in Commands[setup]
           /\ SectorSent' /\ reply = NoReply /\ reply' = NoReply
           /\ line' = Bytes(request') \o Sector'
PROOF
<1>1. /\ request = NoFrame /\ request' \in Commands[setup] /\ left' = request'.count
      /\ Send(request', 0) /\ disturbed' = FALSE
      /\ UNCHANGED <<buff, readto, workCommand, workOffset, workCount, mylba, img, silent,
                     image, reply, unanswered, setup>>
  BY DEF Ask, server
<1>2. TypeInv /\ BuffInv /\ reply = NoReply
  BY <1>1 DEF SafeInv, ReplyInv, Asking
<1>3. /\ request' \in Frames /\ request'.op \in {"inquire", "read", "write"}
      /\ request'.count \in Nat /\ request'.count > 0
  BY <1>1, <1>2, CommandFacts DEF TypeInv
<1>4. left' \in 1 .. request'.count /\ request'.count - left' = 0 /\ First' = request'
  BY <1>1, <1>3 DEF First
<1>5. Size(request') = CmdLen
  BY <1>3 DEF Size
<1>6. /\ line' \in Seq(Byte) /\ Asking' /\ SectorSent' /\ LineInv'
      /\ line' = Bytes(request') \o Sector'
      /\ \A j \in 1 .. CmdLen : line'[j].of = request'
      /\ Len(line') >= CmdLen
  BY <1>1, <1>2, <1>3, <1>4, <1>5, SendFacts DEF TypeInv
<1>7. Untouched'
  <2>1. line'[1].of = request' /\ line'[2].of = request'
    BY <1>6, Sizes
  <2>2. Len(line') \in Nat /\ Len(line') > 1 /\ line' # <<>>
    BY <1>6, Sizes
  <2> QED
    BY <1>1, <2>1, <2>2 DEF Untouched
<1>8. TypeInv'
  BY <1>1, <1>2, <1>4, <1>6 DEF TypeInv, Images
<1>9. BuffInv' /\ AckInv' /\ SectorInv'
  BY <1>1, <1>2, <1>7 DEF BuffInv, AckInv, SectorInv, HeaderByte
<1>10. ReplyInv'
  BY <1>1, <1>2 DEF ReplyInv, NoReply
<1> QED
  BY <1>1, <1>2, <1>6, <1>8, <1>9, <1>10 DEF SafeInv

(* The client takes the answer, and sends what follows it.                 *)
LEMMA TakeAnswerSafe ==
    ASSUME SafeInv, TakeAnswer, UNCHANGED setup
    PROVE  /\ SafeInv' /\ reply # NoReply /\ reply' = NoReply
           /\ (left # 1 => /\ left' = left - 1 /\ left' < request.count /\ request' = request
                           /\ Asking' /\ SectorSent'
                           /\ line' = Bytes(Ack(left')) \o Sector')
PROOF
<1>1. /\ request # NoFrame /\ Answers(reply) /\ reply' = NoReply /\ left' = left - 1
      /\ UNCHANGED <<buff, readto, workCommand, workOffset, workCount, mylba, img, silent,
                     image, disturbed, setup>>
  BY DEF TakeAnswer, server
<1>2. TypeInv /\ BuffInv /\ Asking
  BY <1>1 DEF SafeInv, Asking
<1>3. /\ request.op \in {"inquire", "read", "write"} /\ request \in Commands[setup]
      /\ left \in Nat /\ left > 0 /\ left <= request.count /\ request.count \in Nat
  BY <1>2, AskingFacts
<1>4. reply # NoReply
  BY <1>1, <1>3 DEF Answers, NoReply
<1>5. line = <<>> /\ ((readto = 0 /\ workCount = 0) \/ (readto = 1 /\ Working(left - 1)))
  BY <1>4 DEF SafeInv, ReplyInv
<1>6. ReplyInv'
  BY <1>1 DEF ReplyInv, NoReply
<1>7. BuffInv'
  BY <1>1, <1>2 DEF BuffInv, HeaderByte
<1>8. SectorInv'
  BY <1>1, <1>5, Sizes DEF SectorInv
<1>9. CASE left = 1
  <2>1. request' = NoFrame /\ sector' = NoFrame /\ unanswered' = 0 /\ line' = line
    BY <1>9 DEF TakeAnswer
  <2>2. TypeInv'
    BY <1>1, <1>2, <2>1 DEF TypeInv, Images, Asking, NoFrame, Frame
  <2>3. LineInv' /\ AckInv'
    BY <1>5, <2>1 DEF LineInv, AckInv, Asking, NoFrame, Frame
  <2> QED
    BY <1>1, <1>4, <1>6, <1>7, <1>8, <1>9, <2>2, <2>3 DEF SafeInv
<1>10. CASE left # 1
  <2>1. request' = request /\ unanswered' = unanswered /\ Send(Ack(left - 1), request.count - (left - 1))
    BY <1>10 DEF TakeAnswer
  <2>2. /\ left' \in 1 .. request'.count /\ left' < request'.count /\ First' = Ack(left')
        /\ left' \in Nat
    BY <1>1, <1>3, <1>10, <2>1 DEF First, Ack, Frame
  <2>3. Ack(left') \in Frames
    BY <2>2 DEF Ack, Frame, Frames
  <2>4. Send(Ack(left'), request'.count - left')
    BY <1>1, <2>1
  <2>5. /\ line' \in Seq(Byte) /\ Asking' /\ SectorSent' /\ LineInv'
        /\ line' = Bytes(Ack(left')) \o Sector'
    BY <1>1, <1>2, <1>3, <2>1, <2>2, <2>3, <2>4, SendFacts DEF TypeInv
  <2>6. TypeInv'
    BY <1>1, <1>2, <2>1, <2>2, <2>5 DEF TypeInv, Images
  <2>7. AckInv'
    <3>1. readto' = 1 => Working(left)'
      BY <1>1, <1>5, <2>1 DEF Working, Answerable, Images, ReadOnly
    <3> QED
      BY <2>2, <3>1 DEF AckInv
  <2> QED
    BY <1>1, <1>4, <1>6, <1>7, <1>8, <1>10, <2>1, <2>2, <2>5, <2>6, <2>7 DEF SafeInv
<1> QED
  BY <1>9, <1>10

(* The client gives up.                                                    *)
LEMMA GiveUpSafe ==
    ASSUME SafeInv, GiveUp, UNCHANGED setup
    PROVE  SafeInv'
PROOF
<1>1. /\ line = <<>> /\ request' = NoFrame /\ sector' = NoFrame /\ left' = 0
      /\ reply' = NoReply /\ silent' = (silent \/ PatientClient) /\ disturbed' = FALSE
      /\ unanswered' = (IF disturbed \/ ~Answerable(request) THEN 0
                        ELSE IF unanswered < 3 THEN unanswered + 1 ELSE unanswered)
      /\ UNCHANGED <<buff, readto, workCommand, workOffset, workCount, mylba, img, image, line, setup>>
  BY DEF GiveUp
<1>2. TypeInv /\ BuffInv
  BY DEF SafeInv
<1>3. unanswered' \in Nat /\ silent' \in BOOLEAN
  <2>1. unanswered \in Nat /\ silent \in BOOLEAN /\ setup \in Setups
    BY <1>2 DEF TypeInv
  <2>2. setup.patient \in BOOLEAN
    BY <2>1, SetupsAssumption
  <2> QED
    BY <1>1, <2>1, <2>2 DEF PatientClient
<1>4. TypeInv'
  BY <1>1, <1>2, <1>3 DEF TypeInv, Images, Asking, NoFrame, Frame
<1>5. LineInv' /\ AckInv' /\ SectorInv' /\ ReplyInv' /\ ~Asking'
  BY <1>1 DEF LineInv, AckInv, SectorInv, ReplyInv, Asking, NoFrame, Frame, NoReply
<1>6. BuffInv'
  BY <1>1, <1>2 DEF BuffInv, HeaderByte
<1> QED
  BY <1>4, <1>5, <1>6 DEF SafeInv

(* Nobody says anything.                                                   *)
LEMMA TimePassesSafe ==
    ASSUME SafeInv, TimePasses, UNCHANGED setup
    PROVE  SafeInv'
PROOF
<1>1. /\ request = NoFrame /\ silent' = TRUE
      /\ UNCHANGED <<buff, readto, workCommand, workOffset, workCount, mylba, img, image, line, reply,
                     request, sector, left, disturbed, unanswered, setup>>
  BY DEF TimePasses, client
<1>2. TypeInv /\ BuffInv /\ LineInv /\ ~Asking /\ reply = NoReply
  BY <1>1 DEF SafeInv, ReplyInv, Asking
<1>3. TypeInv'
  BY <1>1, <1>2 DEF TypeInv, Images, Asking
<1>4. LineInv' /\ AckInv' /\ SectorInv' /\ ReplyInv'
  BY <1>1, <1>2 DEF LineInv, AckInv, SectorInv, ReplyInv, Asking, NoReply
<1>5. BuffInv'
  BY <1>1, <1>2 DEF BuffInv, HeaderByte
<1> QED
  BY <1>3, <1>4, <1>5 DEF SafeInv

(* The server is started again.                                            *)
LEMMA RestartSafe ==
    ASSUME SafeInv, Restart, UNCHANGED setup
    PROVE  SafeInv'
PROOF
<1>1. /\ buff' = <<>> /\ readto' = 0 /\ workOffset' = 0 /\ workCount' = 0
      /\ mylba' = 0 /\ img' = 0 /\ silent' = FALSE /\ line' = <<>> /\ disturbed' = TRUE
      /\ UNCHANGED <<image, reply, request, sector, left, unanswered, setup>> /\ Asking
  BY DEF Restart, Asking
<1>2. TypeInv
  BY DEF SafeInv
<1>3. TypeInv' /\ Asking'
  <2>1. buff' \in Seq(Byte) /\ line' \in Seq(Byte)
    BY <1>1
  <2>2. /\ readto' \in {0, 1, CmdLen, SecLen} /\ workCount' \in Nat /\ workOffset' \in Nat
        /\ mylba' \in Nat /\ img' \in {0, 1} /\ silent' \in BOOLEAN /\ disturbed' \in BOOLEAN
    BY <1>1
  <2> QED
    BY <1>1, <1>2, <2>1, <2>2 DEF TypeInv, Images, Asking, SectorSent
<1>4. LineInv'
  <2>1. Size(First') \in Nat /\ Behind' \in Nat
    BY <1>1, <1>2, AskingFacts, Sizes DEF First, Behind, Ack, Frame, Size
  <2> QED
    BY <1>1, <1>3, <2>1 DEF LineInv
<1>5. BuffInv' /\ AckInv' /\ SectorInv'
  BY <1>1, Sizes DEF BuffInv, AckInv, SectorInv
<1>6. ReplyInv'
  <2>1. RD!Right' = RD!Right /\ Here' = Here
    BY <1>1, RightKept
  <2>2. Answerable(request)' <=> Answerable(request)
    BY <1>1 DEF Answerable, Images, ReadOnly
  <2> QED
    BY <1>1, <1>3, <2>1, <2>2 DEF SafeInv, ReplyInv, NoReply
<1> QED
  BY <1>3, <1>4, <1>5, <1>6 DEF SafeInv

(* A byte is lost, or another comes in its place.                          *)
LEMMA LineFaults ==
    ASSUME SafeInv, Fault, UNCHANGED setup, reply' = reply
    PROVE  /\ line # <<>> /\ line' \in Seq(Byte) /\ LineInv'
           /\ (Untouched => Untouched')
PROOF
<1>1. /\ Asking /\ ~disturbed /\ disturbed' = TRUE
      /\ UNCHANGED <<server, image, request, sector, left, unanswered, setup>>
  BY DEF Fault, Asking
<1>2. TypeInv /\ LineInv
  BY DEF SafeInv
<1>3. line \in Seq(Byte) /\ Len(line) \in Nat
  BY <1>2 DEF TypeInv
<1>4. /\ Asking' /\ First' = First /\ Behind' = Behind /\ Size(First') = Size(First)
      /\ request' = request /\ sector' = sector /\ left' = left
  BY <1>1 DEF Asking, First, Behind, Ack, Frame, Size
<1>5. Size(First) \in Nat /\ Behind \in Nat
  BY <1>1, <1>2, AskingFacts, Sizes
<1> DEFINE Sent(j, b, len) ==
      \/ b.of \in Noise /\ b.pos = 1
      \/ b.of = First /\ b.pos <= Size(First) /\ len - j <= Size(First) - b.pos + Behind
      \/ request.op = "write" /\ b.of = sector /\ len - j <= SecLen - b.pos
<1>6. Len(line) <= Size(First) + Behind /\ \A j \in 1 .. Len(line) : Sent(j, line[j], Len(line))
  BY <1>1, <1>2 DEF LineInv
<1>7. ASSUME Len(line') <= Size(First) + Behind, \A j \in 1 .. Len(line') : Sent(j, line'[j], Len(line'))
      PROVE  LineInv'
  BY <1>4, <1>7 DEF LineInv, Noise, Frame
<1>8. ASSUME NEW i \in 1 .. Len(line), line' = RemoveAt(line, i)
      PROVE  /\ line # <<>> /\ line' \in Seq(Byte) /\ LineInv'
             /\ (Untouched => Untouched')
  <2>1. /\ line' \in Seq(Byte) /\ Len(line') = Len(line) - 1
        /\ \A j \in 1 .. Len(line') : line'[j] = IF j < i THEN line[j] ELSE line[j + 1]
    <3> DEFINE a == SubSeq(line, 1, i - 1)
               b == SubSeq(line, i + 1, Len(line))
    <3>1. /\ a \in Seq(Byte) /\ Len(a) = i - 1 /\ \A j \in 1 .. i - 1 : a[j] = line[j]
          /\ b \in Seq(Byte) /\ Len(b) = Len(line) - i
          /\ \A j \in 1 .. Len(line) - i : b[j] = line[i + j]
      BY <1>3, <1>8
    <3>2. line' = a \o b
      BY <1>8 DEF RemoveAt
    <3> HIDE DEF a, b
    <3>3. line' \in Seq(Byte) /\ Len(line') = Len(line) - 1
      BY <1>3, <1>8, <3>1, <3>2
    <3>4. ASSUME NEW j \in 1 .. Len(line')
          PROVE  line'[j] = IF j < i THEN line[j] ELSE line[j + 1]
      <4>1. CASE j < i
        BY <1>3, <1>8, <3>1, <3>2, <3>3, <3>4, <4>1
      <4>2. CASE j >= i
        <5>1. line'[j] = b[j - (i - 1)]
          BY <1>3, <1>8, <3>1, <3>2, <3>3, <3>4, <4>2
        <5>2. j - (i - 1) \in 1 .. Len(line) - i /\ i + (j - (i - 1)) = j + 1
          BY <1>3, <1>8, <3>3, <3>4, <4>2
        <5> QED
          BY <3>1, <4>2, <5>1, <5>2, <1>8
      <4> QED
        BY <1>3, <1>8, <3>3, <3>4, <4>1, <4>2
    <3> QED
      BY <3>3, <3>4
  <2>2. ASSUME NEW j \in 1 .. Len(line')
        PROVE  Sent(j, line'[j], Len(line'))
    <3>1. CASE j < i
      <4>1. line'[j] = line[j] /\ j \in 1 .. Len(line) /\ Sent(j, line[j], Len(line))
        BY <1>3, <1>6, <1>8, <2>1, <2>2, <3>1
      <4>2. line[j] \in Byte
        BY <1>3, <4>1
      <4>3. line[j].pos \in Nat
        BY <4>2, Sizes DEF Byte
      <4>4. /\ j \in Nat /\ Len(line') - j \in Int /\ Len(line) - j \in Int
            /\ Len(line') - j <= Len(line) - j
        BY <1>3, <2>1, <2>2
      <4>5. ASSUME Len(line) - j <= Size(First) - line[j].pos + Behind
            PROVE  Len(line') - j <= Size(First) - line[j].pos + Behind
        BY <1>5, <4>3, <4>4, <4>5
      <4>6. ASSUME Len(line) - j <= SecLen - line[j].pos
            PROVE  Len(line') - j <= SecLen - line[j].pos
        BY <4>3, <4>4, <4>6, Sizes
      <4> QED
        BY <4>1, <4>5, <4>6
    <3>2. CASE j >= i
      <4>1. line'[j] = line[j + 1] /\ j + 1 \in 1 .. Len(line) /\ Sent(j + 1, line[j + 1], Len(line))
        BY <1>3, <1>6, <1>8, <2>1, <2>2, <3>2
      <4>2. Len(line) - (j + 1) = Len(line') - j
        BY <1>3, <2>1, <2>2
      <4> QED
        BY <4>1, <4>2
    <3> QED
      BY <1>8, <2>2, <3>1, <3>2
  <2>3. LineInv'
    <3>1. Len(line') <= Size(First) + Behind
      BY <1>3, <1>5, <1>6, <2>1
    <3> HIDE DEF Sent
    <3> QED
      BY <1>7, <2>2, <3>1
  <2>4. Untouched => Untouched'
    <3>1. SUFFICES ASSUME Untouched
                   PROVE  Untouched'
      OBVIOUS
    <3>2. /\ left = request.count /\ Len(line) > 1 /\ line[1].of = request /\ line[2].of = request
      BY <1>1, <3>1 DEF Untouched
    <3>3. 1 \in 1 .. Len(line') /\ line' # <<>> /\ Len(line') > 0
      BY <1>3, <2>1, <3>2
    <3>4. line'[1] = line[1] \/ line'[1] = line[2]
      BY <2>1, <3>3
    <3> QED
      BY <1>1, <1>4, <3>2, <3>3, <3>4 DEF Untouched
  <2> QED
    BY <1>3, <1>8, <2>1, <2>3, <2>4
<1>9. ASSUME NEW i \in 1 .. Len(line), NEW z \in Noise,
             line' = [line EXCEPT ![i] = [of |-> z, pos |-> 1]]
      PROVE  /\ line # <<>> /\ line' \in Seq(Byte) /\ LineInv'
             /\ (Untouched => Untouched')
  <2> DEFINE g == [of |-> z, pos |-> 1]
  <2>1. g \in Byte /\ g.of = z /\ g.pos = 1
    BY NoiseFacts, Sizes DEF Byte
  <2>2. /\ line' \in Seq(Byte) /\ Len(line') = Len(line)
        /\ \A j \in 1 .. Len(line) : line'[j] = IF j = i THEN g ELSE line[j]
    BY <1>3, <1>9, <2>1
  <2>3. \A j \in 1 .. Len(line') : Sent(j, line'[j], Len(line'))
    BY <1>6, <1>9, <2>1, <2>2
  <2>4. LineInv'
    <3>1. Len(line') <= Size(First) + Behind
      BY <1>6, <2>2
    <3> HIDE DEF Sent
    <3> QED
      BY <1>7, <2>3, <3>1
  <2>5. Untouched => Untouched'
    <3>1. 1 \in 1 .. Len(line)
      BY <1>3, <1>9
    <3>2. line'[1].of = z \/ line'[1] = line[1]
      BY <2>1, <2>2, <3>1
    <3>3. line' # <<>>
      BY <1>3, <2>2, <3>1
    <3>4. z \in Noise'
      BY <1>9 DEF Noise, Frame
    <3> QED
      BY <1>1, <1>4, <3>2, <3>3, <3>4 DEF Untouched, Noise, Frame
  <2> QED
    BY <1>3, <1>9, <2>2, <2>4, <2>5
<1>10. ~(reply # NoReply /\ reply' = NoReply)
  OBVIOUS
<1> QED
  BY <1>8, <1>9, <1>10 DEF Fault

(* A fault of the line.                                                    *)
LEMMA FaultSafe ==
    ASSUME SafeInv, Fault, UNCHANGED setup
    PROVE  /\ SafeInv' /\ disturbed'
           /\ UNCHANGED <<server, image, request, sector, left, unanswered>>
           /\ reply' \in {reply, NoReply}
PROOF
<1>1. /\ Asking /\ ~disturbed /\ disturbed' = TRUE
      /\ UNCHANGED <<buff, readto, workCommand, workOffset, workCount, mylba, img, silent,
                     image, request, sector, left, unanswered, setup>>
      /\ UNCHANGED server
  BY DEF Fault, Asking, server
<1>2. TypeInv /\ BuffInv /\ AckInv /\ SectorInv /\ LineInv
  BY DEF SafeInv
<1>3. BuffInv' /\ Asking'
  BY <1>1, <1>2 DEF BuffInv, HeaderByte, Asking
<1>4. CASE reply' = reply
  <2>1. line # <<>> /\ line' \in Seq(Byte) /\ LineInv' /\ (Untouched => Untouched')
    BY <1>4, LineFaults
  <2>2. TypeInv'
    BY <1>1, <1>2, <1>3, <2>1 DEF TypeInv, Images, SectorSent, Asking
  <2>3. AckInv' /\ SectorInv'
    <3>1. Working(left) => (Working(left))'
      BY <1>1 DEF Working, Answerable, Images, ReadOnly
    <3> QED
      BY <1>1, <1>2, <2>1, <3>1 DEF AckInv, SectorInv, Asking
  <2>4. ReplyInv'
    <3>1. reply = NoReply
      BY <2>1 DEF SafeInv, ReplyInv
    <3> QED
      BY <1>4, <3>1 DEF ReplyInv, NoReply
  <2> QED
    BY <1>1, <1>3, <1>4, <2>1, <2>2, <2>3, <2>4 DEF SafeInv
<1>5. CASE reply' = NoReply /\ UNCHANGED line
  <2>1. TypeInv'
    BY <1>1, <1>2, <1>3, <1>5 DEF TypeInv, Images, SectorSent, Asking
  <2>2. LineInv'
    BY <1>1, <1>2, <1>5 DEF LineInv, Asking, First, Behind, Noise, Ack, Frame, Size
  <2>3. AckInv' /\ SectorInv'
    <3>1. Working(left) => (Working(left))'
      BY <1>1 DEF Working, Answerable, Images, ReadOnly
    <3>2. Working(left - 1) => (Working(left - 1))'
      BY <1>1 DEF Working, Answerable, Images, ReadOnly
    <3>3. Untouched => Untouched'
      BY <1>1, <1>5 DEF Untouched, Noise, Frame
    <3> QED
      BY <1>1, <1>2, <1>5, <3>1, <3>2, <3>3 DEF AckInv, SectorInv, Asking
  <2>4. ReplyInv'
    BY <1>5 DEF ReplyInv, NoReply
  <2> QED
    BY <1>1, <1>3, <1>5, <2>1, <2>2, <2>3, <2>4 DEF SafeInv
<1> QED
  BY <1>4, <1>5 DEF Fault

(* The start.                                                              *)
LEMMA InitSafe == Init => SafeInv
PROOF
<1> SUFFICES ASSUME Init
             PROVE  SafeInv
  OBVIOUS
<1>1. TypeInv
  <2>1. buff \in Seq(Byte) /\ line \in Seq(Byte)
    BY DEF Init
  <2>2. /\ setup \in Setups /\ readto \in {0, 1, CmdLen, SecLen} /\ workCount \in Nat
        /\ workOffset \in Nat /\ mylba \in Nat /\ img \in {0, 1} /\ silent \in BOOLEAN
        /\ disturbed \in BOOLEAN /\ unanswered \in Nat
        /\ image \in [Images -> [setup.lba -> Data]]
    BY DEF Init
  <2>3. request \in Commands[setup] \cup {NoFrame} /\ ~Asking /\ sector = NoFrame
    BY DEF Init, Asking
  <2> QED
    BY <2>1, <2>2, <2>3 DEF TypeInv
<1>2. LineInv /\ BuffInv /\ AckInv /\ SectorInv /\ ReplyInv
  BY Sizes DEF Init, LineInv, BuffInv, AckInv, SectorInv, ReplyInv, Asking
<1> QED
  BY <1>1, <1>2 DEF SafeInv

(* A step.                                                                 *)
LEMMA NextSafe ==
    ASSUME SafeInv, [Next]_vars
    PROVE  SafeInv'
PROOF
<1>1. CASE UNCHANGED vars
  <2>1. /\ UNCHANGED <<setup, buff, readto, workCommand, workOffset, workCount, mylba, img, silent,
                       image, line, reply, request, sector, left, disturbed, unanswered>>
    BY <1>1 DEF vars, server, client
  <2>2. TypeInv' /\ BuffInv'
    BY <2>1 DEF SafeInv, TypeInv, BuffInv, Images, SectorSent, Asking, HeaderByte
  <2>3. LineInv'
    BY <2>1 DEF SafeInv, LineInv, Asking, First, Behind, Noise, Ack, Frame, Size
  <2>4. /\ Working(left) => (Working(left))'
        /\ Working(left - 1) => (Working(left - 1))'
        /\ Untouched => Untouched'
    BY <2>1 DEF Working, Answerable, Images, ReadOnly, Untouched, Noise, Frame
  <2>5. AckInv' /\ SectorInv'
    BY <2>1, <2>4 DEF SafeInv, AckInv, SectorInv, Asking
  <2>6. ReplyInv'
    <3>1. RD!Right' = RD!Right /\ Here' = Here
      BY <2>1, RightKept
    <3>2. Answerable(request)' <=> Answerable(request)
      BY <2>1 DEF Answerable, Images, ReadOnly
    <3> QED
      BY <2>1, <2>4, <3>1, <3>2 DEF SafeInv, ReplyInv, NoReply, Asking
  <2> QED
    BY <2>2, <2>3, <2>5, <2>6 DEF SafeInv
<1>2. CASE Next
  <2>1. UNCHANGED setup
    BY <1>2 DEF Next
  <2> QED
    BY <1>2, <2>1, RoundSafe, RestartSafe, AskSafe, TakeAnswerSafe, GiveUpSafe, TimePassesSafe, FaultSafe
       DEF Next
<1> QED
  BY <1>1, <1>2

(* The invariant that ties the frame process() is collecting in buff to what  *)
(* is on the line and to what the client asked, for every size of frame, every *)
(* content that may pass for a header or an acknowledgement, and every kind of *)
(* server and client.                                                      *)
THEOREM Inductive == Spec => []SafeInv
PROOF
  BY InitSafe, NextSafe, PTL DEF Spec

(* What the client believes is so: a write it sees acknowledged is in the     *)
(* image, a read it sees answered shows what the image holds, whatever the     *)
(* line lost or garbled before (process() and the checks it makes).          *)
THEOREM Truth == Spec => []AnswersAreTrue
PROOF
<1>1. SafeInv => AnswersAreTrue
  <2> SUFFICES ASSUME SafeInv, Answers(reply)
               PROVE  /\ request.op = "write" => image[request.drive][Here] = sector.data
                      /\ request.op = "read" => reply.from = <<request.drive, Here>>
    BY DEF AnswersAreTrue, Here
  <2>1. reply # NoReply
    BY DEF Answers, NoReply
  <2> QED
    BY <2>1, RightRead DEF SafeInv, ReplyInv
<1> QED
  BY <1>1, Inductive, PTL
-----------------------------------------------------------------------------
(* The server is a remote disk.                                            *)

(* A round is a response, a sector stored, or nothing the client can see.  *)
LEMMA RoundRefines ==
    ASSUME SafeInv, NEW n \in 1 .. SecLen, ProcessRequests(n), UNCHANGED setup
    PROVE  [RD!Next]_RD!vars
PROOF
<1>1. /\ Got(n) /\ UNCHANGED <<setup, client>>
  BY DEF ProcessRequests, DiscardAll, FindHeader, DropSpurious, KeepReading, RefuseSector, StoreSector,
         ContinueFault, Continue, BadCommand, RefuseCommand, AcceptCommand, NewCommand, Complete, Round
<1>2. Asking /\ TypeInv
  BY <1>1, RoundFacts DEF SafeInv
<1>3. /\ left > 0 /\ request.op \in {"inquire", "read", "write"}
  BY <1>2, AskingFacts
<1>4. /\ request' = request /\ sector' = sector /\ left' = left
      /\ Images' = Images /\ ReadOnly' = ReadOnly
  BY <1>1 DEF client, Images, ReadOnly
<1>5. DOMAIN image = Images
  BY <1>2 DEF TypeInv
<1>6. ASSUME UNCHANGED <<image, reply>>
      PROVE  [RD!Next]_RD!vars
  BY <1>4, <1>6 DEF RD!vars
<1>7. CASE StoreSector(n)
  <2>1. /\ Working(left) /\ request.op = "write"
        /\ image' = [image EXCEPT ![request.drive][Here] = sector.data]
        /\ request.drive \in Images \ ReadOnly
        /\ reply' = [kind |-> "echo", data |-> sector.data, from |-> <<>>]
    BY <1>7, StoreSectorSafe
  <2>2. reply' = RD!Right /\ RD!Here = Here
    BY <2>1, RightWrite DEF RD!Here, Here
  <2>3. RD!Due
    BY <1>2, <1>3, <1>5, <2>1 DEF RD!Due, Asking
  <2>4. RD!Store
    BY <1>4, <2>1, <2>2, <2>3 DEF RD!Store
  <2> QED
    BY <2>4 DEF RD!Next
<1>8. ASSUME silent' = FALSE, Answerable(request), request.op # "write" => line' = <<>>,
             Serve(request.op, request.drive, request.lba, request.count - left, left)
      PROVE  [RD!Next]_RD!vars
  <2>1. /\ image' = image
        /\ reply' = reply \/ (request.op # "write" /\ reply' = RD!Right)
    BY <1>1, <1>8, ServeSafe
  <2>2. CASE reply' = reply
    BY <1>6, <2>1, <2>2
  <2>3. CASE request.op # "write" /\ reply' = RD!Right
    <3>1. RD!Due
      BY <1>2, <1>3, <1>5, <1>8 DEF RD!Due, Asking, Answerable
    <3>2. RD!Respond
      BY <1>4, <2>1, <2>3, <3>1 DEF RD!Respond
    <3> QED
      BY <3>2 DEF RD!Next
  <2> QED
    BY <2>1, <2>2, <2>3
<1>9. CASE Continue(n)
  BY <1>8, <1>9, ContinueSafe
<1>10. CASE AcceptCommand(n)
  BY <1>8, <1>10, AcceptCommandSafe
<1>11. CASE ~StoreSector(n) /\ ~Continue(n) /\ ~AcceptCommand(n)
  <2>1. UNCHANGED <<image, reply>>
    BY <1>11 DEF ProcessRequests, DiscardAll, FindHeader, DropSpurious, KeepReading, RefuseSector,
                 ContinueFault, BadCommand, RefuseCommand, AbortWork
  <2> QED
    BY <1>6, <2>1
<1> QED
  BY <1>7, <1>9, <1>10, <1>11

(* A step is one of a remote disk.                                         *)
LEMMA StepRefines ==
    ASSUME SafeInv, [Next]_vars
    PROVE  [RD!Next]_RD!vars
PROOF
<1>1. TypeInv
  BY DEF SafeInv
<1>2. CASE UNCHANGED vars
  BY <1>2 DEF vars, client, RD!vars, Images, ReadOnly
<1>3. CASE Next
  <2>1. setup' = setup /\ Images' = Images /\ ReadOnly' = ReadOnly
    BY <1>3 DEF Next, Images, ReadOnly
  <2>2. ASSUME NEW n \in 1 .. SecLen, ProcessRequests(n)
        PROVE  [RD!Next]_RD!vars
    BY <2>1, <2>2, RoundRefines
  <2>3. CASE Restart \/ TimePasses
    BY <2>1, <2>3 DEF Restart, TimePasses, client, RD!vars
  <2>4. CASE Ask
    <3>1. /\ request = NoFrame /\ Asking' /\ left' = request'.count /\ reply = NoReply /\ reply' = NoReply
          /\ SectorSent' /\ image' = image /\ request' \in Commands[setup]
      BY <2>1, <2>4, AskSafe DEF Ask
    <3>2. (sector'.data = NoData) <=> (request'.op # "write")
      <4>1. NoFrame.data = NoData
        BY DEF NoFrame, Frame
      <4> QED
        BY <3>1, <4>1, ContentsAssumption DEF SectorSent
    <3>3. RD!Ask
      BY <2>1, <3>1, <3>2 DEF RD!Ask, Asking, NoFrame, Frame
    <3> QED
      BY <3>3 DEF RD!Next
  <2>5. CASE TakeAnswer
    <3>1. /\ Asking /\ reply # NoReply /\ reply' = NoReply /\ left' = left - 1 /\ image' = image
      BY <2>1, <2>5, TakeAnswerSafe DEF TakeAnswer, Asking
    <3>2. Answerable(request) /\ reply = RD!Right
      BY <3>1 DEF SafeInv, ReplyInv
    <3>3. left > 0 /\ DOMAIN image = Images
      BY <1>1, <3>1, AskingFacts DEF TypeInv
    <3>4. RD!Due
      BY <3>1, <3>2, <3>3 DEF RD!Due, Asking, Answerable
    <3>5. CASE left = 1
      <4>1. request' = NoFrame /\ sector' = NoFrame
        BY <2>5, <3>5 DEF TakeAnswer
      <4>2. sector'.data = NoData
        BY <4>1 DEF NoFrame, Frame
      <4>3. RD!Take
        BY <2>1, <3>1, <3>2, <3>4, <3>5, <4>1, <4>2 DEF RD!Take
      <4> QED
        BY <4>3 DEF RD!Next
    <3>6. CASE left # 1
      <4>1. request' = request /\ SectorSent'
        BY <2>1, <2>5, <3>6, TakeAnswerSafe
      <4>2. (sector'.data = NoData) <=> (request.op # "write")
        <5>1. NoFrame.data = NoData
          BY DEF NoFrame, Frame
        <5> QED
          BY <4>1, <5>1, ContentsAssumption DEF SectorSent
      <4>3. RD!Take
        BY <2>1, <3>1, <3>2, <3>4, <3>6, <4>1, <4>2 DEF RD!Take
      <4> QED
        BY <4>3 DEF RD!Next
    <3> QED
      BY <3>5, <3>6
  <2>6. CASE GiveUp
    <3>1. sector'.data = NoData
      BY <2>6 DEF GiveUp, NoFrame, Frame
    <3>2. RD!GiveUp
      BY <2>1, <2>6, <3>1 DEF GiveUp, RD!GiveUp
    <3> QED
      BY <3>2 DEF RD!Next
  <2>7. CASE Fault
    <3>1. UNCHANGED <<image, request, sector, left>> /\ reply' \in {reply, NoReply}
      BY <2>1, <2>7, FaultSafe
    <3>2. CASE reply' = reply
      BY <2>1, <3>1, <3>2 DEF RD!vars
    <3>3. CASE reply' = NoReply
      <4>1. RD!Lose
        BY <2>1, <3>1, <3>3 DEF RD!Lose
      <4> QED
        BY <4>1 DEF RD!Next
    <3> QED
      BY <3>1, <3>2, <3>3
  <2> QED
    BY <1>3, <2>2, <2>3, <2>4, <2>5, <2>6, <2>7 DEF Next
<1> QED
  BY <1>2, <1>3

(* The refinement: whatever the line loses or garbles, and wherever the       *)
(* server is killed, what reaches an image or the client is what RemoteDisk    *)
(* allows.                                                                 *)
THEOREM IsRemoteDisk == Spec => ImplementsRemoteDisk
PROOF
<1>1. Init => RD!Init
  BY DEF Init, RD!Init, NoFrame, Frame
<1>2. SafeInv /\ [Next]_vars => [RD!Next]_RD!vars
  BY StepRefines
<1>3. Spec => []SafeInv /\ [][Next]_vars /\ Init
  BY Inductive, PTL DEF Spec
<1>4. Spec => RD!Init /\ [][RD!Next]_RD!vars
  BY <1>1, <1>2, <1>3, PTL
<1> QED
  BY <1>4 DEF ImplementsRemoteDisk, RD!Spec
-----------------------------------------------------------------------------
(* One command is all it costs.                                            *)

(* What is read and what is left are what there was.                       *)
LEMMA Shift ==
    ASSUME NEW a \in Seq(Byte), NEW s \in Seq(Byte), NEW n \in 1 .. Len(s)
    PROVE  /\ (a \o SubSeq(s, 1, n)) \o SubSeq(s, n + 1, Len(s)) = a \o s
           /\ SubSeq(s, 1, n) \o SubSeq(s, n + 1, Len(s)) = s
PROOF
<1>1. SubSeq(s, 1, n) \in Seq(Byte) /\ SubSeq(s, n + 1, Len(s)) \in Seq(Byte)
  BY SubSeqProperties
<1>2. SubSeq(s, 1, n) \o SubSeq(s, n + 1, Len(s)) = s
  <2>1. SubSeq(s, 1, n) \o SubSeq(s, n + 1, Len(s)) = SubSeq(s, 1, Len(s))
    BY ConcatAdjacentSubSeq
  <2> QED
    BY <2>1, SubSeqFull
<1>3. (a \o SubSeq(s, 1, n)) \o SubSeq(s, n + 1, Len(s))
        = a \o (SubSeq(s, 1, n) \o SubSeq(s, n + 1, Len(s)))
  BY <1>1, Regrouped
<1> QED
  BY <1>2, <1>3

(* A run of bytes is cut in one way at a place.                            *)
LEMMA SplitAt ==
    ASSUME NEW a \in Seq(Byte), NEW s \in Seq(Byte), NEW b \in Seq(Byte), NEW t \in Seq(Byte),
           a \o s = b \o t, Len(a) = Len(b)
    PROVE  a = b /\ s = t
PROOF
<1>1. /\ Len(a) \in Nat /\ Len(s) \in Nat /\ Len(t) \in Nat
      /\ \A i \in 1 .. Len(a) : (a \o s)[i] = a[i]
      /\ \A i \in 1 .. Len(b) : (b \o t)[i] = b[i]
  BY ConcatProperties
<1>2. a = b
  BY <1>1, SeqEqual
<1>3. a \o s = a \o t
  BY <1>2
<1> QED
  BY <1>2, <1>3, ConcatSimplifications
(* What has come and what is still to come is the same after a read.        *)
LEMMA StreamKept ==
    ASSUME TypeInv, BuffInv, NEW n \in 1 .. SecLen, Got(n)
    PROVE  Buff(n) \o line' = IF Aborted THEN line ELSE buff \o line
PROOF
<1>1. /\ buff \in Seq(Byte) /\ line \in Seq(Byte) /\ n \in 1 .. Len(line)
      /\ line' = SubSeq(line, n + 1, Len(line))
  BY GotFacts DEF TypeInv, Got
<1> QED
  BY <1>1, Shift DEF Buff

(* The bytes of the sector.                                                *)
LEMMA SectorBytes ==
    ASSUME TypeInv, Asking
    PROVE  /\ Sector \in Seq(Byte) /\ Len(Sector) = Behind
           /\ \A j \in 1 .. Len(Sector) : Sector[j].of = sector
PROOF
<1>1. CASE request.op = "write"
  <2>1. sector \in Frames /\ sector.op = "sector"
    BY <1>1, AskingFacts
  <2>2. Size(sector) = SecLen
    BY <2>1 DEF Size
  <2>3. Sector = Bytes(sector) /\ Behind = SecLen
    BY <1>1 DEF Sector, Behind
  <2> QED
    BY <2>1, <2>2, <2>3, BytesFacts, ByteAt
<1>2. CASE request.op # "write"
  BY <1>2 DEF Sector, Behind
<1> QED
  BY <1>1, <1>2

(* A round that brings more of the command, or all of it.                    *)
LEMMA CommandRound ==
    ASSUME SafeInv, NEW n \in 1 .. SecLen, ProcessRequests(n), UNCHANGED setup,
           left = request.count, Answerable(request), Readto(n) = CmdLen,
           ~(Aborted /\ ~AtFront(n) /\ n # 1), Len(Buff(n)) <= CmdLen,
           Buff(n) \o line' = Bytes(request) \o Sector
    PROVE  IF Work = 0 THEN Underway' ELSE Blocked' \/ Dropped'
PROOF
<1>1. /\ Got(n) /\ UNCHANGED <<setup, client>>
  BY DEF ProcessRequests, DiscardAll, FindHeader, DropSpurious, KeepReading, RefuseSector, StoreSector,
         ContinueFault, Continue, BadCommand, RefuseCommand, AcceptCommand, NewCommand, Complete, Round
<1>2. /\ TypeInv /\ BuffInv /\ Asking /\ reply = NoReply
  BY <1>1, RoundFacts DEF SafeInv
<1>3. /\ request \in Frames /\ request.op \in {"inquire", "read", "write"} /\ left > 0 /\ left \in Nat
      /\ Size(request) = CmdLen
  BY <1>2, AskingFacts DEF Size
<1>4. /\ Bytes(request) \in Seq(Byte) /\ Len(Bytes(request)) = CmdLen
      /\ \A i \in 1 .. CmdLen : Bytes(request)[i].of = request
  BY <1>3, BytesFacts, ByteAt
<1>5. /\ Buff(n) \in Seq(Byte) /\ Buff(n) # <<>> /\ line' \in Seq(Byte) /\ Len(Buff(n)) \in Nat
      /\ Sector \in Seq(Byte)
  BY <1>1, <1>2, BuffFacts, GotFacts, SectorBytes
<1>6. /\ request' = request /\ sector' = sector /\ left' = left
      /\ setup' = setup /\ Sector' = Sector /\ Bytes(request)' = Bytes(request)
      /\ Bytes(sector)' = Bytes(sector)
  BY <1>1 DEF client, Sector, Bytes, Size
<1>7. CASE Len(Buff(n)) # CmdLen
  <2>1. KeepReading(n)
    BY <1>7, Sizes
       DEF ProcessRequests, DiscardAll, FindHeader, DropSpurious, RefuseSector, StoreSector, ContinueFault,
           Continue, BadCommand, RefuseCommand, AcceptCommand, NewCommand, Complete, Round
  <2>2. /\ readto' = CmdLen /\ buff' = Buff(n) /\ silent' = FALSE /\ workCount' = Work /\ reply' = reply
    BY <2>1 DEF KeepReading, Round, AbortWork
  <2> QED
    BY <1>2, <1>6, <2>2 DEF InCommand, Blocked, Underway, NoReply
<1>8. CASE Len(Buff(n)) = CmdLen
  <2>1. Buff(n) = Bytes(request) /\ line' = Sector
    BY <1>4, <1>5, <1>8, SplitAt
  <2>2. Buff(n)[1].of = request
    BY <1>4, <2>1, Sizes
  <2>3. Checksum(Buff(n), CmdLen)
    BY <1>5, <1>8, <2>1, <2>2 DEF Checksum
  <2>4. \A w \in Nat : ~Says(Buff(n)[1], w)
    BY <1>3, <2>2 DEF Says
  <2>5. Work \in Nat
    BY <1>2 DEF TypeInv, Work
  <2>6. ContinueFault(n) \/ AcceptCommand(n)
    <3>1. ~Continue(n)
      BY <2>4, <2>5 DEF Continue
    <3>2. ~BadCommand(n)
      BY <2>3 DEF BadCommand
    <3>3. ~RefuseCommand(n)
      BY <2>2 DEF RefuseCommand, Answerable
    <3> QED
      BY <1>8, <3>1, <3>2, <3>3, Sizes
         DEF ProcessRequests, DiscardAll, FindHeader, DropSpurious, KeepReading, RefuseSector, StoreSector, Round
  <2>7. CASE ContinueFault(n)
    <3>1. Work # 0 /\ readto' = 0 /\ workCount' = 0 /\ reply' = reply
      BY <2>7 DEF ContinueFault
    <3>2. \A j \in 1 .. Len(line') : line'[j].of = sector'
      BY <1>2, <1>6, <2>1, SectorBytes
    <3>3. Dropped'
      BY <1>2, <3>1, <3>2 DEF Dropped, Listening, NoReply
    <3> QED
      BY <3>1, <3>3
  <2>8. CASE AcceptCommand(n)
    <3>1. Work = 0 /\ silent' = FALSE
      BY <2>8 DEF AcceptCommand, NewCommand, Complete, Round
    <3>2. /\ \/ /\ request.op = "write" /\ readto' = SecLen /\ reply' = reply
                /\ Working(left)'
             \/ /\ request.op # "write" /\ reply' = RD!Right
                /\ readto' = IF left = 1 THEN 0 ELSE 1
          /\ buff' = <<>>
      BY <2>8, AcceptCommandSafe, ServeSafe
    <3>3. CASE request.op = "write"
      <4>1. line' = Bytes(sector) /\ <<>> \o line' = line'
        BY <1>5, <2>1, <3>3 DEF Sector
      <4>2. InSector'
        BY <1>2, <1>6, <3>1, <3>2, <3>3, <4>1 DEF InSector, NoReply
      <4> QED
        BY <3>1, <4>2 DEF Underway
    <3>4. CASE request.op # "write"
      <4>1. RD!Right # NoReply
        BY <1>3, <3>4, RightRead, RightInquire DEF NoReply
      <4>2. Answered'
        BY <1>6, <3>1, <3>2, <3>4, <4>1 DEF Answered, NoReply
      <4> QED
        BY <3>1, <4>2 DEF Underway
    <3> QED
      BY <3>3, <3>4
  <2> QED
    BY <2>6, <2>7, <2>8
<1> QED
  BY <1>7, <1>8
(* The first bytes of a command, whatever the server waited for.            *)
LEMMA StartingRound ==
    ASSUME SafeInv, NEW n \in 1 .. SecLen, ProcessRequests(n), UNCHANGED setup,
           TimeoutEnabled, Answerable(request), Starting
    PROVE  IF Listening THEN Underway' ELSE Underway' \/ Blocked' \/ Dropped'
PROOF
<1>1. /\ Got(n) /\ UNCHANGED <<setup, client>>
  BY DEF ProcessRequests, DiscardAll, FindHeader, DropSpurious, KeepReading, RefuseSector, StoreSector,
         ContinueFault, Continue, BadCommand, RefuseCommand, AcceptCommand, NewCommand, Complete, Round
<1>2. /\ TypeInv /\ BuffInv /\ Asking /\ reply = NoReply
  BY <1>1, RoundFacts DEF SafeInv
<1>3. /\ request \in Frames /\ request.op \in {"inquire", "read", "write"}
      /\ Size(request) = CmdLen /\ left = request.count
  BY <1>2, AskingFacts DEF Size, Starting
<1>4. /\ Bytes(request) \in Seq(Byte) /\ Len(Bytes(request)) = CmdLen
      /\ \A i \in 1 .. CmdLen : Bytes(request)[i].of = request /\ Bytes(request)[i].pos = i
      /\ Sector \in Seq(Byte) /\ \A j \in 1 .. Len(Sector) : Sector[j].of = sector
  BY <1>2, <1>3, BytesFacts, ByteAt, SectorBytes
<1>5. line = Bytes(request) \o Sector
  BY DEF Starting
<1>6. HeaderByte(line[1])
  <2>1. line[1] = Bytes(request)[1]
    BY <1>4, <1>5, Sizes
  <2>2. line[1].of = request /\ line[1].pos = 1
    BY <1>4, <2>1, Sizes
  <2> QED
    BY <1>3, <2>2 DEF HeaderByte
<1>7. /\ request' = request /\ sector' = sector /\ left' = left
      /\ Sector' = Sector /\ Bytes(request)' = Bytes(request)
  BY <1>1 DEF client, Sector, Bytes, Size
<1>8. CASE Aborted /\ n <= CmdLen
  <2>1. AtFront(n) /\ Readto(n) = CmdLen /\ Work = 0
    BY <1>6, <1>8 DEF AtFront, Readto, Work
  <2>2. Len(Buff(n)) <= CmdLen
    BY <1>1, <1>2, <1>8, BuffFacts
  <2>3. Buff(n) \o line' = Bytes(request) \o Sector
    BY <1>1, <1>2, <1>5, <1>8, StreamKept
  <2> QED
    BY <1>3, <2>1, <2>2, <2>3, CommandRound
<1>9. CASE Aborted /\ n > CmdLen
  <2>1. ~Listening
    <3>1. n <= Wanted /\ Len(buff) \in Nat /\ readto # 0
      BY <1>1, <1>2, <1>9, GotFacts DEF TypeInv, Aborted
    <3> QED
      BY <1>9, <3>1, Sizes DEF Listening, Wanted
  <2>2. ~AtFront(n) /\ n # 1
    BY <1>9, Sizes DEF AtFront
  <2>3. DiscardAll(n)
    BY <1>9, <2>2
       DEF ProcessRequests, FindHeader, DropSpurious, KeepReading, RefuseSector, StoreSector,
           ContinueFault, Continue, BadCommand, RefuseCommand, AcceptCommand, NewCommand, Complete, Round
  <2>4. readto' = 0 /\ workCount' = 0 /\ reply' = reply
    BY <1>9, <2>3 DEF DiscardAll, AbortWork, Work
  <2>5. \A j \in 1 .. Len(line') : line'[j].of = sector
    <3>1. /\ n <= Len(line) /\ Len(line) \in Nat /\ Len(line') = Len(line) - n
          /\ \A j \in 1 .. Len(line') : line'[j] = line[j + n]
      BY <1>1, <1>2, GotFacts
    <3>2. Len(line) = CmdLen + Len(Sector) /\ Len(Sector) \in Nat
      <4>1. /\ Len(Bytes(request) \o Sector) = Len(Bytes(request)) + Len(Sector)
            /\ Len(Bytes(request)) = CmdLen
        BY <1>4, Joined, Zenon
      <4>2. Len(Sector) \in Nat
        BY <1>4
      <4> QED
        BY <1>5, <4>1, <4>2
    <3>3. ASSUME NEW j \in 1 .. Len(line')
          PROVE  line'[j].of = sector
      <4>1. /\ j + n - CmdLen \in 1 .. Len(Sector) /\ line'[j] = line[j + n]
            /\ j + n > CmdLen /\ j + n <= CmdLen + Len(Sector) /\ j + n \in Nat
        BY <1>9, <3>1, <3>2, <3>3, Sizes
      <4>2. line[j + n] = Sector[j + n - CmdLen]
        BY <1>4, <1>5, <4>1, ConcatProperties, Sizes
      <4> QED
        BY <1>4, <4>1, <4>2
    <3> QED
      BY <3>3
  <2>6. Dropped'
    BY <1>2, <1>7, <2>4, <2>5 DEF Dropped, Listening, NoReply
  <2> QED
    BY <2>1, <2>6
<1>10. CASE ~Aborted
  <2>1. readto = 0 /\ n = 1 /\ buff = <<>> /\ Readto(n) = 0
    BY <1>1, <1>2, <1>10, BuffFacts DEF Aborted, Starting, BuffInv, Readto
  <2>2. Buff(n)[1] = line[1]
    BY <1>1, <1>2, <1>10, <2>1, BuffFacts
  <2>3. FindHeader(n)
    BY <1>6, <1>10, <2>1, <2>2, Sizes
       DEF ProcessRequests, DiscardAll, DropSpurious, KeepReading, RefuseSector, StoreSector,
           ContinueFault, Continue, BadCommand, RefuseCommand, AcceptCommand, NewCommand, Complete, Round
  <2>4. /\ readto' = CmdLen /\ buff' = Buff(n) /\ silent' = FALSE /\ workCount' = workCount /\ reply' = reply
    BY <1>10, <2>3 DEF FindHeader, Round, AbortWork, Work
  <2>5. buff' \o line' = Bytes(request) \o Sector
    <3>1. Buff(n) \o line' = buff \o line
      BY <1>1, <1>2, <1>10, StreamKept
    <3>2. buff \o line = line
      BY <1>2, <2>1, ConcatEmptySeq DEF TypeInv
    <3> QED
      BY <1>5, <2>4, <3>1, <3>2
  <2>6. IF workCount = 0 THEN InCommand' ELSE Blocked'
    BY <1>2, <1>3, <1>7, <2>4, <2>5 DEF InCommand, Blocked, NoReply
  <2> QED
    BY <2>6 DEF Underway, Listening
<1>11. n \in Nat
  OBVIOUS
<1> QED
  BY <1>8, <1>9, <1>10, <1>11, Sizes

(* The rest of the command, and of one that meets work.                     *)
LEMMA InCommandRound ==
    ASSUME SafeInv, NEW n \in 1 .. SecLen, ProcessRequests(n), UNCHANGED setup,
           Answerable(request), InCommand \/ Blocked
    PROVE  IF InCommand THEN Underway' ELSE Blocked' \/ Dropped'
PROOF
<1>1. /\ Got(n) /\ UNCHANGED <<setup, client>>
  BY DEF ProcessRequests, DiscardAll, FindHeader, DropSpurious, KeepReading, RefuseSector, StoreSector,
         ContinueFault, Continue, BadCommand, RefuseCommand, AcceptCommand, NewCommand, Complete, Round
<1>2. /\ TypeInv /\ BuffInv /\ Asking /\ reply = NoReply
  BY <1>1, RoundFacts DEF SafeInv
<1>3. /\ readto = CmdLen /\ ~silent /\ left = request.count
      /\ buff \o line = Bytes(request) \o Sector
  BY DEF InCommand, Blocked
<1>4. ~Aborted /\ Readto(n) = CmdLen /\ Work = workCount
  BY <1>3 DEF Aborted, Readto, Work
<1>5. Len(Buff(n)) <= CmdLen
  BY <1>1, <1>2, <1>3, Sizes, BuffFacts
<1>6. Buff(n) \o line' = Bytes(request) \o Sector
  BY <1>1, <1>2, <1>3, <1>4, StreamKept
<1>7. IF workCount = 0 THEN Underway' ELSE Blocked' \/ Dropped'
  BY <1>3, <1>4, <1>5, <1>6, CommandRound
<1> QED
  BY <1>7 DEF InCommand, Blocked

(* The sector.                                                             *)
LEMMA InSectorRound ==
    ASSUME SafeInv, NEW n \in 1 .. SecLen, ProcessRequests(n), UNCHANGED setup, InSector
    PROVE  Underway'
PROOF
<1>1. /\ Got(n) /\ UNCHANGED <<setup, client>>
  BY DEF ProcessRequests, DiscardAll, FindHeader, DropSpurious, KeepReading, RefuseSector, StoreSector,
         ContinueFault, Continue, BadCommand, RefuseCommand, AcceptCommand, NewCommand, Complete, Round
<1>2. /\ TypeInv /\ BuffInv /\ Asking /\ reply = NoReply
  BY <1>1, RoundFacts DEF SafeInv
<1>3. /\ readto = SecLen /\ ~silent /\ Working(left) /\ request.op = "write"
      /\ buff \o line = Bytes(sector)
  BY DEF InSector
<1>4. ~Aborted /\ Readto(n) = SecLen /\ Work = workCount /\ Offset = workOffset /\ WorkingOn = workCommand
  BY <1>3, Sizes DEF Aborted, Readto, Work, Offset, WorkingOn
<1>5. sector \in Frames /\ Size(sector) = SecLen /\ left \in Nat /\ left > 0
  BY <1>2, <1>3, AskingFacts DEF Size
<1>6. /\ Bytes(sector) \in Seq(Byte) /\ Len(Bytes(sector)) = SecLen /\ Bytes(sector)[1].of = sector
  BY <1>5, BytesFacts, ByteAt, Sizes
<1>7. Buff(n) \o line' = Bytes(sector) /\ Buff(n) \in Seq(Byte) /\ Buff(n) # <<>> /\ line' \in Seq(Byte)
  BY <1>1, <1>2, <1>3, <1>4, StreamKept, BuffFacts, GotFacts
<1>8. /\ request' = request /\ sector' = sector /\ left' = left /\ setup' = setup
      /\ Bytes(sector)' = Bytes(sector)
  BY <1>1 DEF client, Bytes, Size
<1>9. CASE Len(Buff(n)) # SecLen
  <2>1. KeepReading(n)
    BY <1>4, <1>9, Sizes
       DEF ProcessRequests, DiscardAll, FindHeader, DropSpurious, RefuseSector, StoreSector, ContinueFault,
           Continue, BadCommand, RefuseCommand, AcceptCommand, NewCommand, Complete, Round
  <2>2. /\ readto' = SecLen /\ buff' = Buff(n) /\ silent' = FALSE /\ workCount' = workCount
        /\ workOffset' = workOffset /\ workCommand' = workCommand /\ mylba' = mylba /\ img' = img
        /\ reply' = reply
    BY <1>4, <2>1 DEF KeepReading, Round, AbortWork
  <2>3. Working(left)'
    BY <1>3, <1>8, <2>2 DEF Working, Answerable, Images, ReadOnly
  <2>4. InSector'
    BY <1>2, <1>3, <1>7, <1>8, <2>2, <2>3 DEF InSector, NoReply
  <2> QED
    BY <2>4 DEF Underway
<1>10. CASE Len(Buff(n)) = SecLen
  <2>1. Buff(n) = Bytes(sector)
    <3>1. Bytes(sector) \o <<>> = Bytes(sector) /\ <<>> \in Seq(Byte)
      BY <1>6, ConcatEmptySeq
    <3> QED
      BY <1>6, <1>7, <1>10, <3>1, SplitAt
  <2>2. Checksum(Buff(n), SecLen)
    BY <1>6, <1>7, <1>10, <2>1 DEF Checksum
  <2>3. img \notin ReadOnly
    BY <1>3 DEF Working, Answerable
  <2>4. StoreSector(n)
    BY <1>4, <1>10, <2>2, <2>3, Sizes
       DEF ProcessRequests, DiscardAll, FindHeader, DropSpurious, KeepReading, RefuseSector, ContinueFault,
           Continue, BadCommand, RefuseCommand, AcceptCommand, NewCommand, Complete, Round
  <2>5. /\ reply' # NoReply /\ silent' = FALSE /\ (readto' = 0 => workCount = 1)
    BY <2>4 DEF StoreSector, Round, NoReply
  <2>6. Answered'
    BY <1>3, <1>8, <2>5 DEF Answered, Working, NoReply
  <2> QED
    BY <2>6 DEF Underway
<1> QED
  BY <1>9, <1>10

(* The number of sectors left.                                             *)
LEMMA AtAckRound ==
    ASSUME SafeInv, NEW n \in 1 .. SecLen, ProcessRequests(n), UNCHANGED setup, AtAck
    PROVE  Underway'
PROOF
<1>1. /\ Got(n) /\ UNCHANGED <<setup, client>>
  BY DEF ProcessRequests, DiscardAll, FindHeader, DropSpurious, KeepReading, RefuseSector, StoreSector,
         ContinueFault, Continue, BadCommand, RefuseCommand, AcceptCommand, NewCommand, Complete, Round
<1>2. /\ TypeInv /\ BuffInv /\ Asking /\ reply = NoReply
  BY <1>1, RoundFacts DEF SafeInv
<1>3. /\ readto = 1 /\ ~silent /\ Working(left) /\ left < request.count
      /\ line = Bytes(Ack(left)) \o Sector
  BY DEF AtAck
<1>4. /\ left \in Nat /\ left > 0 /\ request.op \in {"inquire", "read", "write"}
      /\ Ack(left) \in Frames /\ Size(Ack(left)) = 1 /\ Ack(left).op = "ack" /\ Ack(left).count = left
  BY <1>2, AskingFacts DEF Ack, Frame, Frames, Size
<1>5. /\ Bytes(Ack(left)) \in Seq(Byte) /\ Len(Bytes(Ack(left))) = 1 /\ Bytes(Ack(left))[1].of = Ack(left)
      /\ Sector \in Seq(Byte)
  <2>1. Bytes(Ack(left)) \in Seq(Byte) /\ Len(Bytes(Ack(left))) = 1
    BY <1>4, BytesFacts
  <2>2. Bytes(Ack(left))[1].of = Ack(left)
    <3>1. 1 \in 1 .. Size(Ack(left))
      BY <1>4
    <3> QED
      BY <1>4, <3>1, ByteAt
  <2> QED
    BY <1>2, <2>1, <2>2, SectorBytes
<1>6. ~Aborted /\ Readto(n) = 1 /\ Work = left /\ buff = <<>>
  BY <1>2, <1>3 DEF Aborted, Readto, Work, Working, BuffInv, TypeInv
<1>7. /\ Buff(n) \in Seq(Byte) /\ line' \in Seq(Byte) /\ Len(Buff(n)) = 1
      /\ Buff(n) \o line' = Bytes(Ack(left)) \o Sector
  <2>1. Buff(n) \o line' = buff \o line
    BY <1>1, <1>2, <1>6, StreamKept
  <2>2. buff \o line = line
    BY <1>2, <1>6, ConcatEmptySeq DEF TypeInv
  <2>3. Len(Buff(n)) <= 1 /\ Buff(n) \in Seq(Byte) /\ Buff(n) # <<>> /\ line' \in Seq(Byte)
    BY <1>1, <1>2, <1>3, BuffFacts, GotFacts
  <2>4. Len(Buff(n)) = 1
    BY <2>3, OneByte, Zenon
  <2> QED
    BY <1>3, <2>1, <2>2, <2>3, <2>4
<1>8. Buff(n) = Bytes(Ack(left)) /\ line' = Sector
  BY <1>5, <1>7, SplitAt
<1>9. Says(Buff(n)[1], Work)
  BY <1>4, <1>5, <1>6, <1>8 DEF Says
<1>10. Continue(n)
  BY <1>4, <1>6, <1>7, <1>9, Sizes
     DEF ProcessRequests, DiscardAll, FindHeader, DropSpurious, KeepReading, RefuseSector, StoreSector,
         ContinueFault, BadCommand, RefuseCommand, AcceptCommand, NewCommand, Complete, Round
<1>11. /\ request' = request /\ sector' = sector /\ left' = left /\ setup' = setup
       /\ Bytes(sector)' = Bytes(sector) /\ silent' = FALSE
  BY <1>1, <1>10, ContinueSafe DEF client, Bytes, Size
<1>12. /\ \/ /\ request.op = "write" /\ readto' = SecLen /\ reply' = reply
             /\ Working(left)'
          \/ /\ request.op # "write" /\ reply' = RD!Right
             /\ readto' = IF left = 1 THEN 0 ELSE 1
       /\ buff' = <<>>
  BY <1>10, ContinueSafe, ServeSafe
<1>13. CASE request.op = "write"
  <2>1. line' = Bytes(sector) /\ <<>> \o line' = line'
    BY <1>7, <1>8, <1>13 DEF Sector
  <2>2. InSector'
    BY <1>2, <1>11, <1>12, <1>13, <2>1 DEF InSector, NoReply
  <2> QED
    BY <2>2 DEF Underway
<1>14. CASE request.op # "write"
  <2>1. RD!Right # NoReply
    BY <1>4, <1>14, RightRead, RightInquire DEF NoReply
  <2>2. Answered'
    BY <1>11, <1>12, <1>14, <2>1 DEF Answered, NoReply
  <2> QED
    BY <2>2 DEF Underway
<1> QED
  BY <1>13, <1>14

(* The rest of what was thrown away.                                        *)
LEMMA DroppedRound ==
    ASSUME SafeInv, NEW n \in 1 .. SecLen, ProcessRequests(n), UNCHANGED setup, Dropped
    PROVE  Dropped'
PROOF
<1>1. /\ Got(n) /\ UNCHANGED <<setup, client>>
  BY DEF ProcessRequests, DiscardAll, FindHeader, DropSpurious, KeepReading, RefuseSector, StoreSector,
         ContinueFault, Continue, BadCommand, RefuseCommand, AcceptCommand, NewCommand, Complete, Round
<1>2. /\ TypeInv /\ BuffInv /\ Asking /\ reply = NoReply
  BY <1>1, RoundFacts DEF SafeInv
<1>3. Work = 0 /\ Readto(n) \in {0, CmdLen}
  BY DEF Dropped, Listening, Work, Readto
<1>4. /\ n <= Len(line) /\ Len(line) \in Nat /\ Len(line') = Len(line) - n
      /\ \A j \in 1 .. Len(line') : line'[j] = line[j + n]
  BY <1>1, <1>2, GotFacts
<1>5. sector' = sector
  BY <1>1 DEF client
<1>6. \A j \in 1 .. Len(line') : line'[j].of = sector'
  BY <1>4, <1>5 DEF Dropped
<1>7. ~(Len(Buff(n)) = CmdLen /\ Checksum(Buff(n), CmdLen))
  <2>1. SUFFICES ASSUME Len(Buff(n)) = CmdLen, Checksum(Buff(n), CmdLen)
                 PROVE  FALSE
    OBVIOUS
  <2>2. line[n].of = request
    BY <1>1, <2>1, WholeCommand
  <2>3. line[n].of = sector
    BY <1>4 DEF Dropped
  <2>4. sector # request
    <3>1. request.op # "write" => sector = NoFrame
      BY <1>2 DEF TypeInv, SectorSent
    <3> QED
      BY <1>2, <3>1, SectorIsItself DEF Asking
  <2> QED
    BY <2>2, <2>3, <2>4
<1>8. ~RefuseCommand(n) /\ ~AcceptCommand(n) /\ ~ContinueFault(n) /\ ~Continue(n)
  BY <1>3, <1>7 DEF RefuseCommand, AcceptCommand, NewCommand, Complete, ContinueFault, Continue
<1>9. ~RefuseSector(n) /\ ~StoreSector(n)
  BY <1>3, Sizes DEF RefuseSector, StoreSector, Round
<1>10. reply' = reply /\ workCount' = 0 /\ readto' \in {0, CmdLen}
  BY <1>3, <1>8, <1>9, Sizes
     DEF ProcessRequests, DiscardAll, FindHeader, DropSpurious, KeepReading, BadCommand, Round, AbortWork
<1> QED
  BY <1>2, <1>6, <1>10 DEF Dropped, Listening, NoReply

(* What the client sends is not empty.                                     *)
LEMMA MessageLength ==
    ASSUME TypeInv, Asking, NEW f \in Frames
    PROVE  /\ Bytes(f) \o Sector \in Seq(Byte)
           /\ Len(Bytes(f) \o Sector) \in Nat /\ Len(Bytes(f) \o Sector) >= Size(f)
PROOF
<1>1. Bytes(f) \in Seq(Byte) /\ Len(Bytes(f)) = Size(f) /\ Size(f) \in Nat
  BY BytesFacts, Sizes
<1>2. Sector \in Seq(Byte) /\ Len(Sector) \in Nat
  BY SectorBytes, AskingFacts
<1>3. /\ Bytes(f) \o Sector \in Seq(Byte)
      /\ Len(Bytes(f) \o Sector) = Len(Bytes(f)) + Len(Sector)
  BY <1>1, <1>2, Joined, Zenon
<1> DEFINE whole == Len(Bytes(f) \o Sector)
           mine == Size(f)
           rest == Len(Sector)
<1>4. whole = mine + rest /\ mine \in Nat /\ rest \in Nat
  BY <1>1, <1>2, <1>3
<1> HIDE DEF whole, mine, rest
<1>5. whole \in Nat /\ whole >= mine
  BY <1>4
<1> QED
  BY <1>3, <1>5 DEF whole, mine

(* While something of the command is on its way, the line is not empty.     *)
LEMMA LineNotEmpty ==
    ASSUME SafeInv, Asking, line = <<>>
    PROVE  ~Starting /\ ~InCommand /\ ~InSector /\ ~AtAck /\ ~Blocked
PROOF
<1>1. /\ TypeInv /\ BuffInv /\ buff \in Seq(Byte) /\ Len(buff) \in Nat
  BY DEF SafeInv, TypeInv
<1>2. /\ request \in Frames /\ Size(request) = CmdLen
  BY <1>1, AskingFacts DEF Size
<1>3. line # Bytes(request) \o Sector /\ Len(Bytes(request) \o Sector) >= CmdLen
  <2>1. Len(Bytes(request) \o Sector) \in Nat /\ Len(Bytes(request) \o Sector) >= CmdLen
    BY <1>1, <1>2, MessageLength
  <2>2. Len(line) = 0
    OBVIOUS
  <2> QED
    BY <2>1, <2>2, Sizes
<1>4. ~Starting
  BY <1>3 DEF Starting
<1>5. buff \o line = buff
  BY <1>1, ConcatEmptySeq
<1>6. ~InCommand /\ ~Blocked
  <2>1. SUFFICES ASSUME readto = CmdLen, buff = Bytes(request) \o Sector
                 PROVE  FALSE
    BY <1>5 DEF InCommand, Blocked
  <2>2. Len(buff) >= CmdLen
    BY <1>3, <2>1
  <2>3. Len(buff) < CmdLen
    BY <1>1, <2>1, Sizes DEF BuffInv
  <2> QED
    BY <1>1, <2>2, <2>3, Sizes
<1>7. ~InSector
  <2>1. SUFFICES ASSUME readto = SecLen, buff = Bytes(sector), request.op = "write"
                 PROVE  FALSE
    BY <1>5 DEF InSector
  <2>2. sector \in Frames /\ Size(sector) = SecLen
    BY <1>1, <2>1, AskingFacts DEF Size
  <2>3. Len(buff) = SecLen
    BY <2>1, <2>2, BytesFacts
  <2>4. Len(buff) < SecLen
    BY <1>1, <2>1, Sizes DEF BuffInv
  <2> QED
    BY <1>1, <2>3, <2>4, Sizes
<1>8. ~AtAck
  <2>1. Ack(left) \in Frames /\ Size(Ack(left)) = 1
    BY <1>1, AskingFacts DEF Ack, Frame, Frames, Size
  <2>2. Len(Bytes(Ack(left)) \o Sector) \in Nat /\ Len(Bytes(Ack(left)) \o Sector) >= 1
    BY <1>1, <2>1, MessageLength
  <2>3. Len(line) = 0
    OBVIOUS
  <2>4. line # Bytes(Ack(left)) \o Sector
    BY <2>2, <2>3
  <2> QED
    BY <2>4 DEF AtAck
<1> QED
  BY <1>4, <1>6, <1>7, <1>8

(* No round leaves the way.                                                *)
LEMMA RoundProgress ==
    ASSUME SafeInv, ProgressInv, NEW n \in 1 .. SecLen, ProcessRequests(n), UNCHANGED setup
    PROVE  ProgressInv'
PROOF
<1>1. /\ Got(n) /\ UNCHANGED <<setup, client>>
  BY DEF ProcessRequests, DiscardAll, FindHeader, DropSpurious, KeepReading, RefuseSector, StoreSector,
         ContinueFault, Continue, BadCommand, RefuseCommand, AcceptCommand, NewCommand, Complete, Round
<1>2. Asking /\ reply = NoReply
  BY <1>1, RoundFacts
<1>3. /\ request' = request /\ disturbed' = disturbed /\ unanswered' = unanswered
      /\ Asking' /\ (TimeoutEnabled' <=> TimeoutEnabled) /\ (PatientClient' <=> PatientClient)
      /\ (Answerable(request)' <=> Answerable(request))
  BY <1>1, <1>2 DEF client, Asking, TimeoutEnabled, PatientClient, Answerable, Images, ReadOnly,
                    NoFrame, Frame
<1>4. ASSUME TimeoutEnabled, PatientClient, ~disturbed, Answerable(request)
      PROVE  Underway' \/ (unanswered = 0 /\ (Blocked' \/ Dropped'))
  <2>1. \/ Starting /\ (unanswered = 1 => Listening)
        \/ Underway
        \/ unanswered = 0 /\ (Blocked \/ Dropped)
    BY <1>2, <1>4 DEF ProgressInv
  <2>2. unanswered \in 0 .. 1
    BY <1>4 DEF ProgressInv
  <2>3. CASE Starting /\ (unanswered = 1 => Listening)
    <3>1. IF Listening THEN Underway' ELSE Underway' \/ Blocked' \/ Dropped'
      BY <1>4, <2>3, StartingRound
    <3> QED
      BY <2>2, <2>3, <3>1
  <2>4. CASE Underway
    <3>1. ~Answered
      BY <1>2 DEF Answered
    <3> QED
      BY <1>4, <2>4, <3>1, InCommandRound, InSectorRound, AtAckRound DEF Underway
  <2>5. CASE unanswered = 0 /\ (Blocked \/ Dropped)
    <3>1. Blocked => ~InCommand
      BY DEF Blocked, InCommand
    <3> QED
      BY <1>4, <2>5, <3>1, InCommandRound, DroppedRound
  <2> QED
    BY <2>1, <2>3, <2>4, <2>5
<1> QED
  BY <1>3, <1>4 DEF ProgressInv

(* A new command starts on it.                                             *)
LEMMA AskProgress ==
    ASSUME SafeInv, ProgressInv, Ask, UNCHANGED setup
    PROVE  ProgressInv'
PROOF
<1>1. /\ Asking' /\ left' = request'.count /\ reply' = NoReply
      /\ line' = Bytes(request') \o Sector'
  BY AskSafe
<1>2. /\ ~Asking /\ disturbed' = FALSE /\ unanswered' = unanswered
      /\ readto' = readto /\ workCount' = workCount /\ silent' = silent
      /\ (TimeoutEnabled' <=> TimeoutEnabled) /\ (PatientClient' <=> PatientClient)
  BY DEF Ask, Asking, server, TimeoutEnabled, PatientClient
<1>3. ASSUME TimeoutEnabled, PatientClient
      PROVE  Starting' /\ (unanswered' = 1 => Listening')
  <2>1. silent' \/ readto' = 0
    BY <1>2, <1>3 DEF ProgressInv, Free
  <2>2. Starting'
    BY <1>1, <2>1 DEF Starting, NoReply
  <2>3. unanswered' = 1 => Listening'
    BY <1>2, <1>3 DEF ProgressInv, Listening
  <2> QED
    BY <2>2, <2>3
<1> QED
  BY <1>1, <1>2, <1>3 DEF ProgressInv

(* An answer taken leads to the next sector, or to the end.                *)
LEMMA TakeAnswerProgress ==
    ASSUME SafeInv, ProgressInv, TakeAnswer, UNCHANGED setup
    PROVE  ProgressInv'
PROOF
<1>1. /\ reply # NoReply /\ reply' = NoReply
      /\ left # 1 => /\ left' = left - 1 /\ left' < request.count /\ request' = request
                     /\ Asking' /\ line' = Bytes(Ack(left')) \o Sector'
  BY TakeAnswerSafe
<1>2. /\ Asking /\ disturbed' = disturbed /\ setup' = setup
      /\ readto' = readto /\ workCount' = workCount /\ silent' = silent
      /\ workCommand' = workCommand /\ workOffset' = workOffset /\ mylba' = mylba /\ img' = img
      /\ (TimeoutEnabled' <=> TimeoutEnabled) /\ (PatientClient' <=> PatientClient)
  BY DEF TakeAnswer, Asking, server, TimeoutEnabled, PatientClient
<1>3. \/ readto = 0 /\ workCount = 0
      \/ readto = 1 /\ Working(left - 1)
  BY <1>1 DEF SafeInv, ReplyInv
<1>4. CASE left = 1
  <2>1. ~Asking' /\ unanswered' = 0
    BY <1>4 DEF TakeAnswer, Asking, NoFrame, Frame
  <2>2. ~(readto = 1 /\ Working(left - 1))
    BY <1>4 DEF SafeInv, BuffInv, Working
  <2>3. Free'
    BY <1>2, <1>3, <2>2 DEF Free
  <2> QED
    BY <2>1, <2>3 DEF ProgressInv
<1>5. CASE left # 1
  <2>1. unanswered' = unanswered
    BY <1>5 DEF TakeAnswer
  <2>2. Answerable(request)' <=> Answerable(request)
    BY <1>1, <1>2, <1>5 DEF Answerable, Images, ReadOnly
  <2>3. ASSUME TimeoutEnabled, PatientClient, ~disturbed, Answerable(request)
        PROVE  AtAck'
    <3>1. Answered
      BY <1>1, <1>2, <2>3
         DEF ProgressInv, Starting, Underway, InCommand, InSector, AtAck, Blocked, Dropped
    <3>2. ~silent /\ readto = 1 /\ Working(left - 1)
      BY <1>3, <1>5, <3>1 DEF Answered
    <3>3. Working(left)'
      BY <1>1, <1>2, <1>5, <2>2, <2>3, <3>2 DEF Working
    <3> QED
      BY <1>1, <1>2, <1>5, <3>2, <3>3 DEF AtAck, NoReply
  <2> QED
    BY <1>1, <1>2, <1>5, <2>1, <2>2, <2>3 DEF ProgressInv, Underway
<1> QED
  BY <1>4, <1>5

(* The client gives up, undisturbed, only what was dropped.                *)
LEMMA GiveUpProgress ==
    ASSUME SafeInv, ProgressInv, GiveUp, UNCHANGED setup
    PROVE  ProgressInv'
PROOF
<1>1. /\ Asking /\ ~Asking' /\ line = <<>> /\ ~Answers(reply)
      /\ silent' = (silent \/ PatientClient)
      /\ unanswered' = (IF disturbed \/ ~Answerable(request) THEN 0
                        ELSE IF unanswered < 3 THEN unanswered + 1 ELSE unanswered)
      /\ readto' = readto /\ workCount' = workCount
      /\ (TimeoutEnabled' <=> TimeoutEnabled) /\ (PatientClient' <=> PatientClient)
  BY DEF GiveUp, Asking, NoFrame, Frame, TimeoutEnabled, PatientClient
<1>2. ~Starting /\ ~InCommand /\ ~InSector /\ ~AtAck /\ ~Blocked
  BY <1>1, LineNotEmpty
<1>3. ~Answered
  <2>1. SUFFICES ASSUME reply # NoReply
                 PROVE  Answers(reply)
    BY <1>1 DEF Answered
  <2>2. reply = RD!Right
    BY <2>1 DEF SafeInv, ReplyInv
  <2>3. request.op \in {"inquire", "read", "write"}
    BY <1>1, AskingFacts DEF SafeInv
  <2> QED
    BY <2>2, <2>3, RightRead, RightWrite, RightInquire DEF Answers
<1>4. ASSUME TimeoutEnabled, PatientClient
      PROVE  unanswered' \in 0 .. 1 /\ silent' /\ (unanswered' = 1 => Listening')
  <2>1. silent'
    BY <1>1, <1>4, Zenon
  <2>2. CASE disturbed \/ ~Answerable(request)
    <3>1. unanswered' = 0
      BY <1>1, <2>2
    <3> QED
      BY <2>1, <3>1
  <2>3. CASE ~disturbed /\ Answerable(request)
    <3>1. unanswered = 0 /\ Dropped
      BY <1>1, <1>2, <1>3, <1>4, <2>3 DEF ProgressInv, Underway
    <3>2. Listening'
      BY <1>1, <3>1 DEF Dropped, Listening
    <3>3. unanswered' = 1
      BY <1>1, <2>3, <3>1
    <3> QED
      BY <2>1, <3>2, <3>3
  <2> QED
    BY <2>2, <2>3
<1> QED
  BY <1>1, <1>4 DEF ProgressInv

(* Time, a restart and a fault.                                            *)
LEMMA OthersProgress ==
    ASSUME SafeInv, ProgressInv, TimePasses \/ Restart \/ Fault, UNCHANGED setup
    PROVE  ProgressInv'
PROOF
<1>1. /\ unanswered' = unanswered /\ request' = request
      /\ (TimeoutEnabled' <=> TimeoutEnabled) /\ (PatientClient' <=> PatientClient)
  BY DEF TimePasses, Restart, Fault, client, TimeoutEnabled, PatientClient
<1>2. CASE TimePasses
  <2>1. ~Asking /\ ~Asking' /\ silent' /\ readto' = readto /\ workCount' = workCount
    BY <1>2 DEF TimePasses, client, Asking, NoFrame, Frame
  <2>2. Listening' <=> Listening
    BY <2>1 DEF Listening
  <2> QED
    BY <1>1, <2>1, <2>2 DEF ProgressInv
<1>3. CASE Restart \/ Fault
  <2>1. Asking' /\ disturbed'
    BY <1>3 DEF Restart, Fault, Asking, NoFrame, Frame
  <2> QED
    BY <1>1, <2>1 DEF ProgressInv
<1> QED
  BY <1>2, <1>3

(* A step that changes nothing.                                            *)
LEMMA StutterProgress ==
    ASSUME SafeInv, ProgressInv, UNCHANGED vars
    PROVE  ProgressInv'
PROOF
<1>1. /\ UNCHANGED <<setup, buff, readto, workCommand, workOffset, workCount, mylba, img, silent,
                     image, line, reply, request, sector, left, disturbed, unanswered>>
  BY DEF vars, server, client
<1>2. /\ Asking' <=> Asking
      /\ TimeoutEnabled' <=> TimeoutEnabled
      /\ PatientClient' <=> PatientClient
      /\ Free' <=> Free
      /\ Listening' <=> Listening
      /\ Answerable(request)' <=> Answerable(request)
  BY <1>1 DEF Asking, NoFrame, Frame, TimeoutEnabled, PatientClient, Free, Listening, Answerable,
              Images, ReadOnly
<1>3. /\ Sector' = Sector /\ Bytes(request)' = Bytes(request) /\ Bytes(sector)' = Bytes(sector)
      /\ Bytes(Ack(left))' = Bytes(Ack(left)) /\ (Working(left)' <=> Working(left))
  BY <1>1, <1>2 DEF Sector, Bytes, Size, Ack, Frame, Working
<1>4. /\ Starting' <=> Starting
      /\ Underway' <=> Underway
      /\ Blocked' <=> Blocked
      /\ Dropped' <=> Dropped
  BY <1>1, <1>2, <1>3
     DEF Starting, Underway, InCommand, InSector, AtAck, Answered, Blocked, Dropped, NoReply
<1> QED
  BY <1>1, <1>2, <1>4 DEF ProgressInv

(* A step.                                                                 *)
LEMMA ProgressStep ==
    ASSUME SafeInv, ProgressInv, [Next]_vars
    PROVE  ProgressInv'
PROOF
<1>1. CASE UNCHANGED vars
  BY <1>1, StutterProgress
<1>2. CASE Next
  <2>1. UNCHANGED setup
    BY <1>2 DEF Next
  <2> QED
    BY <1>2, <2>1, RoundProgress, AskProgress, TakeAnswerProgress, GiveUpProgress, OthersProgress
       DEF Next
<1> QED
  BY <1>1, <1>2

(* The start.                                                              *)
LEMMA ProgressInit ==
    ASSUME Init
    PROVE  ProgressInv
PROOF
<1>1. ~Asking /\ Free /\ unanswered = 0
  BY DEF Init, Asking, Free
<1> QED
  BY <1>1 DEF ProgressInv

(* A command cut short on the line costs a patient client at most the next     *)
(* one, where process()'s 110 ms timeout is compiled in: whatever the first    *)
(* left in buff and readto is gone, or has eaten no more than the second.    *)
THEOREM OneRetry == Spec => []OneRetryIsEnough
PROOF
<1>1. Init => IInv
  BY InitSafe, ProgressInit DEF IInv
<1>2. IInv /\ [Next]_vars => IInv'
  BY NextSafe, ProgressStep DEF IInv
<1>3. IInv => OneRetryIsEnough
  BY DEF IInv, ProgressInv, OneRetryIsEnough
<1> QED
  BY <1>1, <1>2, <1>3, PTL DEF Spec
=============================================================================
