---------------------------- MODULE SerialServer ----------------------------
(***************************************************************************)
(* processRequests of the serial disk server (SW/Serial_Server), with the  *)
(* serial line and the client at its other end (external: the XTIDE        *)
(* Universal BIOS, modelled from the protocol the server expects of it).   *)
(*                                                                         *)
(* One step of the server is one round of its while loop: one call of      *)
(* readCharacters, which returns some of the bytes that have come, and all *)
(* that the round does with them.  A byte is known by the frame it was     *)
(* sent in and its place there, so a checksum is right exactly when the    *)
(* buffer holds one frame, whole.  The line may lose or garble any byte    *)
(* and any answer; the server may be killed and started again.             *)
(***************************************************************************)
EXTENDS Integers, SequencesExt

CONSTANTS
    CmdLen,          \* bytes of a command: 8 in the code
    SecLen,          \* bytes of a sector and its checksum: 514 in the code
    Lba,             \* the sectors the client addresses
    Data,            \* contents of a sector
    NoData,
    HeaderAt,        \* <<contents or command, place>> of the bytes that look
                     \* like the first of a command
    AckAt,           \* <<contents, place>> of those that look like an ack of 1
    Setups           \* the machines that occur: [images, readOnly: the drives that
                     \* are there, and those opened with -r; timeout: not started
                     \* with -t; operations, lba, count: the commands the client
                     \* gives, of up to count sectors; patient: it waits out the
                     \* server's timeout]

ASSUME SizesAssumption ==
    /\ CmdLen \in Nat /\ CmdLen > 1
    /\ SecLen \in Nat /\ SecLen > CmdLen
    /\ Lba \subseteq Nat
ASSUME ContentsAssumption ==
    /\ NoData \notin Data
    /\ HeaderAt \subseteq (Data \cup {"inquire", "read", "write"}) \X (1 .. SecLen)
    /\ AckAt \subseteq Data \X (1 .. SecLen)
    /\ HeaderAt \cap AckAt = {}
ASSUME SetupsAssumption ==
    \A s \in Setups :
        /\ s.images \subseteq {0, 1} /\ s.readOnly \subseteq s.images
        /\ s.operations \subseteq {"inquire", "read", "write"}
        /\ s.lba \subseteq Lba /\ s.count \in Nat \ {0}
        /\ s.timeout \in BOOLEAN /\ s.patient \in BOOLEAN

VARIABLES
    setup,           \* the options of the server and the client there is
    buff,            \* buff.b[0 .. buffoffset-1]
    readto,          \* readto
    workCommand, workOffset, workCount,
    mylba, img,      \* mylba, and the drive img stands for
    image,           \* the sectors of each image file
    silent,          \* the timeout has run since lasttick
    line,            \* bytes on their way to the server
    reply,           \* the answer on its way to the client, or NoReply
    request,         \* the client's command in progress, or NoFrame
    sector,          \* the sector it sent last, or NoFrame
    left,            \* sectors it has still to see
    disturbed,       \* history: a fault hit this attempt
    unanswered       \* history: undisturbed attempts in a row without answer

server == <<buff, readto, workCommand, workOffset, workCount, mylba, img, silent>>
client == <<request, sector, left, disturbed, unanswered>>
vars == <<setup, server, image, line, reply, client>>

Images == setup.images
ReadOnly == setup.readOnly
TimeoutEnabled == setup.timeout
PatientClient == setup.patient

-----------------------------------------------------------------------------
(* Frames and bytes *)

Frame(op, drive, lba, count, data) ==
    [op |-> op, drive |-> drive, lba |-> lba, count |-> count, data |-> data]
NoFrame == Frame("none", 0, 0, 0, NoData)
Commands[s \in Setups] ==
    {c \in [op : s.operations, drive : {0, 1}, lba : s.lba, count : 1 .. s.count,
            data : {NoData}] :
       /\ c.lba .. c.lba + c.count - 1 \subseteq s.lba
       /\ c.op = "inquire" => c.lba = 0 /\ c.count = 1}
Ack(n) == Frame("ack", 0, 0, n, NoData)
SectorOf(c, k, d) == Frame("sector", c.drive, c.lba + k, 0, d)
Noise == {Frame("noise", 0, 0, n, NoData) : n \in {0, 1}}

Size(f) == IF f.op = "sector" THEN SecLen ELSE IF f.op = "ack" THEN 1 ELSE CmdLen
Bytes(f) == [i \in 1 .. Size(f) |-> [of |-> f, pos |-> i]]

(* (b & SERIAL_COMMAND_HEADERMASK) == SERIAL_COMMAND_HEADER                *)
HeaderByte(b) ==
    \/ b.of.op \in {"inquire", "read", "write"} /\ (b.pos = 1 \/ <<b.of.op, b.pos>> \in HeaderAt)
    \/ b.of.op = "sector" /\ <<b.of.data, b.pos>> \in HeaderAt
    \/ b.of.op = "noise" /\ b.of.count = 1
(* The byte's value is the number n.                                       *)
Says(b, n) ==
    \/ b.of.op = "ack" /\ b.of.count = n
    \/ b.of.op = "sector" /\ <<b.of.data, b.pos>> \in AckAt /\ n = 1

(* checksum(...) == the word that follows                                  *)
ChecksumUnchecked(b, n) == b # <<>> /\ Len(b) = n
Checksum(b, n) == b # <<>> /\ Len(b) = n /\ b = Bytes(b[1].of)

-----------------------------------------------------------------------------
(* A round of the loop that got n bytes *)

Wanted == IF readto = 0 THEN 1 ELSE readto - Len(buff)
Got(n) == n <= Len(line) /\ n <= Wanted /\ line' = SubSeq(line, n + 1, Len(line))

(* The timeout drops the work in hand, and then looks at what has come.    *)
AbortedInWork == TimeoutEnabled /\ workCount # 0 /\ silent
Aborted == TimeoutEnabled /\ readto # 0 /\ silent
AtFront(n) == n <= CmdLen /\ HeaderByte(line[1])
Buff(n) == IF Aborted THEN SubSeq(line, 1, n) ELSE buff \o SubSeq(line, 1, n)
Readto(n) == IF ~Aborted THEN readto ELSE IF AtFront(n) THEN CmdLen ELSE 0
Work == IF Aborted THEN 0 ELSE workCount
Offset == IF Aborted THEN 0 ELSE workOffset
WorkingOn == IF Aborted THEN "inquire" ELSE workCommand

AbortWork ==
    /\ workCount' = Work /\ workOffset' = Offset /\ workCommand' = WorkingOn
    /\ UNCHANGED <<mylba, img, image, reply>>

DiscardAll(n) ==
    /\ Got(n) /\ Aborted /\ ~AtFront(n) /\ n # 1
    /\ buff' = <<>> /\ readto' = 0
    /\ AbortWork
    /\ UNCHANGED <<silent, client>>

(* The rounds that go on past the timeout, with target the value of readto *)
(* there.                                                                  *)
Round(n, target) ==
    /\ Got(n) /\ ~(Aborted /\ ~AtFront(n) /\ n # 1)
    /\ target = Readto(n)
    /\ silent' = FALSE
    /\ UNCHANGED client

FindHeader(n) ==
    /\ Round(n, 0) /\ HeaderByte(Buff(n)[1])
    /\ buff' = Buff(n) /\ readto' = CmdLen
    /\ AbortWork

DropSpurious(n) ==
    /\ Round(n, 0) /\ ~HeaderByte(Buff(n)[1])
    /\ buff' = <<>> /\ readto' = 0
    /\ AbortWork

KeepReading(n) ==
    /\ \E target \in {CmdLen, SecLen} :
         /\ Round(n, target) /\ Len(Buff(n)) # target
         /\ readto' = target
    /\ buff' = Buff(n)
    /\ AbortWork

(* 514 bytes: only a write reads that many.                                *)
RefuseSector(n) ==
    /\ Round(n, SecLen) /\ Len(Buff(n)) = SecLen
    /\ ~(Checksum(Buff(n), SecLen) /\ img \notin ReadOnly)
    /\ buff' = <<>> /\ readto' = 0
    /\ AbortWork

Place == mylba + workOffset
StoreSector(n) ==
    /\ Round(n, SecLen) /\ Len(Buff(n)) = SecLen
    /\ Checksum(Buff(n), SecLen) /\ img \notin ReadOnly
    /\ image' = [image EXCEPT ![img][Place] = Buff(n)[1].of.data]
    /\ reply' = [kind |-> "echo", data |-> Buff(n)[1].of.data, from |-> <<>>]
    /\ workOffset' = workOffset + 1
    /\ workCount' = workCount - 1
    /\ buff' = <<>>
    /\ readto' = IF workCount = 1 THEN 0 ELSE 1
    /\ UNCHANGED <<workCommand, mylba, img>>

(* What a command or its continuation asks for, when work sectors are left, *)
(* the next being lba + offset of the drive.                               *)
Serve(op, drive, lba, offset, work) ==
    /\ workCommand' = op /\ img' = drive /\ mylba' = lba
    /\ buff' = <<>>
    /\ UNCHANGED image
    /\ \/ /\ op = "write" /\ work # 0
          /\ readto' = SecLen
          /\ workOffset' = offset /\ workCount' = work
          /\ UNCHANGED reply
       \/ /\ ~(op = "write" /\ work # 0)
          /\ reply' = IF op = "inquire"
                      THEN [kind |-> "identity", data |-> NoData, from |-> <<drive>>]
                      ELSE [kind |-> "contents", data |-> image[drive][lba + offset],
                            from |-> <<drive, lba + offset>>]
          /\ workOffset' = offset + 1 /\ workCount' = work - 1
          /\ readto' = IF work = 1 THEN 0 ELSE 1

Complete(n, target) == Round(n, target) /\ Len(Buff(n)) = target /\ target # SecLen

ContinueFault(n) ==
    /\ \E target \in {1, CmdLen} : Complete(n, target)
    /\ Work # 0 /\ ~Says(Buff(n)[1], Work)
    /\ buff' = <<>> /\ readto' = 0
    /\ workCount' = 0
    /\ UNCHANGED <<workOffset, workCommand, mylba, img, image, reply>>

Continue(n) ==
    /\ \E target \in {1, CmdLen} : Complete(n, target)
    /\ Work # 0 /\ Says(Buff(n)[1], Work)
    /\ Serve(workCommand, img, mylba, workOffset, Work)

BadCommand(n) ==
    /\ Complete(n, CmdLen) /\ Work = 0
    /\ ~Checksum(Buff(n), CmdLen)
    /\ buff' = <<>> /\ readto' = 0
    /\ AbortWork

NewCommand(n) ==
    /\ Complete(n, CmdLen) /\ Work = 0
    /\ Checksum(Buff(n), CmdLen)

RefuseCommand(n) ==
    /\ NewCommand(n)
    /\ LET c == Buff(n)[1].of
       IN /\ c.drive \notin Images \/ (c.op = "write" /\ c.drive \in ReadOnly)
          /\ workCommand' = c.op /\ mylba' = c.lba /\ img' = c.drive
    /\ workOffset' = 0 /\ workCount' = 0
    /\ buff' = <<>> /\ readto' = 0
    /\ UNCHANGED <<image, reply>>

StartOffsetKept(c) == Offset
StartOffset(c) == 0
AcceptCommand(n) ==
    /\ NewCommand(n)
    /\ LET c == Buff(n)[1].of
       IN /\ c.drive \in Images /\ ~(c.op = "write" /\ c.drive \in ReadOnly)
          /\ Serve(c.op, c.drive, c.lba, StartOffset(c), c.count)

ProcessRequests(n) ==
    \/ DiscardAll(n) \/ FindHeader(n) \/ DropSpurious(n) \/ KeepReading(n)
    \/ RefuseSector(n) \/ StoreSector(n)
    \/ ContinueFault(n) \/ Continue(n)
    \/ BadCommand(n) \/ RefuseCommand(n) \/ AcceptCommand(n)

(* The server is killed and started again: Connect flushes the port.       *)
Restart ==
    /\ request # NoFrame /\ ~disturbed
    /\ buff' = <<>> /\ readto' = 0
    /\ workCommand' = "inquire" /\ workOffset' = 0 /\ workCount' = 0
    /\ mylba' = 0 /\ img' = 0 /\ silent' = FALSE
    /\ line' = <<>>
    /\ disturbed' = TRUE
    /\ UNCHANGED <<image, reply, request, sector, left, unanswered>>

-----------------------------------------------------------------------------
(* The client (external).  It sends a command, with a write's first sector  *)
(* right behind it; acknowledges each sector but the last with the number   *)
(* left; and gives a command up when nothing more comes.                    *)

NoReply == [kind |-> "none", data |-> NoData, from |-> <<>>]

Send(f, k) ==
    \E d \in Data :
        /\ sector' = IF request'.op = "write" THEN SectorOf(request', k, d) ELSE NoFrame
        /\ line' = Bytes(f) \o (IF request'.op = "write" THEN Bytes(sector') ELSE <<>>)

Ask ==
    /\ request = NoFrame
    /\ request' \in Commands[setup]
    /\ left' = request'.count
    /\ Send(request', 0)
    /\ disturbed' = FALSE
    /\ UNCHANGED <<server, image, reply, unanswered>>

Answers(r) ==
    \/ request.op = "write" /\ r.kind = "echo" /\ r.data = sector.data
    \/ request.op = "read" /\ r.kind = "contents"
    \/ request.op = "inquire" /\ r.kind = "identity"

TakeAnswer ==
    /\ request # NoFrame /\ Answers(reply)
    /\ reply' = NoReply
    /\ left' = left - 1
    /\ IF left = 1
       THEN /\ request' = NoFrame /\ sector' = NoFrame
            /\ unanswered' = 0
            /\ UNCHANGED line
       ELSE /\ UNCHANGED <<request, unanswered>>
            /\ Send(Ack(left - 1), request.count - (left - 1))
    /\ UNCHANGED <<server, image, disturbed>>

Answerable(c) == c.drive \in Images /\ ~(c.op = "write" /\ c.drive \in ReadOnly)
GiveUp ==
    /\ request # NoFrame /\ line = <<>> /\ ~Answers(reply)
    /\ request' = NoFrame /\ sector' = NoFrame /\ left' = 0
    /\ reply' = NoReply
    /\ silent' = (silent \/ PatientClient)
    /\ unanswered' = IF disturbed \/ ~Answerable(request) THEN 0
                     ELSE IF unanswered < 3 THEN unanswered + 1 ELSE unanswered
    /\ disturbed' = FALSE
    /\ UNCHANGED <<buff, readto, workCommand, workOffset, workCount, mylba, img,
                   image, line>>

TimePasses ==
    /\ request = NoFrame /\ silent' = TRUE
    /\ UNCHANGED <<buff, readto, workCommand, workOffset, workCount, mylba, img,
                   image, line, reply, client>>

(* The line: a byte lost or garbled, or an answer lost.  At most one of the *)
(* faults of the line, or a restart, hits one attempt; attempts go on for   *)
(* ever.                                                                   *)
Fault ==
    /\ request # NoFrame /\ ~disturbed /\ disturbed' = TRUE
    /\ \/ \E i \in 1 .. Len(line) : line' = RemoveAt(line, i) /\ UNCHANGED reply
       \/ \E i \in 1 .. Len(line), z \in Noise :
            line' = [line EXCEPT ![i] = [of |-> z, pos |-> 1]] /\ UNCHANGED reply
       \/ reply # NoReply /\ reply' = NoReply /\ UNCHANGED line
    /\ UNCHANGED <<server, image, request, sector, left, unanswered>>

Init ==
    /\ setup \in Setups
    /\ buff = <<>> /\ readto = 0
    /\ workCommand = "inquire" /\ workOffset = 0 /\ workCount = 0
    /\ mylba = 0 /\ img = 0 /\ silent = FALSE
    /\ image \in [Images -> [setup.lba -> Data]]
    /\ line = <<>> /\ reply = NoReply
    /\ request = NoFrame /\ sector = NoFrame /\ left = 0
    /\ disturbed = FALSE /\ unanswered = 0

Next ==
    /\ \/ \E n \in 1 .. SecLen : ProcessRequests(n)
       \/ Restart \/ Ask \/ TakeAnswer \/ GiveUp \/ TimePasses \/ Fault
    /\ UNCHANGED setup

Spec == Init /\ [][Next]_vars

-----------------------------------------------------------------------------
(* What the client believes is so: an echo it takes for its sector means that *)
(* sector is stored, and a sector it takes for its answer is the one it is     *)
(* waiting for.  (Process.cpp:235-241, 378-391)                             *)
AnswersAreTrue ==
    LET here == request.lba + request.count - left
    IN  Answers(reply) =>
          /\ request.op = "write" => image[request.drive][here] = sector.data
          /\ request.op = "read" => reply.from = <<request.drive, here>>

(* However a command was cut short, a server with its timeout loses at most    *)
(* the next one of a client that waits it out.  (Process.cpp:146-177)        *)
OneRetryIsEnough == TimeoutEnabled /\ PatientClient => unanswered <= 1

(* Whatever is lost, garbled, cut short or sent again, the server is a remote *)
(* disk: only a sector of the request under way is stored, where the client    *)
(* meant it and on a drive that takes writes, and every answer is the one to   *)
(* the sector that is due.  (processRequests)                               *)
RD == INSTANCE RemoteDisk WITH NoRequest <- NoFrame, data <- sector.data,
                               writable <- Images \ ReadOnly
ImplementsRemoteDisk == RD!Spec
=============================================================================
