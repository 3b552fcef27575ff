------------------------------ MODULE SerDrive ------------------------------
(***************************************************************************)
(* The serial drive server as a process: its command line is read word by   *)
(* word, images are created, opened and given a geometry on the way, a port *)
(* is opened, and a client that has asked for the drives' identity reads    *)
(* and writes the sectors it was told of.  The process may be killed at any  *)
(* step and started again with another command line, on files it left half   *)
(* made, while the client still believes what it was told before.           *)
(* What passes between client and server byte by byte is in SerialServer.   *)
(***************************************************************************)
EXTENDS Integers, Sequences, Files, Options

CONSTANTS
    Names,      \* the paths files can be made and opened under
    Disks,      \* the files there may be at first: functions on Names
    Lines,      \* command lines: [on, argv, asked, bauds, timeout], for the platforms
                \* of on, with the images the user asks for with them
    Milestones, \* sizes a file under creation is looked at with
    Others,     \* files that another program may make meanwhile
    Ports,      \* serial ports of the host, by platform
    Tried,      \* the names a search for ports tries, in order
    Clients,    \* how a client inquires: [scan, port, divisor]
    MaxStarts

HostFiles == [exists : BOOLEAN, size : Nat, odd : BOOLEAN, made : BOOLEAN, written : BOOLEAN]
ASSUME FilesAssumption == /\ Disks \subseteq [Names -> HostFiles]
                          /\ Others \subseteq {f \in HostFiles : f.exists}
                          /\ Milestones \subseteq Nat
ASSUME LinesAssumption ==
    \A l \in DOMAIN Lines : \A i \in DOMAIN Lines[l].argv :
        /\ Lines[l].argv[i].parts \in Seq(Nat)
        /\ Lines[l].argv[i].milli \in Nat
ASSUME ClientsAssumption == \A c \in Clients : c.scan \in BOOLEAN

VARIABLES platform, fs, p, client, told, label, starts

vars == <<platform, fs, p, client, told, label, starts>>
server == <<fs, p, starts>>
others == <<client, told, label>>

LF == INSTANCE LinuxFile
WF == INSTANCE Win32File
SF == INSTANCE StdFile
LS == INSTANCE LinuxSerial
WS == INSTANCE Win32Serial

Platforms == {"linux", "win32", "stdio"}

(* The platform's file and serial port, chosen when the server is built.     *)
MaxSectors == [linux |-> LF!MaxSectors, win32 |-> WF!MaxSectors, stdio |-> SF!MaxSectors]
Opened(f, inUse) == CASE platform = "linux" -> LF!Open(f)
                      [] platform = "win32" -> WF!Open(f, inUse)
                      [] OTHER -> SF!Open(f)
SizeSectors(f) == CASE platform = "linux" -> LF!SizeSectors(f)
                    [] platform = "win32" -> WF!SizeSectors(f)
                    [] OTHER -> SF!SizeSectors(f)
SectorRead(f, lba) == CASE platform = "linux" -> LF!Read(f, lba)
                        [] platform = "win32" -> WF!Read(f, lba)
                        [] OTHER -> SF!Read(f, lba)
SectorWritten(f, lba) == CASE platform = "linux" -> LF!Write(f, lba)
                           [] platform = "win32" -> WF!Write(f, lba)
                           [] OTHER -> SF!Write(f, lba)
NewHandle == CASE platform = "linux" -> LF!NewHandle
               [] platform = "win32" -> WF!NewHandle
               [] OTHER -> SF!NewHandle
Closed(handle) == CASE platform = "linux" -> LF!Close(handle)
                    [] platform = "win32" -> WF!Close(handle)
                    [] OTHER -> SF!Close(handle)
Serial == IF platform = "win32" THEN WS!New ELSE LS!New
Connected(name, divisor) ==
    IF platform = "win32" THEN WS!Connect(p.serial, name, divisor, Tried, Ports[platform])
                          ELSE LS!Connect(p.serial, name, Ports[platform])
Disconnect == IF platform = "win32" THEN WS!Disconnect(p.serial) ELSE LS!Disconnect(p.serial)
Reads == IF platform = "win32" THEN WS!ReadCharacters ELSE LS!ReadCharacters
Sends == IF platform = "win32" THEN WS!WriteCharacters ELSE LS!WriteCharacters

Argv == Lines[p.line].argv
Word(t) == IF t \in DOMAIN Argv THEN Argv[t] ELSE NoWord
File == Argv[p.t].word

FileOf(name) == IF name \in Names THEN fs[name] ELSE NoFile

NoIdentity == respondInquire(NoImage)

Init == /\ platform \in Platforms
        /\ fs \in Disks
        /\ p = Off
        /\ client \in Clients
        /\ told = [d \in {0, 1} |-> NoIdentity]
        /\ label = [d \in {0, 1} |-> NoLabel]
        /\ starts = 0

Start(l) == /\ p.pc = "off" /\ starts < MaxStarts /\ platform \in Lines[l].on
            /\ p' = [Off EXCEPT !.pc = "parse", !.line = l, !.serial = Serial]
            /\ starts' = starts + 1
            /\ UNCHANGED <<platform, fs, others>>

Argument ==
    /\ p.pc = "parse" /\ p.t <= Len(Argv)
    /\ p' \in IF platform = "win32" THEN Win32Argument(p, Word(p.t), Word(p.t + 1))
              ELSE LinuxArgument(p, Word(p.t), Word(p.t + 1))
    /\ UNCHANGED <<platform, fs, others, starts>>

LastArgument == /\ p.pc = "parse" /\ p.t > Len(Argv)
                /\ p' = Ready(p)
                /\ UNCHANGED <<platform, fs, others, starts>>

(* FlatImage: a file that exists is not made again, but it is opened.        *)
Goal == p.g.cyl * p.g.sect * p.g.head
Make(outcomes) ==
    \E o \in outcomes :
        /\ fs' = [fs EXCEPT ![File] = o.file]
        /\ p' = CASE o.says = "made" -> [p EXCEPT !.pc = "fill", !.cf = "open"]
                  [] o.says = "exists" -> [p EXCEPT !.pc = "open", !.cf = NewHandle]
                  [] o.says = "absent" -> [p EXCEPT !.pc = "make"]
                  [] o.says = "exit" -> Off
CreateImage ==
    /\ p.pc = "create"
    /\ IF Goal > MaxSectors[platform] \/ File \notin Names THEN p' = Off /\ UNCHANGED fs
       ELSE Make(CASE platform = "linux" -> LF!Create(fs[File])
                   [] platform = "win32" -> WF!Create(fs[File])
                   [] OTHER -> SF!Look(fs[File]))
    /\ UNCHANGED <<platform, others, starts>>
MakeImage == /\ p.pc = "make"
             /\ Make(SF!Create(fs[File]))
             /\ UNCHANGED <<platform, others, starts>>

(* Sector after sector is written; a failed write, or a kill, leaves what     *)
(* has been written.                                                        *)
FillImage ==
    /\ p.pc = "fill"
    /\ \E size \in {m \in Milestones : fs[File].size < m /\ m < Goal} \cup {Goal} :
         /\ fs' = [fs EXCEPT ![File] = Extended(@, size)]
         /\ p' \in {Off, IF size = Goal THEN [p EXCEPT !.pc = "open", !.cf = Closed(@)] ELSE p}
    /\ UNCHANGED <<platform, others, starts>>

(* A file is in use by an image, or by its creation until that closes it.     *)
InUse(f) == \/ p.cf = "open" /\ f = File
            \/ \E i \in DOMAIN p.images : p.images[i].file = f
OpenImage ==
    /\ p.pc = "open"
    /\ \E o \in Opened(FileOf(File), InUse(File)) :
         LET total == SizeSectors(o.file)
             img   == init(total, p.g, p.useCHS)
         IN  p' = IF o.says = "ok" /\ img.fits
                  THEN Served([p EXCEPT !.cf = NewHandle], [file |-> File, readOnly |-> p.readOnly, img |-> img])
                  ELSE Off
    /\ UNCHANGED <<platform, fs, others, starts>>

Connect ==
    /\ p.pc = "connect"
    /\ \E c \in Connected(p.port, Divisor(p.baud)) :
         p' = IF c.says = "exit" THEN Off
              ELSE [p EXCEPT !.pc = "serve", !.serial = c.serial, !.lastScan = FALSE]
    /\ UNCHANGED <<platform, fs, others, starts>>

(* Floppy disks come after any hard disk.                                    *)
Drives == LET i == p.images
          IN  IF Len(i) = 2 /\ i[1].img.floppy # 0 /\ i[2].img.floppy = 0
              THEN <<i[2], i[1]>> ELSE i
Drive(d) == Drives[d + 1]
Provided(d) == d < Len(p.images)

(* The connection is closed, and opened again if it was a pipe.              *)
Disconnected == LET s == Disconnect
                IN  IF s.reset THEN [p EXCEPT !.pc = "connect", !.serial = s] ELSE Off
After(q, says) == CASE says = "closed" -> Disconnected
                    [] says = "exit" -> Off
                    [] OTHER -> q

(* A line carries what a client says at the server's rate; a pipe anything.  *)
Heard == p.serial.emulation \/ client.divisor = Divisor(p.baud)
Answered(d) ==
    /\ p.pc = "serve" /\ Heard /\ Provided(d)
    /\ ~(p.serial.emulation /\ client.divisor # Divisor(p.baud))

(* The client inquires of the second drive when it knows the first, and does  *)
(* not say then whether it scans: the server remembers that.  The answer may  *)
(* be lost on the way.                                                      *)
Scanning(d) == client.scan /\ d = 0
Remembered(scan) == p.lastScan \/ scan
LastScan(scan) == scan
Inquire(d) ==
    /\ Answered(d) /\ (d = 1 => told[0] # NoIdentity)
    /\ LET named == Label((d = 1 /\ p.lastScan) \/ Scanning(d), client.port, p.baud)
       IN  \E says \in Sends :
             /\ p' = After([p EXCEPT !.lastScan = LastScan(Scanning(d))], says)
             /\ \/ UNCHANGED <<told, label>>
                \/ /\ says = "sent"
                   /\ told' = [told EXCEPT ![d] = respondInquire(Drive(d).img)]
                   /\ label' = [label EXCEPT ![d] = named]
    /\ UNCHANGED <<platform, fs, client, starts>>

(* One sector, at an address the client was told of; the server finds it      *)
(* with the geometry it has now.                                            *)
Transfer(d, write, a) ==
    /\ p.pc = "serve" /\ Heard /\ Provided(d)
    /\ ~(write /\ Drive(d).readOnly)
    /\ LET f   == Drive(d).file
           lba == Sector(Drive(d).img, a)
       IN  \E o \in IF write THEN SectorWritten(fs[f], lba) ELSE SectorRead(fs[f], lba),
              says \in Sends :
             /\ fs' = [fs EXCEPT ![f] = o.file]
             /\ p' = IF o.says = "exit" THEN Off
                     ELSE After(IF write THEN p ELSE [p EXCEPT !.lastScan = FALSE], says)
    /\ UNCHANGED <<platform, others, starts>>

(* The read that waits for a command fails.                                  *)
Hangup == /\ p.pc = "serve"
          /\ \E says \in Reads \ {"data"} : p' = After(p, says)
          /\ UNCHANGED <<platform, fs, others, starts>>

Kill == /\ p.pc # "off"
        /\ p' = Off
        /\ UNCHANGED <<platform, fs, others, starts>>

(* Outside the server: another program, and the client's own restart.        *)
OtherCreates(f) == /\ ~fs[f].exists
                   /\ \E o \in Others : fs' = [fs EXCEPT ![f] = o]
                   /\ UNCHANGED <<platform, p, others, starts>>
ClientRestarts == /\ client' \in Clients
                  /\ told' = [d \in {0, 1} |-> NoIdentity]
                  /\ label' = [d \in {0, 1} |-> NoLabel]
                  /\ UNCHANGED <<platform, server>>

Next == \/ \E l \in DOMAIN Lines : Start(l)
        \/ Argument \/ LastArgument
        \/ CreateImage \/ MakeImage \/ FillImage \/ OpenImage
        \/ Connect \/ Hangup \/ Kill
        \/ \E d \in {0, 1} :
              \/ Inquire(d)
              \/ \E write \in BOOLEAN, a \in Corners(told[d]) : Transfer(d, write, a)
        \/ \E f \in Names : OtherCreates(f)
        \/ ClientRestarts

Spec == Init /\ [][Next]_vars
=============================================================================
