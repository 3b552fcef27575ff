----------------------------- MODULE RemoteDisk -----------------------------
(***************************************************************************)
(* What the serial disk server promises a client: the drives of a remote    *)
(* machine, one request at a time, whatever happens on the line between.    *)
(* A sector is stored only where and as the client sent it; an answer, if   *)
(* it comes at all, is the one to the request and to the sector of it that  *)
(* is due; and a client may give a request up at any time.                  *)
(***************************************************************************)
EXTENDS Integers

CONSTANTS NoRequest, NoReply, NoData

VARIABLES
    writable,  \* the drives that take writes
    image,     \* the sectors of each drive
    request,   \* the client's request: op, drive, lba and count
    data,      \* the sector it is sending, or NoData
    left,      \* the sectors of it that are still due
    reply      \* the answer on its way

vars == <<writable, image, request, data, left, reply>>

Here == request.lba + request.count - left

(* The one answer the sector that is due may be given.                      *)
Right == CASE request.op = "read" ->
                [kind |-> "contents", data |-> image[request.drive][Here],
                 from |-> <<request.drive, Here>>]
           [] request.op = "write" -> [kind |-> "echo", data |-> data, from |-> <<>>]
           [] OTHER -> [kind |-> "identity", data |-> NoData, from |-> <<request.drive>>]

Init == request = NoRequest /\ data = NoData /\ reply = NoReply

Ask == /\ request = NoRequest /\ request' # NoRequest /\ reply = NoReply
       /\ left' = request'.count
       /\ (data' = NoData) <=> (request'.op # "write")
       /\ UNCHANGED <<writable, image, reply>>

Due == request # NoRequest /\ left > 0 /\ request.drive \in DOMAIN image

Respond == /\ Due /\ request.op # "write"
           /\ reply' = Right
           /\ UNCHANGED <<writable, image, request, data, left>>

Store == /\ Due /\ request.op = "write"
         /\ request.drive \in writable
         /\ image' = [image EXCEPT ![request.drive][Here] = data]
         /\ reply' = Right
         /\ UNCHANGED <<writable, request, data, left>>

Lose == reply' = NoReply /\ UNCHANGED <<writable, image, request, data, left>>

Take == /\ Due /\ reply = Right
        /\ reply' = NoReply
        /\ left' = left - 1
        /\ IF left = 1 THEN request' = NoRequest /\ data' = NoData
           ELSE /\ request' = request
                /\ (data' = NoData) <=> (request.op # "write")
        /\ UNCHANGED <<writable, image>>

GiveUp == /\ request # NoRequest
          /\ request' = NoRequest /\ data' = NoData /\ left' = 0 /\ reply' = NoReply
          /\ UNCHANGED <<writable, image>>

Next == Ask \/ Respond \/ Store \/ Lose \/ Take \/ GiveUp

Spec == Init /\ [][Next]_vars
=============================================================================
