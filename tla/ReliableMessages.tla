--------------------------- MODULE ReliableMessages ---------------------------
(***************************************************************************)
(* Messages on the reliable stream: CL_SendReliableClientCommand and       *)
(* CL_ReceiveReliableMessages of cl_main.c, over ReliableMessageSend and   *)
(* ReliableMessageReceive of net_reliabletransport.c.                      *)
(*                                                                         *)
(* A message is a header with its size, and a body.  The stream carries    *)
(* fragments: a message begins a fragment, and is cut where a fragment is  *)
(* full.  The reader asks for bytes, gets as many as there are, and the    *)
(* rest of a fragment it has begun waits in fragmentbuffer.                *)
(*                                                                         *)
(* The fragments arrive in order and once (ReliableStream, which the       *)
(* ReliableTransport module implements), any number at a time up to the    *)
(* window.  Byte p of message m is [msg |-> m, pos |-> p]: what a header   *)
(* says can only be read from the header's own bytes, in their order.      *)
(***************************************************************************)
EXTENDS Integers, SequencesExt

CONSTANTS
    FragmentSize,   \* MAX_FRAGMENT_SIZE (1200)
    HeaderSize,     \* bytes of the size in front of a message (4)
    MaxSize,        \* msg.maxsize of CL_ReceiveReliableMessages (1 MB)
    WindowSize,     \* rxwindow.windowsize (20)
    Sizes,          \* sizes of the bodies sent
    MaxMessages     \* bound: messages

ASSUME MessageAssumption ==
    /\ HeaderSize \in Nat \ {0} /\ FragmentSize \in Nat /\ HeaderSize <= FragmentSize
    /\ MaxSize \in Nat /\ HeaderSize <= MaxSize /\ WindowSize \in Nat \ {0}
    /\ Sizes \subseteq Nat /\ MaxMessages \in Nat

VARIABLES
    sent,           \* history: sizes of the messages sent
    stream,         \* the fragments submitted
    arrived,        \* ReliableMessagesGetAcknowledge: fragments below it are here
    rxSequence,     \* rxwindow.sequence: fragments below it were taken
    fragmentbuffer, \* unread bytes of the fragment taken last
    msg,            \* the bytes of msg, the message under way
    state,          \* "connected", or "dropped" after ERR_DROP
    executed        \* what CL_ExecuteReliableMessage was given

vars == <<sent, stream, arrived, rxSequence, fragmentbuffer, msg, state, executed>>

\* The bytes of message m, with a body of this size.
Bytes(m, size) == [p \in 1 .. HeaderSize + size |-> [msg |-> m, pos |-> p]]

Least(a, b) == IF a <= b THEN a ELSE b

-----------------------------------------------------------------------------
\* The fragments that ReliableMessageSend makes of these bytes.
Fragments(bytes) ==
    [f \in 1 .. (Len(bytes) + FragmentSize - 1) \div FragmentSize |->
        SubSeq(bytes, (f - 1) * FragmentSize + 1, Least(f * FragmentSize, Len(bytes)))]

\* CL_SendReliableClientCommand: the size does not count the header.
CL_SendReliableClientCommand(size) ==
    /\ Len(sent) < MaxMessages
    /\ sent' = Append(sent, size)
    /\ stream' = stream \o Fragments(Bytes(Len(sent) + 1, size))
    /\ UNCHANGED <<arrived, rxSequence, fragmentbuffer, msg, state, executed>>

\* ReliableMessagesReceiveNextFragment has filled the next gap of the window.
FragmentArrives ==
    /\ arrived < Len(stream) /\ arrived < rxSequence + WindowSize
    /\ arrived' = arrived + 1
    /\ UNCHANGED <<sent, stream, rxSequence, fragmentbuffer, msg, state, executed>>

-----------------------------------------------------------------------------
(* ReliableMessageReceive *)

\* Mutant: the cached bytes come after those of the fragments.
AvailableLate(i) == FlattenSeq(SubSeq(stream, rxSequence + 1, rxSequence + i)) \o fragmentbuffer

\* The bytes a reader could have: first what is cached, then i fragments.
Available(i) ==
    LET bytes[j \in 0 .. arrived - rxSequence] ==
            IF j = 0 THEN fragmentbuffer ELSE bytes[j - 1] \o stream[rxSequence + j]
    IN  bytes[i]

\* Mutant: the loop over the available fragments leaves out the last.
TakenButLast(len) ==
    CHOOSE i \in 0 .. arrived - rxSequence :
        /\ i >= arrived - rxSequence - 1 \/ Len(Available(i)) >= len
        /\ \A j \in 0 .. i - 1 : j < arrived - rxSequence - 1 /\ Len(Available(j)) < len

\* How many fragments are taken to get len bytes, if there are as many.
Taken(len) ==
    CHOOSE i \in 0 .. arrived - rxSequence :
        /\ i = arrived - rxSequence \/ Len(Available(i)) >= len
        /\ \A j \in 0 .. i - 1 : Len(Available(j)) < len

\* What the reader gets, and what is stored off.
Read(len) == SubSeq(Available(Taken(len)), 1, Least(len, Len(Available(Taken(len)))))
Rest(len) == SubSeq(Available(Taken(len)), len + 1, Len(Available(Taken(len))))

ReliableMessageReceive(len) ==
    /\ rxSequence' = rxSequence + Taken(len)
    /\ fragmentbuffer' = Rest(len)

-----------------------------------------------------------------------------
(* CL_ReceiveReliableMessages, one turn of its loop *)

\* MSG_ReadLong of the header: -1 if it is not complete.
MessageSize(bytes) ==
    IF Len(bytes) >= HeaderSize /\ \A p \in 1 .. HeaderSize : bytes[p] = [msg |-> bytes[1].msg, pos |-> p]
    THEN sent[bytes[1].msg] ELSE -1

\* The bytes of the whole message.
Wanted(bytes) == MessageSize(bytes) + HeaderSize

\* The header of a new message is read; a message without a body is complete.
ReceiveHeader ==
    /\ state = "connected" /\ msg = <<>>
    /\ Read(HeaderSize) # <<>>
    /\ ReliableMessageReceive(HeaderSize)
    /\ msg' = Read(HeaderSize)
    /\ UNCHANGED <<sent, stream, arrived, state, executed>>

Oversize ==
    /\ state = "connected" /\ msg # <<>>
    /\ MessageSize(msg) >= 0 /\ Wanted(msg) > MaxSize
    /\ state' = "dropped"
    /\ UNCHANGED <<sent, stream, arrived, rxSequence, fragmentbuffer, msg, executed>>

\* More of the message is read; when it is complete it is executed and cleared.
ReceiveBody ==
    LET more == Wanted(msg) - Len(msg)
        all  == msg \o Read(more)
    IN  /\ state = "connected" /\ msg # <<>>
        /\ MessageSize(msg) >= 0 /\ Wanted(msg) <= MaxSize
        /\ ReliableMessageReceive(more)
        /\ IF Len(all) < Wanted(msg)
           THEN msg' = all /\ UNCHANGED executed
           ELSE msg' = <<>> /\ executed' = Append(executed, all)
        /\ UNCHANGED <<sent, stream, arrived, state>>

-----------------------------------------------------------------------------
\* ReliableMessageSetup and CL_ReceiveReliableMessages(qtrue).
Init ==
    /\ sent = <<>> /\ stream = <<>> /\ arrived = 0 /\ rxSequence = 0
    /\ fragmentbuffer = <<>> /\ msg = <<>> /\ state = "connected" /\ executed = <<>>

Next ==
    \/ \E size \in Sizes : CL_SendReliableClientCommand(size)
    \/ FragmentArrives
    \/ ReceiveHeader
    \/ Oversize
    \/ ReceiveBody

Spec == Init /\ [][Next]_vars

\* The transport repeats what is missing, and CL_Frame reads in every frame.
FairSpec ==
    /\ Spec
    /\ WF_vars(FragmentArrives)
    /\ WF_vars(ReceiveHeader \/ Oversize \/ ReceiveBody)

-----------------------------------------------------------------------------
(* Properties *)

\* Fragments are taken only after they arrived, and what waits in fragmentbuffer is
\* less than the fragment it is the rest of (ReliableMessageReceive).
TypeOK ==
    /\ rxSequence \in 0 .. arrived /\ arrived \in 0 .. Len(stream)
    /\ arrived <= rxSequence + WindowSize
    /\ Len(fragmentbuffer) < FragmentSize
    /\ Len(msg) <= MaxSize
    /\ state \in {"connected", "dropped"}

\* Each message is executed once, in the order of sending, from its first byte to its
\* last, wherever fragments end and however few of them are there when the reader
\* asks (CL_ReceiveReliableMessages, ReliableMessageReceive).
ExecutedAsSent ==
    /\ Len(executed) <= Len(sent)
    /\ \A m \in DOMAIN executed : executed[m] = Bytes(m, sent[m])

\* The reader never loses step with the stream: a message under way begins with a
\* complete header and is the next one, and what is cached, less than a fragment, comes
\* right after it.  With a part of a header CL_ReceiveReliableMessages would return at
\* once for ever.
InStep ==
    LET m == Len(executed) + 1
    IN  /\ Len(fragmentbuffer) < FragmentSize
        /\ msg # <<>> => /\ m <= Len(sent) /\ HeaderSize <= Len(msg)
                         /\ msg \o fragmentbuffer = SubSeq(Bytes(m, sent[m]), 1, Len(msg \o fragmentbuffer))

\* The stream is read as it was written: what is executed are the messages sent, and what
\* is under way is the beginning of the next one (CL_ReceiveReliableMessages).
ReadAsWritten == ExecutedAsSent /\ InStep

\* Every message is executed in the end, unless one too large for msg was sent.
EveryMessageExecuted ==
    \A n \in 1 .. MaxMessages :
        Len(sent) >= n ~> Len(executed) >= n \/ state = "dropped"
===============================================================================
