------------------------------- MODULE Netchan -------------------------------
(***************************************************************************)
(* The sequenced channel: net_chan.c.                                      *)
(*                                                                         *)
(* One direction of a channel, from the end that transmits to the end that *)
(* processes; the two directions of a netchan_t share no state.  A message *)
(* of FRAGMENT_SIZE bytes or more is cut into fragments that carry its     *)
(* sequence number; a fragment shorter than FRAGMENT_SIZE is the last one. *)
(* Nothing is repeated: a message that lost a fragment is lost.            *)
(*                                                                         *)
(* Lengths are in small units.  Message m is the m-th one transmitted, and *)
(* its unit at offset j is [msg |-> m, pos |-> j], so that a buffer holding *)
(* parts of two messages, or parts in the wrong place, shows.              *)
(*                                                                         *)
(* The datagrams travel over UDP (lost, duplicated, reordered) or, when    *)
(* the remote address is NA_LOOPBACK, through the ring of loopback_t.      *)
(***************************************************************************)
EXTENDS Integers, Sequences, FiniteSets

CONSTANTS
    FragmentSize,       \* FRAGMENT_SIZE (1300)
    UnsentBufferSize,   \* unsentBufferSize of the transmitting end
    FragmentBufferSize, \* fragmentBufferSize of the processing end
    MaxSize,            \* maxsize of the msg_t that Netchan_Process fills
    MaxLoopback,        \* MAX_LOOPBACK (16)
    Lengths,            \* lengths of the messages transmitted, header included
    MaxMessages,        \* bound: messages transmitted
    MaxInFlight         \* bound: datagrams in the network

ASSUME NetchanAssumption ==
    /\ FragmentSize \in Nat \ {0}
    /\ UnsentBufferSize \in Nat /\ FragmentBufferSize \in Nat /\ MaxSize \in Nat
    /\ MaxLoopback \in Nat \ {0}
    /\ Lengths \subseteq Nat \ {0}
    /\ MaxMessages \in Nat /\ MaxInFlight \in Nat

VARIABLES
    remoteType,             \* remoteAddress.type
    outgoingSequence, unsentFragments, unsentFragmentStart, unsentLength,
    incomingSequence, fragmentSequence, fragmentLength, fragmentBuffer,
    net,                    \* datagrams under way by UDP
    loop,                   \* loopback_t: get, send and msgs
    overrun,                \* history: the loopback ring has lost a datagram
    transmitted,            \* history: the lengths of the messages transmitted
    processed               \* history: what Netchan_Process returned qtrue for

senderVars == <<outgoingSequence, unsentFragments, unsentFragmentStart, unsentLength>>
receiverVars == <<incomingSequence, fragmentSequence, fragmentLength, fragmentBuffer>>
netVars == <<net, loop, overrun>>
vars == <<remoteType, senderVars, receiverVars, netVars, transmitted, processed>>

Unit == [msg : Nat, pos : Nat]

Packet == [seq : Nat, fragmented : BOOLEAN, start : Nat, length : Nat, msg : Nat]

NoPacket == [seq |-> 0, fragmented |-> FALSE, start |-> 0, length |-> 0, msg |-> 0]

\* The n units of message m from offset start on.
Units(m, start, n) == [j \in 0 .. n - 1 |-> [msg |-> m, pos |-> start + j]]

-----------------------------------------------------------------------------
(* Transmission *)

\* NET_SendLoopPacket writes the next slot, whoever has not read it yet.
SendLoopPacket(pkt) ==
    /\ loop' = [loop EXCEPT !.send = @ + 1, !.msgs[loop.send % MaxLoopback] = pkt]
    /\ UNCHANGED <<net, overrun>>

\* Sys_SendPacket; a network at its capacity loses one.
Sys_SendPacket(pkt) ==
    /\ \/ Cardinality(net) < MaxInFlight /\ net' = net \cup {pkt}
       \/ Cardinality(net) >= MaxInFlight /\ \E old \in net : net' = (net \ {old}) \cup {pkt}
    /\ UNCHANGED <<loop, overrun>>

NET_SendPacket(pkt) ==
    IF remoteType = "NA_LOOPBACK" THEN SendLoopPacket(pkt) ELSE Sys_SendPacket(pkt)

\* Mutant: a fragment that ends the message is taken for its last one, full or not.
SendFragmentNoTerminator(m, start, length) ==
    LET short == start + FragmentSize > length
        n == IF short THEN length - start ELSE FragmentSize
        last == start + n = length
    IN  /\ NET_SendPacket([seq |-> outgoingSequence, fragmented |-> TRUE,
                           start |-> start, length |-> n, msg |-> m])
        /\ unsentFragmentStart' = start + n
        /\ outgoingSequence' = IF last THEN outgoingSequence + 1 ELSE outgoingSequence
        /\ unsentFragments' = ~ last

\* Netchan_TransmitNextFragment: a message whose length is a multiple of
\* FRAGMENT_SIZE ends with a fragment of length zero.
SendFragment(m, start, length) ==
    LET short == start + FragmentSize > length
        n == IF short THEN length - start ELSE FragmentSize
        last == start + n = length /\ short
    IN  /\ NET_SendPacket([seq |-> outgoingSequence, fragmented |-> TRUE,
                           start |-> start, length |-> n, msg |-> m])
        /\ unsentFragmentStart' = start + n
        /\ outgoingSequence' = IF last THEN outgoingSequence + 1 ELSE outgoingSequence
        /\ unsentFragments' = ~ last

\* Netchan_Transmit.  Its callers have sent all fragments of the message before
\* (the loop at the end of CL_WritePacket); a message too long for the buffer ends
\* in ERR_DROP.
Netchan_Transmit(length) ==
    LET m == Len(transmitted) + 1
    IN  /\ ~ unsentFragments
        /\ m <= MaxMessages
        /\ length <= UnsentBufferSize
        /\ transmitted' = Append(transmitted, length)
        /\ IF length >= FragmentSize
           THEN /\ unsentLength' = length
                /\ SendFragment(m, 0, length)
           ELSE /\ NET_SendPacket([seq |-> outgoingSequence, fragmented |-> FALSE,
                                   start |-> 0, length |-> length, msg |-> m])
                /\ outgoingSequence' = outgoingSequence + 1
                /\ unsentFragmentStart' = 0
                /\ UNCHANGED <<unsentFragments, unsentLength>>
        /\ UNCHANGED <<remoteType, receiverVars, processed>>

Netchan_TransmitNextFragment ==
    /\ unsentFragments
    /\ SendFragment(Len(transmitted), unsentFragmentStart, unsentLength)
    /\ UNCHANGED <<remoteType, unsentLength, receiverVars, transmitted, processed>>

-----------------------------------------------------------------------------
(* Processing *)

Deliver(seq, data) ==
    /\ incomingSequence' = seq
    /\ processed' = Append(processed, data)

\* Discard out of order or duplicated packets.
OutOfOrder(pkt) == pkt.seq <= incomingSequence

\* Where the fragment under assembly has got to, once pkt has had its say.
Assembled(pkt) == IF pkt.seq # fragmentSequence THEN 0 ELSE fragmentLength

\* Mutant: a gap is not noticed.
MissedNever(pkt) == FALSE

\* If we missed a fragment, dump the message; fragments that do not fit are illegal.
Missed(pkt) == pkt.start # Assembled(pkt)
Illegal(pkt) == Assembled(pkt) + pkt.length > FragmentBufferSize

\* The assembly buffer with the fragment copied in behind what is there.
Copied(pkt) ==
    [j \in 0 .. FragmentBufferSize - 1 |->
        IF j \in Assembled(pkt) .. Assembled(pkt) + pkt.length - 1
        THEN [msg |-> pkt.msg, pos |-> pkt.start + j - Assembled(pkt)]
        ELSE fragmentBuffer[j]]

\* The part of Netchan_Process for fragments.
ProcessFragment(pkt) ==
    LET length == Assembled(pkt) + pkt.length
        whole  == pkt.length # FragmentSize /\ length <= MaxSize
    IN  /\ fragmentSequence' = pkt.seq
        /\ IF Missed(pkt) \/ Illegal(pkt)
           THEN /\ fragmentLength' = Assembled(pkt)
                /\ UNCHANGED <<fragmentBuffer, incomingSequence, processed>>
           ELSE /\ fragmentBuffer' = Copied(pkt)
                /\ IF whole
                   THEN /\ fragmentLength' = 0
                        /\ Deliver(pkt.seq, [j \in 0 .. length - 1 |-> fragmentBuffer'[j]])
                   ELSE /\ fragmentLength' = length
                        /\ UNCHANGED <<incomingSequence, processed>>

\* Netchan_Process of the datagram that CL_PacketEvent was given.
Netchan_Process(pkt) ==
    /\ CASE OutOfOrder(pkt) -> UNCHANGED <<receiverVars, processed>>
         [] ~ OutOfOrder(pkt) /\ pkt.fragmented -> ProcessFragment(pkt)
         [] OTHER -> /\ Deliver(pkt.seq, Units(pkt.msg, 0, pkt.length))
                     /\ UNCHANGED <<fragmentSequence, fragmentLength, fragmentBuffer>>
    /\ UNCHANGED <<remoteType, senderVars, transmitted>>

\* A datagram arrives by UDP, and may arrive again.
NET_GetPacket(pkt) ==
    /\ pkt \in net
    /\ net' \in {net, net \ {pkt}}
    /\ Netchan_Process(pkt)
    /\ UNCHANGED <<loop, overrun>>

\* Mutant: a reader that fell behind reads on where it was.
LoopGetStale == loop.get

\* The oldest datagram of the ring that was not overwritten.
LoopGet == IF loop.send - loop.get > MaxLoopback THEN loop.send - MaxLoopback ELSE loop.get

NET_GetLoopPacket ==
    /\ LoopGet < loop.send
    /\ loop' = [loop EXCEPT !.get = LoopGet + 1]
    /\ overrun' = (overrun \/ LoopGet # loop.get)
    /\ Netchan_Process(loop.msgs[LoopGet % MaxLoopback])
    /\ UNCHANGED net

Lose(pkt) ==
    /\ pkt \in net
    /\ net' = net \ {pkt}
    /\ UNCHANGED <<remoteType, senderVars, receiverVars, loop, overrun, transmitted, processed>>

-----------------------------------------------------------------------------
\* Netchan_Setup, at both ends.
Init ==
    /\ remoteType \in {"NA_IP", "NA_LOOPBACK"}
    /\ outgoingSequence = 1 /\ unsentFragments = FALSE
    /\ unsentFragmentStart = 0 /\ unsentLength = 0
    /\ incomingSequence = 0 /\ fragmentSequence = 0 /\ fragmentLength = 0
    /\ fragmentBuffer = [j \in 0 .. FragmentBufferSize - 1 |-> [msg |-> 0, pos |-> 0]]
    /\ net = {}
    /\ loop = [get |-> 0, send |-> 0, msgs |-> [i \in 0 .. MaxLoopback - 1 |-> NoPacket]]
    /\ overrun = FALSE
    /\ transmitted = <<>> /\ processed = <<>>

Next ==
    \/ \E length \in Lengths : Netchan_Transmit(length)
    \/ Netchan_TransmitNextFragment
    \/ \E pkt \in net : NET_GetPacket(pkt)
    \/ NET_GetLoopPacket
    \/ \E pkt \in net : Lose(pkt)

Spec == Init /\ [][Next]_vars

-----------------------------------------------------------------------------
(* Properties *)

\* The fields have their ranges; above all, what is assembled fits fragmentBuffer
\* (the guard before Com_Memcpy in Netchan_Process).
TypeOK ==
    /\ remoteType \in {"NA_IP", "NA_LOOPBACK"}
    /\ outgoingSequence \in Nat /\ unsentFragments \in BOOLEAN
    /\ unsentFragmentStart \in Nat /\ unsentLength \in Nat
    /\ incomingSequence \in Nat /\ fragmentSequence \in Nat
    /\ fragmentLength \in 0 .. FragmentBufferSize
    /\ fragmentBuffer \in [0 .. FragmentBufferSize - 1 -> Unit]
    /\ net \subseteq Packet
    /\ loop \in [get : Nat, send : Nat, msgs : [0 .. MaxLoopback - 1 -> Packet]]
    /\ overrun \in BOOLEAN
    /\ transmitted \in Seq(Nat)

\* What Netchan_Process returns qtrue for is a message that was transmitted, from its
\* first byte to its last, never a mixture of two and never a part, although the
\* fragments of several messages may arrive in any order and more than once.
WholeMessages ==
    \A i \in DOMAIN processed : \E m \in DOMAIN transmitted :
        processed[i] = Units(m, 0, transmitted[m])

\* The sequence number under assembly tells the messages apart: what is assembled so
\* far is the beginning of the message with that number, and no fragment of a message
\* that is too large was copied past the end of fragmentBuffer.
AssemblyIsPrefix ==
    /\ fragmentLength <= FragmentBufferSize
    /\ \A j \in 0 .. fragmentLength - 1 :
          fragmentBuffer[j] = [msg |-> fragmentSequence, pos |-> j]

\* A message is processed at most once, and none after a later one: message m has
\* sequence number m, and Netchan_Process lets sequence numbers only grow.
OnceInOrder ==
    /\ incomingSequence < outgoingSequence
    /\ \A i, k \in DOMAIN processed :
          i < k => processed[i][0].msg < processed[k][0].msg

\* What Netchan_Process hands on is what Netchan_Transmit was given: whole messages, each
\* once and in the order of transmission, however the network mixes their fragments.
ProcessedAsTransmitted == WholeMessages /\ OnceInOrder

\* On loopback nothing is lost as long as the reader is never more than
\* MAX_LOOPBACK datagrams behind: when it has caught up, every message that fits
\* the receiver's buffers was processed, those of an exact multiple of
\* FRAGMENT_SIZE too (NET_GetLoopPacket, Netchan_TransmitNextFragment).
LoopbackLosesNothing ==
    /\ remoteType = "NA_LOOPBACK" /\ ~ overrun /\ LoopGet = loop.send
    /\ ~ unsentFragments
    /\ \A m \in DOMAIN transmitted : transmitted[m] <= FragmentBufferSize /\ transmitted[m] <= MaxSize
    => Len(processed) = Len(transmitted)

\* A reader that was overrun never reads a slot that was written again meanwhile: it
\* reads the datagrams in the order of their transmission (NET_GetLoopPacket).
LoopbackInOrder ==
    [][loop'.get # loop.get =>
          \A i \in loop'.get .. loop.send - 1 :
              LET next == loop.msgs[i % MaxLoopback]
                  this == loop.msgs[(loop'.get - 1) % MaxLoopback]
              IN  <<this.seq, this.start>> # <<next.seq, next.start>> /\ this.seq <= next.seq]_vars
=============================================================================
