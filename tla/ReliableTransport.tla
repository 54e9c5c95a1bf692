-------------------------- MODULE ReliableTransport --------------------------
(***************************************************************************)
(* The reliable stream of the x-protocol: net_reliabletransport.c.         *)
(*                                                                         *)
(* Two endpoints run the same code (the game client, and the server, whose *)
(* code is not in this repository) and exchange datagrams through a        *)
(* network that loses, duplicates, delays and reorders.  An endpoint cuts  *)
(* what it is given into numbered fragments, transmits the fragments of    *)
(* its window in rotation, and repeats them until the peer acknowledges    *)
(* them: cumulatively ("everything below n was consumed") and selectively  *)
(* ("n + k is already here").                                              *)
(*                                                                         *)
(* A fragment's payload is abstracted to its identity: the n-th fragment   *)
(* an endpoint submits carries payload n.  The slot arrays keep payload    *)
(* and number apart, so a slot reused too early, or a packet read at the   *)
(* wrong offset, shows.  Sizes are numbers of fragments.  Time only decides *)
(* when ReliableMessagesFrame transmits: a frame in which the rate, or an  *)
(* acknowledgement that has become due (nextacktime < time), allows n      *)
(* transmissions is n consecutive Frame steps here, and a frame that       *)
(* allows none is no step.                                                 *)
(***************************************************************************)
EXTENDS Integers, Sequences, FiniteSets

CONSTANTS
    TxWindow,           \* txwindow.windowsize of each end (4 in the client)
    RxWindow,           \* rxwindow.windowsize of each end (20 in the client)
    DefaultBufferSize,  \* DEFAULT_BUFFER_SIZE (32)
    Drains,             \* the ends whose application reads all there is
    MaxFragments,       \* bound: fragments submitted by each end
    MaxMessage,         \* bound: fragments of one ReliableMessageSend
    MaxInFlight         \* bound: datagrams in the network

Endpoint == {"client", "server"}

Peer == [p \in Endpoint |-> IF p = "client" THEN "server" ELSE "client"]

ASSUME WindowAssumption ==
    /\ TxWindow \in [Endpoint -> Nat \ {0}]
    /\ RxWindow \in [Endpoint -> Nat \ {0}]
    /\ DefaultBufferSize \in Nat
    /\ \A p \in Endpoint : /\ TxWindow[p] <= RxWindow[Peer[p]]
                           /\ RxWindow[p] <= DefaultBufferSize

ASSUME BoundAssumption ==
    /\ Drains \subseteq Endpoint
    /\ MaxFragments \in [Endpoint -> Nat]
    /\ MaxMessage \in Nat /\ MaxInFlight \in Nat

VARIABLES
    txSequence,     \* txwindow.sequence: number of the next fragment
    txAcknowledge,  \* txwindow.acknowledge: lowest fragment not acknowledged
    txFrame,        \* txwindow.frame: next fragment to transmit
    txBufferlen,    \* txwindow.bufferlen, which grows and shrinks
    txFragments,    \* txwindow.fragments, indexed modulo txBufferlen
    rxSequence,     \* rxwindow.sequence: next fragment to hand over
    rxFragments,    \* rxwindow.fragments, indexed modulo DefaultBufferSize
    selackoffset,   \* rxwindow.selackoffset
    net,            \* datagrams in flight
    delivered       \* payloads handed to the application, in order

txVars == <<txSequence, txAcknowledge, txFrame, txBufferlen, txFragments>>
rxVars == <<rxSequence, rxFragments, selackoffset>>
vars == <<txVars, rxVars, net, delivered>>

-----------------------------------------------------------------------------
(* Fragments and packets *)

None == -1              \* no sequence number: an ACK packet, an unused slot
Garbled == -2           \* bytes read at the wrong offset of a packet

Fragment == [ack : Int, data : Int]
Unused == [ack |-> None, data |-> None]

Packet == [to : Endpoint, seq : Int, ack : Int, sack : SUBSET Int,
           doubled : BOOLEAN, data : Int]

\* Mutant: any used slot counts as the fragment wanted.
HeldAny(p, i) == rxFragments[p][i % DefaultBufferSize].ack # None

\* The slot of fragment i holds fragment i.
Held(p, i) == rxFragments[p][i % DefaultBufferSize].ack = i

\* ReliableMessagesGetAcknowledge: n consecutive fragments are ready to be handed
\* over, and no more than n.
Ready(p, n) ==
    /\ n <= RxWindow[p]
    /\ \A i \in 0 .. n - 1 : Held(p, rxSequence[p] + i)
ReadyEnds(p, n) == n = RxWindow[p] \/ ~ Held(p, rxSequence[p] + n)

\* ReliableMessageWriteSelectiveAcklist scans the window from selackoffset and
\* writes a range for each run of held fragments, at most three.
Offsets(p) == {i \in selackoffset[p] .. RxWindow[p] - 1 : Held(p, rxSequence[p] + i)}

RunStarts(p) == {i \in Offsets(p) : i - 1 \notin Offsets(p)}

\* The scan stops at i, the end of the third range, if the window goes on.
StopsAt(p, i) ==
    /\ i \in 0 .. RxWindow[p] - 1
    /\ i \notin Offsets(p) /\ i - 1 \in Offsets(p)
    /\ \E a, b, c \in RunStarts(p) :
          /\ a < b /\ b < c /\ c < i
          /\ \A d \in RunStarts(p) : d < i => d \in {a, b, c}

Stops(p) == \E i \in 0 .. RxWindow[p] - 1 : StopsAt(p, i)

ScanEnd(p) ==
    IF Stops(p) THEN CHOOSE i \in 0 .. RxWindow[p] - 1 : StopsAt(p, i) ELSE RxWindow[p]

\* A scan that stopped leaves inrange set, so the last length is written twice
\* and every later field of the packet is read two bytes early: the reader takes
\* the window size for the fragment size and the size for payload.
SelectiveAcklist(p) == {i \in Offsets(p) : i < ScanEnd(p)}

NextSelackoffset(p) == IF Stops(p) THEN ScanEnd(p) ELSE 1

\* The packet p writes, with fragment seq (None: only an acknowledgement).
PacketOf(p, seq) ==
    [to |-> Peer[p], seq |-> seq, ack |-> rxSequence[p],
     sack |-> SelectiveAcklist(p), doubled |-> Stops(p),
     data |-> IF seq = None THEN None
              ELSE IF Stops(p) THEN Garbled
              ELSE txFragments[p][seq % txBufferlen[p]].data]

\* NET_SendPacket: the datagram travels; a network at its capacity loses one.
NetSend(pkt) ==
    \/ Cardinality(net) < MaxInFlight /\ net' = net \cup {pkt}
    \/ Cardinality(net) >= MaxInFlight /\ \E old \in net : net' = (net \ {old}) \cup {pkt}

-----------------------------------------------------------------------------
(* The send buffer *)

\* Mutant: the slots in use are copied to the front of the new buffer.
MovedToFront(p, frags, len, ack, n) ==
    [s \in 0 .. n - 1 |->
        IF s < txSequence[p] - ack THEN frags[(ack + s) % len] ELSE Unused]

\* The slots after ReliableMessageChangeSendBufferSize to n: those in use move.
Moved(p, frags, len, ack, n) ==
    [s \in 0 .. n - 1 |->
        IF \E i \in ack .. txSequence[p] - 1 : i % n = s
        THEN frags[(CHOOSE i \in ack .. txSequence[p] - 1 : i % n = s) % len]
        ELSE Unused]

\* What ChangeSendBufferSize(want) makes of the length of the buffer; memory is
\* FALSE when malloc fails.
NewBufferlen(p, ack, want, memory) ==
    LET n == IF want <= DefaultBufferSize THEN DefaultBufferSize ELSE want
    IN  IF txSequence[p] - ack >= n \/ ~ memory THEN txBufferlen[p] ELSE n

\* The slots after n more fragments were queued from txwindow.sequence on.
Filled(p, frags, len, n) ==
    [s \in 0 .. len - 1 |->
        IF \E i \in txSequence[p] .. txSequence[p] + n - 1 : i % len = s
        THEN [ack |-> None,
              data |-> CHOOSE i \in txSequence[p] .. txSequence[p] + n - 1 : i % len = s]
        ELSE frags[s]]

\* ReliableMessageSend of k fragments; exact when the last one is full, in which
\* case the code asks for one fragment more than it needs.  When the buffer can
\* not grow, the part that fits is queued.
ReliableMessageSend(p, k, exact, memory) ==
    LET used == txSequence[p] - txAcknowledge[p]
        need == IF exact THEN k + 1 ELSE k
        grow == txBufferlen[p] - used < need
        len  == IF grow THEN NewBufferlen(p, txAcknowledge[p],
                                 (need + used) + ((need + used) \div 2), memory)
                        ELSE txBufferlen[p]
        n    == IF k <= len - used THEN k ELSE len - used
        frags == IF len = txBufferlen[p] THEN txFragments[p]
                 ELSE Moved(p, txFragments[p], txBufferlen[p], txAcknowledge[p], len)
    IN  /\ txSequence[p] + k <= MaxFragments[p]
        /\ txBufferlen' = [txBufferlen EXCEPT ![p] = len]
        /\ txFragments' = [txFragments EXCEPT ![p] = Filled(p, frags, len, n)]
        /\ txSequence' = [txSequence EXCEPT ![p] = @ + n]
        /\ UNCHANGED <<txAcknowledge, txFrame, rxVars, net, delivered>>

-----------------------------------------------------------------------------
(* Transmission *)

\* ReliableMessagesTransmitNextFragment when nothing waits for acknowledgement:
\* an ACK packet, if one is due, and nothing otherwise.
TransmitAck(p) ==
    /\ txAcknowledge[p] = txSequence[p]
    /\ NetSend(PacketOf(p, None))
    /\ selackoffset' = [selackoffset EXCEPT ![p] = NextSelackoffset(p)]
    /\ UNCHANGED <<txVars, rxSequence, rxFragments, delivered>>

\* The fragment whose turn it is.
FrameOf(p) == IF txFrame[p] < txAcknowledge[p] THEN txAcknowledge[p] ELSE txFrame[p]

\* Mutant: the window is taken to be one fragment wider.
NextFrameWide(p) ==
    IF FrameOf(p) + 1 > txAcknowledge[p] + TxWindow[p]
    THEN txAcknowledge[p] ELSE FrameOf(p) + 1

\* Mutant: the turn stays with the last fragment of the window.
NextFrameStays(p) ==
    IF FrameOf(p) + 1 >= txAcknowledge[p] + TxWindow[p]
    THEN FrameOf(p) ELSE FrameOf(p) + 1

NextFrame(p) ==
    IF FrameOf(p) + 1 >= txAcknowledge[p] + TxWindow[p]
    THEN txAcknowledge[p] ELSE FrameOf(p) + 1

\* The turn's fragment was submitted and not selectively acknowledged.
ToSend(p) ==
    /\ FrameOf(p) < txSequence[p]
    /\ txFragments[p][FrameOf(p) % txBufferlen[p]].ack # FrameOf(p)

\* ReliableMessagesTransmitNextFragment with fragments waiting.  A turn whose
\* fragment needs no transmission sends nothing, no acknowledgement either.
TransmitNextFragment(p) ==
    /\ txAcknowledge[p] # txSequence[p]
    /\ txFrame' = [txFrame EXCEPT ![p] = NextFrame(p)]
    /\ IF ToSend(p)
       THEN /\ NetSend(PacketOf(p, FrameOf(p)))
            /\ selackoffset' = [selackoffset EXCEPT ![p] = NextSelackoffset(p)]
       ELSE UNCHANGED <<net, selackoffset>>
    /\ UNCHANGED <<txSequence, txAcknowledge, txBufferlen, txFragments,
                   rxSequence, rxFragments, delivered>>

\* ReliableMessagesFrame, one transmission of it.
ReliableMessagesFrame(p) == TransmitAck(p) \/ TransmitNextFragment(p)

-----------------------------------------------------------------------------
(* Reception *)

\* The guards of ReliableMessagesReceiveNextFragment that come before the
\* selective acknowledgements are read.
TooOldNever(p, pkt) == FALSE     \* mutant: the guard is missing
InReceiveWindow(p, pkt) == pkt.seq < rxSequence[p] + RxWindow[p]
TooOld(p, pkt) == pkt.ack < txAcknowledge[p]
Illegible(p, pkt) == pkt.ack > txAcknowledge[p] + TxWindow[p]
Invalid(p, pkt) == pkt.ack > txSequence[p]

SackInWindow(p, pkt) == \A k \in pkt.sack : k < TxWindow[p]

\* The ranges that end inside the window are applied, up to the first that does not.
Applied(p, pkt) ==
    {k \in pkt.sack : \E e \in k + 1 .. TxWindow[p] : e \notin pkt.sack}

Marked(p, pkt) ==
    [s \in 0 .. txBufferlen[p] - 1 |->
        IF \E k \in Applied(p, pkt) : (pkt.ack + k) % txBufferlen[p] = s
        THEN [txFragments[p][s] EXCEPT !.ack =
                pkt.ack + (CHOOSE k \in Applied(p, pkt) : (pkt.ack + k) % txBufferlen[p] = s)]
        ELSE txFragments[p][s]]

\* The cumulative acknowledgement, which may shrink the buffer back.
Acknowledge(p, pkt, memory) ==
    LET shrink == /\ txAcknowledge[p] < pkt.ack
                  /\ txSequence[p] - pkt.ack < DefaultBufferSize
                  /\ txBufferlen[p] > DefaultBufferSize
        len == IF shrink THEN NewBufferlen(p, pkt.ack, DefaultBufferSize, memory)
                         ELSE txBufferlen[p]
    IN  /\ txAcknowledge' = [txAcknowledge EXCEPT ![p] = pkt.ack]
        /\ txBufferlen' = [txBufferlen EXCEPT ![p] = len]
        /\ txFragments' = [txFragments EXCEPT ![p] =
               IF len = txBufferlen[p] THEN Marked(p, pkt)
               ELSE Moved(p, Marked(p, pkt), txBufferlen[p], pkt.ack, len)]

\* Mutant: a fragment that was handed over before is stored again.
StoreOld(p, pkt) ==
    rxFragments' =
        IF pkt.seq = None THEN rxFragments
        ELSE [rxFragments EXCEPT ![p][pkt.seq % DefaultBufferSize] =
                  [ack |-> pkt.seq, data |-> pkt.data]]

\* The fragment, unless there is none or it was handed over before.
Store(p, pkt) ==
    rxFragments' =
        IF pkt.seq = None \/ pkt.seq < rxSequence[p] THEN rxFragments
        ELSE [rxFragments EXCEPT ![p][pkt.seq % DefaultBufferSize] =
                  [ack |-> pkt.seq, data |-> pkt.data]]

\* ReliableMessagesReceiveNextFragment.  A packet that stays in net is delivered
\* again later.  The packet's flags only bring the next acknowledgement forward.
ReliableMessagesReceiveNextFragment(p, pkt, memory) ==
    /\ pkt \in net /\ pkt.to = p
    /\ \/ net' = net
       \/ net' = net \ {pkt}
    /\ IF ~ InReceiveWindow(p, pkt) \/ Illegible(p, pkt) \/ TooOld(p, pkt) \/ Invalid(p, pkt)
       THEN UNCHANGED <<txAcknowledge, txBufferlen, txFragments, rxFragments>>
       ELSE IF ~ SackInWindow(p, pkt)
       THEN /\ txFragments' = [txFragments EXCEPT ![p] = Marked(p, pkt)]
            /\ UNCHANGED <<txAcknowledge, txBufferlen, rxFragments>>
       ELSE Acknowledge(p, pkt, memory) /\ Store(p, pkt)
    /\ UNCHANGED <<txSequence, txFrame, rxSequence, selackoffset, delivered>>

\* ReliableMessageReceive of n whole fragments, and ReliableMessageReceiveSingleFragment
\* for n = 1.  An application that drains the stream takes all there is.
ReliableMessageReceive(p, n) ==
    /\ Ready(p, n)
    /\ p \in Drains => ReadyEnds(p, n)
    /\ delivered' = [delivered EXCEPT ![p] = @ \o
           [i \in 1 .. n |->
               rxFragments[p][(rxSequence[p] + i - 1) % DefaultBufferSize].data]]
    /\ rxSequence' = [rxSequence EXCEPT ![p] = @ + n]
    /\ selackoffset' = [selackoffset EXCEPT ![p] = IF n > 1 THEN 1 ELSE @]
    /\ UNCHANGED <<txVars, rxFragments, net>>

\* A datagram is lost on its way.
Lose(pkt) ==
    /\ pkt \in net
    /\ net' = net \ {pkt}
    /\ UNCHANGED <<txVars, rxVars, delivered>>

-----------------------------------------------------------------------------
\* ReliableMessageSetup, at both ends.
Init ==
    /\ txSequence = [p \in Endpoint |-> 0]
    /\ txAcknowledge = [p \in Endpoint |-> 0]
    /\ txFrame = [p \in Endpoint |-> 0]
    /\ txBufferlen = [p \in Endpoint |-> DefaultBufferSize]
    /\ txFragments = [p \in Endpoint |-> [s \in 0 .. DefaultBufferSize - 1 |-> Unused]]
    /\ rxSequence = [p \in Endpoint |-> 0]
    /\ rxFragments = [p \in Endpoint |-> [s \in 0 .. DefaultBufferSize - 1 |-> Unused]]
    /\ selackoffset = [p \in Endpoint |-> 0]
    /\ net = {}
    /\ delivered = [p \in Endpoint |-> <<>>]

Next ==
    \/ \E p \in Endpoint, k \in 1 .. MaxMessage, exact, memory \in BOOLEAN :
          ReliableMessageSend(p, k, exact, memory)
    \/ \E p \in Endpoint : ReliableMessagesFrame(p)
    \/ \E pkt \in net, memory \in BOOLEAN :
          ReliableMessagesReceiveNextFragment(pkt.to, pkt, memory)
    \/ \E p \in Endpoint : \E n \in 1 .. RxWindow[p] : ReliableMessageReceive(p, n)
    \/ \E pkt \in net : Lose(pkt)

Spec == Init /\ [][Next]_vars

\* A datagram with this sequence number arrives at p, for the last time.
Arrives(p, seq) ==
    \E pkt \in net, memory \in BOOLEAN :
        /\ pkt.to = p /\ pkt.seq = seq
        /\ ReliableMessagesReceiveNextFragment(p, pkt, memory)
        /\ pkt \notin net'

\* CL_Frame runs ReliableMessagesFrame and reads the stream in every frame, the
\* rate counter and the acknowledgement timer grow with time, and the network
\* loses neither every repetition of a fragment nor every acknowledgement.
Fairness ==
    \A p \in Endpoint :
        /\ WF_vars(TransmitAck(p))
        /\ WF_vars(TransmitNextFragment(p))
        /\ WF_vars(\E n \in 1 .. RxWindow[p] : ReliableMessageReceive(p, n))
        /\ \A seq \in {None} \cup (0 .. MaxFragments[Peer[p]] - 1) : SF_vars(Arrives(p, seq))

FairSpec == Spec /\ Fairness

-----------------------------------------------------------------------------
(* Properties *)

\* The windows have their types; above all, the slots of the send buffer are those of
\* its length, through every change of it (ReliableMessageChangeSendBufferSize).
TypeOK ==
    /\ txSequence \in [Endpoint -> Nat]
    /\ txAcknowledge \in [Endpoint -> Nat]
    /\ txFrame \in [Endpoint -> Nat]
    /\ txBufferlen \in [Endpoint -> Nat]
    /\ txFragments = [p \in Endpoint |-> txFragments[p]]
    /\ \A p \in Endpoint : /\ txBufferlen[p] >= DefaultBufferSize
                           /\ txFragments[p] \in [0 .. txBufferlen[p] - 1 -> Fragment]
    /\ rxSequence \in [Endpoint -> Nat]
    /\ rxFragments \in [Endpoint -> [0 .. DefaultBufferSize - 1 -> Fragment]]
    /\ selackoffset \in [Endpoint -> Nat]
    /\ net \subseteq Packet
    /\ delivered \in [Endpoint -> Seq(Int)]

\* What the application reads is what the other end's application submitted: from
\* the first fragment on, each once, in order and intact (ReliableMessageReceive),
\* whatever the network does.
InOrderDelivery ==
    \A p \in Endpoint :
        /\ Len(delivered[p]) <= txSequence[Peer[p]]
        /\ \A i \in 1 .. Len(delivered[p]) : delivered[p][i] = i - 1

\* A fragment that is still to be acknowledged sits in its own slot of the send
\* buffer, with its own payload, through growing, shrinking and slot reuse
\* (ReliableMessageSend, ReliableMessageChangeSendBufferSize).
SendBufferIntact ==
    \A p \in Endpoint :
        /\ txSequence[p] - txAcknowledge[p] <= txBufferlen[p]
        /\ \A i \in txAcknowledge[p] .. txSequence[p] - 1 :
              txFragments[p][i % txBufferlen[p]].data = i

\* A fragment the sender stops transmitting, because it was acknowledged
\* cumulatively or selectively, has reached the other end and is not forgotten
\* there (ReliableMessagesReceiveNextFragment).
AcknowledgedIsHeld ==
    \A p \in Endpoint :
        /\ txAcknowledge[p] <= rxSequence[Peer[p]]
        /\ \A i \in txAcknowledge[p] .. txSequence[p] - 1 :
              txFragments[p][i % txBufferlen[p]].ack = i =>
                  i < rxSequence[Peer[p]] \/ Held(Peer[p], i)

\* No packet this code writes is refused by this code as out of window, illegible
\* or invalid, however late it arrives: only "too old" can happen
\* (the guards of ReliableMessagesReceiveNextFragment).
NoPacketMisjudged ==
    \A pkt \in net :
        /\ InReceiveWindow(pkt.to, pkt)
        /\ ~ Illegible(pkt.to, pkt)
        /\ ~ Invalid(pkt.to, pkt)
        /\ SackInWindow(pkt.to, pkt)

\* The stream this module implements: fragments are handed over in order and once,
\* and txwindow.acknowledge runs behind what the other end has handed over.
Stream == INSTANCE ReliableStream WITH
    End <- Endpoint, Other <- Peer, MaxSubmit <- MaxMessage,
    submitted <- txSequence, confirmed <- txAcknowledge

ImplementsStream == Stream!Spec

\* What was submitted is in the end handed over at the other end and known to be
\* so here: the two ends never fall silent waiting for each other
\* (ReliableMessagesTransmitNextFragment).
EverythingArrives ==
    \A p \in Endpoint : \A n \in 1 .. MaxFragments[p] :
        txSequence[p] >= n ~> Len(delivered[Peer[p]]) >= n /\ txAcknowledge[p] >= n
=============================================================================
