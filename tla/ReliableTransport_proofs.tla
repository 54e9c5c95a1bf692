---------------------- MODULE ReliableTransport_proofs ----------------------
(***************************************************************************)
(* Theorems about ReliableTransport, for every size of window and buffer   *)
(* the code may be compiled with.                                          *)
(***************************************************************************)
EXTENDS ReliableTransport, TLAPS

\* Two numbers less than n apart have different slots in a buffer of n.
LEMMA ModDistinct ==
    ASSUME NEW n \in Nat \ {0}, NEW a \in Nat, NEW b \in Nat, a < b, b < a + n
    PROVE  a % n # b % n
<1> DEFINE qa == a \div n
           qb == b \div n
<1>1. a = n * qa + (a % n) /\ b = n * qb + (b % n)
  OBVIOUS
<1>2. qa \in Int /\ qb \in Int
  OBVIOUS
<1>3. SUFFICES ASSUME a % n = b % n PROVE FALSE
  OBVIOUS
<1>4. b - a = n * (qb - qa)
  <2>1. b - a = n * qb - n * qa
    BY <1>1, <1>3
  <2>2. n * qb - n * qa = n * (qb - qa)
    BY <1>2
  <2> QED BY <2>1, <2>2
<1> HIDE DEF qa, qb
<1>5. CASE qb - qa <= 0
  <2>1. n * (qb - qa) <= 0
    BY <1>2, <1>5
  <2> QED BY <1>4, <2>1
<1>6. CASE qb - qa >= 1
  <2>1. n * (qb - qa) >= n
    BY <1>2, <1>6
  <2> QED BY <1>4, <2>1
<1> QED BY <1>2, <1>5, <1>6

\* A slot number is one of the buffer's.
LEMMA ModRange ==
    ASSUME NEW n \in Nat \ {0}, NEW a \in Nat
    PROVE  a % n \in 0 .. n - 1
OBVIOUS

\* Of the numbers in any stretch no longer than the buffer, a slot holds one.
LEMMA SlotUnique ==
    ASSUME NEW n \in Nat \ {0}, NEW lo \in Nat, NEW a \in Nat, NEW b \in Nat,
           lo <= a, a < lo + n, lo <= b, b < lo + n, a % n = b % n
    PROVE  a = b
<1>1. CASE a < b
  <2>1. b < a + n
    OBVIOUS
  <2> QED BY <1>1, <2>1, ModDistinct, Zenon
<1>2. CASE b < a
  <2>1. a < b + n
    OBVIOUS
  <2> QED BY <1>2, <2>1, ModDistinct, Zenon
<1> QED BY <1>1, <1>2

-----------------------------------------------------------------------------
(* Facts about ends *)

\* The two ends are each other's peers.
LEMMA PeerFacts ==
    ASSUME NEW p \in Endpoint
    PROVE  /\ Peer[p] \in Endpoint
           /\ Peer[p] # p
           /\ Peer[Peer[p]] = p
           /\ \A r \in Endpoint : r = p \/ r = Peer[p]
BY DEF Endpoint, Peer

\* Windows are not empty, and fit the buffers.
LEMMA ConstantFacts ==
    /\ DefaultBufferSize \in Nat \ {0}
    /\ \A p \in Endpoint : /\ TxWindow[p] \in Nat \ {0}
                           /\ RxWindow[p] \in Nat \ {0}
                           /\ TxWindow[p] <= RxWindow[Peer[p]]
                           /\ RxWindow[p] <= DefaultBufferSize
BY WindowAssumption, PeerFacts DEF Endpoint

-----------------------------------------------------------------------------
(* Type correctness *)

\* The packets an end writes are packets.
LEMMA PacketOfType ==
    ASSUME TypeOK, NEW p \in Endpoint, NEW seq \in Nat \cup {None}
    PROVE  PacketOf(p, seq) \in Packet
<1>1. txBufferlen[p] \in Nat \ {0} /\ rxSequence[p] \in Int
  BY ConstantFacts DEF TypeOK
<1>2. SelectiveAcklist(p) \subseteq Int
  BY ConstantFacts DEF SelectiveAcklist, Offsets, TypeOK
<1>3. seq # None => txFragments[p][seq % txBufferlen[p]].data \in Int
  BY <1>1, ModRange DEF TypeOK, Fragment, None
<1>4. Stops(p) \in BOOLEAN
  BY DEF Stops
<1> QED
  BY <1>1, <1>2, <1>3, <1>4, PeerFacts DEF PacketOf, Packet, None, Garbled

\* The slots of a buffer whose fragments moved are slots.
LEMMA MovedType ==
    ASSUME TypeOK, NEW p \in Endpoint, NEW len \in Nat \ {0}, NEW ack \in Nat,
           NEW n \in Nat \ {0}, NEW frags \in [0 .. len - 1 -> Fragment]
    PROVE  Moved(p, frags, len, ack, n) \in [0 .. n - 1 -> Fragment]
<1>1. Unused \in Fragment
  BY DEF Unused, Fragment, None
<1>2. ASSUME NEW s \in 0 .. n - 1, \E i \in ack .. txSequence[p] - 1 : i % n = s
      PROVE  frags[(CHOOSE i \in ack .. txSequence[p] - 1 : i % n = s) % len] \in Fragment
  <2> DEFINE j == CHOOSE i \in ack .. txSequence[p] - 1 : i % n = s
  <2>1. j \in ack .. txSequence[p] - 1
    BY <1>2
  <2>2. j \in Nat
    BY <2>1 DEF TypeOK
  <2> QED BY <2>2, ModRange
<1> QED BY <1>1, <1>2 DEF Moved

\* The send buffer never gets smaller than DEFAULT_BUFFER_SIZE.
LEMMA NewBufferlenType ==
    ASSUME TypeOK, NEW p \in Endpoint, NEW ack \in Nat, NEW want \in Nat, NEW memory \in BOOLEAN
    PROVE  /\ NewBufferlen(p, ack, want, memory) \in Nat \ {0}
           /\ NewBufferlen(p, ack, want, memory) >= DefaultBufferSize
BY ConstantFacts DEF NewBufferlen, TypeOK

\* Queued fragments go to slots of the buffer.
LEMMA FilledType ==
    ASSUME TypeOK, NEW p \in Endpoint, NEW len \in Nat \ {0}, NEW n \in Int,
           NEW frags \in [0 .. len - 1 -> Fragment]
    PROVE  Filled(p, frags, len, n) \in [0 .. len - 1 -> Fragment]
<1>1. ASSUME NEW s \in 0 .. len - 1,
             \E i \in txSequence[p] .. txSequence[p] + n - 1 : i % len = s
      PROVE  (CHOOSE i \in txSequence[p] .. txSequence[p] + n - 1 : i % len = s) \in Int
  BY <1>1 DEF TypeOK
<1>2. ASSUME NEW d \in Int PROVE [ack |-> None, data |-> d] \in Fragment
  BY DEF Fragment, None
<1> QED BY <1>1, <1>2 DEF Filled

\* Selective acknowledgements go to slots of the buffer.
LEMMA MarkedType ==
    ASSUME TypeOK, NEW p \in Endpoint, NEW pkt \in Packet
    PROVE  Marked(p, pkt) \in [0 .. txBufferlen[p] - 1 -> Fragment]
<1>1. ASSUME NEW s, \E k \in Applied(p, pkt) : (pkt.ack + k) % txBufferlen[p] = s
      PROVE  pkt.ack + (CHOOSE k \in Applied(p, pkt) : (pkt.ack + k) % txBufferlen[p] = s) \in Int
  BY <1>1 DEF Applied, Packet
<1>2. \A s \in 0 .. txBufferlen[p] - 1 : txFragments[p][s] \in Fragment
  BY DEF TypeOK
<1>3. ASSUME NEW f \in Fragment, NEW a \in Int
      PROVE  [f EXCEPT !.ack = a] \in Fragment
  BY DEF Fragment
<1> QED BY <1>1, <1>2, <1>3 DEF Marked
-----------------------------------------------------------------------------
(* The inductive invariant *)

\* The windows are those of the code: four fragments, too few for a receive window
\* with three gaps.
SmallWindows == \A p \in Endpoint : TxWindow[p] <= 4

\* Fragment i has reached p, and has been handed over or is still there.
Has(p, i) == i < rxSequence[p] \/ Held(p, i)

\* The counters of the stream from p to its peer.
CounterInv(p) ==
    /\ txAcknowledge[p] <= rxSequence[Peer[p]]
    /\ rxSequence[Peer[p]] <= txSequence[p]
    /\ rxSequence[Peer[p]] <= txAcknowledge[p] + TxWindow[p]
    /\ txSequence[p] <= txAcknowledge[p] + txBufferlen[p]
    /\ txFrame[p] < txAcknowledge[p] + TxWindow[p]

\* Fragments waiting for acknowledgement are in their slots, and those marked as
\* received are received.
TxSlotInv(p) ==
    \A i \in txAcknowledge[p] .. txSequence[p] - 1 :
        /\ txFragments[p][i % txBufferlen[p]].data = i
        /\ txFragments[p][i % txBufferlen[p]].ack = i => Has(Peer[p], i)

\* f is a fragment its sender p has transmitted.
Transmitted(p, i) ==
    /\ i \in Nat
    /\ i < txSequence[p]
    /\ i < txAcknowledge[p] + TxWindow[p]

\* What the receive buffer holds was transmitted, and sits in its slot.
RxSlotInv(p) ==
    \A s \in 0 .. DefaultBufferSize - 1 :
        rxFragments[p][s].ack # None =>
            /\ Transmitted(Peer[p], rxFragments[p][s].ack)
            /\ rxFragments[p][s].ack % DefaultBufferSize = s
            /\ rxFragments[p][s].data = rxFragments[p][s].ack

\* A packet carries a fragment its sender has transmitted, and acknowledges only
\* what its sender has.
FragmentInv(p, pkt) ==
    pkt.seq # None => Transmitted(Peer[p], pkt.seq) /\ pkt.data = pkt.seq

SackInv(p, pkt) ==
    /\ pkt.ack \in Nat
    /\ pkt.ack <= rxSequence[Peer[p]]
    /\ \A k \in pkt.sack : /\ k \in Nat
                           /\ k < TxWindow[p]
                           /\ pkt.ack + k < txSequence[p]
                           /\ Has(Peer[p], pkt.ack + k)

DeliveredInv(p) ==
    /\ Len(delivered[p]) = rxSequence[p]
    /\ \A i \in 1 .. rxSequence[p] : delivered[p][i] = i - 1

IInv ==
    /\ TypeOK
    /\ \A p \in Endpoint : /\ CounterInv(p)
                           /\ TxSlotInv(p)
                           /\ RxSlotInv(p)
                           /\ DeliveredInv(p)
    /\ \A pkt \in net : FragmentInv(pkt.to, pkt) /\ SackInv(pkt.to, pkt)

-----------------------------------------------------------------------------
(* What the buffer operations keep *)

\* Changing the buffer's size keeps every fragment that is in use.
LEMMA MovedKeeps ==
    ASSUME TypeOK, NEW p \in Endpoint, NEW len \in Nat \ {0}, NEW ack \in Nat,
           NEW n \in Nat \ {0}, NEW frags, txSequence[p] <= ack + n,
           NEW i \in ack .. txSequence[p] - 1
    PROVE  Moved(p, frags, len, ack, n)[i % n] = frags[i % len]
<1> DEFINE j == CHOOSE x \in ack .. txSequence[p] - 1 : x % n = i % n
<1>1. txSequence[p] \in Nat
  BY DEF TypeOK
<1>2. i \in Nat /\ ack <= i /\ i < ack + n
  BY <1>1
<1>3. j \in ack .. txSequence[p] - 1 /\ j % n = i % n
  OBVIOUS
<1>4. j \in Nat /\ ack <= j /\ j < ack + n
  BY <1>1, <1>3
<1>5. j = i
  BY <1>2, <1>3, <1>4, SlotUnique, Zenon
<1>6. i % n \in 0 .. n - 1
  BY <1>2, ModRange
<1>7. \E x \in ack .. txSequence[p] - 1 : x % n = i % n
  OBVIOUS
<1> HIDE DEF j
<1>8. Moved(p, frags, len, ack, n)[i % n] = frags[j % len]
  BY <1>6, <1>7 DEF Moved, j
<1> QED BY <1>5, <1>8

\* Queueing fragments overwrites none that is in use.
LEMMA FilledKeeps ==
    ASSUME TypeOK, NEW p \in Endpoint, NEW len \in Nat \ {0}, NEW n \in Nat, NEW frags,
           txSequence[p] + n <= txAcknowledge[p] + len,
           NEW i \in txAcknowledge[p] .. txSequence[p] - 1
    PROVE  Filled(p, frags, len, n)[i % len] = frags[i % len]
<1>1. txSequence[p] \in Nat /\ txAcknowledge[p] \in Nat
  BY DEF TypeOK
<1>2. i \in Nat /\ i < txSequence[p] /\ txAcknowledge[p] <= i
  BY <1>1
<1>3. ASSUME NEW j \in txSequence[p] .. txSequence[p] + n - 1
      PROVE  j % len # i % len
  <2>1. j \in Nat /\ i < j /\ j < i + len
    BY <1>1, <1>2
  <2> QED BY <1>2, <2>1, ModDistinct, Zenon
<1>4. i % len \in 0 .. len - 1
  BY <1>2, ModRange
<1> QED BY <1>3, <1>4 DEF Filled

\* A queued fragment is in its slot, not yet acknowledged.
LEMMA FilledAdds ==
    ASSUME TypeOK, NEW p \in Endpoint, NEW len \in Nat \ {0}, NEW n \in Nat, NEW frags,
           n <= len,
           NEW i \in txSequence[p] .. txSequence[p] + n - 1
    PROVE  Filled(p, frags, len, n)[i % len] = [ack |-> None, data |-> i]
<1> DEFINE j == CHOOSE x \in txSequence[p] .. txSequence[p] + n - 1 : x % len = i % len
<1>1. txSequence[p] \in Nat
  BY DEF TypeOK
<1>2. i \in Nat /\ txSequence[p] <= i /\ i < txSequence[p] + len
  BY <1>1
<1>3. j \in txSequence[p] .. txSequence[p] + n - 1 /\ j % len = i % len
  OBVIOUS
<1>4. j \in Nat /\ txSequence[p] <= j /\ j < txSequence[p] + len
  BY <1>1, <1>3
<1>5. j = i
  BY <1>1, <1>2, <1>3, <1>4, SlotUnique, Zenon
<1>6. i % len \in 0 .. len - 1
  BY <1>2, ModRange
<1>7. \E x \in txSequence[p] .. txSequence[p] + n - 1 : x % len = i % len
  OBVIOUS
<1> HIDE DEF j
<1>8. Filled(p, frags, len, n)[i % len] = [ack |-> None, data |-> j]
  BY <1>6, <1>7 DEF Filled, j
<1> QED BY <1>5, <1>8

\* The new length has room for all fragments in use.
LEMMA NewBufferlenRoom ==
    ASSUME TypeOK, NEW p \in Endpoint, NEW ack \in Nat, NEW want \in Nat, NEW memory \in BOOLEAN,
           txSequence[p] <= ack + txBufferlen[p]
    PROVE  txSequence[p] <= ack + NewBufferlen(p, ack, want, memory)
BY ConstantFacts DEF NewBufferlen, TypeOK

-----------------------------------------------------------------------------
(* Every step keeps the invariant *)

\* After ReliableMessageSetup at both ends the invariant holds.
LEMMA InitInv == Init => IInv
<1> SUFFICES ASSUME Init PROVE IInv
  OBVIOUS
<1> USE ConstantFacts, PeerFacts DEF Init
<1>1. TypeOK
  <2>1. Unused \in Fragment
    BY DEF Unused, Fragment, None
  <2> QED BY <2>1 DEF TypeOK
<1>2. ASSUME NEW p \in Endpoint
      PROVE  CounterInv(p) /\ TxSlotInv(p) /\ RxSlotInv(p) /\ DeliveredInv(p)
  <2>1. CounterInv(p)
    BY DEF CounterInv
  <2>2. TxSlotInv(p)
    BY DEF TxSlotInv
  <2>3. RxSlotInv(p)
    BY DEF RxSlotInv, Unused
  <2>4. DeliveredInv(p)
    BY DEF DeliveredInv
  <2> QED BY <2>1, <2>2, <2>3, <2>4
<1> QED BY <1>1, <1>2 DEF IInv

\* The invariant's facts about the counters of one end.
LEMMA CounterFacts ==
    ASSUME IInv, NEW p \in Endpoint
    PROVE  /\ txSequence[p] \in Nat /\ txAcknowledge[p] \in Nat /\ txFrame[p] \in Nat
           /\ rxSequence[p] \in Nat /\ rxSequence[Peer[p]] \in Nat
           /\ txBufferlen[p] \in Nat \ {0} /\ txBufferlen[p] >= DefaultBufferSize
           /\ txAcknowledge[p] <= rxSequence[Peer[p]]
           /\ rxSequence[Peer[p]] <= txSequence[p]
           /\ rxSequence[Peer[p]] <= txAcknowledge[p] + TxWindow[p]
           /\ txSequence[p] <= txAcknowledge[p] + txBufferlen[p]
           /\ txFrame[p] < txAcknowledge[p] + TxWindow[p]
           /\ txFragments[p] \in [0 .. txBufferlen[p] - 1 -> Fragment]
<1>1. TypeOK /\ CounterInv(p)
  BY DEF IInv
<1>2. Peer[p] \in Endpoint
  BY PeerFacts
<1>3. /\ txSequence[p] \in Nat /\ txAcknowledge[p] \in Nat /\ txFrame[p] \in Nat
      /\ rxSequence[p] \in Nat /\ rxSequence[Peer[p]] \in Nat /\ txBufferlen[p] \in Nat
  BY <1>1, <1>2 DEF TypeOK
<1>4. txBufferlen[p] >= DefaultBufferSize /\ txFragments[p] \in [0 .. txBufferlen[p] - 1 -> Fragment]
  BY <1>1 DEF TypeOK
<1>5. txBufferlen[p] # 0
  BY <1>3, <1>4, ConstantFacts
<1> QED BY <1>1, <1>3, <1>4, <1>5 DEF CounterInv

\* The send buffer after n fragments were queued in it, at its length len.
SendOutcome(p, k, len, n, frags) ==
    /\ len \in Nat \ {0} /\ len >= DefaultBufferSize
    /\ n \in Nat /\ n <= k /\ txSequence[p] + n <= txAcknowledge[p] + len
    /\ frags \in [0 .. len - 1 -> Fragment]
    /\ txBufferlen' = [txBufferlen EXCEPT ![p] = len]
    /\ txFragments' = [txFragments EXCEPT ![p] = frags]
    /\ txSequence' = [txSequence EXCEPT ![p] = @ + n]
    /\ \A i \in txAcknowledge[p] .. txSequence[p] - 1 :
          frags[i % len] = txFragments[p][i % txBufferlen[p]]
    /\ \A i \in txSequence[p] .. txSequence[p] + n - 1 :
          frags[i % len] = [ack |-> None, data |-> i]

\* ReliableMessageSend queues behind what is in use, in a buffer that has room.
LEMMA SendSlots ==
    ASSUME IInv, NEW p \in Endpoint, NEW k \in 1 .. MaxMessage,
           NEW exact \in BOOLEAN, NEW memory \in BOOLEAN,
           ReliableMessageSend(p, k, exact, memory)
    PROVE  \E len, n, frags : SendOutcome(p, k, len, n, frags)
<1> DEFINE used == txSequence[p] - txAcknowledge[p]
           need == IF exact THEN k + 1 ELSE k
           grow == txBufferlen[p] - used < need
           want == (need + used) + ((need + used) \div 2)
           len  == IF grow THEN NewBufferlen(p, txAcknowledge[p], want, memory)
                           ELSE txBufferlen[p]
           n    == IF k <= len - used THEN k ELSE len - used
           frags == IF len = txBufferlen[p] THEN txFragments[p]
                    ELSE Moved(p, txFragments[p], txBufferlen[p], txAcknowledge[p], len)
<1>1. TypeOK /\ CounterInv(p) /\ TxSlotInv(p)
  BY DEF IInv
<1>2. /\ txSequence[p] \in Nat /\ txAcknowledge[p] \in Nat /\ txBufferlen[p] \in Nat \ {0}
      /\ txAcknowledge[p] <= txSequence[p] /\ txSequence[p] <= txAcknowledge[p] + txBufferlen[p]
      /\ txBufferlen[p] >= DefaultBufferSize
      /\ txFragments[p] \in [0 .. txBufferlen[p] - 1 -> Fragment]
  <2>1. rxSequence[Peer[p]] \in Nat /\ txAcknowledge[p] <= rxSequence[Peer[p]]
        /\ rxSequence[Peer[p]] <= txSequence[p]
    BY CounterFacts
  <2> QED BY <2>1, CounterFacts
<1>3. used \in Nat /\ need \in Nat /\ k \in Nat
  BY <1>2, BoundAssumption
<1>4. want \in Nat
  BY <1>3
<1>5. /\ txBufferlen' = [txBufferlen EXCEPT ![p] = len]
      /\ txFragments' = [txFragments EXCEPT ![p] = Filled(p, frags, len, n)]
      /\ txSequence' = [txSequence EXCEPT ![p] = @ + n]
      /\ UNCHANGED <<txAcknowledge, txFrame, rxVars, net, delivered>>
  BY DEF ReliableMessageSend
<1>6. /\ len \in Nat \ {0} /\ len >= DefaultBufferSize
      /\ txSequence[p] <= txAcknowledge[p] + len
  <2>1. CASE grow
    BY <1>1, <1>2, <1>4, <2>1, NewBufferlenType, NewBufferlenRoom
  <2>2. CASE ~ grow
    BY <1>2, <2>2
  <2> QED BY <2>1, <2>2
<1> HIDE DEF need, grow, want, len
<1>7. n \in Nat /\ n <= k /\ n <= len /\ txSequence[p] + n <= txAcknowledge[p] + len
  <2>1. n \in Nat /\ n <= k /\ n <= len - used /\ used \in Nat /\ used <= len
    BY <1>2, <1>3, <1>6
  <2> HIDE DEF n
  <2> QED BY <1>2, <1>3, <1>6, <2>1
<1>8. frags \in [0 .. len - 1 -> Fragment]
  BY <1>1, <1>2, <1>6, MovedType
<1>9. ASSUME NEW i \in txAcknowledge[p] .. txSequence[p] - 1
      PROVE  frags[i % len] = txFragments[p][i % txBufferlen[p]]
  <2>1. CASE len = txBufferlen[p]
    BY <2>1
  <2>2. CASE len # txBufferlen[p]
    <3>1. Moved(p, txFragments[p], txBufferlen[p], txAcknowledge[p], len)[i % len]
              = txFragments[p][i % txBufferlen[p]]
      <4>1. TypeOK /\ txBufferlen[p] \in Nat \ {0} /\ txAcknowledge[p] \in Nat
            /\ len \in Nat \ {0} /\ txSequence[p] <= txAcknowledge[p] + len
        BY <1>1, <1>2, <1>6
      <4> HIDE DEF frags
      <4> QED BY <4>1, MovedKeeps
    <3> QED BY <2>2, <3>1
  <2> QED BY <2>1, <2>2
<1> HIDE DEF used, n, frags
<1>10. Filled(p, frags, len, n) \in [0 .. len - 1 -> Fragment]
  BY <1>1, <1>6, <1>7, <1>8, FilledType
<1>11. ASSUME NEW i \in txAcknowledge[p] .. txSequence[p] - 1
       PROVE  Filled(p, frags, len, n)[i % len] = txFragments[p][i % txBufferlen[p]]
  BY <1>1, <1>6, <1>7, <1>9, FilledKeeps
<1>12. ASSUME NEW i \in txSequence[p] .. txSequence[p] + n - 1
       PROVE  Filled(p, frags, len, n)[i % len] = [ack |-> None, data |-> i]
  <2>1. TypeOK /\ len \in Nat \ {0} /\ n \in Nat /\ n <= len
    BY <1>1, <1>6, <1>7
  <2> DEFINE rec == [ack |-> None, data |-> i]
  <2> HIDE DEF rec
  <2>2. Filled(p, frags, len, n)[i % len] = rec
    BY <2>1, FilledAdds DEF rec
  <2> QED BY <2>2 DEF rec
<1>13. SendOutcome(p, k, len, n, Filled(p, frags, len, n))
  BY <1>5, <1>6, <1>7, <1>10, <1>11, <1>12 DEF SendOutcome
<1> QED BY <1>13

\* ReliableMessageSend keeps the invariant, whether the buffer can grow or not.
LEMMA SendInv ==
    ASSUME IInv, NEW p \in Endpoint, NEW k \in 1 .. MaxMessage,
           NEW exact \in BOOLEAN, NEW memory \in BOOLEAN,
           ReliableMessageSend(p, k, exact, memory)
    PROVE  IInv'
<1>1. TypeOK /\ CounterInv(p) /\ TxSlotInv(p)
  BY DEF IInv
<1>2. txSequence[p] \in Nat /\ txAcknowledge[p] \in Nat
  BY CounterFacts
<1>3. PICK len, n, frags : SendOutcome(p, k, len, n, frags)
  BY SendSlots
<1>4. UNCHANGED <<txAcknowledge, txFrame, rxVars, net, delivered>>
  BY DEF ReliableMessageSend
<1>5. /\ txBufferlen' = [txBufferlen EXCEPT ![p] = len]
      /\ txFragments' = [txFragments EXCEPT ![p] = frags]
      /\ txSequence' = [txSequence EXCEPT ![p] = @ + n]
      /\ UNCHANGED <<txAcknowledge, txFrame, rxVars, net, delivered>>
  BY <1>3, <1>4 DEF SendOutcome
<1>6. len \in Nat \ {0} /\ len >= DefaultBufferSize
  BY <1>3 DEF SendOutcome
<1>7. n \in Nat /\ txSequence[p] + n <= txAcknowledge[p] + len
  BY <1>3 DEF SendOutcome
<1>10. frags \in [0 .. len - 1 -> Fragment]
  BY <1>3 DEF SendOutcome
<1>11. TypeOK'
  <2> USE <1>1, <1>5
  <2>1. /\ (txSequence \in [Endpoint -> Nat])' /\ (txAcknowledge \in [Endpoint -> Nat])'
        /\ (txFrame \in [Endpoint -> Nat])' /\ (txBufferlen \in [Endpoint -> Nat])'
    BY <1>6, <1>7 DEF TypeOK
  <2>2. (txFragments = [q \in Endpoint |-> txFragments[q]])'
    BY DEF TypeOK
  <2>3. ASSUME NEW q \in Endpoint
        PROVE  /\ txBufferlen'[q] >= DefaultBufferSize
               /\ txFragments'[q] \in [0 .. txBufferlen'[q] - 1 -> Fragment]
    <3>1. CASE q = p
      <4>1. txBufferlen'[p] = len /\ txFragments'[p] = frags
        BY DEF TypeOK
      <4> QED BY <3>1, <4>1, <1>6, <1>10
    <3>2. CASE q # p
      <4>1. txBufferlen'[q] = txBufferlen[q] /\ txFragments'[q] = txFragments[q]
        BY <3>2 DEF TypeOK
      <4> QED BY <4>1 DEF TypeOK
    <3> QED BY <3>1, <3>2
  <2>4. /\ (rxSequence \in [Endpoint -> Nat])'
        /\ (rxFragments \in [Endpoint -> [0 .. DefaultBufferSize - 1 -> Fragment]])'
        /\ (selackoffset \in [Endpoint -> Nat])'
        /\ (net \subseteq Packet)' /\ (delivered \in [Endpoint -> Seq(Int)])'
    BY DEF TypeOK, rxVars
  <2> QED BY <2>1, <2>2, <2>3, <2>4 DEF TypeOK
<1>12. /\ txSequence'[p] = txSequence[p] + n /\ txBufferlen'[p] = len
       /\ txFragments'[p] = frags
       /\ \A q \in Endpoint : q # p => /\ txSequence'[q] = txSequence[q]
                                       /\ txBufferlen'[q] = txBufferlen[q]
                                       /\ txFragments'[q] = txFragments[q]
  BY <1>1, <1>5 DEF TypeOK
<1>13. rxSequence' = rxSequence /\ rxFragments' = rxFragments /\ txAcknowledge' = txAcknowledge
       /\ txFrame' = txFrame /\ net' = net /\ delivered' = delivered
  BY <1>5 DEF rxVars
<1>14. ASSUME NEW q \in Endpoint
       PROVE  txSequence'[q] \in Nat /\ txSequence[q] \in Nat /\ txSequence[q] <= txSequence'[q]
  <2>1. txSequence[q] \in Nat
    BY <1>1 DEF TypeOK
  <2> QED BY <2>1, <1>7, <1>12
<1>15. ASSUME NEW q, NEW i PROVE Has(q, i)' <=> Has(q, i)
  BY <1>13 DEF Has, Held
<1>16. ASSUME NEW q \in Endpoint, NEW i \in Nat, Transmitted(q, i)
       PROVE  Transmitted(q, i)'
  BY <1>16, <1>13, <1>14 DEF Transmitted
<1>17. ASSUME NEW q \in Endpoint
       PROVE  (CounterInv(q) /\ TxSlotInv(q) /\ RxSlotInv(q) /\ DeliveredInv(q))'
  <2>0. CounterInv(q) /\ TxSlotInv(q) /\ RxSlotInv(q) /\ DeliveredInv(q)
    BY DEF IInv
  <2>1. CounterInv(q)'
    <3>1. rxSequence[Peer[q]] \in Nat /\ txAcknowledge[q] \in Nat
      BY <1>1, PeerFacts DEF TypeOK
    <3>2. CASE q = p
      BY <2>0, <3>1, <3>2, <1>2, <1>6, <1>7, <1>12, <1>13 DEF CounterInv
    <3>3. CASE q # p
      BY <2>0, <3>3, <1>12, <1>13 DEF CounterInv
    <3> QED BY <3>2, <3>3
  <2>2. TxSlotInv(q)'
    <3>1. CASE q = p
      <4> SUFFICES ASSUME NEW i \in txAcknowledge[p] .. txSequence'[p] - 1
                   PROVE  /\ txFragments'[p][i % len].data = i
                          /\ txFragments'[p][i % len].ack = i => Has(Peer[p], i)
        BY <3>1, <1>12, <1>13, <1>15 DEF TxSlotInv
      <4>1. CASE i < txSequence[p]
        <5>1. i \in txAcknowledge[p] .. txSequence[p] - 1
          BY <4>1, <1>2, <1>14
        <5>2. txFragments'[p][i % len] = txFragments[p][i % txBufferlen[p]]
          BY <5>1, <1>3, <1>12 DEF SendOutcome
        <5> QED BY <5>1, <5>2, <1>1 DEF TxSlotInv
      <4>2. CASE i >= txSequence[p]
        <5>1. i \in txSequence[p] .. txSequence[p] + n - 1
          BY <4>2, <1>2, <1>7, <1>12
        <5>2. txFragments'[p][i % len] = [ack |-> None, data |-> i]
          BY <5>1, <1>3, <1>12 DEF SendOutcome
        <5>3. i # None
          BY <5>1, <1>2 DEF None
        <5> QED BY <5>2, <5>3
      <4>3. i < txSequence[p] \/ i >= txSequence[p]
        BY <1>2, <1>14
      <4> QED BY <4>1, <4>2, <4>3
    <3>2. CASE q # p
      BY <2>0, <3>2, <1>12, <1>13, <1>15 DEF TxSlotInv
    <3> QED BY <3>1, <3>2
  <2>3. RxSlotInv(q)'
    <3> SUFFICES ASSUME NEW s \in 0 .. DefaultBufferSize - 1, rxFragments[q][s].ack # None
                 PROVE  /\ Transmitted(Peer[q], rxFragments[q][s].ack)'
                        /\ rxFragments[q][s].ack % DefaultBufferSize = s
                        /\ rxFragments[q][s].data = rxFragments[q][s].ack
      BY <1>13 DEF RxSlotInv
    <3> QED BY <2>0, <1>13, <1>16, PeerFacts DEF RxSlotInv, Transmitted
  <2>4. DeliveredInv(q)'
    BY <2>0, <1>13 DEF DeliveredInv
  <2> QED BY <2>1, <2>2, <2>3, <2>4
<1>18. ASSUME NEW pkt \in net PROVE (FragmentInv(pkt.to, pkt) /\ SackInv(pkt.to, pkt))'
  <2>1. pkt.to \in Endpoint /\ pkt.ack \in Int /\ FragmentInv(pkt.to, pkt) /\ SackInv(pkt.to, pkt)
    BY <1>1 DEF IInv, TypeOK, Packet
  <2>2. FragmentInv(pkt.to, pkt)'
    BY <2>1, <1>16, PeerFacts DEF FragmentInv, Transmitted
  <2>3. SackInv(pkt.to, pkt)'
    BY <2>1, <1>13, <1>14, <1>15 DEF SackInv
  <2> QED BY <2>2, <2>3
<1> QED BY <1>11, <1>13, <1>17, <1>18 DEF IInv

\* A receive window as narrow as the code's has no room for three gaps: what it
\* holds lies less than four fragments ahead, so the list is never cut short.
LEMMA ScanNeverStops ==
    ASSUME SmallWindows, IInv, NEW p \in Endpoint
    PROVE  /\ \A k \in Offsets(p) : /\ k \in Nat
                                    /\ k < TxWindow[Peer[p]]
                                    /\ Transmitted(Peer[p], rxSequence[p] + k)
                                    /\ Held(p, rxSequence[p] + k)
           /\ ~ Stops(p)
<1> DEFINE q == Peer[p]
<1>1. /\ q \in Endpoint /\ Peer[q] = p
  BY PeerFacts
<1>2. /\ rxSequence[p] \in Nat /\ txAcknowledge[q] \in Nat /\ txAcknowledge[q] <= rxSequence[p]
  BY <1>1, CounterFacts
<1>3. /\ TxWindow[q] \in Nat /\ TxWindow[q] <= 4 /\ RxWindow[p] \in Nat /\ DefaultBufferSize \in Nat \ {0}
  BY <1>1, ConstantFacts DEF SmallWindows
<1>4. selackoffset[p] \in Nat
  BY DEF IInv, TypeOK
<1> HIDE DEF q
<1>5. ASSUME NEW k \in Offsets(p)
      PROVE  k \in Nat /\ k < TxWindow[q] /\ Transmitted(q, rxSequence[p] + k)
             /\ Held(p, rxSequence[p] + k)
  <2>1. k \in Nat /\ Held(p, rxSequence[p] + k)
    BY <1>3, <1>4 DEF Offsets
  <2>2. (rxSequence[p] + k) % DefaultBufferSize \in 0 .. DefaultBufferSize - 1
    <3>1. rxSequence[p] + k \in Nat
      BY <2>1, <1>2
    <3> QED BY <3>1, <1>3, ModRange, Zenon
  <2>3. rxSequence[p] + k # None
    BY <2>1, <1>2 DEF None
  <2>4. Transmitted(q, rxSequence[p] + k)
    BY <2>1, <2>2, <2>3 DEF IInv, RxSlotInv, Held, q
  <2>5. k < TxWindow[q]
    BY <2>1, <2>4, <1>2, <1>3 DEF Transmitted
  <2> QED BY <2>1, <2>4, <2>5
<1>6. ~ Stops(p)
  <2> SUFFICES ASSUME NEW i \in 0 .. RxWindow[p] - 1, StopsAt(p, i) PROVE FALSE
    BY DEF Stops
  <2>1. PICK a, b, c \in RunStarts(p) : a < b /\ b < c /\ c < i
    BY DEF StopsAt
  <2>2. /\ a \in Offsets(p) /\ b \in Offsets(p) /\ c \in Offsets(p)
        /\ b - 1 \notin Offsets(p) /\ c - 1 \notin Offsets(p)
    BY <2>1 DEF RunStarts
  <2>3. a \in Nat /\ b \in Nat /\ c \in Nat /\ c < 4
    BY <2>2, <1>3, <1>5
  <2>4. b >= a + 2 /\ c >= b + 2
    <3>1. b # a + 1
      BY <2>2, <2>3
    <3>2. c # b + 1
      BY <2>2, <2>3
    <3> QED BY <2>1, <2>3, <3>1, <3>2
  <2> QED BY <2>3, <2>4
<1> QED BY <1>5, <1>6 DEF q

\* What an end may put on the wire.
LEMMA PacketOfGood ==
    ASSUME SmallWindows, IInv, NEW p \in Endpoint, NEW seq,
           seq = None \/ (/\ Transmitted(p, seq)
                          /\ txFragments[p][seq % txBufferlen[p]].data = seq)
    PROVE  /\ PacketOf(p, seq) \in Packet
           /\ PacketOf(p, seq).to = Peer[p]
           /\ FragmentInv(Peer[p], PacketOf(p, seq))
           /\ SackInv(Peer[p], PacketOf(p, seq))
<1> DEFINE pkt == PacketOf(p, seq)
<1>1. PacketOf(p, seq) \in Packet
  BY PacketOfType DEF IInv, Transmitted
<1>2. ~ Stops(p)
  BY ScanNeverStops
<1>3. /\ pkt.to = Peer[p] /\ pkt.seq = seq /\ pkt.ack = rxSequence[p]
      /\ pkt.sack \subseteq Offsets(p)
      /\ seq # None => pkt.data = txFragments[p][seq % txBufferlen[p]].data
  BY <1>2 DEF PacketOf, SelectiveAcklist
<1> HIDE DEF pkt
<1>4. Peer[p] \in Endpoint /\ Peer[Peer[p]] = p
  BY PeerFacts
<1>5. FragmentInv(Peer[p], pkt)
  BY <1>3, <1>4 DEF FragmentInv
<1>6. SackInv(Peer[p], pkt)
  <2>1. rxSequence[p] \in Nat
    BY CounterFacts
  <2>2. ASSUME NEW k \in pkt.sack
        PROVE  k \in Nat /\ k < TxWindow[Peer[p]] /\ pkt.ack + k < txSequence[Peer[p]]
               /\ Has(p, pkt.ack + k)
    <3>1. k \in Offsets(p)
      BY <1>3
    <3> QED BY <3>1, <1>3, ScanNeverStops DEF Transmitted, Has
  <2> QED BY <2>1, <2>2, <1>3, <1>4 DEF SackInv
<1> QED BY <1>1, <1>3, <1>5, <1>6 DEF pkt

\* Sending such a packet, and moving selackoffset and frame, keeps the invariant.
LEMMA TransmitKeeps ==
    ASSUME IInv, NEW p \in Endpoint, NEW newFrame \in Nat, NEW newOffset \in Nat,
           newFrame < txAcknowledge[p] + TxWindow[p],
           txFrame' = [txFrame EXCEPT ![p] = newFrame],
           selackoffset' = [selackoffset EXCEPT ![p] = newOffset],
           UNCHANGED <<txSequence, txAcknowledge, txBufferlen, txFragments,
                       rxSequence, rxFragments, delivered>>,
           \A pkt \in net' : \/ pkt \in net
                             \/ /\ pkt \in Packet
                                /\ FragmentInv(pkt.to, pkt) /\ SackInv(pkt.to, pkt)
    PROVE  IInv'
<1>1. TypeOK'
  BY DEF IInv, TypeOK
<1>2. ASSUME NEW q \in Endpoint
      PROVE  (CounterInv(q) /\ TxSlotInv(q) /\ RxSlotInv(q) /\ DeliveredInv(q))'
  <2>0. CounterInv(q) /\ TxSlotInv(q) /\ RxSlotInv(q) /\ DeliveredInv(q)
    BY DEF IInv
  <2>1. CounterInv(q)'
    <3>1. txFrame'[q] = IF q = p THEN newFrame ELSE txFrame[q]
      BY DEF IInv, TypeOK
    <3> QED BY <2>0, <3>1 DEF CounterInv
  <2>2. TxSlotInv(q)'
    BY <2>0 DEF TxSlotInv, Has, Held
  <2>3. RxSlotInv(q)'
    BY <2>0 DEF RxSlotInv, Transmitted
  <2>4. DeliveredInv(q)'
    BY <2>0 DEF DeliveredInv
  <2> QED BY <2>1, <2>2, <2>3, <2>4
<1>3. ASSUME NEW pkt \in net'
      PROVE  (FragmentInv(pkt.to, pkt) /\ SackInv(pkt.to, pkt))'
  <2>1. FragmentInv(pkt.to, pkt) /\ SackInv(pkt.to, pkt)
    BY DEF IInv
  <2>2. FragmentInv(pkt.to, pkt)'
    BY <2>1 DEF FragmentInv, Transmitted
  <2>3. SackInv(pkt.to, pkt)'
    BY <2>1 DEF SackInv, Has, Held
  <2> QED BY <2>2, <2>3
<1> QED BY <1>1, <1>2, <1>3 DEF IInv

\* ReliableMessagesTransmitNextFragment sends only what the window allows.
LEMMA FrameInv ==
    ASSUME SmallWindows, IInv, NEW p \in Endpoint, ReliableMessagesFrame(p)
    PROVE  IInv'
<1>1. /\ txSequence[p] \in Nat /\ txAcknowledge[p] \in Nat /\ txFrame[p] \in Nat
      /\ TxWindow[p] \in Nat \ {0} /\ txFrame[p] < txAcknowledge[p] + TxWindow[p]
  BY CounterFacts, ConstantFacts
<1>2. NextSelackoffset(p) \in Nat
  BY ScanNeverStops DEF NextSelackoffset
<1>3. ASSUME NEW pkt, NetSend(pkt), NEW other \in net'
      PROVE  other \in net \/ other = pkt
  BY <1>3 DEF NetSend
<1>4. CASE TransmitAck(p)
  <2>1. /\ NetSend(PacketOf(p, None)) /\ txFrame' = [txFrame EXCEPT ![p] = txFrame[p]]
        /\ selackoffset' = [selackoffset EXCEPT ![p] = NextSelackoffset(p)]
        /\ UNCHANGED <<txSequence, txAcknowledge, txBufferlen, txFragments,
                       rxSequence, rxFragments, delivered>>
    BY <1>4 DEF TransmitAck, txVars, IInv, TypeOK
  <2>2. /\ PacketOf(p, None) \in Packet /\ PacketOf(p, None).to = Peer[p]
        /\ FragmentInv(Peer[p], PacketOf(p, None)) /\ SackInv(Peer[p], PacketOf(p, None))
    BY PacketOfGood
  <2>3. \A pkt \in net' : \/ pkt \in net
                          \/ /\ pkt \in Packet
                             /\ FragmentInv(pkt.to, pkt) /\ SackInv(pkt.to, pkt)
    BY <2>1, <2>2, <1>3, Zenon
  <2> QED BY <2>1, <2>3, <1>1, <1>2, TransmitKeeps
<1>5. CASE TransmitNextFragment(p)
  <2> DEFINE seq == FrameOf(p)
  <2>1. NextFrame(p) \in Nat /\ NextFrame(p) < txAcknowledge[p] + TxWindow[p]
    BY <1>1 DEF NextFrame, FrameOf
  <2>2. seq \in Nat /\ txAcknowledge[p] <= seq /\ seq < txAcknowledge[p] + TxWindow[p]
    BY <1>1 DEF FrameOf
  <2>3. CASE ToSend(p)
    <3>1. /\ NetSend(PacketOf(p, seq)) /\ txFrame' = [txFrame EXCEPT ![p] = NextFrame(p)]
          /\ selackoffset' = [selackoffset EXCEPT ![p] = NextSelackoffset(p)]
          /\ UNCHANGED <<txSequence, txAcknowledge, txBufferlen, txFragments,
                         rxSequence, rxFragments, delivered>>
      BY <1>5, <2>3 DEF TransmitNextFragment
    <3>2. seq \in txAcknowledge[p] .. txSequence[p] - 1
      BY <2>2, <2>3, <1>1 DEF ToSend
    <3>3. Transmitted(p, seq) /\ txFragments[p][seq % txBufferlen[p]].data = seq
      <4>1. Transmitted(p, seq)
        BY <2>2, <3>2, <1>1 DEF Transmitted
      <4>2. TxSlotInv(p)
        BY DEF IInv
      <4> QED BY <3>2, <4>1, <4>2 DEF TxSlotInv
    <3> HIDE DEF seq
    <3>4. /\ PacketOf(p, seq) \in Packet /\ PacketOf(p, seq).to = Peer[p]
          /\ FragmentInv(Peer[p], PacketOf(p, seq)) /\ SackInv(Peer[p], PacketOf(p, seq))
      BY <3>3, PacketOfGood
    <3>5. \A pkt \in net' : \/ pkt \in net
                            \/ /\ pkt \in Packet
                               /\ FragmentInv(pkt.to, pkt) /\ SackInv(pkt.to, pkt)
      BY <3>1, <3>4, <1>3, Zenon
    <3> QED BY <3>1, <3>5, <2>1, <1>2, TransmitKeeps
  <2>4. CASE ~ ToSend(p)
    <3>1. /\ txFrame' = [txFrame EXCEPT ![p] = NextFrame(p)] /\ net' = net
          /\ selackoffset' = [selackoffset EXCEPT ![p] = selackoffset[p]]
          /\ UNCHANGED <<txSequence, txAcknowledge, txBufferlen, txFragments,
                         rxSequence, rxFragments, delivered>>
      BY <1>5, <2>4 DEF TransmitNextFragment, IInv, TypeOK
    <3>2. selackoffset[p] \in Nat
      BY DEF IInv, TypeOK
    <3> QED BY <3>1, <3>2, <2>1, TransmitKeeps
  <2> QED BY <2>3, <2>4
<1> QED BY <1>4, <1>5 DEF ReliableMessagesFrame

\* Selective acknowledgements mark only fragments the other end has, and disturb
\* no payload.
LEMMA MarkedSlots ==
    ASSUME IInv, NEW p \in Endpoint, NEW pkt \in Packet, SackInv(p, pkt),
           txAcknowledge[p] <= pkt.ack, NEW i \in pkt.ack .. txSequence[p] - 1
    PROVE  /\ Marked(p, pkt)[i % txBufferlen[p]].data = i
           /\ Marked(p, pkt)[i % txBufferlen[p]].ack = i => Has(Peer[p], i)
<1> DEFINE len == txBufferlen[p]
           s == i % len
           f == txFragments[p][s]
<1>1. /\ txSequence[p] \in Nat /\ txAcknowledge[p] \in Nat /\ len \in Nat \ {0}
      /\ txSequence[p] <= txAcknowledge[p] + len
      /\ txFragments[p] \in [0 .. len - 1 -> Fragment]
  BY CounterFacts
<1>2. pkt.ack \in Nat
  BY DEF SackInv
<1>3. i \in Nat /\ txAcknowledge[p] <= i /\ i < txAcknowledge[p] + len
      /\ i \in txAcknowledge[p] .. txSequence[p] - 1
  BY <1>1, <1>2
<1>4. f.data = i /\ (f.ack = i => Has(Peer[p], i))
  BY <1>3 DEF IInv, TxSlotInv
<1> HIDE DEF len
<1>5. s \in 0 .. len - 1
  BY <1>1, <1>3, ModRange, Zenon
<1>6. f \in Fragment
  BY <1>1, <1>5
<1>7. CASE \E k \in Applied(p, pkt) : (pkt.ack + k) % len = s
  <2> DEFINE k == CHOOSE x \in Applied(p, pkt) : (pkt.ack + x) % len = s
  <2>1. k \in Applied(p, pkt) /\ (pkt.ack + k) % len = s
    BY <1>7
  <2>2. Marked(p, pkt)[s] = [f EXCEPT !.ack = pkt.ack + k]
    BY <1>5, <1>7 DEF Marked, len
  <2> HIDE DEF k
  <2>3. k \in pkt.sack
    BY <2>1 DEF Applied
  <2>4. k \in Nat /\ pkt.ack + k < txSequence[p] /\ Has(Peer[p], pkt.ack + k)
    BY <2>3 DEF SackInv
  <2>5. pkt.ack + k \in Nat /\ txAcknowledge[p] <= pkt.ack + k
        /\ pkt.ack + k < txAcknowledge[p] + len
    <3>1. k \in Nat /\ pkt.ack \in Nat /\ txAcknowledge[p] \in Nat /\ txSequence[p] \in Nat /\ len \in Nat
      BY <1>1, <1>2, <2>4
    <3>2. txAcknowledge[p] <= pkt.ack /\ pkt.ack + k < txSequence[p] /\ txSequence[p] <= txAcknowledge[p] + len
      BY <1>1, <2>4
    <3> QED BY ONLY <3>1, <3>2
  <2>6. pkt.ack + k = i
    BY <2>1, <2>5, <1>1, <1>3, SlotUnique, Zenon
  <2>7. [f EXCEPT !.ack = pkt.ack + k].data = f.data
    BY <1>6 DEF Fragment
  <2> QED BY <2>2, <2>4, <2>6, <2>7, <1>4 DEF len
<1>8. CASE ~ \E k \in Applied(p, pkt) : (pkt.ack + k) % len = s
  <2>1. Marked(p, pkt)[s] = f
    BY <1>5, <1>8 DEF Marked, len
  <2> QED BY <2>1, <1>4 DEF len
<1> QED BY <1>7, <1>8

\* The send buffer after an acknowledgement: every fragment still in use is in place.
AcknowledgeOutcome(p, pkt, len, frags) ==
    /\ len >= DefaultBufferSize
    /\ txSequence[p] <= pkt.ack + len
    /\ txAcknowledge' = [txAcknowledge EXCEPT ![p] = pkt.ack]
    /\ txBufferlen' = [txBufferlen EXCEPT ![p] = len]
    /\ txFragments' = [txFragments EXCEPT ![p] = frags]
    /\ \A i \in pkt.ack .. txSequence[p] - 1 :
          /\ frags[i % len].data = i
          /\ frags[i % len].ack = i => Has(Peer[p], i)

\* The cumulative acknowledgement keeps every fragment that is still in use.
LEMMA AcknowledgeSlots ==
    ASSUME IInv, NEW p \in Endpoint, NEW pkt \in Packet, NEW memory \in BOOLEAN,
           SackInv(p, pkt), txAcknowledge[p] <= pkt.ack, Acknowledge(p, pkt, memory)
    PROVE  \E len \in Nat \ {0} : \E frags \in [0 .. len - 1 -> Fragment] :
              AcknowledgeOutcome(p, pkt, len, frags)
<1> DEFINE shrink == /\ txAcknowledge[p] < pkt.ack
                     /\ txSequence[p] - pkt.ack < DefaultBufferSize
                     /\ txBufferlen[p] > DefaultBufferSize
           len == IF shrink THEN NewBufferlen(p, pkt.ack, DefaultBufferSize, memory)
                            ELSE txBufferlen[p]
           marked == Marked(p, pkt)
           frags == IF len = txBufferlen[p] THEN marked
                    ELSE Moved(p, marked, txBufferlen[p], pkt.ack, len)
<1>1. /\ txSequence[p] \in Nat /\ txAcknowledge[p] \in Nat /\ txBufferlen[p] \in Nat \ {0}
      /\ txSequence[p] <= txAcknowledge[p] + txBufferlen[p]
      /\ txBufferlen[p] >= DefaultBufferSize
  BY CounterFacts
<1>2. pkt.ack \in Nat /\ TypeOK /\ DefaultBufferSize \in Nat
  BY ConstantFacts DEF SackInv, IInv
<1>3. txSequence[p] <= pkt.ack + txBufferlen[p]
  BY <1>1, <1>2
<1>4. len \in Nat \ {0} /\ len >= DefaultBufferSize /\ txSequence[p] <= pkt.ack + len
  <2>1. CASE shrink
    BY <2>1, <1>2, <1>3, NewBufferlenType, NewBufferlenRoom
  <2>2. CASE ~ shrink
    BY <2>2, <1>1, <1>3
  <2> QED BY <2>1, <2>2
<1>5. /\ txAcknowledge' = [txAcknowledge EXCEPT ![p] = pkt.ack]
      /\ txBufferlen' = [txBufferlen EXCEPT ![p] = len]
      /\ txFragments' = [txFragments EXCEPT ![p] = frags]
  BY DEF Acknowledge
<1> HIDE DEF shrink, len
<1>6. marked \in [0 .. txBufferlen[p] - 1 -> Fragment]
  BY <1>2, MarkedType
<1>7. ASSUME NEW i \in pkt.ack .. txSequence[p] - 1
      PROVE  /\ marked[i % txBufferlen[p]].data = i
             /\ marked[i % txBufferlen[p]].ack = i => Has(Peer[p], i)
  BY MarkedSlots
<1> HIDE DEF marked
<1>8. frags \in [0 .. len - 1 -> Fragment]
  BY <1>1, <1>2, <1>4, <1>6, MovedType
<1>9. ASSUME NEW i \in pkt.ack .. txSequence[p] - 1
      PROVE  frags[i % len] = marked[i % txBufferlen[p]]
  <2>1. CASE len = txBufferlen[p]
    BY <2>1
  <2>2. CASE len # txBufferlen[p]
    <3>1. Moved(p, marked, txBufferlen[p], pkt.ack, len)[i % len] = marked[i % txBufferlen[p]]
      <4>1. TypeOK /\ txBufferlen[p] \in Nat \ {0} /\ pkt.ack \in Nat
            /\ len \in Nat \ {0} /\ txSequence[p] <= pkt.ack + len
        BY <1>1, <1>2, <1>4
      <4> HIDE DEF frags
      <4> QED BY <4>1, MovedKeeps
    <3> QED BY <2>2, <3>1
  <2> QED BY <2>1, <2>2
<1> HIDE DEF frags
<1>10. \A i \in pkt.ack .. txSequence[p] - 1 :
           /\ frags[i % len].data = i
           /\ frags[i % len].ack = i => Has(Peer[p], i)
  BY <1>7, <1>9
<1>11. AcknowledgeOutcome(p, pkt, len, frags)
  BY <1>4, <1>5, <1>10 DEF AcknowledgeOutcome
<1> QED BY <1>4, <1>8, <1>11, Zenon

\* A fragment that arrives displaces none that is still to be handed over.
LEMMA StoreKeeps ==
    ASSUME IInv, NEW p \in Endpoint, NEW pkt \in Packet, FragmentInv(p, pkt), Store(p, pkt),
           rxSequence' = rxSequence
    PROVE  /\ rxFragments' \in [Endpoint -> [0 .. DefaultBufferSize - 1 -> Fragment]]
           /\ \A q \in Endpoint : \A i \in Nat : Has(q, i) => Has(q, i)'
           /\ \A q \in Endpoint : \A s \in 0 .. DefaultBufferSize - 1 :
                 \/ rxFragments'[q][s] = rxFragments[q][s]
                 \/ /\ Transmitted(Peer[q], rxFragments'[q][s].ack)
                    /\ rxFragments'[q][s].ack % DefaultBufferSize = s
                    /\ rxFragments'[q][s].data = rxFragments'[q][s].ack
<1> DEFINE D == DefaultBufferSize
           t == pkt.seq % D
           new == [ack |-> pkt.seq, data |-> pkt.data]
<1>1. rxFragments \in [Endpoint -> [0 .. D - 1 -> Fragment]]
  BY DEF IInv, TypeOK
<1>2. CASE pkt.seq = None \/ pkt.seq < rxSequence[p]
  BY <1>1, <1>2 DEF Store, Has, Held
<1>3. CASE ~ (pkt.seq = None \/ pkt.seq < rxSequence[p])
  <2>1. rxFragments' = [rxFragments EXCEPT ![p][t] = new]
    BY <1>3 DEF Store
  <2>2. Transmitted(Peer[p], pkt.seq) /\ pkt.data = pkt.seq
    BY <1>3 DEF FragmentInv
  <2>3. /\ rxSequence[p] \in Nat /\ txAcknowledge[Peer[p]] \in Nat
        /\ txAcknowledge[Peer[p]] <= rxSequence[p]
        /\ TxWindow[Peer[p]] \in Nat /\ TxWindow[Peer[p]] <= D /\ D \in Nat \ {0}
    <3>1. Peer[p] \in Endpoint /\ Peer[Peer[p]] = p
      BY PeerFacts
    <3>2. TxWindow[Peer[p]] \in Nat /\ TxWindow[Peer[p]] <= RxWindow[p]
          /\ RxWindow[p] <= D /\ RxWindow[p] \in Nat /\ D \in Nat \ {0}
      BY <3>1, ConstantFacts
    <3> QED BY <3>1, <3>2, CounterFacts
  <2>4. pkt.seq \in Nat /\ rxSequence[p] <= pkt.seq /\ pkt.seq < rxSequence[p] + D
    BY <1>3, <2>2, <2>3 DEF Transmitted
  <2> HIDE DEF D
  <2>5. t \in 0 .. D - 1
    BY <2>3, <2>4, ModRange, Zenon
  <2> HIDE DEF t
  <2>6. new \in Fragment
    BY <2>2, <2>4 DEF Fragment
  <2>7. rxFragments' \in [Endpoint -> [0 .. D - 1 -> Fragment]]
    <3> HIDE DEF new
    <3> QED BY <1>1, <2>1, <2>5, <2>6
  <2>8. ASSUME NEW q \in Endpoint, NEW s \in 0 .. D - 1
        PROVE  rxFragments'[q][s] = IF q = p /\ s = t THEN new ELSE rxFragments[q][s]
    <3> HIDE DEF new
    <3> QED BY <1>1, <2>1, <2>5
  <2>9. ASSUME NEW q \in Endpoint, NEW i \in Nat, Has(q, i) PROVE Has(q, i)'
    <3>1. CASE i < rxSequence[q]
      BY <3>1 DEF Has
    <3>2. CASE Held(q, i) /\ ~ i < rxSequence[q]
      <4>1. i % D \in 0 .. D - 1
        BY <2>3, ModRange, Zenon
      <4>2. CASE q = p /\ i % D = t
        <5>1. i # None /\ rxFragments[p][i % D].ack = i
          BY <3>2, <4>2 DEF None, Held, D
        <5>2. Transmitted(Peer[p], i)
          BY <4>1, <5>1 DEF IInv, RxSlotInv, D
        <5>3. rxSequence[p] <= i /\ i < rxSequence[p] + D
          BY <2>3, <3>2, <4>2, <5>2 DEF Transmitted
        <5>4. i = pkt.seq
          BY <2>3, <2>4, <4>2, <5>3, SlotUnique, Zenon DEF t
        <5>5. rxFragments'[p][i % D].ack = i
          BY <4>1, <4>2, <5>4, <2>8
        <5> QED BY <4>2, <5>5 DEF Has, Held, D
      <4>3. CASE ~ (q = p /\ i % D = t)
        <5>1. rxFragments'[q][i % D] = rxFragments[q][i % D]
          BY <4>1, <4>3, <2>8
        <5> QED BY <3>2, <5>1 DEF Has, Held, D
      <4> QED BY <4>2, <4>3
    <3> QED BY <3>1, <3>2, <2>9 DEF Has
  <2>10. ASSUME NEW q \in Endpoint, NEW s \in 0 .. D - 1, rxFragments'[q][s] # rxFragments[q][s]
         PROVE  /\ Transmitted(Peer[q], rxFragments'[q][s].ack)
                /\ rxFragments'[q][s].ack % D = s
                /\ rxFragments'[q][s].data = rxFragments'[q][s].ack
    <3>1. q = p /\ s = t /\ rxFragments'[q][s] = new
      BY <2>8, <2>10
    <3> QED BY <3>1, <2>2 DEF t
  <2> QED BY <2>7, <2>9, <2>10 DEF D
<1> QED BY <1>2, <1>3

\* ReliableMessagesReceiveNextFragment.
LEMMA ReceiveNextFragmentInv ==
    ASSUME IInv, NEW pkt \in net, NEW memory \in BOOLEAN,
           ReliableMessagesReceiveNextFragment(pkt.to, pkt, memory)
    PROVE  IInv'
<1> DEFINE p == pkt.to
<1>1. TypeOK /\ pkt \in Packet /\ p \in Endpoint /\ FragmentInv(p, pkt) /\ SackInv(p, pkt)
  BY DEF IInv, TypeOK, Packet
<1> HIDE DEF p
<1>2. /\ txSequence' = txSequence /\ txFrame' = txFrame /\ rxSequence' = rxSequence
      /\ selackoffset' = selackoffset /\ delivered' = delivered /\ net' \subseteq net
  BY DEF ReliableMessagesReceiveNextFragment
<1>3. CASE UNCHANGED <<txAcknowledge, txBufferlen, txFragments, rxFragments>>
  <2>1. TypeOK'
    BY <1>1, <1>2, <1>3 DEF TypeOK
  <2>2. ASSUME NEW q \in Endpoint
        PROVE  (CounterInv(q) /\ TxSlotInv(q) /\ RxSlotInv(q) /\ DeliveredInv(q))'
    <3> USE <1>2, <1>3
    <3>1. CounterInv(q)'
      BY DEF IInv, CounterInv
    <3>2. TxSlotInv(q)'
      BY DEF IInv, TxSlotInv, Has, Held
    <3>3. RxSlotInv(q)'
      BY DEF IInv, RxSlotInv, Transmitted
    <3>4. DeliveredInv(q)'
      BY DEF IInv, DeliveredInv
    <3> QED BY <3>1, <3>2, <3>3, <3>4
  <2>3. ASSUME NEW o \in net' PROVE (FragmentInv(o.to, o) /\ SackInv(o.to, o))'
    <3>1. FragmentInv(o.to, o) /\ SackInv(o.to, o)
      BY <1>2 DEF IInv
    <3>2. FragmentInv(o.to, o)'
      BY <3>1, <1>2, <1>3 DEF FragmentInv, Transmitted
    <3>3. SackInv(o.to, o)'
      BY <3>1, <1>2, <1>3 DEF SackInv, Has, Held
    <3> QED BY <3>2, <3>3
  <2> QED BY <2>1, <2>2, <2>3 DEF IInv
<1>4. CASE /\ txAcknowledge[p] <= pkt.ack
           /\ Acknowledge(p, pkt, memory) /\ Store(p, pkt)
  <2>11. PICK len \in Nat \ {0} : \E frags \in [0 .. len - 1 -> Fragment] :
              AcknowledgeOutcome(p, pkt, len, frags)
    BY <1>1, <1>4, AcknowledgeSlots, Zenon
  <2>10. PICK frags \in [0 .. len - 1 -> Fragment] : AcknowledgeOutcome(p, pkt, len, frags)
    BY <2>11
  <2>1. /\ len >= DefaultBufferSize
        /\ txSequence[p] <= pkt.ack + len
        /\ txAcknowledge' = [txAcknowledge EXCEPT ![p] = pkt.ack]
        /\ txBufferlen' = [txBufferlen EXCEPT ![p] = len]
        /\ txFragments' = [txFragments EXCEPT ![p] = frags]
        /\ \A i \in pkt.ack .. txSequence[p] - 1 :
              /\ frags[i % len].data = i
              /\ frags[i % len].ack = i => Has(Peer[p], i)
    BY <2>10 DEF AcknowledgeOutcome
  <2>2. /\ rxFragments' \in [Endpoint -> [0 .. DefaultBufferSize - 1 -> Fragment]]
        /\ \A q \in Endpoint : \A i \in Nat : Has(q, i) => Has(q, i)'
        /\ \A q \in Endpoint : \A s \in 0 .. DefaultBufferSize - 1 :
              \/ rxFragments'[q][s] = rxFragments[q][s]
              \/ /\ Transmitted(Peer[q], rxFragments'[q][s].ack)
                 /\ rxFragments'[q][s].ack % DefaultBufferSize = s
                 /\ rxFragments'[q][s].data = rxFragments'[q][s].ack
    BY <1>1, <1>2, <1>4, StoreKeeps
  <2>3. /\ pkt.ack \in Nat /\ pkt.ack <= rxSequence[Peer[p]]
        /\ txAcknowledge[p] \in Nat /\ rxSequence[Peer[p]] \in Nat
    BY <1>1, CounterFacts DEF SackInv
  <2>4. /\ txAcknowledge'[p] = pkt.ack /\ txBufferlen'[p] = len /\ txFragments'[p] = frags
        /\ \A q \in Endpoint : q # p => /\ txAcknowledge'[q] = txAcknowledge[q]
                                        /\ txBufferlen'[q] = txBufferlen[q]
                                        /\ txFragments'[q] = txFragments[q]
    BY <1>1, <2>1 DEF TypeOK
  <2>5. TypeOK'
    <3>1. /\ (txSequence \in [Endpoint -> Nat])' /\ (txAcknowledge \in [Endpoint -> Nat])'
          /\ (txFrame \in [Endpoint -> Nat])' /\ (txBufferlen \in [Endpoint -> Nat])'
      BY <1>1, <1>2, <2>1, <2>3 DEF TypeOK
    <3>2. (txFragments = [q \in Endpoint |-> txFragments[q]])'
      BY <1>1, <2>1 DEF TypeOK
    <3>3. ASSUME NEW q \in Endpoint
          PROVE  /\ txBufferlen'[q] >= DefaultBufferSize
                 /\ txFragments'[q] \in [0 .. txBufferlen'[q] - 1 -> Fragment]
      <4>1. CASE q = p
        BY <4>1, <2>1, <2>4
      <4>2. CASE q # p
        <5>1. txBufferlen'[q] = txBufferlen[q] /\ txFragments'[q] = txFragments[q]
          BY <4>2, <2>4
        <5> QED BY <5>1, <1>1 DEF TypeOK
      <4> QED BY <4>1, <4>2
    <3>4. (net \subseteq Packet)'
      BY <1>1, <1>2 DEF TypeOK
    <3>5. /\ (rxSequence \in [Endpoint -> Nat])' /\ (selackoffset \in [Endpoint -> Nat])'
          /\ (delivered \in [Endpoint -> Seq(Int)])'
      BY <1>1, <1>2 DEF TypeOK
    <3> QED BY <3>1, <3>2, <3>3, <3>4, <3>5, <2>2 DEF TypeOK
  <2>6. ASSUME NEW q \in Endpoint
        PROVE  /\ txAcknowledge[q] \in Nat /\ txAcknowledge'[q] \in Nat
               /\ txAcknowledge[q] <= txAcknowledge'[q] /\ TxWindow[q] \in Nat
    <3>1. txAcknowledge[q] \in Nat /\ TxWindow[q] \in Nat
      BY CounterFacts, ConstantFacts
    <3> QED BY <3>1, <2>3, <2>4, <1>4
  <2>7. ASSUME NEW q \in Endpoint, NEW i, Transmitted(q, i)
        PROVE  Transmitted(q, i)'
    BY <2>7, <2>6, <1>2 DEF Transmitted
  <2>8. ASSUME NEW q \in Endpoint
        PROVE  (CounterInv(q) /\ TxSlotInv(q) /\ RxSlotInv(q) /\ DeliveredInv(q))'
    <3>0. CounterInv(q) /\ TxSlotInv(q) /\ RxSlotInv(q) /\ DeliveredInv(q) /\ Peer[q] \in Endpoint
      BY PeerFacts DEF IInv
    <3>1. CounterInv(q)'
      <4>1. CASE q = p
        <5>1. /\ rxSequence[Peer[p]] <= txSequence[p]
              /\ rxSequence[Peer[p]] <= txAcknowledge[p] + TxWindow[p]
              /\ txFrame[p] < txAcknowledge[p] + TxWindow[p]
              /\ txFrame[p] \in Nat /\ TxWindow[p] \in Nat
          BY <1>1, CounterFacts, ConstantFacts
        <5> QED BY <4>1, <5>1, <1>2, <1>4, <2>1, <2>3, <2>4 DEF CounterInv
      <4>2. CASE q # p
        BY <4>2, <3>0, <1>2, <2>4 DEF CounterInv
      <4> QED BY <4>1, <4>2
    <3>2. TxSlotInv(q)'
      <4> SUFFICES ASSUME NEW i \in txAcknowledge'[q] .. txSequence[q] - 1
                   PROVE  /\ txFragments'[q][i % txBufferlen'[q]].data = i
                          /\ txFragments'[q][i % txBufferlen'[q]].ack = i => Has(Peer[q], i)'
        BY <1>2 DEF TxSlotInv
      <4>1. i \in Nat
        BY <2>6, CounterFacts
      <4>2. Has(Peer[q], i) => Has(Peer[q], i)'
        BY <4>1, <3>0, <2>2
      <4>3. CASE q = p
        BY <4>2, <4>3, <2>1, <2>4
      <4>4. CASE q # p
        <5>1. i \in txAcknowledge[q] .. txSequence[q] - 1
          BY <4>4, <2>4
        <5> QED BY <5>1, <4>2, <4>4, <2>4, <3>0 DEF TxSlotInv
      <4> QED BY <4>3, <4>4
    <3>3. RxSlotInv(q)'
      <4> SUFFICES ASSUME NEW s \in 0 .. DefaultBufferSize - 1, rxFragments'[q][s].ack # None
                   PROVE  /\ Transmitted(Peer[q], rxFragments[q][s].ack)'
                          /\ rxFragments'[q][s].ack % DefaultBufferSize = s
                          /\ rxFragments'[q][s].data = rxFragments'[q][s].ack
        BY DEF RxSlotInv
      <4>1. /\ Transmitted(Peer[q], rxFragments'[q][s].ack)
            /\ rxFragments'[q][s].ack % DefaultBufferSize = s
            /\ rxFragments'[q][s].data = rxFragments'[q][s].ack
        BY <3>0, <2>2 DEF RxSlotInv
      <4> QED BY <4>1, <3>0, <2>7 DEF Transmitted
    <3>4. DeliveredInv(q)'
      BY <3>0, <1>2 DEF DeliveredInv
    <3> QED BY <3>1, <3>2, <3>3, <3>4
  <2>9. ASSUME NEW o \in net' PROVE (FragmentInv(o.to, o) /\ SackInv(o.to, o))'
    <3>1. /\ FragmentInv(o.to, o) /\ SackInv(o.to, o) /\ o.to \in Endpoint
          /\ Peer[o.to] \in Endpoint
      <4>1. o \in net /\ o \in Packet
        BY <1>1, <1>2, <2>9 DEF TypeOK
      <4>2. o.to \in Endpoint
        BY ONLY <4>1 DEF Packet
      <4> QED BY <4>1, <4>2, PeerFacts DEF IInv
    <3>2. FragmentInv(o.to, o)'
      BY <3>1, <2>7 DEF FragmentInv
    <3>3. SackInv(o.to, o)'
      <4> SUFFICES ASSUME NEW k \in o.sack PROVE Has(Peer[o.to], o.ack + k)'
        BY <3>1, <1>2 DEF SackInv
      <4>1. o.ack \in Nat /\ k \in Nat /\ Has(Peer[o.to], o.ack + k)
        BY <3>1 DEF SackInv
      <4>2. o.ack + k \in Nat
        BY <4>1
      <4> QED BY <4>1, <4>2, <3>1, <2>2
    <3> QED BY <3>2, <3>3
  <2> QED BY <2>5, <2>8, <2>9 DEF IInv
<1>5. SackInWindow(p, pkt)
  BY <1>1 DEF SackInv, SackInWindow
<1>6. TooOld(p, pkt) \/ txAcknowledge[p] <= pkt.ack
  BY <1>1, CounterFacts DEF TooOld, SackInv
<1> QED BY <1>3, <1>4, <1>5, <1>6 DEF ReliableMessagesReceiveNextFragment, p

\* What the window holds in a row was transmitted, and is what was submitted.
LEMMA HandsOverTransmitted ==
    ASSUME IInv, NEW p \in Endpoint, NEW n \in 1 .. RxWindow[p], Ready(p, n)
    PROVE  /\ rxSequence[p] + n <= txSequence[Peer[p]]
           /\ rxSequence[p] + n <= txAcknowledge[Peer[p]] + TxWindow[Peer[p]]
           /\ \A i \in 1 .. n :
                 rxFragments[p][(rxSequence[p] + i - 1) % DefaultBufferSize].data
                     = rxSequence[p] + i - 1
<1> DEFINE q == Peer[p]
           D == DefaultBufferSize
           r == rxSequence[p]
<1>1. q \in Endpoint
  BY PeerFacts
<1>3. /\ r \in Nat /\ txSequence[q] \in Nat /\ txAcknowledge[q] \in Nat /\ n \in Nat \ {0}
      /\ TxWindow[q] \in Nat /\ D \in Nat \ {0}
  BY <1>1, CounterFacts, ConstantFacts
<1> HIDE DEF q, D, r
<1>4. ASSUME NEW i \in 0 .. n - 1
      PROVE  /\ Transmitted(q, r + i)
             /\ rxFragments[p][(r + i) % D].data = r + i
  <2>1. Held(p, r + i)
    BY DEF Ready, r
  <2>2. r + i \in Nat
    BY <1>3
  <2>3. (r + i) % D \in 0 .. D - 1
    BY <2>2, <1>3, ModRange, Zenon
  <2>4. rxFragments[p][(r + i) % D].ack = r + i
    BY <2>1 DEF Held, D
  <2>5. r + i # None
    BY <2>2 DEF None
  <2>6. RxSlotInv(p)
    BY DEF IInv
  <2> QED BY <2>3, <2>4, <2>5, <2>6 DEF RxSlotInv, D, q
<1>5. r + n <= txSequence[q] /\ r + n <= txAcknowledge[q] + TxWindow[q]
  <2>1. n - 1 \in 0 .. n - 1
    BY <1>3
  <2>2. Transmitted(q, r + (n - 1))
    BY <2>1, <1>4
  <2> QED BY <2>2, <1>3 DEF Transmitted
<1>6. ASSUME NEW i \in 1 .. n
      PROVE  rxFragments[p][(r + i - 1) % D].data = r + i - 1
  <2>1. i - 1 \in 0 .. n - 1 /\ r + (i - 1) = r + i - 1
    BY <1>3
  <2>2. rxFragments[p][(r + (i - 1)) % D].data = r + (i - 1)
    BY <2>1, <1>4
  <2> QED BY <2>1, <2>2
<1> QED BY <1>5, <1>6 DEF q, r, D

\* ReliableMessageReceive hands over what the window holds, which was transmitted.
LEMMA ReceiveInv ==
    ASSUME IInv, NEW p \in Endpoint, NEW n \in 1 .. RxWindow[p], ReliableMessageReceive(p, n)
    PROVE  IInv'
<1> DEFINE q == Peer[p]
           D == DefaultBufferSize
           r == rxSequence[p]
           more == [i \in 1 .. n |-> rxFragments[p][(r + i - 1) % D].data]
<1>1. /\ q \in Endpoint /\ q # p /\ Peer[q] = p /\ TypeOK
      /\ \A x \in Endpoint : x = p \/ x = q
  BY PeerFacts DEF IInv
<1>2. /\ delivered' = [delivered EXCEPT ![p] = @ \o more]
      /\ rxSequence' = [rxSequence EXCEPT ![p] = @ + n]
      /\ selackoffset' = [selackoffset EXCEPT ![p] = IF n > 1 THEN 1 ELSE @]
      /\ rxFragments' = rxFragments /\ net' = net
      /\ txSequence' = txSequence /\ txAcknowledge' = txAcknowledge /\ txFrame' = txFrame
      /\ txBufferlen' = txBufferlen /\ txFragments' = txFragments
  BY DEF ReliableMessageReceive, txVars
<1>3. /\ r \in Nat /\ txSequence[q] \in Nat /\ txAcknowledge[q] \in Nat /\ n \in Nat \ {0}
      /\ txAcknowledge[q] <= r
      /\ TxWindow[q] \in Nat /\ D \in Nat \ {0}
  BY <1>1, CounterFacts, ConstantFacts
<1> HIDE DEF q, D, r, more
<1>5. /\ r + n <= txSequence[q] /\ r + n <= txAcknowledge[q] + TxWindow[q]
      /\ \A i \in 1 .. n : rxFragments[p][(r + i - 1) % D].data = r + i - 1
  <2>1. Ready(p, n)
    BY DEF ReliableMessageReceive
  <2> QED BY <2>1, HandsOverTransmitted DEF q, r, D
<1>6. /\ rxSequence'[p] = r + n /\ rxSequence'[q] = rxSequence[q]
      /\ delivered'[p] = delivered[p] \o more /\ delivered'[q] = delivered[q]
  BY <1>1, <1>2 DEF TypeOK, r
<1>7. more \in Seq(Int) /\ Len(more) = n
      /\ \A i \in 1 .. n : more[i] = r + i - 1
  <2>1. ASSUME NEW i \in 1 .. n
        PROVE  rxFragments[p][(r + i - 1) % D].data = r + i - 1
    BY <1>5
  <2>2. \A i \in 1 .. n : r + i - 1 \in Int
    BY <1>3
  <2>3. more \in [1 .. n -> Int] /\ \A i \in 1 .. n : more[i] = r + i - 1
    BY <2>1, <2>2 DEF more
  <2>4. n \in Nat
    BY <1>3
  <2>5. more \in Seq(Int)
    BY <2>3, <2>4
  <2> QED BY <2>3, <2>4, <2>5
<1>8. delivered[p] \in Seq(Int) /\ Len(delivered[p]) = r
      /\ \A i \in 1 .. r : delivered[p][i] = i - 1
  BY <1>1 DEF TypeOK, IInv, DeliveredInv, r
<1>9. TypeOK'
  <2>1. (rxSequence \in [Endpoint -> Nat])' /\ (selackoffset \in [Endpoint -> Nat])'
    <3>1. rxSequence[p] + n \in Nat
      BY <1>3 DEF r
    <3> QED BY <3>1, <1>1, <1>2 DEF TypeOK
  <2>2. delivered[p] \o more \in Seq(Int)
    BY <1>7, <1>8
  <2>3. (delivered \in [Endpoint -> Seq(Int)])'
    BY <2>2, <1>1, <1>2 DEF TypeOK
  <2> QED BY <2>1, <2>3, <1>1, <1>2 DEF TypeOK
<1>14. ASSUME NEW x \in Endpoint
       PROVE  rxSequence[x] \in Nat /\ rxSequence'[x] \in Nat /\ rxSequence[x] <= rxSequence'[x]
  <2>1. rxSequence[x] \in Nat
    BY CounterFacts
  <2>2. CASE x = p
    <3>1. rxSequence'[x] = rxSequence[x] + n
      BY <2>2, <1>6 DEF r
    <3> QED BY <2>1, <3>1, <1>3
  <2>3. CASE x = q
    BY <2>1, <2>3, <1>6
  <2> QED BY <2>2, <2>3, <1>1
<1>10. ASSUME NEW x \in Endpoint, NEW i \in Nat, Has(x, i) PROVE Has(x, i)'
  BY <1>2, <1>10, <1>14 DEF Has, Held
<1>11. DeliveredInv(p)'
  <2>1. Len(delivered[p] \o more) = r + n
    <3>1. Len(delivered[p] \o more) = Len(delivered[p]) + Len(more)
      BY <1>7, <1>8
    <3> QED BY <3>1, <1>7, <1>8
  <2>2. ASSUME NEW i \in 1 .. r + n PROVE (delivered[p] \o more)[i] = i - 1
    <3>1. CASE i <= r
      BY <3>1, <1>3, <1>7, <1>8
    <3>2. CASE i > r
      <4>1. i - r \in 1 .. n
        BY <3>2, <1>3
      <4>2. (delivered[p] \o more)[i] = more[i - r]
        BY <3>2, <1>3, <1>7, <1>8
      <4>3. more[i - r] = r + (i - r) - 1
        BY <4>1, <1>7
      <4>4. r + (i - r) - 1 = i - 1
        BY <1>3
      <4> QED BY <4>2, <4>3, <4>4
    <3>3. i <= r \/ i > r
      BY <1>3
    <3> QED BY <3>1, <3>2, <3>3, Zenon
  <2> QED BY <2>1, <2>2, <1>6 DEF DeliveredInv
<1>12. ASSUME NEW x \in Endpoint
       PROVE  (CounterInv(x) /\ TxSlotInv(x) /\ RxSlotInv(x) /\ DeliveredInv(x))'
  <2>0. CounterInv(x) /\ TxSlotInv(x) /\ RxSlotInv(x) /\ DeliveredInv(x) /\ Peer[x] \in Endpoint
    BY PeerFacts DEF IInv
  <2>1. CounterInv(x)'
    <3>1. CASE x = q
      BY <3>1, <2>0, <1>1, <1>2, <1>3, <1>5, <1>6 DEF CounterInv
    <3>2. CASE x = p
      BY <3>2, <2>0, <1>2, <1>6 DEF CounterInv, q
    <3> QED BY <3>1, <3>2, <1>1
  <2>2. TxSlotInv(x)'
    <3> SUFFICES ASSUME NEW i \in txAcknowledge[x] .. txSequence[x] - 1
                 PROVE  /\ txFragments[x][i % txBufferlen[x]].data = i
                        /\ txFragments[x][i % txBufferlen[x]].ack = i => Has(Peer[x], i)'
      BY <1>2 DEF TxSlotInv
    <3>1. i \in Nat
      BY CounterFacts
    <3> QED BY <3>1, <2>0, <1>10 DEF TxSlotInv
  <2>3. RxSlotInv(x)'
    BY <2>0, <1>2 DEF RxSlotInv, Transmitted
  <2>4. DeliveredInv(x)'
    BY <2>0, <1>1, <1>6, <1>11 DEF DeliveredInv
  <2> QED BY <2>1, <2>2, <2>3, <2>4
<1>13. ASSUME NEW o \in net' PROVE (FragmentInv(o.to, o) /\ SackInv(o.to, o))'
  <2>1. FragmentInv(o.to, o) /\ SackInv(o.to, o) /\ o.to \in Endpoint /\ Peer[o.to] \in Endpoint
    BY <1>1, <1>2, PeerFacts DEF IInv, TypeOK, Packet
  <2>2. FragmentInv(o.to, o)'
    BY <2>1, <1>2 DEF FragmentInv, Transmitted
  <2>3. SackInv(o.to, o)'
    <3>1. o.ack \in Nat /\ o.ack <= rxSequence'[Peer[o.to]]
      <4>1. /\ rxSequence[Peer[o.to]] \in Nat /\ rxSequence'[Peer[o.to]] \in Nat
            /\ rxSequence[Peer[o.to]] <= rxSequence'[Peer[o.to]]
        BY <2>1, <1>14
      <4> QED BY <4>1, <2>1 DEF SackInv
    <3>2. ASSUME NEW k \in o.sack PROVE Has(Peer[o.to], o.ack + k)'
      <4>1. o.ack \in Nat /\ k \in Nat /\ Has(Peer[o.to], o.ack + k)
        BY <2>1 DEF SackInv
      <4>2. o.ack + k \in Nat
        BY <4>1
      <4> QED BY <4>1, <4>2, <2>1, <1>10
    <3> QED BY <3>1, <3>2, <2>1, <1>2 DEF SackInv
  <2> QED BY <2>2, <2>3
<1> QED BY <1>9, <1>12, <1>13 DEF IInv

\* A lost datagram takes nothing from the invariant.
LEMMA LoseInv ==
    ASSUME IInv, NEW pkt \in net, Lose(pkt)
    PROVE  IInv'
<1>1. /\ net' \subseteq net
      /\ UNCHANGED <<txSequence, txAcknowledge, txFrame, txBufferlen, txFragments,
                     rxSequence, rxFragments, selackoffset, delivered>>
  BY DEF Lose, txVars, rxVars
<1>2. pkt.to \in Endpoint
  BY DEF IInv, TypeOK, Packet
<1>3. txFrame' = [txFrame EXCEPT ![pkt.to] = txFrame[pkt.to]]
      /\ selackoffset' = [selackoffset EXCEPT ![pkt.to] = selackoffset[pkt.to]]
      /\ txFrame[pkt.to] \in Nat /\ selackoffset[pkt.to] \in Nat
  BY <1>1, <1>2 DEF IInv, TypeOK
<1>4. txFrame[pkt.to] < txAcknowledge[pkt.to] + TxWindow[pkt.to]
  BY <1>2, CounterFacts
<1>5. \A o \in net' : o \in net
  BY <1>1
<1> QED BY <1>1, <1>2, <1>3, <1>4, <1>5, TransmitKeeps

\* Every step keeps the invariant.
LEMMA NextInv ==
    ASSUME SmallWindows, IInv, [Next]_vars
    PROVE  IInv'
<1>1. CASE UNCHANGED vars
  <2> USE <1>1 DEF vars, txVars, rxVars
  <2>1. TypeOK'
    BY DEF IInv, TypeOK
  <2>2. ASSUME NEW p \in Endpoint
        PROVE  (CounterInv(p) /\ TxSlotInv(p) /\ RxSlotInv(p) /\ DeliveredInv(p))'
    BY DEF IInv, CounterInv, TxSlotInv, RxSlotInv, DeliveredInv, Transmitted, Has, Held
  <2>3. ASSUME NEW pkt \in net' PROVE (FragmentInv(pkt.to, pkt) /\ SackInv(pkt.to, pkt))'
    <3>1. FragmentInv(pkt.to, pkt) /\ SackInv(pkt.to, pkt)
      BY DEF IInv
    <3> QED BY <3>1 DEF FragmentInv, SackInv, Transmitted, Has, Held
  <2> QED BY <2>1, <2>2, <2>3 DEF IInv
<1>2. CASE Next
  <2>1. ASSUME NEW p \in Endpoint, NEW k \in 1 .. MaxMessage, NEW exact \in BOOLEAN,
               NEW memory \in BOOLEAN, ReliableMessageSend(p, k, exact, memory)
        PROVE  IInv'
    BY <2>1, SendInv
  <2>2. ASSUME NEW p \in Endpoint, ReliableMessagesFrame(p)
        PROVE  IInv'
    BY <2>2, FrameInv
  <2>3. ASSUME NEW pkt \in net, NEW memory \in BOOLEAN,
               ReliableMessagesReceiveNextFragment(pkt.to, pkt, memory)
        PROVE  IInv'
    BY <2>3, ReceiveNextFragmentInv
  <2>4. ASSUME NEW p \in Endpoint, NEW n \in 1 .. RxWindow[p], ReliableMessageReceive(p, n)
        PROVE  IInv'
    BY <2>4, ReceiveInv
  <2>5. ASSUME NEW pkt \in net, Lose(pkt) PROVE IInv'
    BY <2>5, LoseInv
  <2> QED BY <1>2, <2>1, <2>2, <2>3, <2>4, <2>5 DEF Next
<1> QED BY <1>1, <1>2

\* The invariant is inductive: it holds in every reachable state, for every window
\* of at most four fragments, every buffer and every network.
THEOREM Invariance ==
    ASSUME SmallWindows
    PROVE  Spec => []IInv
<1>1. Init => IInv
  BY InitInv
<1>2. IInv /\ [Next]_vars => IInv'
  BY NextInv
<1> QED BY <1>1, <1>2, PTL DEF Spec

-----------------------------------------------------------------------------
(* What follows from it *)

\* ReliableTransport is type correct: no counter becomes negative, and no index
\* leaves its buffer.
THEOREM TypeCorrect ==
    ASSUME SmallWindows
    PROVE  Spec => []TypeOK
<1>1. IInv => TypeOK
  BY DEF IInv
<1> QED BY <1>1, Invariance, PTL

\* Both applications read what the other submitted, in order, once and intact,
\* over a network that loses, duplicates and reorders (ReliableMessageReceive).
THEOREM DeliversInOrder ==
    ASSUME SmallWindows
    PROVE  Spec => []InOrderDelivery
<1>1. IInv => InOrderDelivery
  <2> SUFFICES ASSUME IInv, NEW p \in Endpoint
               PROVE  /\ Len(delivered[p]) <= txSequence[Peer[p]]
                      /\ \A i \in 1 .. Len(delivered[p]) : delivered[p][i] = i - 1
    BY DEF InOrderDelivery
  <2>1. DeliveredInv(p)
    BY DEF IInv
  <2>2. rxSequence[p] <= txSequence[Peer[p]]
    BY PeerFacts, CounterFacts
  <2> QED BY <2>1, <2>2 DEF DeliveredInv
<1> QED BY <1>1, Invariance, PTL

\* The send buffer never loses or mixes up a fragment in use, however often it
\* grows and shrinks (ReliableMessageChangeSendBufferSize).
THEOREM KeepsSendBuffer ==
    ASSUME SmallWindows
    PROVE  Spec => []SendBufferIntact
<1>1. IInv => SendBufferIntact
  <2> SUFFICES ASSUME IInv, NEW p \in Endpoint
               PROVE  /\ txSequence[p] - txAcknowledge[p] <= txBufferlen[p]
                      /\ \A i \in txAcknowledge[p] .. txSequence[p] - 1 :
                            txFragments[p][i % txBufferlen[p]].data = i
    BY DEF SendBufferIntact
  <2>1. txSequence[p] - txAcknowledge[p] <= txBufferlen[p]
    BY CounterFacts
  <2> QED BY <2>1 DEF IInv, TxSlotInv
<1> QED BY <1>1, Invariance, PTL

\* Nothing is acknowledged that the other end does not have
\* (ReliableMessagesReceiveNextFragment).
THEOREM AcknowledgesWhatIsHeld ==
    ASSUME SmallWindows
    PROVE  Spec => []AcknowledgedIsHeld
<1>1. IInv => AcknowledgedIsHeld
  BY DEF IInv, AcknowledgedIsHeld, CounterInv, TxSlotInv, Has
<1> QED BY <1>1, Invariance, PTL

\* A packet in flight is acceptable or too old, never "illegible" or "invalid".
THEOREM JudgesPacketsRightly ==
    ASSUME SmallWindows
    PROVE  Spec => []NoPacketMisjudged
<1>1. IInv => NoPacketMisjudged
  <2> SUFFICES ASSUME IInv, NEW pkt \in net
               PROVE  /\ InReceiveWindow(pkt.to, pkt)
                      /\ ~ Illegible(pkt.to, pkt)
                      /\ ~ Invalid(pkt.to, pkt)
                      /\ SackInWindow(pkt.to, pkt)
    BY DEF NoPacketMisjudged
  <2> DEFINE p == pkt.to
  <2>1. p \in Endpoint /\ FragmentInv(p, pkt) /\ SackInv(p, pkt) /\ pkt.ack \in Nat
    BY DEF IInv, TypeOK, Packet, SackInv
  <2> HIDE DEF p
  <2>2. Peer[p] \in Endpoint /\ Peer[Peer[p]] = p
    BY <2>1, PeerFacts
  <2>3. /\ rxSequence[p] \in Nat /\ txAcknowledge[Peer[p]] \in Nat
        /\ txAcknowledge[Peer[p]] <= rxSequence[p]
    BY <2>1, <2>2, CounterFacts
  <2>4. /\ txSequence[p] \in Nat /\ txAcknowledge[p] \in Nat /\ rxSequence[Peer[p]] \in Nat
        /\ rxSequence[Peer[p]] <= txSequence[p]
        /\ rxSequence[Peer[p]] <= txAcknowledge[p] + TxWindow[p]
    BY <2>1, CounterFacts
  <2>5. /\ TxWindow[Peer[p]] \in Nat /\ RxWindow[p] \in Nat \ {0}
        /\ TxWindow[Peer[p]] <= RxWindow[p] /\ TxWindow[p] \in Nat
    BY <2>1, <2>2, ConstantFacts
  <2>6. InReceiveWindow(p, pkt)
    BY <2>1, <2>3, <2>5 DEF InReceiveWindow, FragmentInv, Transmitted, None
  <2>7. ~ Illegible(p, pkt) /\ ~ Invalid(p, pkt)
    BY <2>1, <2>4, <2>5 DEF Illegible, Invalid, SackInv
  <2>8. SackInWindow(p, pkt)
    BY <2>1 DEF SackInWindow, SackInv
  <2> QED BY <2>6, <2>7, <2>8 DEF p
<1> QED BY <1>1, Invariance, PTL

-----------------------------------------------------------------------------
(* ReliableTransport implements ReliableStream *)

\* ReliableMessageSend submits to the stream.
LEMMA SendRefines ==
    ASSUME IInv, NEW p \in Endpoint, NEW k \in 1 .. MaxMessage,
           NEW exact \in BOOLEAN, NEW memory \in BOOLEAN,
           ReliableMessageSend(p, k, exact, memory)
    PROVE  Stream!Submit(p) \/ UNCHANGED <<txSequence, delivered, txAcknowledge>>
<1>1. PICK len, n, frags : SendOutcome(p, k, len, n, frags)
  BY SendSlots
<1>2. UNCHANGED <<delivered, txAcknowledge>>
  BY DEF ReliableMessageSend
<1>3. n \in Nat /\ n <= k /\ txSequence' = [txSequence EXCEPT ![p] = @ + n]
  BY <1>1 DEF SendOutcome
<1>4. CASE n = 0
  <2>1. txSequence' = txSequence
    BY <1>3, <1>4 DEF IInv, TypeOK
  <2> QED BY <1>2, <2>1
<1>5. CASE n > 0
  <2>1. n \in 1 .. MaxMessage
    BY <1>3, <1>5, BoundAssumption
  <2> QED BY <1>2, <1>3, <2>1 DEF Stream!Submit
<1> QED BY <1>3, <1>4, <1>5

\* ReliableMessagesReceiveNextFragment confirms, or does nothing the stream sees.
LEMMA ReceiveNextFragmentRefines ==
    ASSUME IInv, NEW pkt \in net, NEW memory \in BOOLEAN,
           ReliableMessagesReceiveNextFragment(pkt.to, pkt, memory)
    PROVE  Stream!Confirm(pkt.to) \/ UNCHANGED <<txSequence, delivered, txAcknowledge>>
<1> DEFINE p == pkt.to
<1>1. p \in Endpoint /\ SackInv(p, pkt) /\ pkt.ack \in Nat /\ TypeOK
  BY DEF IInv, TypeOK, Packet, SackInv
<1>2. UNCHANGED <<txSequence, delivered>>
  BY DEF ReliableMessagesReceiveNextFragment
<1>3. CASE UNCHANGED txAcknowledge
  BY <1>2, <1>3
<1>4. CASE ~ TooOld(p, pkt) /\ txAcknowledge' = [txAcknowledge EXCEPT ![p] = pkt.ack]
  <2>1. txAcknowledge[p] \in Nat /\ txAcknowledge[p] <= pkt.ack
    BY <1>1, <1>4 DEF TooOld, TypeOK
  <2>2. Len(delivered[Peer[p]]) = rxSequence[Peer[p]] /\ rxSequence[Peer[p]] \in Nat
    BY <1>1, PeerFacts DEF IInv, DeliveredInv, TypeOK
  <2>3. CASE pkt.ack = txAcknowledge[p]
    BY <2>3, <1>1, <1>2, <1>4 DEF TypeOK
  <2>4. CASE pkt.ack # txAcknowledge[p]
    <3>1. pkt.ack \in txAcknowledge[p] + 1 .. Len(delivered[Peer[p]])
      BY <1>1, <2>1, <2>2, <2>4 DEF SackInv
    <3> QED BY <3>1, <1>2, <1>4 DEF Stream!Confirm
  <2> QED BY <2>3, <2>4
<1> QED BY <1>3, <1>4 DEF ReliableMessagesReceiveNextFragment, Acknowledge

\* ReliableMessageReceive hands over.
LEMMA ReceiveRefines ==
    ASSUME IInv, NEW p \in Endpoint, NEW n \in 1 .. RxWindow[p], ReliableMessageReceive(p, n)
    PROVE  Stream!HandOver(p)
<1> DEFINE more == [i \in 1 .. n |->
                       rxFragments[p][(rxSequence[p] + i - 1) % DefaultBufferSize].data]
<1>1. /\ Ready(p, n) /\ delivered' = [delivered EXCEPT ![p] = @ \o more]
      /\ UNCHANGED <<txSequence, txAcknowledge>>
  BY DEF ReliableMessageReceive, txVars
<1>2. Len(delivered[p]) = rxSequence[p]
  BY DEF IInv, DeliveredInv
<1>3. /\ rxSequence[p] + n <= txSequence[Peer[p]]
      /\ more = [i \in 1 .. n |-> Len(delivered[p]) + i - 1]
  BY <1>1, <1>2, HandsOverTransmitted
<1>4. /\ rxSequence[p] \in Nat /\ txSequence[Peer[p]] \in Nat /\ n \in Nat
  BY PeerFacts, CounterFacts, ConstantFacts
<1>5. n \in 1 .. txSequence[Peer[p]] - Len(delivered[p])
  BY <1>2, <1>3, <1>4
<1> HIDE DEF more
<1> QED BY <1>1, <1>3, <1>5 DEF Stream!HandOver

\* The transport implements the stream: sending submits, an acknowledgement
\* confirms only what was handed over, reading hands over the next fragments, and
\* every other step is invisible.
THEOREM Refinement ==
    ASSUME SmallWindows
    PROVE  Spec => ImplementsStream
<1>1. Init => Stream!Init
  BY DEF Init, Stream!Init
<1>2. IInv /\ [Next]_vars => [Stream!Next]_(Stream!streamVars)
  <2> SUFFICES ASSUME IInv, [Next]_vars
               PROVE  Stream!Next \/ UNCHANGED <<txSequence, delivered, txAcknowledge>>
    BY DEF Stream!streamVars
  <2>1. CASE UNCHANGED vars
    BY <2>1 DEF vars, txVars
  <2>2. ASSUME NEW p \in Endpoint, NEW k \in 1 .. MaxMessage, NEW exact \in BOOLEAN,
               NEW memory \in BOOLEAN, ReliableMessageSend(p, k, exact, memory)
        PROVE  Stream!Next \/ UNCHANGED <<txSequence, delivered, txAcknowledge>>
    BY <2>2, SendRefines DEF Stream!Next
  <2>3. ASSUME NEW p \in Endpoint, ReliableMessagesFrame(p)
        PROVE  UNCHANGED <<txSequence, delivered, txAcknowledge>>
    BY <2>3 DEF ReliableMessagesFrame, TransmitAck, TransmitNextFragment, txVars
  <2>4. ASSUME NEW pkt \in net, NEW memory \in BOOLEAN,
               ReliableMessagesReceiveNextFragment(pkt.to, pkt, memory)
        PROVE  Stream!Next \/ UNCHANGED <<txSequence, delivered, txAcknowledge>>
    <3>1. pkt.to \in Endpoint
      BY DEF IInv, TypeOK, Packet
    <3> QED BY <2>4, <3>1, ReceiveNextFragmentRefines DEF Stream!Next
  <2>5. ASSUME NEW p \in Endpoint, NEW n \in 1 .. RxWindow[p], ReliableMessageReceive(p, n)
        PROVE  Stream!Next
    BY <2>5, ReceiveRefines DEF Stream!Next
  <2>6. ASSUME NEW pkt \in net, Lose(pkt)
        PROVE  UNCHANGED <<txSequence, delivered, txAcknowledge>>
    BY <2>6 DEF Lose, txVars
  <2> QED BY <2>1, <2>2, <2>3, <2>4, <2>5, <2>6 DEF Next
<1> QED BY <1>1, <1>2, Invariance, PTL DEF Spec, Stream!Spec, ImplementsStream

=============================================================================
