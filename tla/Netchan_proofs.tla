---------------------------- MODULE Netchan_proofs ----------------------------
(***************************************************************************)
(* What Netchan_Process hands on is what Netchan_Transmit was given, and   *)
(* what it has put together so far is the beginning of a message: for      *)
(* every fragment size, buffer size, loopback ring and set of lengths.     *)
(*                                                                         *)
(* A datagram is one of the pieces its message was cut into, wherever it   *)
(* is: under way by UDP or in a slot of the loopback ring (Carried).  So a *)
(* fragment that fits where the assembly has got to continues the message, *)
(* and a fragment shorter than FRAGMENT_SIZE ends it.  The datagrams in a  *)
(* ring that was not overrun are a chain without a gap, from what the      *)
(* reader expects to what the sender sends next (RingInv).                 *)
(***************************************************************************)
EXTENDS Netchan, TLAPS

\* Two numbers less than n apart have different slots in a buffer of n.
LEMMA ModDistinct ==
    ASSUME NEW n \in Nat \ {0}, NEW a \in Nat, NEW b \in Nat, a < b, b < a + n
    PROVE  a % n # b % n
<1> DEFINE qa == a \div n
           qb == b \div n
<1>1. a = n * qa + (a % n) /\ b = n * qb + (b % n)
  OBVIOUS
<1>2. qa \in Int /\ qb \in Int
  OBVIOUS
<1>3. SUFFICES ASSUME a % n = b % n PROVE FALSE
  OBVIOUS
<1>4. b - a = n * (qb - qa)
  <2>1. b - a = n * qb - n * qa
    BY <1>1, <1>3
  <2>2. n * qb - n * qa = n * (qb - qa)
    BY <1>2
  <2> QED BY <2>1, <2>2
<1> HIDE DEF qa, qb
<1>5. CASE qb - qa <= 0
  <2>1. n * (qb - qa) <= 0
    BY <1>2, <1>5
  <2> QED BY <1>4, <2>1
<1>6. CASE qb - qa >= 1
  <2>1. n * (qb - qa) >= n
    BY <1>2, <1>6
  <2> QED BY <1>4, <2>1
<1> QED BY <1>2, <1>5, <1>6

\* A slot number is one of the buffer's.
LEMMA ModRange ==
    ASSUME NEW n \in Nat \ {0}, NEW a \in Nat
    PROVE  a % n \in 0 .. n - 1
OBVIOUS

USE NetchanAssumption

\* The datagrams that messages of these lengths were cut into; message `out` has its
\* last one still to come.
Pieces(lengths, out) ==
    {pkt \in [seq : Nat, fragmented : BOOLEAN, start : Nat, length : Nat, msg : Nat] :
        /\ pkt.msg = pkt.seq
        /\ pkt.seq \in DOMAIN lengths
        /\ ~ pkt.fragmented => pkt.start = 0 /\ pkt.length = lengths[pkt.seq]
        /\ pkt.fragmented /\ pkt.length # FragmentSize =>
              pkt.start + pkt.length = lengths[pkt.seq]
        /\ pkt.seq >= out => pkt.fragmented /\ pkt.length = FragmentSize}

\* A slot of the ring that was never written reads as datagram 0.
Slots == Pieces(transmitted, outgoingSequence) \cup {NoPacket}

Carried ==
    /\ net \subseteq Slots
    /\ loop.msgs \in [0 .. MaxLoopback - 1 -> Slots]

\* The sender is in the last message it was given, or has sent all of it.
Sending ==
    /\ transmitted \in Seq(Nat \ {0})
    /\ outgoingSequence = Len(transmitted) + (IF unsentFragments THEN 0 ELSE 1)
    /\ unsentFragments =>
          /\ Len(transmitted) >= 1
          /\ unsentLength = transmitted[Len(transmitted)]
          /\ unsentFragmentStart <= unsentLength

\* What was processed, and that all of it is of messages up to incomingSequence.
Message == UNION {[0 .. n - 1 -> Unit] : n \in Nat}

Handed ==
    /\ processed \in Seq(Message)
    /\ incomingSequence < outgoingSequence
    /\ \A i \in DOMAIN processed : \E m \in DOMAIN transmitted :
          m <= incomingSequence /\ processed[i] = Units(m, 0, transmitted[m])
    /\ \A i, k \in DOMAIN processed :
          i < k => processed[i][0].msg < processed[k][0].msg

\* The inductive invariant.
IInv == TypeOK /\ Sending /\ Carried /\ AssemblyIsPrefix /\ Handed

-----------------------------------------------------------------------------
(* What is sent *)

\* What was a piece of a message stays one while messages are added.
LEMMA PiecesStay ==
    ASSUME NEW T \in Seq(Nat \ {0}), NEW T2 \in Seq(Nat \ {0}),
           NEW out \in Nat, NEW out2 \in Nat, out <= out2,
           \A m \in DOMAIN T : m \in DOMAIN T2 /\ T2[m] = T[m]
    PROVE  Pieces(T, out) \subseteq Pieces(T2, out2)
BY DEF Pieces

\* Sending puts one datagram on its way, and changes no other.
LEMMA SendCarries ==
    ASSUME TypeOK, NEW S, net \subseteq S, loop.msgs \in [0 .. MaxLoopback - 1 -> S],
           NEW pkt \in S, pkt \in Packet, NET_SendPacket(pkt)
    PROVE  /\ net' \subseteq S
           /\ loop'.msgs \in [0 .. MaxLoopback - 1 -> S]
           /\ net' \subseteq Packet
           /\ loop' \in [get : Nat, send : Nat, msgs : [0 .. MaxLoopback - 1 -> Packet]]
           /\ overrun' = overrun
<1>1. CASE SendLoopPacket(pkt)
  <2>1. loop.send % MaxLoopback \in 0 .. MaxLoopback - 1
    BY ModRange DEF TypeOK
  <2>2. loop' = [get |-> loop.get, send |-> loop.send + 1,
                 msgs |-> [loop.msgs EXCEPT ![loop.send % MaxLoopback] = pkt]]
    BY <1>1 DEF SendLoopPacket, TypeOK
  <2>3. UNCHANGED <<net, overrun>>
    BY <1>1 DEF SendLoopPacket
  <2>4. \A X : loop.msgs \in [0 .. MaxLoopback - 1 -> X] /\ pkt \in X
                  => loop'.msgs \in [0 .. MaxLoopback - 1 -> X]
    BY <2>1, <2>2
  <2>5. loop'.get \in Nat /\ loop'.send \in Nat /\ loop'.msgs \in [0 .. MaxLoopback - 1 -> Packet]
    BY <2>2, <2>4 DEF TypeOK
  <2>6. loop' \in [get : Nat, send : Nat, msgs : [0 .. MaxLoopback - 1 -> Packet]]
    BY <2>2, <2>5
  <2> QED BY <2>3, <2>4, <2>6 DEF TypeOK
<1>2. CASE Sys_SendPacket(pkt)
  BY <1>2 DEF Sys_SendPacket, TypeOK
<1> QED BY <1>1, <1>2 DEF NET_SendPacket

\* A fragment of the message under way is a piece of it, and leaves the sender in the
\* message or at its end.
LEMMA FragmentSent ==
    ASSUME TypeOK, Carried,
           transmitted \in Seq(Nat \ {0}),
           NEW T \in Seq(Nat \ {0}), transmitted' = T,
           \A i \in DOMAIN transmitted : i \in DOMAIN T /\ T[i] = transmitted[i],
           NEW m \in Nat, m = Len(T), outgoingSequence = m, m >= 1,
           NEW start \in Nat, start <= T[m],
           unsentLength' = T[m],
           SendFragment(m, start, T[m])
    PROVE  /\ Sending' /\ Carried'
           /\ outgoingSequence' \in Nat /\ outgoingSequence <= outgoingSequence'
           /\ unsentFragmentStart' \in Nat /\ unsentFragments' \in BOOLEAN
           /\ unsentLength' \in Nat
           /\ net' \subseteq Packet
           /\ loop' \in [get : Nat, send : Nat, msgs : [0 .. MaxLoopback - 1 -> Packet]]
           /\ overrun' = overrun
<1> DEFINE length == T[m]
           short == start + FragmentSize > length
           n == IF short THEN length - start ELSE FragmentSize
           pkt == [seq |-> outgoingSequence, fragmented |-> TRUE,
                   start |-> start, length |-> n, msg |-> m]
           S == Slots'
<1>1. m \in DOMAIN T /\ length \in Nat \ {0}
  OBVIOUS
<1>2. n \in Nat /\ start + n <= length /\ (short <=> n # FragmentSize)
      /\ (short => start + n = length)
  BY <1>1
<1>3. /\ outgoingSequence' = IF short THEN m + 1 ELSE m
      /\ unsentFragments' = ~ short
      /\ unsentFragmentStart' = start + n
      /\ NET_SendPacket(pkt)
  BY <1>1, <1>2 DEF SendFragment
<1>4. outgoingSequence' \in Nat /\ outgoingSequence <= outgoingSequence'
  BY <1>3
<1>5. pkt \in S /\ pkt \in Packet
  BY <1>1, <1>2, <1>3 DEF Slots, Pieces, Packet
<1>6. Slots \subseteq S
  BY <1>4, PiecesStay DEF Slots, TypeOK
<1>7. net \subseteq S /\ loop.msgs \in [0 .. MaxLoopback - 1 -> S]
  BY <1>6 DEF Carried
<1> HIDE DEF pkt, S
<1>8. /\ net' \subseteq S
      /\ loop'.msgs \in [0 .. MaxLoopback - 1 -> S]
      /\ net' \subseteq Packet
      /\ loop' \in [get : Nat, send : Nat, msgs : [0 .. MaxLoopback - 1 -> Packet]]
      /\ overrun' = overrun
  BY <1>3, <1>5, <1>7, SendCarries
<1>9. Carried'
  BY <1>8 DEF Carried, S
<1>10. Sending'
  <2>1. outgoingSequence' = Len(T) + (IF unsentFragments' THEN 0 ELSE 1)
    <3>1. CASE short
      BY <1>3, <3>1
    <3>2. CASE ~ short
      <4>1. outgoingSequence' = m /\ unsentFragments'
        BY <1>3, <3>2
      <4>2. m = Len(T) + 0
        OBVIOUS
      <4> QED BY <4>1, <4>2, Zenon
    <3> QED BY <3>1, <3>2
  <2>2. unsentFragments' =>
          /\ Len(T) >= 1
          /\ unsentLength' = T[Len(T)]
          /\ unsentFragmentStart' <= unsentLength'
    BY <1>1, <1>2, <1>3
  <2> QED BY <2>1, <2>2 DEF Sending
<1> QED BY <1>1, <1>2, <1>3, <1>4, <1>8, <1>9, <1>10
-----------------------------------------------------------------------------
(* What is processed *)

\* A message that is handed on whole, after those before it.
LEMMA HandedOn ==
    ASSUME TypeOK, Sending, Handed,
           NEW m \in DOMAIN transmitted, incomingSequence < m, m < outgoingSequence,
           incomingSequence' = m,
           processed' = Append(processed, Units(m, 0, transmitted[m])),
           UNCHANGED <<outgoingSequence, transmitted>>
    PROVE  Handed'
<1> DEFINE data == Units(m, 0, transmitted[m])
           P == processed
<1>1. m \in Nat /\ transmitted[m] \in Nat /\ transmitted[m] > 0
  BY DEF Sending
<1>2. data \in [0 .. transmitted[m] - 1 -> Unit] /\ data[0].msg = m
  BY <1>1 DEF Units, Unit
<1>3. data \in Message
  BY <1>1, <1>2 DEF Message
<1>4. \A i \in DOMAIN P : P[i][0].msg <= incomingSequence /\ P[i][0].msg \in Nat
  <2> SUFFICES ASSUME NEW i \in DOMAIN P
               PROVE  P[i][0].msg <= incomingSequence /\ P[i][0].msg \in Nat
    OBVIOUS
  <2>1. PICK k \in DOMAIN transmitted :
           k <= incomingSequence /\ P[i] = Units(k, 0, transmitted[k])
    BY DEF Handed
  <2>2. k \in Nat /\ transmitted[k] \in Nat /\ transmitted[k] > 0
    BY DEF Sending
  <2>3. P[i][0].msg = k
    BY <2>1, <2>2 DEF Units
  <2> QED BY <2>1, <2>2, <2>3
<1> HIDE DEF data
<1>5. P \in Seq(Message) /\ processed' = Append(P, data)
  BY DEF Handed, data
<1>6. /\ processed' \in Seq(Message)
      /\ DOMAIN processed' = 1 .. Len(P) + 1
      /\ \A i \in 1 .. Len(P) : i \in DOMAIN P /\ processed'[i] = P[i]
      /\ processed'[Len(P) + 1] = data
  BY <1>3, <1>5
<1>7. incomingSequence' < outgoingSequence'
  OBVIOUS
<1>8. ASSUME NEW i \in DOMAIN processed'
      PROVE  \E k \in DOMAIN transmitted' :
                k <= incomingSequence' /\ processed'[i] = Units(k, 0, transmitted'[k])
  <2>1. CASE i = Len(P) + 1
    BY <1>1, <1>6, <2>1 DEF data
  <2>2. CASE i # Len(P) + 1
    <3>1. i \in DOMAIN P /\ processed'[i] = P[i]
      BY <1>5, <1>6, <2>2
    <3>2. PICK k \in DOMAIN transmitted :
             k <= incomingSequence /\ P[i] = Units(k, 0, transmitted[k])
      BY <3>1 DEF Handed
    <3>3. k <= incomingSequence'
      BY <1>1, <3>2 DEF TypeOK, Sending
    <3> QED BY <3>1, <3>2, <3>3
  <2> QED BY <2>1, <2>2
<1>9. ASSUME NEW i \in DOMAIN processed', NEW k \in DOMAIN processed', i < k
      PROVE  processed'[i][0].msg < processed'[k][0].msg
  <2>1. i \in DOMAIN P /\ processed'[i] = P[i]
    BY <1>5, <1>6, <1>9
  <2>2. CASE k = Len(P) + 1
    <3>1. processed'[k][0].msg = m
      BY <1>2, <1>6, <2>2
    <3>2. P[i][0].msg <= incomingSequence /\ P[i][0].msg \in Nat
      BY <1>4, <2>1
    <3>3. ASSUME NEW x \in Nat, x <= incomingSequence PROVE x < m
      BY <1>1, <3>3 DEF TypeOK
    <3>4. P[i][0].msg < m
      BY <3>2, <3>3
    <3> QED BY <2>1, <3>1, <3>4
  <2>3. CASE k # Len(P) + 1
    <3>1. k \in DOMAIN P /\ processed'[k] = P[k]
      BY <1>5, <1>6, <2>3
    <3> QED BY <1>9, <2>1, <3>1 DEF Handed
  <2> QED BY <2>2, <2>3
<1> QED BY <1>6, <1>7, <1>8, <1>9 DEF Handed

\* A fragment that continues what is assembled: the message with its number, so far.
LEMMA CopiedIsPrefix ==
    ASSUME TypeOK, Sending, AssemblyIsPrefix,
           NEW pkt \in Pieces(transmitted, outgoingSequence), ~ Missed(pkt), ~ Illegal(pkt)
    PROVE  LET length == Assembled(pkt) + pkt.length
           IN  /\ length \in 0 .. FragmentBufferSize
               /\ Copied(pkt) \in [0 .. FragmentBufferSize - 1 -> Unit]
               /\ \A j \in 0 .. length - 1 : Copied(pkt)[j] = [msg |-> pkt.seq, pos |-> j]
<1> DEFINE a == Assembled(pkt)
           length == a + pkt.length
<1>1. /\ pkt.seq \in Nat /\ pkt.start \in Nat /\ pkt.length \in Nat /\ pkt.msg = pkt.seq
  BY DEF Pieces
<1>2. a \in 0 .. FragmentBufferSize /\ a = pkt.start /\ length <= FragmentBufferSize
  BY <1>1 DEF Assembled, Missed, Illegal, TypeOK
<1>3. \A j \in 0 .. a - 1 : fragmentBuffer[j] = [msg |-> pkt.seq, pos |-> j]
  BY DEF Assembled, AssemblyIsPrefix
<1> DEFINE value(j) == IF j \in a .. a + pkt.length - 1
                       THEN [msg |-> pkt.msg, pos |-> pkt.start + j - a]
                       ELSE fragmentBuffer[j]
<1>4. Copied(pkt) = [j \in 0 .. FragmentBufferSize - 1 |-> value(j)]
  BY DEF Copied
<1> HIDE DEF a
<1>5. \A j \in 0 .. FragmentBufferSize - 1 :
         /\ value(j) \in Unit
         /\ value(j) = IF j \in a .. length - 1 THEN [msg |-> pkt.seq, pos |-> j]
                                              ELSE fragmentBuffer[j]
  <2> SUFFICES ASSUME NEW j \in 0 .. FragmentBufferSize - 1
               PROVE  /\ value(j) \in Unit
                      /\ value(j) = IF j \in a .. length - 1 THEN [msg |-> pkt.seq, pos |-> j]
                                                           ELSE fragmentBuffer[j]
    OBVIOUS
  <2>1. (j \in a .. a + pkt.length - 1 <=> j \in a .. length - 1) /\ a \in Nat
    BY <1>1, <1>2
  <2>2. CASE j \in a .. length - 1
    <3>1. pkt.start + j - a = j /\ j \in Nat
      BY <1>1, <1>2
    <3>2. value(j) = [msg |-> pkt.msg, pos |-> pkt.start + j - a]
      BY <2>1, <2>2, Zenon
    <3> HIDE DEF value
    <3> QED BY <1>1, <2>2, <3>1, <3>2 DEF Unit
  <2>3. CASE j \notin a .. length - 1
    <3>1. value(j) = fragmentBuffer[j]
      BY <2>1, <2>3, Zenon
    <3> HIDE DEF value
    <3> QED BY <2>3, <3>1 DEF TypeOK
  <2> QED BY <2>2, <2>3, Zenon
<1> HIDE DEF value
<1>6. Copied(pkt) \in [0 .. FragmentBufferSize - 1 -> Unit]
  BY <1>4, <1>5
<1>7. \A j \in 0 .. length - 1 : Copied(pkt)[j] = [msg |-> pkt.seq, pos |-> j]
  BY <1>1, <1>2, <1>3, <1>4, <1>5
<1> QED BY <1>1, <1>2, <1>6, <1>7 DEF a

ReceiverTypeOK ==
    /\ incomingSequence \in Nat /\ fragmentSequence \in Nat
    /\ fragmentLength \in 0 .. FragmentBufferSize
    /\ fragmentBuffer \in [0 .. FragmentBufferSize - 1 -> Unit]

\* Netchan_Process of a fragment that is not out of order.
LEMMA FragmentProcessed ==
    ASSUME IInv, NEW pkt \in Pieces(transmitted, outgoingSequence),
           pkt.fragmented, ~ OutOfOrder(pkt), ProcessFragment(pkt),
           UNCHANGED <<outgoingSequence, transmitted>>
    PROVE  ReceiverTypeOK' /\ AssemblyIsPrefix' /\ Handed'
<1> USE DEF IInv
<1> DEFINE length == Assembled(pkt) + pkt.length
           whole  == pkt.length # FragmentSize /\ length <= MaxSize
<1>1. /\ pkt.seq \in Nat /\ pkt.start \in Nat /\ pkt.length \in Nat /\ pkt.msg = pkt.seq
      /\ pkt.seq \in DOMAIN transmitted /\ incomingSequence < pkt.seq
  BY DEF Pieces, OutOfOrder, TypeOK
<1>2. fragmentSequence' = pkt.seq
  BY DEF ProcessFragment
<1>3. CASE Missed(pkt) \/ Illegal(pkt)
  <2>1. /\ fragmentLength' = Assembled(pkt)
        /\ UNCHANGED <<fragmentBuffer, incomingSequence, processed>>
    BY <1>3 DEF ProcessFragment
  <2>2. fragmentLength' \in 0 .. FragmentBufferSize
    BY <2>1 DEF Assembled, TypeOK
  <2>3. \A j \in 0 .. fragmentLength' - 1 :
           fragmentBuffer'[j] = [msg |-> fragmentSequence', pos |-> j]
    BY <1>2, <2>1 DEF Assembled, AssemblyIsPrefix
  <2>4. AssemblyIsPrefix'
    BY <2>2, <2>3 DEF AssemblyIsPrefix
  <2>5. Handed'
    BY <2>1 DEF Handed
  <2> QED BY <1>1, <1>2, <2>1, <2>2, <2>4, <2>5 DEF ReceiverTypeOK, TypeOK
<1>4. CASE ~ (Missed(pkt) \/ Illegal(pkt))
  <2>1. /\ length \in 0 .. FragmentBufferSize
        /\ Copied(pkt) \in [0 .. FragmentBufferSize - 1 -> Unit]
        /\ \A j \in 0 .. length - 1 : Copied(pkt)[j] = [msg |-> pkt.seq, pos |-> j]
    BY <1>4, CopiedIsPrefix
  <2>2. fragmentBuffer' = Copied(pkt)
    BY <1>4 DEF ProcessFragment
  <2>3. CASE whole
    <3>1. /\ fragmentLength' = 0 /\ incomingSequence' = pkt.seq
          /\ processed' = Append(processed, [j \in 0 .. length - 1 |-> fragmentBuffer'[j]])
      BY <1>4, <2>3 DEF ProcessFragment, Deliver
    <3>2. length = transmitted[pkt.seq] /\ pkt.seq < outgoingSequence
      <4>1. pkt.start + pkt.length = transmitted[pkt.seq] /\ pkt.seq < outgoingSequence
        BY <1>1, <2>3 DEF Pieces, TypeOK
      <4>2. Assembled(pkt) = pkt.start
        BY <1>4 DEF Missed
      <4> QED BY <4>1, <4>2
    <3>3. [j \in 0 .. length - 1 |-> fragmentBuffer'[j]] = Units(pkt.seq, 0, transmitted[pkt.seq])
      <4>1. \A j \in 0 .. length - 1 : fragmentBuffer'[j] = [msg |-> pkt.seq, pos |-> 0 + j]
        BY <2>1, <2>2
      <4> HIDE DEF length
      <4> QED BY <3>2, <4>1 DEF Units
    <3>4. Handed'
      BY <1>1, <3>1, <3>2, <3>3, HandedOn
    <3>5. AssemblyIsPrefix'
      BY <3>1 DEF AssemblyIsPrefix
    <3> QED BY <1>1, <1>2, <2>1, <2>2, <3>1, <3>4, <3>5 DEF ReceiverTypeOK
  <2>4. CASE ~ whole
    <3>1. fragmentLength' = length /\ UNCHANGED <<incomingSequence, processed>>
      BY <1>4, <2>4 DEF ProcessFragment
    <3>2. AssemblyIsPrefix'
      BY <1>2, <2>1, <2>2, <3>1 DEF AssemblyIsPrefix
    <3>3. Handed'
      BY <3>1 DEF Handed
    <3> QED BY <1>1, <1>2, <2>1, <2>2, <3>1, <3>2, <3>3 DEF ReceiverTypeOK, TypeOK
  <2> QED BY <2>3, <2>4
<1> QED BY <1>3, <1>4

\* Netchan_Process of what arrived, whichever way.
LEMMA DatagramProcessed ==
    ASSUME IInv, NEW pkt \in Slots, Netchan_Process(pkt)
    PROVE  /\ ReceiverTypeOK' /\ AssemblyIsPrefix' /\ Handed' /\ Sending'
           /\ UNCHANGED <<remoteType, senderVars, transmitted>>
<1> USE DEF IInv
<1>1. UNCHANGED <<remoteType, senderVars, transmitted>>
  BY DEF Netchan_Process
<1>2. Sending'
  BY <1>1 DEF Sending, senderVars
<1>3. CASE OutOfOrder(pkt)
  <2>1. UNCHANGED <<receiverVars, processed>>
    BY <1>3 DEF Netchan_Process
  <2> QED BY <1>1, <1>2, <2>1
          DEF receiverVars, senderVars, ReceiverTypeOK, TypeOK, AssemblyIsPrefix, Handed
<1>4. ASSUME ~ OutOfOrder(pkt)
      PROVE  pkt \in Pieces(transmitted, outgoingSequence)
  BY <1>4 DEF Slots, NoPacket, OutOfOrder, TypeOK
<1>5. CASE ~ OutOfOrder(pkt) /\ pkt.fragmented
  <2>1. ProcessFragment(pkt)
    BY <1>5 DEF Netchan_Process
  <2> QED BY <1>1, <1>2, <1>4, <1>5, <2>1, FragmentProcessed DEF senderVars
<1>6. CASE ~ OutOfOrder(pkt) /\ ~ pkt.fragmented
  <2>1. /\ incomingSequence' = pkt.seq
        /\ processed' = Append(processed, Units(pkt.msg, 0, pkt.length))
        /\ UNCHANGED <<fragmentSequence, fragmentLength, fragmentBuffer>>
    BY <1>6 DEF Netchan_Process, Deliver
  <2>2. /\ pkt.seq \in DOMAIN transmitted /\ pkt.msg = pkt.seq
        /\ pkt.length = transmitted[pkt.seq] /\ pkt.seq < outgoingSequence
        /\ incomingSequence < pkt.seq /\ pkt.seq \in Nat
    BY <1>4, <1>6 DEF Pieces, OutOfOrder, TypeOK
  <2>3. Handed'
    BY <1>1, <2>1, <2>2, HandedOn DEF senderVars
  <2>4. AssemblyIsPrefix'
    BY <2>1 DEF AssemblyIsPrefix
  <2> QED BY <1>1, <1>2, <2>1, <2>2, <2>3, <2>4 DEF ReceiverTypeOK, TypeOK
<1> QED BY <1>3, <1>5, <1>6

-----------------------------------------------------------------------------
(* The steps *)

\* Netchan_Setup at both ends.
LEMMA InitIInv == Init => IInv
<1> SUFFICES ASSUME Init PROVE IInv
  OBVIOUS
<1>1. TypeOK
  <2>1. fragmentBuffer \in [0 .. FragmentBufferSize - 1 -> Unit]
    BY DEF Init, Unit
  <2>2. loop \in [get : Nat, send : Nat, msgs : [0 .. MaxLoopback - 1 -> Packet]]
    <3>1. NoPacket \in Packet
      BY DEF NoPacket, Packet
    <3> QED BY <3>1 DEF Init
  <2>3. fragmentLength \in 0 .. FragmentBufferSize
    BY DEF Init
  <2>4. overrun \in BOOLEAN /\ unsentFragments \in BOOLEAN
    BY Zenon DEF Init
  <2>5. net \subseteq Packet /\ transmitted \in Seq(Nat)
    BY DEF Init
  <2>6. /\ outgoingSequence \in Nat /\ unsentFragmentStart \in Nat /\ unsentLength \in Nat
        /\ incomingSequence \in Nat /\ fragmentSequence \in Nat
    BY DEF Init
  <2>7. remoteType \in {"NA_IP", "NA_LOOPBACK"}
    BY DEF Init
  <2> QED BY <2>1, <2>2, <2>3, <2>4, <2>5, <2>6, <2>7, Zenon DEF TypeOK
<1>2. Sending
  BY DEF Init, Sending
<1>3. Carried
  BY DEF Init, Carried, Slots
<1>4. AssemblyIsPrefix
  BY DEF Init, AssemblyIsPrefix
<1>5. Handed
  BY DEF Init, Handed
<1> QED BY <1>1, <1>2, <1>3, <1>4, <1>5 DEF IInv

\* A step of the sender disturbs nothing at the receiver, and adds messages only.
LEMMA ReceiverUndisturbed ==
    ASSUME IInv, UNCHANGED <<receiverVars, processed>>,
           NEW T \in Seq(Nat \ {0}), transmitted' = T,
           \A i \in DOMAIN transmitted : i \in DOMAIN T /\ T[i] = transmitted[i],
           outgoingSequence' \in Nat, outgoingSequence <= outgoingSequence'
    PROVE  AssemblyIsPrefix' /\ Handed'
<1> USE DEF IInv
<1>1. AssemblyIsPrefix'
  BY DEF AssemblyIsPrefix, receiverVars
<1>2. incomingSequence' < outgoingSequence'
  BY DEF Handed, TypeOK, receiverVars
<1>3. \A i \in DOMAIN processed : \E m \in DOMAIN T :
         m <= incomingSequence /\ processed[i] = Units(m, 0, T[m])
  <2> SUFFICES ASSUME NEW i \in DOMAIN processed
               PROVE  \E m \in DOMAIN T :
                         m <= incomingSequence /\ processed[i] = Units(m, 0, T[m])
    OBVIOUS
  <2>1. PICK m \in DOMAIN transmitted :
           m <= incomingSequence /\ processed[i] = Units(m, 0, transmitted[m])
    BY DEF Handed
  <2> QED BY <2>1
<1> QED BY <1>1, <1>2, <1>3 DEF Handed, receiverVars

\* A new message: its first fragment, or all of it.
LEMMA TransmitIInv ==
    ASSUME IInv, NEW length \in Lengths, Netchan_Transmit(length)
    PROVE  IInv'
<1> USE DEF IInv
<1> DEFINE T == Append(transmitted, length)
           m == Len(transmitted) + 1
<1>1. length \in Nat \ {0}
  OBVIOUS
<1>2. /\ transmitted' = T /\ ~ unsentFragments
      /\ UNCHANGED <<remoteType, receiverVars, processed>>
  BY DEF Netchan_Transmit
<1>3. /\ T \in Seq(Nat \ {0}) /\ Len(T) = m /\ T[m] = length /\ m \in Nat /\ m >= 1
      /\ \A i \in DOMAIN transmitted : i \in DOMAIN T /\ T[i] = transmitted[i]
  BY <1>1 DEF Sending
<1>4. outgoingSequence = m
  BY <1>2 DEF Sending
<1>5. CASE length >= FragmentSize
  <2>1. unsentLength' = length /\ SendFragment(m, 0, length)
    BY <1>5 DEF Netchan_Transmit
  <2> HIDE DEF T, m
  <2>2. /\ Sending' /\ Carried'
        /\ outgoingSequence' \in Nat /\ outgoingSequence <= outgoingSequence'
        /\ unsentFragmentStart' \in Nat /\ unsentFragments' \in BOOLEAN
        /\ unsentLength' \in Nat
        /\ net' \subseteq Packet
        /\ loop' \in [get : Nat, send : Nat, msgs : [0 .. MaxLoopback - 1 -> Packet]]
        /\ overrun' = overrun
    <3>1. transmitted \in Seq(Nat \ {0}) /\ 0 <= T[m] /\ SendFragment(m, 0, T[m])
      BY <1>1, <1>3, <2>1 DEF Sending
    <3> QED BY <1>2, <1>3, <1>4, <2>1, <3>1, FragmentSent
  <2>3. AssemblyIsPrefix' /\ Handed'
    BY <1>2, <1>3, <2>2, ReceiverUndisturbed
  <2>4. transmitted' \in Seq(Nat)
    BY <1>2, <1>3
  <2>5. TypeOK'
    BY <1>2, <2>2, <2>4 DEF TypeOK, receiverVars
  <2> QED BY <2>2, <2>3, <2>5
<1>6. CASE ~ (length >= FragmentSize)
  <2> DEFINE pkt == [seq |-> outgoingSequence, fragmented |-> FALSE,
                     start |-> 0, length |-> length, msg |-> m]
             S == Slots'
  <2>1. /\ NET_SendPacket(pkt)
        /\ outgoingSequence' = outgoingSequence + 1
        /\ unsentFragmentStart' = 0
        /\ UNCHANGED <<unsentFragments, unsentLength>>
    BY <1>6 DEF Netchan_Transmit
  <2> HIDE DEF T, m
  <2>2. outgoingSequence' \in Nat /\ outgoingSequence <= outgoingSequence'
    BY <2>1 DEF TypeOK
  <2>3. Sending'
    BY <1>2, <1>3, <1>4, <2>1 DEF Sending
  <2>4. pkt \in S /\ pkt \in Packet
    <3>1. m \in DOMAIN T
      BY <1>3
    <3> QED BY <1>1, <1>2, <1>3, <1>4, <2>1, <3>1 DEF Slots, Pieces, Packet
  <2>5. net \subseteq S /\ loop.msgs \in [0 .. MaxLoopback - 1 -> S]
    <3>1. Slots \subseteq S
      BY <1>2, <1>3, <2>2, PiecesStay DEF Slots, Sending, TypeOK
    <3> QED BY <3>1 DEF Carried
  <2> HIDE DEF pkt, S
  <2>6. /\ net' \subseteq S
        /\ loop'.msgs \in [0 .. MaxLoopback - 1 -> S]
        /\ net' \subseteq Packet
        /\ loop' \in [get : Nat, send : Nat, msgs : [0 .. MaxLoopback - 1 -> Packet]]
        /\ overrun' = overrun
    BY <2>1, <2>4, <2>5, SendCarries
  <2>7. Carried'
    BY <2>6 DEF Carried, S
  <2>8. AssemblyIsPrefix' /\ Handed'
    BY <1>2, <1>3, <2>2, ReceiverUndisturbed
  <2>9. transmitted' \in Seq(Nat)
    BY <1>2, <1>3
  <2>10. TypeOK'
    BY <1>2, <2>1, <2>2, <2>6, <2>9 DEF TypeOK, receiverVars
  <2> QED BY <2>3, <2>7, <2>8, <2>10
<1> QED BY <1>5, <1>6

\* The next fragment of the message under way.
LEMMA TransmitNextFragmentIInv ==
    ASSUME IInv, Netchan_TransmitNextFragment
    PROVE  IInv'
<1> USE DEF IInv
<1> DEFINE T == transmitted
           m == Len(transmitted)
<1>1. /\ transmitted' = T /\ UNCHANGED <<remoteType, unsentLength, receiverVars, processed>>
      /\ unsentFragments /\ SendFragment(m, unsentFragmentStart, unsentLength)
  BY DEF Netchan_TransmitNextFragment
<1>2. /\ T \in Seq(Nat \ {0}) /\ Len(T) = m /\ m \in Nat /\ m >= 1
      /\ \A i \in DOMAIN transmitted : i \in DOMAIN T /\ T[i] = transmitted[i]
      /\ unsentLength = T[m] /\ unsentFragmentStart <= T[m]
      /\ outgoingSequence = m /\ unsentFragmentStart \in Nat
  BY <1>1 DEF Sending, TypeOK
<1>3. unsentLength' = T[m] /\ SendFragment(m, unsentFragmentStart, T[m])
  BY <1>1, <1>2
<1>4. transmitted \in Seq(Nat \ {0})
  BY DEF Sending
<1> HIDE DEF T, m
<1>5. /\ Sending' /\ Carried'
      /\ outgoingSequence' \in Nat /\ outgoingSequence <= outgoingSequence'
      /\ unsentFragmentStart' \in Nat /\ unsentFragments' \in BOOLEAN
      /\ unsentLength' \in Nat
      /\ net' \subseteq Packet
      /\ loop' \in [get : Nat, send : Nat, msgs : [0 .. MaxLoopback - 1 -> Packet]]
      /\ overrun' = overrun
  BY <1>1, <1>2, <1>3, <1>4, FragmentSent
<1>6. AssemblyIsPrefix' /\ Handed'
  BY <1>1, <1>2, <1>5, ReceiverUndisturbed
<1>7. transmitted' \in Seq(Nat)
  BY <1>1, <1>2
<1>8. TypeOK'
  BY <1>1, <1>5, <1>7 DEF TypeOK, receiverVars
<1> QED BY <1>5, <1>6, <1>8

\* What carries over a step of the receiver or of the network.
LEMMA ReceivedIInv ==
    ASSUME IInv, ReceiverTypeOK', AssemblyIsPrefix', Handed', Sending',
           UNCHANGED <<remoteType, senderVars, transmitted>>,
           net' \subseteq net, overrun' \in BOOLEAN,
           loop'.msgs = loop.msgs,
           loop' \in [get : Nat, send : Nat, msgs : [0 .. MaxLoopback - 1 -> Packet]]
    PROVE  IInv'
<1>1. Carried'
  BY DEF IInv, Carried, Slots, senderVars
<1>2. TypeOK'
  BY DEF IInv, TypeOK, ReceiverTypeOK, senderVars
<1> QED BY <1>1, <1>2 DEF IInv

\* A datagram from UDP, once or again.
LEMMA GetPacketIInv ==
    ASSUME IInv, NEW pkt \in net, NET_GetPacket(pkt)
    PROVE  IInv'
<1>1. pkt \in Slots /\ Netchan_Process(pkt)
  BY DEF IInv, Carried, NET_GetPacket
<1>2. /\ ReceiverTypeOK' /\ AssemblyIsPrefix' /\ Handed' /\ Sending'
      /\ UNCHANGED <<remoteType, senderVars, transmitted>>
  BY <1>1, DatagramProcessed
<1>3. net' \subseteq net /\ UNCHANGED <<loop, overrun>>
  BY DEF NET_GetPacket
<1>4. /\ loop' \in [get : Nat, send : Nat, msgs : [0 .. MaxLoopback - 1 -> Packet]]
      /\ overrun' \in BOOLEAN
  BY <1>3 DEF IInv, TypeOK
<1> QED BY <1>2, <1>3, <1>4, ReceivedIInv

\* A datagram from the ring: written in this lap or an earlier one.
LEMMA GetLoopPacketIInv ==
    ASSUME IInv, NET_GetLoopPacket
    PROVE  IInv'
<1>1. LoopGet \in Nat
  BY DEF LoopGet, IInv, TypeOK
<1>2. LoopGet % MaxLoopback \in 0 .. MaxLoopback - 1
  BY <1>1, ModRange
<1>3. loop.msgs[LoopGet % MaxLoopback] \in Slots
  BY <1>2 DEF IInv, Carried
<1>4. /\ loop' = [loop EXCEPT !.get = LoopGet + 1]
      /\ overrun' = (overrun \/ LoopGet # loop.get)
      /\ Netchan_Process(loop.msgs[LoopGet % MaxLoopback])
      /\ UNCHANGED net
  BY DEF NET_GetLoopPacket
<1>5. /\ ReceiverTypeOK' /\ AssemblyIsPrefix' /\ Handed' /\ Sending'
      /\ UNCHANGED <<remoteType, senderVars, transmitted>>
  BY <1>3, <1>4, DatagramProcessed
<1>6. /\ loop'.msgs = loop.msgs
      /\ loop' \in [get : Nat, send : Nat, msgs : [0 .. MaxLoopback - 1 -> Packet]]
  <2>1. loop' = [get |-> LoopGet + 1, send |-> loop.send, msgs |-> loop.msgs]
    BY <1>4 DEF IInv, TypeOK
  <2> QED BY <1>1, <2>1 DEF IInv, TypeOK
<1>7. net' \subseteq net /\ overrun' \in BOOLEAN
  BY <1>4 DEF IInv, TypeOK
<1> QED BY <1>5, <1>6, <1>7, ReceivedIInv

\* Losing a datagram, and a step of nobody.
LEMMA UntouchedIInv ==
    ASSUME IInv, net' \subseteq net,
           UNCHANGED <<remoteType, senderVars, receiverVars, loop, overrun, transmitted, processed>>
    PROVE  IInv'
<1> USE DEF IInv, senderVars, receiverVars
<1>1. ReceiverTypeOK'
  BY DEF ReceiverTypeOK, TypeOK
<1>2. AssemblyIsPrefix'
  BY DEF AssemblyIsPrefix
<1>3. Handed'
  BY DEF Handed
<1>4. Sending'
  BY DEF Sending
<1>5. /\ loop'.msgs = loop.msgs /\ overrun' \in BOOLEAN
      /\ loop' \in [get : Nat, send : Nat, msgs : [0 .. MaxLoopback - 1 -> Packet]]
  BY DEF TypeOK
<1> QED BY <1>1, <1>2, <1>3, <1>4, <1>5, ReceivedIInv

\* The step of the induction.
LEMMA NextIInv == IInv /\ [Next]_vars => IInv'
<1> SUFFICES ASSUME IInv, [Next]_vars PROVE IInv'
  OBVIOUS
<1>1. ASSUME NEW length \in Lengths, Netchan_Transmit(length) PROVE IInv'
  BY <1>1, TransmitIInv
<1>2. CASE Netchan_TransmitNextFragment
  BY <1>2, TransmitNextFragmentIInv
<1>3. ASSUME NEW pkt \in net, NET_GetPacket(pkt) PROVE IInv'
  BY <1>3, GetPacketIInv
<1>4. CASE NET_GetLoopPacket
  BY <1>4, GetLoopPacketIInv
<1>5. ASSUME NEW pkt \in net, Lose(pkt) PROVE IInv'
  <2>1. /\ net' \subseteq net
        /\ UNCHANGED <<remoteType, senderVars, receiverVars, loop, overrun, transmitted,
                        processed>>
    BY <1>5 DEF Lose
  <2> QED BY <2>1, UntouchedIInv
<1>6. CASE UNCHANGED vars
  <2>1. /\ net' \subseteq net
        /\ UNCHANGED <<remoteType, senderVars, receiverVars, loop, overrun, transmitted,
                        processed>>
    BY <1>6 DEF vars, netVars
  <2> QED BY <2>1, UntouchedIInv
<1> QED BY <1>1, <1>2, <1>3, <1>4, <1>5, <1>6 DEF Next

-----------------------------------------------------------------------------
(* The theorems *)

\* The channel keeps its inductive invariant: all that is under way are pieces of the
\* messages transmitted, and what is assembled or handed on was put together from them.
THEOREM Invariance == Spec => []IInv
<1>1. Init => IInv
  BY InitIInv
<1>2. IInv /\ [Next]_vars => IInv'
  BY NextIInv
<1> QED BY <1>1, <1>2, PTL DEF Spec

\* Every field keeps its range; what is assembled fits the buffer of Netchan_Process.
THEOREM TypeCorrect == Spec => []TypeOK
<1>1. IInv => TypeOK
  BY DEF IInv
<1> QED BY <1>1, Invariance, PTL

\* What Netchan_Process has put together so far is the beginning of the message with the
\* sequence number it is at, whatever came, came twice or did not come.
THEOREM AssembledInOrder == Spec => []AssemblyIsPrefix
<1>1. IInv => AssemblyIsPrefix
  BY DEF IInv
<1> QED BY <1>1, Invariance, PTL

\* What Netchan_Process hands on are whole messages, each as it was given to
\* Netchan_Transmit, at most once and in the order of transmission.
THEOREM HandedOnAsTransmitted == Spec => []ProcessedAsTransmitted
<1>1. IInv => ProcessedAsTransmitted
  <2> SUFFICES ASSUME IInv PROVE ProcessedAsTransmitted
    OBVIOUS
  <2>1. WholeMessages
    BY DEF IInv, Handed, WholeMessages
  <2>2. OnceInOrder
    BY DEF IInv, Handed, OnceInOrder
  <2> QED BY <2>1, <2>2 DEF ProcessedAsTransmitted
<1> QED BY <1>1, Invariance, PTL

-----------------------------------------------------------------------------
(* The ring *)

Before(seq1, start1, seq2, start2) == seq1 < seq2 \/ (seq1 = seq2 /\ start1 < start2)

\* Where the sender will go on, next to outgoingSequence.
NextStart == IF unsentFragments THEN unsentFragmentStart ELSE 0

\* The datagrams in the ring that were not overwritten.
Window == {i \in Nat : i < loop.send /\ loop.send <= i + MaxLoopback}

Slot(i) == loop.msgs[i % MaxLoopback]

\* The ring holds datagrams in the order they were cut from the messages.
RingOrdered ==
    /\ \A i \in Window : Before(Slot(i).seq, Slot(i).start, outgoingSequence, NextStart)
    /\ \A i, k \in Window :
          i < k => Before(Slot(i).seq, Slot(i).start, Slot(k).seq, Slot(k).start)

\* Sending overwrites the oldest datagram of a full ring and no other.
LEMMA RingSent ==
    ASSUME TypeOK, RingOrdered, NEW pkt \in Packet,
           pkt.seq = outgoingSequence, pkt.start = NextStart, NET_SendPacket(pkt),
           outgoingSequence' \in Nat, NextStart' \in Nat,
           Before(outgoingSequence, NextStart, outgoingSequence', NextStart')
    PROVE  RingOrdered'
<1>1. NextStart \in Nat /\ outgoingSequence \in Nat
  BY DEF NextStart, TypeOK
<1>2. \A i \in Window : Slot(i).seq \in Nat /\ Slot(i).start \in Nat
  <2> SUFFICES ASSUME NEW i \in Window PROVE Slot(i).seq \in Nat /\ Slot(i).start \in Nat
    OBVIOUS
  <2>1. i % MaxLoopback \in 0 .. MaxLoopback - 1
    BY ModRange DEF Window
  <2>2. Slot(i) \in Packet
    BY <2>1 DEF Slot, TypeOK
  <2> QED BY <2>2 DEF Packet
<1>3. CASE Sys_SendPacket(pkt)
  <2>1. Window' = Window /\ \A i \in Window : Slot(i)' = Slot(i)
    BY <1>3 DEF Sys_SendPacket, Window, Slot
  <2>2. \A i \in Window : Before(Slot(i).seq, Slot(i).start, outgoingSequence', NextStart')
    BY <1>1, <1>2 DEF RingOrdered, Before
  <2> QED BY <2>1, <2>2 DEF RingOrdered
<1>4. CASE SendLoopPacket(pkt)
  <2>1. loop' = [get |-> loop.get, send |-> loop.send + 1,
                 msgs |-> [loop.msgs EXCEPT ![loop.send % MaxLoopback] = pkt]]
    BY <1>4 DEF SendLoopPacket, TypeOK
  <2>2. PICK s \in Nat : loop.send = s /\ loop'.send = s + 1
    BY <2>1 DEF TypeOK
  <2>3. \A i \in Window' : i = s \/ (i \in Window /\ i \in Nat /\ i < s /\ s < i + MaxLoopback)
    BY <2>2 DEF Window
  <2>4. Slot(s)' = pkt
    <3>1. s % MaxLoopback \in 0 .. MaxLoopback - 1
      BY ModRange
    <3>2. loop'.msgs[s % MaxLoopback] = pkt
      BY <2>1, <2>2, <3>1 DEF TypeOK
    <3> QED BY <3>2 DEF Slot
  <2>5. \A i \in Window' : i # s => Slot(i)' = Slot(i)
    <3> SUFFICES ASSUME NEW i \in Window', i # s PROVE Slot(i)' = Slot(i)
      OBVIOUS
    <3>1. i \in Nat /\ i < s /\ s < i + MaxLoopback
      BY <2>3 DEF Window
    <3>2. i % MaxLoopback # s % MaxLoopback
      BY <3>1, ModDistinct
    <3>3. i % MaxLoopback \in 0 .. MaxLoopback - 1
      BY <3>1, ModRange
    <3> QED BY <2>1, <2>2, <3>2, <3>3 DEF Slot, TypeOK
  <2>6. ASSUME NEW i \in Window'
        PROVE  Before(Slot(i)'.seq, Slot(i)'.start, outgoingSequence', NextStart')
    <3>1. CASE i = s
      BY <2>4, <3>1
    <3>2. CASE i # s
      <4>1. i \in Window /\ Slot(i)' = Slot(i)
        BY <2>3, <2>5, <2>6, <3>2
      <4>2. Before(Slot(i).seq, Slot(i).start, outgoingSequence, NextStart)
        BY <4>1 DEF RingOrdered
      <4> QED BY <1>1, <1>2, <4>1, <4>2 DEF Before
    <3> QED BY <3>1, <3>2
  <2>7. ASSUME NEW i \in Window', NEW k \in Window', i < k
        PROVE  Before(Slot(i)'.seq, Slot(i)'.start, Slot(k)'.seq, Slot(k)'.start)
    <3>1. i \in Window /\ Slot(i)' = Slot(i)
      BY <2>2, <2>3, <2>5, <2>7 DEF Window
    <3>2. CASE k = s
      BY <2>4, <3>1, <3>2 DEF RingOrdered
    <3>3. CASE k # s
      <4>1. k \in Window /\ Slot(k)' = Slot(k)
        BY <2>3, <2>5, <2>7, <3>3
      <4> QED BY <2>7, <3>1, <4>1 DEF RingOrdered
    <3> QED BY <3>2, <3>3
  <2> QED BY <2>6, <2>7 DEF RingOrdered
<1> QED BY <1>3, <1>4 DEF NET_SendPacket

\* A fragment: the sender goes on where it ends, or at the next message.
LEMMA RingFragment ==
    ASSUME TypeOK, RingOrdered, TypeOK',
           NEW m, NEW start \in Nat, NEW length \in Nat, start <= length,
           NextStart = start, SendFragment(m, start, length), m \in Nat
    PROVE  RingOrdered'
<1> DEFINE short == start + FragmentSize > length
           n == IF short THEN length - start ELSE FragmentSize
           pkt == [seq |-> outgoingSequence, fragmented |-> TRUE,
                   start |-> start, length |-> n, msg |-> m]
<1>1. n \in Nat /\ (short => start + n = length)
  OBVIOUS
<1>2. /\ outgoingSequence' = IF short THEN outgoingSequence + 1 ELSE outgoingSequence
      /\ unsentFragments' = ~ short
      /\ unsentFragmentStart' = start + n
      /\ NET_SendPacket(pkt)
  BY <1>1 DEF SendFragment
<1>3. outgoingSequence \in Nat /\ outgoingSequence' \in Nat
  BY DEF TypeOK
<1>4. pkt \in Packet /\ pkt.seq = outgoingSequence /\ pkt.start = NextStart
  BY <1>1, <1>3 DEF Packet
<1>5. NextStart' \in Nat /\ Before(outgoingSequence, NextStart, outgoingSequence', NextStart')
  <2>1. CASE short
    <3>1. ~ unsentFragments' /\ outgoingSequence' = outgoingSequence + 1
      BY <1>2, <2>1
    <3> QED BY <1>3, <3>1 DEF NextStart, Before
  <2>2. CASE ~ short
    <3>1. /\ unsentFragments' /\ outgoingSequence' = outgoingSequence
          /\ unsentFragmentStart' = start + FragmentSize
      BY <1>2, <2>2
    <3>2. NextStart' = start + FragmentSize
      BY <3>1 DEF NextStart
    <3>3. start + FragmentSize \in Nat /\ start < start + FragmentSize
      OBVIOUS
    <3>4. NextStart' \in Nat /\ NextStart < NextStart'
      BY <3>2, <3>3, Zenon
    <3> QED BY <3>1, <3>4, Zenon DEF Before
  <2> QED BY <2>1, <2>2
<1> HIDE DEF pkt
<1> QED BY <1>2, <1>3, <1>4, <1>5, RingSent

\* A step that writes nothing into the ring and sends nothing.
LEMMA RingUntouched ==
    ASSUME RingOrdered, UNCHANGED senderVars, loop'.msgs = loop.msgs, loop'.send = loop.send
    PROVE  RingOrdered'
BY DEF RingOrdered, Window, Slot, NextStart, senderVars

LEMMA NextRing ==
    ASSUME IInv, IInv', RingOrdered, [Next]_vars
    PROVE  RingOrdered'
<1> USE DEF IInv
<1>1. ASSUME NEW length \in Lengths, Netchan_Transmit(length) PROVE RingOrdered'
  <2>1. length \in Nat /\ NextStart = 0 /\ Len(transmitted) + 1 \in Nat
    BY <1>1 DEF Netchan_Transmit, NextStart, TypeOK
  <2>2. CASE length >= FragmentSize
    <3>1. SendFragment(Len(transmitted) + 1, 0, length)
      BY <1>1, <2>2 DEF Netchan_Transmit
    <3> QED BY <2>1, <3>1, RingFragment
  <2>3. CASE ~ (length >= FragmentSize)
    <3> DEFINE pkt == [seq |-> outgoingSequence, fragmented |-> FALSE, start |-> 0,
                       length |-> length, msg |-> Len(transmitted) + 1]
    <3>1. /\ NET_SendPacket(pkt)
          /\ outgoingSequence' = outgoingSequence + 1
          /\ unsentFragmentStart' = 0
      BY <1>1, <2>3 DEF Netchan_Transmit
    <3>2. pkt \in Packet /\ pkt.seq = outgoingSequence /\ pkt.start = NextStart
      BY <2>1 DEF Packet, TypeOK
    <3>3. NextStart' = 0
      BY <3>1 DEF NextStart
    <3>4. Before(outgoingSequence, NextStart, outgoingSequence', NextStart')
      <4>1. outgoingSequence < outgoingSequence'
        BY <3>1 DEF TypeOK
      <4> QED BY <4>1, Zenon DEF Before
    <3>5. outgoingSequence' \in Nat /\ NextStart' \in Nat
      BY <3>3 DEF TypeOK
    <3> HIDE DEF pkt
    <3> QED BY <3>1, <3>2, <3>4, <3>5, RingSent
  <2> QED BY <2>2, <2>3
<1>2. CASE Netchan_TransmitNextFragment
  <2>1. /\ unsentFragments
        /\ SendFragment(Len(transmitted), unsentFragmentStart, unsentLength)
    BY <1>2 DEF Netchan_TransmitNextFragment
  <2>2. NextStart = unsentFragmentStart
    BY <2>1 DEF NextStart
  <2>3. /\ unsentFragmentStart \in Nat /\ unsentLength \in Nat /\ Len(transmitted) \in Nat
        /\ unsentFragmentStart <= unsentLength
    BY <2>1 DEF TypeOK, Sending
  <2> QED BY <2>1, <2>2, <2>3, RingFragment
<1>3. ASSUME NEW pkt \in net, NET_GetPacket(pkt) PROVE RingOrdered'
  BY <1>3, RingUntouched DEF NET_GetPacket, Netchan_Process
<1>4. CASE NET_GetLoopPacket
  <2>1. UNCHANGED senderVars /\ loop' = [loop EXCEPT !.get = LoopGet + 1]
    BY <1>4 DEF NET_GetLoopPacket, Netchan_Process
  <2>2. loop'.msgs = loop.msgs /\ loop'.send = loop.send
    BY <2>1 DEF TypeOK
  <2> QED BY <2>1, <2>2, RingUntouched
<1>5. ASSUME NEW pkt \in net, Lose(pkt) PROVE RingOrdered'
  BY <1>5, RingUntouched DEF Lose
<1>6. CASE UNCHANGED vars
  BY <1>6, RingUntouched DEF vars, netVars
<1> QED BY <1>1, <1>2, <1>3, <1>4, <1>5, <1>6 DEF Next

\* What is read from the ring next comes before all that is left in it.
LEMMA ReadInOrder ==
    ASSUME TypeOK, RingOrdered, LoopGet < loop.send, loop' = [loop EXCEPT !.get = LoopGet + 1],
           NEW i \in loop'.get .. loop.send - 1
    PROVE  LET next == loop.msgs[i % MaxLoopback]
               this == loop.msgs[(loop'.get - 1) % MaxLoopback]
           IN  <<this.seq, this.start>> # <<next.seq, next.start>> /\ this.seq <= next.seq
<1>1. loop'.get = LoopGet + 1 /\ LoopGet \in Nat /\ loop.send \in Nat
      /\ loop.send <= LoopGet + MaxLoopback
  <2>1. loop = [get |-> loop.get, send |-> loop.send, msgs |-> loop.msgs]
        /\ loop.get \in Nat /\ loop.send \in Nat
    BY DEF TypeOK
  <2>2. LoopGet \in Nat /\ loop.send <= LoopGet + MaxLoopback
    BY <2>1 DEF LoopGet
  <2>3. loop'.get = LoopGet + 1
    BY <2>1
  <2> QED BY <2>1, <2>2, <2>3
<1>2. PICK g \in Nat : LoopGet = g
  BY <1>1
<1>3. i \in Window /\ g \in Window /\ g < i /\ loop'.get - 1 = g
  BY <1>1, <1>2 DEF Window
<1>4. Before(Slot(g).seq, Slot(g).start, Slot(i).seq, Slot(i).start)
  BY <1>3 DEF RingOrdered
<1>5. \A k \in Window : Slot(k).seq \in Nat /\ Slot(k).start \in Nat
  <2> SUFFICES ASSUME NEW k \in Window PROVE Slot(k) \in Packet
    BY DEF Packet
  <2>1. k % MaxLoopback \in 0 .. MaxLoopback - 1
    BY ModRange DEF Window
  <2> QED BY <2>1 DEF Slot, TypeOK
<1>6. Slot(g).seq <= Slot(i).seq /\ (Slot(g).seq # Slot(i).seq \/ Slot(g).start # Slot(i).start)
  BY <1>3, <1>4, <1>5 DEF Before
<1> QED BY <1>3, <1>6 DEF Slot

\* A reader of the loopback ring that fell behind, and finds a datagram it had to read
\* next overwritten, goes on with the oldest one that is left: it never reads a later
\* datagram before an earlier one (NET_GetLoopPacket, NET_SendLoopPacket).
THEOREM LoopbackReadInOrder == Spec => LoopbackInOrder
<1> DEFINE Ordered(i) ==
              LET next == loop.msgs[i % MaxLoopback]
                  this == loop.msgs[(loop'.get - 1) % MaxLoopback]
              IN  <<this.seq, this.start>> # <<next.seq, next.start>> /\ this.seq <= next.seq
           Step == loop'.get # loop.get => \A i \in loop'.get .. loop.send - 1 : Ordered(i)
<1>1. Init => RingOrdered
  <2> SUFFICES ASSUME Init PROVE RingOrdered
    OBVIOUS
  <2>1. Window = {}
    BY DEF Init, Window
  <2> QED BY <2>1 DEF RingOrdered
<1>2. IInv /\ IInv' /\ RingOrdered /\ [Next]_vars => RingOrdered'
  BY NextRing
<1>3. IInv /\ RingOrdered /\ [Next]_vars => [Step]_vars
  <2> SUFFICES ASSUME IInv, RingOrdered, Next, loop'.get # loop.get,
                      NEW i \in loop'.get .. loop.send - 1
               PROVE  Ordered(i)
    BY DEF vars
  <2>1. NET_GetLoopPacket
    <3>1. \A pkt : NET_SendPacket(pkt) => loop'.get = loop.get
      BY DEF NET_SendPacket, SendLoopPacket, Sys_SendPacket, IInv, TypeOK
    <3>2. \A length \in Lengths : ~ Netchan_Transmit(length)
      BY <3>1 DEF Netchan_Transmit, SendFragment
    <3>3. ~ Netchan_TransmitNextFragment
      BY <3>1 DEF Netchan_TransmitNextFragment, SendFragment
    <3> QED BY <3>2, <3>3 DEF Next, NET_GetPacket, Lose
  <2> QED BY <2>1, ReadInOrder DEF NET_GetLoopPacket, IInv
<1> QED BY <1>1, <1>2, <1>3, Invariance, PTL DEF Spec, LoopbackInOrder

-----------------------------------------------------------------------------
(* Nothing is lost on loopback *)

\* No datagram of the ring was overwritten before it was read.
Lossless ==
    remoteType = "NA_LOOPBACK" /\ ~ overrun /\ loop.send <= loop.get + MaxLoopback

\* All messages fit the buffers of the processing end.
Fits ==
    \A m \in DOMAIN transmitted :
        transmitted[m] <= FragmentBufferSize /\ transmitted[m] <= MaxSize

\* Where datagram i of the ring is in the messages; the one to be sent next is where the
\* sender goes on.
SeqAt(i) == IF i = loop.send THEN outgoingSequence ELSE Slot(i).seq
StartAt(i) == IF i = loop.send THEN NextStart ELSE Slot(i).start

Ends(pkt) == ~ pkt.fragmented \/ pkt.length # FragmentSize

\* The datagram after one goes on where that one ends.
Linked(i) ==
    /\ Slot(i).seq \in DOMAIN transmitted
    /\ Slot(i).fragmented => Slot(i).start + Slot(i).length <= transmitted[Slot(i).seq]
    /\ SeqAt(i + 1) = IF Ends(Slot(i)) THEN Slot(i).seq + 1 ELSE Slot(i).seq
    /\ StartAt(i + 1) = IF Ends(Slot(i)) THEN 0 ELSE Slot(i).start + FragmentSize

\* The receiver is where the next datagram of the ring begins.
Expecting(seq, start) ==
    /\ incomingSequence = seq - 1 /\ Len(processed) = seq - 1
    /\ fragmentSequence <= seq
    /\ start = IF fragmentSequence = seq THEN fragmentLength ELSE 0

RingInv ==
    /\ remoteType = "NA_LOOPBACK" => net = {}
    /\ Lossless =>
           /\ loop.get <= loop.send
           /\ \A i \in loop.get .. loop.send - 1 : Linked(i)
           /\ Fits => Expecting(SeqAt(loop.get), StartAt(loop.get))

LEMMA AppendLen ==
    ASSUME NEW S, NEW s \in Seq(S), NEW e
    PROVE  Len(Append(s, e)) = Len(s) + 1
<1> DEFINE T == S \cup {e}
<1>1. S \subseteq T /\ e \in T
  OBVIOUS
<1> HIDE DEF T
<1>2. s \in Seq(T)
  BY <1>1
<1> QED BY <1>1, <1>2

\* A datagram that is sent begins where the last one in the ring ended.
LEMMA LinkSent ==
    ASSUME TypeOK, RingInv, NEW pkt \in Packet, pkt.seq = outgoingSequence,
           pkt.start = NextStart, NET_SendPacket(pkt),
           outgoingSequence' = IF Ends(pkt) THEN pkt.seq + 1 ELSE pkt.seq,
           NextStart' = IF Ends(pkt) THEN 0 ELSE pkt.start + FragmentSize,
           pkt.seq \in DOMAIN transmitted',
           pkt.fragmented => pkt.start + pkt.length <= transmitted'[pkt.seq],
           \A m \in DOMAIN transmitted : m \in DOMAIN transmitted' /\ transmitted'[m] = transmitted[m],
           UNCHANGED <<remoteType, incomingSequence, fragmentSequence, fragmentLength, processed>>
    PROVE  RingInv'
<1>1. CASE remoteType # "NA_LOOPBACK"
  BY <1>1 DEF RingInv, Lossless
<1>2. CASE remoteType = "NA_LOOPBACK"
  <2>1. /\ UNCHANGED <<net, overrun>>
        /\ loop' = [get |-> loop.get, send |-> loop.send + 1,
                    msgs |-> [loop.msgs EXCEPT ![loop.send % MaxLoopback] = pkt]]
    BY <1>2 DEF NET_SendPacket, SendLoopPacket, TypeOK
  <2>2. PICK s \in Nat : loop.send = s
    BY DEF TypeOK
  <2>3. PICK g \in Nat : loop.get = g
    BY DEF TypeOK
  <2>4. loop'.get = g /\ loop'.send = s + 1 /\ loop'.msgs = [loop.msgs EXCEPT ![s % MaxLoopback] = pkt]
    BY <2>1, <2>2, <2>3
  <2>5. SUFFICES ASSUME Lossless'
                 PROVE  /\ g <= s + 1
                        /\ \A i \in g .. s : Linked(i)'
                        /\ Fits' => Expecting(SeqAt(g), StartAt(g))'
    BY <2>1, <2>4 DEF RingInv
  <2>6. Lossless /\ s < g + MaxLoopback /\ g <= s
    BY <2>1, <2>2, <2>3, <2>4, <2>5 DEF Lossless, RingInv
  <2>7. \A i \in g .. s - 1 : Slot(i)' = Slot(i)
    <3> SUFFICES ASSUME NEW i \in g .. s - 1 PROVE Slot(i)' = Slot(i)
      OBVIOUS
    <3>1. i \in Nat /\ i < s /\ s < i + MaxLoopback
      BY <2>6
    <3>2. i % MaxLoopback # s % MaxLoopback
      BY <3>1, ModDistinct
    <3>3. i % MaxLoopback \in 0 .. MaxLoopback - 1
      BY <3>1, ModRange
    <3> QED BY <2>4, <3>2, <3>3 DEF Slot, TypeOK
  <2>8. Slot(s)' = pkt
    <3>1. s % MaxLoopback \in 0 .. MaxLoopback - 1
      BY ModRange
    <3> QED BY <2>4, <3>1 DEF Slot, TypeOK
  <2>9. \A i \in g .. s : SeqAt(i)' = SeqAt(i) /\ StartAt(i)' = StartAt(i)
    <3> SUFFICES ASSUME NEW i \in g .. s PROVE SeqAt(i)' = SeqAt(i) /\ StartAt(i)' = StartAt(i)
      OBVIOUS
    <3>1. i # loop'.send
      BY <2>4
    <3>2. CASE i = s
      BY <2>2, <2>8, <3>1, <3>2 DEF SeqAt, StartAt
    <3>3. CASE i # s
      <4>1. i \in g .. s - 1
        BY <3>3
      <4> QED BY <2>2, <2>7, <3>1, <3>3, <4>1 DEF SeqAt, StartAt
    <3> QED BY <3>2, <3>3
  <2>10. ASSUME NEW i \in g .. s - 1 PROVE Linked(i)'
    <3>1. Linked(i) /\ Slot(i)' = Slot(i)
      BY <2>2, <2>3, <2>6, <2>7 DEF RingInv
    <3>2. i + 1 \in g .. s
      OBVIOUS
    <3>3. SeqAt(i + 1)' = SeqAt(i + 1) /\ StartAt(i + 1)' = StartAt(i + 1)
      BY <2>9, <3>2
    <3> QED BY <3>1, <3>3 DEF Linked
  <2>11. Linked(s)'
    <3>1. SeqAt(s + 1)' = outgoingSequence' /\ StartAt(s + 1)' = NextStart'
      BY <2>4 DEF SeqAt, StartAt
    <3> QED BY <2>8, <3>1 DEF Linked
  <2>12. Fits' => Expecting(SeqAt(g), StartAt(g))'
    <3>1. Fits' => Fits
      BY DEF Fits
    <3>2. SeqAt(g)' = SeqAt(g) /\ StartAt(g)' = StartAt(g)
      BY <2>6, <2>9
    <3> QED BY <2>3, <2>6, <3>1, <3>2 DEF RingInv, Expecting
  <2> QED BY <2>6, <2>10, <2>11, <2>12
<1> QED BY <1>1, <1>2

\* A fragment is linked: it is full, or ends its message.
LEMMA LinkFragment ==
    ASSUME TypeOK, TypeOK', RingInv, NEW start \in Nat, NEW length \in Nat, start <= length,
           NextStart = start, SendFragment(outgoingSequence, start, length),
           outgoingSequence \in DOMAIN transmitted', transmitted'[outgoingSequence] = length,
           \A m \in DOMAIN transmitted : m \in DOMAIN transmitted' /\ transmitted'[m] = transmitted[m],
           UNCHANGED <<remoteType, incomingSequence, fragmentSequence, fragmentLength, processed>>
    PROVE  RingInv'
<1> DEFINE short == start + FragmentSize > length
           n == IF short THEN length - start ELSE FragmentSize
           pkt == [seq |-> outgoingSequence, fragmented |-> TRUE,
                   start |-> start, length |-> n, msg |-> outgoingSequence]
<1>1. /\ n \in Nat /\ (short => start + n = length) /\ (short <=> n # FragmentSize)
      /\ start + n <= length
  OBVIOUS
<1>2. /\ outgoingSequence' = IF short THEN outgoingSequence + 1 ELSE outgoingSequence
      /\ unsentFragments' = ~ short
      /\ unsentFragmentStart' = start + n
      /\ NET_SendPacket(pkt)
  BY <1>1 DEF SendFragment
<1>3. outgoingSequence \in Nat
  BY DEF TypeOK
<1>4. /\ pkt \in Packet /\ pkt.seq = outgoingSequence /\ pkt.start = NextStart
      /\ (Ends(pkt) <=> short) /\ pkt.length = n /\ pkt.fragmented
  BY <1>1, <1>3 DEF Packet, Ends
<1>5. NextStart' = IF short THEN 0 ELSE start + FragmentSize
  BY <1>1, <1>2 DEF NextStart
<1> HIDE DEF pkt, short, n
<1> QED BY <1>1, <1>2, <1>4, <1>5, LinkSent

LEMMA LinkTransmit ==
    ASSUME IInv, IInv', RingInv, NEW length \in Lengths, Netchan_Transmit(length)
    PROVE  RingInv'
<1> DEFINE m == Len(transmitted) + 1
<1>1. /\ length \in Nat /\ NextStart = 0 /\ m \in Nat /\ outgoingSequence = m /\ TypeOK /\ TypeOK'
      /\ transmitted \in Seq(Nat \ {0}) /\ length \in Nat \ {0}
  BY DEF Netchan_Transmit, NextStart, IInv, TypeOK, Sending
<1>2. /\ transmitted' = Append(transmitted, length)
      /\ UNCHANGED <<remoteType, incomingSequence, fragmentSequence, fragmentLength, processed>>
  BY DEF Netchan_Transmit, receiverVars
<1>3. /\ m \in DOMAIN transmitted' /\ transmitted'[m] = length
      /\ \A k \in DOMAIN transmitted : k \in DOMAIN transmitted' /\ transmitted'[k] = transmitted[k]
  BY <1>1, <1>2
<1>4. CASE length >= FragmentSize
  <2>1. SendFragment(m, 0, length)
    BY <1>4 DEF Netchan_Transmit
  <2> HIDE DEF m
  <2> QED BY <1>1, <1>2, <1>3, <2>1, LinkFragment
<1>5. CASE ~ (length >= FragmentSize)
  <2> DEFINE pkt == [seq |-> outgoingSequence, fragmented |-> FALSE, start |-> 0,
                     length |-> length, msg |-> m]
  <2>1. /\ NET_SendPacket(pkt)
        /\ outgoingSequence' = outgoingSequence + 1
        /\ unsentFragmentStart' = 0
    BY <1>5 DEF Netchan_Transmit
  <2> HIDE DEF m
  <2>2. /\ pkt \in Packet /\ pkt.seq = outgoingSequence /\ pkt.start = NextStart
        /\ Ends(pkt) /\ pkt.fragmented = FALSE
    BY <1>1 DEF Packet, Ends
  <2>3. NextStart' = 0
    BY <2>1 DEF NextStart
  <2> HIDE DEF pkt
  <2> QED BY <1>1, <1>2, <1>3, <2>1, <2>2, <2>3, LinkSent
<1> QED BY <1>4, <1>5

\* What the ring gives next is what the receiver expects.
LEMMA LinkRead ==
    ASSUME IInv, RingInv, NET_GetLoopPacket
    PROVE  RingInv'
<1>0. /\ TypeOK /\ processed \in Seq(Message)
  BY DEF IInv, Handed
<1>1. /\ loop' = [get |-> LoopGet + 1, send |-> loop.send, msgs |-> loop.msgs]
      /\ overrun' = (overrun \/ LoopGet # loop.get) /\ net' = net
      /\ UNCHANGED <<remoteType, senderVars, transmitted>>
      /\ LoopGet < loop.send
  BY <1>0 DEF NET_GetLoopPacket, Netchan_Process, TypeOK
<1>2. PICK s \in Nat : loop.send = s
  BY <1>0 DEF TypeOK
<1>3. PICK g \in Nat : loop.get = g
  BY <1>0 DEF TypeOK
<1>4. Lossless' => LoopGet = g /\ ~ overrun /\ loop'.get = g + 1 /\ loop'.send = s /\ g < s
  BY <1>1, <1>2, <1>3 DEF Lossless
<1>5. SUFFICES ASSUME Lossless', LoopGet = g, ~ overrun, loop'.get = g + 1, loop'.send = s, g < s
               PROVE  /\ \A i \in g + 1 .. s - 1 : Linked(i)'
                      /\ Fits' => Expecting(SeqAt(g + 1), StartAt(g + 1))'
  BY <1>1, <1>4 DEF RingInv
<1>6. Lossless
  BY <1>1, <1>2, <1>3, <1>5 DEF Lossless, LoopGet
<1>7. \A i : Slot(i)' = Slot(i) /\ SeqAt(i)' = SeqAt(i) /\ StartAt(i)' = StartAt(i)
  BY <1>1 DEF Slot, SeqAt, StartAt, NextStart, senderVars
<1>8. \A i \in g .. s - 1 : Linked(i)
  BY <1>2, <1>3, <1>6 DEF RingInv
<1>9. \A i \in g + 1 .. s - 1 : Linked(i)'
  <2> SUFFICES ASSUME NEW i \in g + 1 .. s - 1 PROVE Linked(i)'
    OBVIOUS
  <2> QED BY <1>1, <1>7, <1>8 DEF Linked
<1>10. ASSUME Fits
       PROVE  Expecting(SeqAt(g + 1), StartAt(g + 1))'
  <2> DEFINE pkt == Slot(g)
  <2>1. Netchan_Process(pkt)
    BY <1>3, <1>5 DEF NET_GetLoopPacket, Slot
  <2>2. pkt \in Packet
    <3>1. g % MaxLoopback \in 0 .. MaxLoopback - 1
      BY ModRange
    <3> QED BY <1>0, <3>1 DEF Slot, TypeOK
  <2>3. Linked(g) /\ SeqAt(g) = pkt.seq /\ StartAt(g) = pkt.start
    <3>1. g \in g .. s - 1 /\ g # loop.send
      BY <1>2, <1>5
    <3> QED BY <1>8, <3>1 DEF SeqAt, StartAt
  <2>4. Expecting(pkt.seq, pkt.start)
    BY <1>3, <1>6, <1>10, <2>3 DEF RingInv
  <2>5. pkt \in Pieces(transmitted, outgoingSequence)
    <3>1. g % MaxLoopback \in 0 .. MaxLoopback - 1
      BY ModRange
    <3>2. pkt \in Slots
      BY <3>1 DEF Slot, IInv, Carried
    <3>3. pkt.seq # 0
      BY <2>3, <1>0 DEF Linked, TypeOK
    <3> QED BY <3>2, <3>3 DEF Slots, NoPacket
  <2> HIDE DEF pkt
  <2>6. /\ pkt.seq \in Nat /\ pkt.start \in Nat /\ pkt.length \in Nat /\ pkt.fragmented \in BOOLEAN
        /\ incomingSequence = pkt.seq - 1 /\ Len(processed) = pkt.seq - 1
        /\ fragmentSequence \in Nat /\ fragmentSequence <= pkt.seq
        /\ Assembled(pkt) = pkt.start
    BY <2>2, <2>4, <1>0 DEF Packet, Expecting, Assembled, TypeOK
  <2>7. ~ OutOfOrder(pkt)
    BY <2>6 DEF OutOfOrder
  <2>8. /\ SeqAt(g + 1)' = IF Ends(pkt) THEN pkt.seq + 1 ELSE pkt.seq
        /\ StartAt(g + 1)' = IF Ends(pkt) THEN 0 ELSE pkt.start + FragmentSize
    BY <1>7, <2>3 DEF Linked, pkt
  <2>9. ASSUME NEW data, Deliver(pkt.seq, data)
        PROVE  incomingSequence' = pkt.seq /\ Len(processed') = pkt.seq
    BY <2>6, <2>9, <1>0, AppendLen DEF Deliver
  <2>10. CASE ~ pkt.fragmented
    <3>1. /\ Deliver(pkt.seq, Units(pkt.msg, 0, pkt.length))
          /\ UNCHANGED <<fragmentSequence, fragmentLength>>
      BY <2>1, <2>7, <2>10 DEF Netchan_Process
    <3>2. Ends(pkt)
      BY <2>10 DEF Ends
    <3>3. fragmentSequence' # pkt.seq + 1 /\ fragmentSequence' <= pkt.seq + 1
      BY <2>6, <3>1
    <3> QED BY <2>6, <2>8, <2>9, <3>1, <3>2, <3>3 DEF Expecting
  <2>11. CASE pkt.fragmented
    <3>1. ProcessFragment(pkt)
      BY <2>1, <2>7, <2>11 DEF Netchan_Process
    <3>2. /\ pkt.start + pkt.length <= FragmentBufferSize
          /\ Ends(pkt) => pkt.start + pkt.length <= MaxSize
      <4>1. /\ pkt.seq \in DOMAIN transmitted
            /\ pkt.start + pkt.length <= transmitted[pkt.seq]
        BY <2>3, <2>11 DEF Linked, pkt
      <4>2. transmitted[pkt.seq] <= FragmentBufferSize /\ transmitted[pkt.seq] <= MaxSize
        BY <4>1, <1>10 DEF Fits
      <4>3. transmitted[pkt.seq] \in Nat
        BY <4>1, <1>0 DEF TypeOK
      <4> QED BY <4>1, <4>2, <4>3, <2>6
    <3>3. ~ Missed(pkt) /\ ~ Illegal(pkt)
      BY <2>6, <3>2 DEF Missed, Illegal
    <3>4. CASE pkt.length # FragmentSize
      <4>1. Ends(pkt)
        BY <3>4 DEF Ends
      <4>2. /\ fragmentSequence' = pkt.seq /\ fragmentLength' = 0
            /\ \E data : Deliver(pkt.seq, data)
        BY <3>1, <3>2, <3>3, <3>4, <4>1, <2>6 DEF ProcessFragment
      <4> QED BY <2>6, <2>8, <2>9, <4>1, <4>2 DEF Expecting
    <3>5. CASE pkt.length = FragmentSize
      <4>1. ~ Ends(pkt)
        BY <3>5, <2>11 DEF Ends
      <4>2. /\ fragmentSequence' = pkt.seq /\ fragmentLength' = pkt.start + FragmentSize
            /\ UNCHANGED <<incomingSequence, processed>>
        BY <3>1, <3>3, <3>5, <2>6 DEF ProcessFragment
      <4> QED BY <2>6, <2>8, <4>1, <4>2 DEF Expecting
    <3> QED BY <3>4, <3>5
  <2> QED BY <2>6, <2>10, <2>11
<1>11. Fits' => Fits
  BY <1>1 DEF Fits
<1> QED BY <1>9, <1>10, <1>11

LEMMA NextLinked ==
    ASSUME IInv, IInv', RingInv, [Next]_vars
    PROVE  RingInv'
<1>0. TypeOK /\ TypeOK'
  BY DEF IInv
<1>1. ASSUME NEW length \in Lengths, Netchan_Transmit(length) PROVE RingInv'
  BY <1>1, LinkTransmit
<1>2. CASE Netchan_TransmitNextFragment
  <2>1. /\ unsentFragments
        /\ SendFragment(Len(transmitted), unsentFragmentStart, unsentLength)
        /\ UNCHANGED <<remoteType, transmitted, incomingSequence, fragmentSequence, fragmentLength,
                        processed>>
    BY <1>2 DEF Netchan_TransmitNextFragment, receiverVars
  <2>2. NextStart = unsentFragmentStart
    BY <2>1 DEF NextStart
  <2>3. /\ unsentFragmentStart \in Nat /\ unsentLength \in Nat
        /\ outgoingSequence = Len(transmitted) /\ outgoingSequence \in DOMAIN transmitted
        /\ transmitted[outgoingSequence] = unsentLength
        /\ unsentFragmentStart <= unsentLength
    BY <2>1 DEF IInv, TypeOK, Sending
  <2> QED BY <1>0, <2>1, <2>2, <2>3, LinkFragment
<1>3. ASSUME NEW pkt \in net, NET_GetPacket(pkt) \/ Lose(pkt) PROVE RingInv'
  <2>1. remoteType # "NA_LOOPBACK" /\ remoteType' = remoteType
    BY <1>3 DEF RingInv, NET_GetPacket, Netchan_Process, Lose
  <2> QED BY <2>1 DEF RingInv, Lossless
<1>4. CASE NET_GetLoopPacket
  BY <1>4, LinkRead
<1>5. CASE UNCHANGED vars
  <2> USE <1>5 DEF vars, netVars, senderVars, receiverVars
  <2>1. \A i : Slot(i)' = Slot(i) /\ SeqAt(i)' = SeqAt(i) /\ StartAt(i)' = StartAt(i)
    BY DEF Slot, SeqAt, StartAt, NextStart
  <2>2. \A i : Linked(i)' <=> Linked(i)
    BY <2>1 DEF Linked
  <2> QED BY <2>1, <2>2 DEF RingInv, Lossless, Fits, Expecting
<1> QED BY <1>1, <1>2, <1>3, <1>4, <1>5 DEF Next

\* On loopback, with a reader that never fell so far behind that the ring lost a datagram,
\* every message that fits the buffers is handed on once the ring is empty: the last
\* fragment is told from the others by its length whatever the lengths are
\* (Netchan_TransmitNextFragment, Netchan_Process, NET_SendLoopPacket, NET_GetLoopPacket).
THEOREM LoopbackIsLossless == Spec => []LoopbackLosesNothing
<1>1. Init => RingInv
  <2> SUFFICES ASSUME Init PROVE RingInv
    OBVIOUS
  <2>1. /\ loop.get = 0 /\ loop.send = 0 /\ outgoingSequence = 1 /\ ~ unsentFragments
        /\ incomingSequence = 0 /\ processed = <<>> /\ fragmentSequence = 0 /\ net = {}
    BY DEF Init
  <2>2. SeqAt(loop.get) = 1 /\ StartAt(loop.get) = 0
    BY <2>1 DEF SeqAt, StartAt, NextStart
  <2> QED BY <2>1, <2>2 DEF RingInv, Expecting
<1>2. IInv /\ IInv' /\ RingInv /\ [Next]_vars => RingInv'
  BY NextLinked
<1>3. IInv /\ RingInv => LoopbackLosesNothing
  <2> SUFFICES ASSUME IInv, RingInv, remoteType = "NA_LOOPBACK", ~ overrun, LoopGet = loop.send,
                      ~ unsentFragments, Fits
               PROVE  Len(processed) = Len(transmitted)
    BY DEF LoopbackLosesNothing, Fits
  <2>1. loop.get \in Nat /\ loop.send \in Nat
    BY DEF IInv, TypeOK
  <2>2. loop.get = loop.send /\ Lossless
    BY <2>1 DEF LoopGet, Lossless
  <2>3. Len(processed) = outgoingSequence - 1
    BY <2>2 DEF RingInv, Expecting, SeqAt
  <2> QED BY <2>3 DEF IInv, Sending
<1> QED BY <1>1, <1>2, <1>3, Invariance, PTL DEF Spec
=============================================================================
