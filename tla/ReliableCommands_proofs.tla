----------------------- MODULE ReliableCommands_proofs -----------------------
(***************************************************************************)
(* Theorems about ReliableCommands, for rings of any size and whatever is  *)
(* overwritten in them.                                                    *)
(***************************************************************************)
EXTENDS ReliableCommands, SequenceTheorems, TLAPS

\* Two numbers less than n apart have different slots in a buffer of n.
LEMMA ModDistinct ==
    ASSUME NEW n \in Nat \ {0}, NEW a \in Nat, NEW b \in Nat, a < b, b < a + n
    PROVE  a % n # b % n
<1> DEFINE qa == a \div n
           qb == b \div n
<1>1. a = n * qa + (a % n) /\ b = n * qb + (b % n)
  OBVIOUS
<1>2. qa \in Int /\ qb \in Int
  OBVIOUS
<1>3. SUFFICES ASSUME a % n = b % n PROVE FALSE
  OBVIOUS
<1>4. b - a = n * (qb - qa)
  <2>1. b - a = n * qb - n * qa
    BY <1>1, <1>3
  <2>2. n * qb - n * qa = n * (qb - qa)
    BY <1>2
  <2> QED BY <2>1, <2>2
<1> HIDE DEF qa, qb
<1>5. CASE qb - qa <= 0
  <2>1. n * (qb - qa) <= 0
    BY <1>2, <1>5
  <2> QED BY <1>4, <2>1
<1>6. CASE qb - qa >= 1
  <2>1. n * (qb - qa) >= n
    BY <1>2, <1>6
  <2> QED BY <1>4, <2>1
<1> QED BY <1>2, <1>5, <1>6

\* A slot number is one of the buffer's.
LEMMA ModRange ==
    ASSUME NEW n \in Nat \ {0}, NEW a \in Nat
    PROVE  a % n \in 0 .. n - 1
OBVIOUS

N == MaxReliableCommands

-----------------------------------------------------------------------------
(* The inductive invariant *)

\* A ring whose last command is number last holds the newest commands.
HoldsNewest(ring, last) ==
    \A i \in 0 .. last : i > last - N => ring[Slot(i)] = i

\* The text of command i, where lost commands may have that of a later one.
IsText(i, text, lost) == text = i \/ i \in lost

\* Both ends: counters, and what is in the rings.
CounterInv ==
    /\ reliableSequence - reliableAcknowledge <= N + 1
    /\ reliableSequence - reliableAcknowledge = N + 1 => reliableSequence - N \in overwritten
    /\ overwritten = {} => reliableAcknowledge <= lastClientCommand
    /\ svSequence - svAcknowledge <= ServerOutstanding
    /\ IsText(lastClientCommand, lastClientCommandString, overwritten)

RingInv ==
    /\ HoldsNewest(reliableCommands, reliableSequence)
    /\ HoldsNewest(serverCommands, serverCommandSequence)
    /\ HoldsNewest(svCommands, svSequence)

\* The commands of a server's message: consecutive, from one that the client misses at most.
Consecutive(commands, known, last) ==
    \E a \in 0 .. known, b \in 0 .. last :
        b - a < N /\ commands = [i \in a + 1 .. b |-> i]

\* The commands of a client's message: the same, as long as none is lost.
ClientCommands(commands, known, last, lost) ==
    \E a \in 0 .. last, b \in 0 .. last :
        /\ commands \in [a + 1 .. b -> Nat]
        /\ \A i \in a + 1 .. b : IsText(i, commands[i], lost)
        /\ lost = {} => a <= known

\* Acknowledgements are between acked and limit, and grow along a channel.
AcksOK(channel, acked, limit) ==
    /\ \A j \in 1 .. Len(channel) : channel[j].ack \in acked .. limit
    /\ \A j, k \in 1 .. Len(channel) : j < k => channel[j].ack <= channel[k].ack

Commands == UNION {[I -> Nat] : I \in SUBSET Nat}

ClientMessage == [ack : Nat, key : Nat, commands : Commands]
ServerMessage == [ack : Nat, key : Nat, legible : BOOLEAN, commands : Commands]

ChannelType ==
    /\ toServer \in Seq(ClientMessage)
    /\ toClient \in Seq(ServerMessage)

ClientMessageOK(m, known, last, lost) ==
    m.key = m.ack /\ ClientCommands(m.commands, known, last, lost)

ServerMessageOK(m, limit, known, last, lost) ==
    /\ m.ack \in 0 .. limit
    /\ IsText(m.ack, m.key, lost)
    /\ Consecutive(m.commands, known, last)

ToServerInv ==
    /\ AcksOK(toServer, svAcknowledge, serverCommandSequence)
    /\ \A j \in 1 .. Len(toServer) :
          ClientMessageOK(toServer[j], lastClientCommand, reliableSequence, overwritten)

ToClientInv ==
    /\ overwritten = {} => AcksOK(toClient, reliableAcknowledge, lastClientCommand)
    /\ \A j \in 1 .. Len(toClient) :
          ServerMessageOK(toClient[j], lastClientCommand, svAcknowledge, svSequence, overwritten)

\* What was executed has its text, by the server and by cgame.
ServerExecutedInv ==
    /\ executedByServer \in Seq(Nat)
    /\ Len(executedByServer) = lastClientCommand
    /\ \A i \in 1 .. lastClientCommand : IsText(i, executedByServer[i], overwritten)

CgameExecutedInv ==
    /\ executedByCgame \in Seq(Nat)
    /\ state = "connected" => Len(executedByCgame) = cgsCommandSequence
    /\ \A i \in 1 .. Len(executedByCgame) : executedByCgame[i] = i

IInv ==
    /\ TypeOK /\ ChannelType /\ CounterInv /\ RingInv
    /\ ToServerInv /\ ToClientInv /\ ServerExecutedInv /\ CgameExecutedInv

-----------------------------------------------------------------------------
(* Rings, channels and messages *)

\* The ring has a slot, and the server leaves one free.
LEMMA ConstantFacts ==
    /\ N \in Nat \ {0}
    /\ ServerOutstanding \in Nat /\ ServerOutstanding < N
    /\ MaxClientCommands \in Nat /\ MaxServerCommands \in Nat /\ MaxInFlight \in Nat \ {0}
BY CommandAssumption DEF N

\* Commands fewer than MAX_RELIABLE_COMMANDS apart have different slots.
LEMMA SlotFacts ==
    /\ \A i \in Nat : Slot(i) \in 0 .. N - 1
    /\ \A i, j \in Nat : i < j /\ j < i + N => Slot(i) # Slot(j)
<1>1. \A i \in Nat : Slot(i) \in 0 .. N - 1
  BY ConstantFacts, ModRange DEF Slot, N
<1>2. ASSUME NEW i \in Nat, NEW j \in Nat, i < j, j < i + N PROVE Slot(i) # Slot(j)
  BY <1>2, ConstantFacts, ModDistinct, Zenon DEF Slot, N
<1> QED BY <1>1, <1>2

\* One more command goes to its slot (CL_AddReliableCommand).
LEMMA HoldsAdded ==
    ASSUME NEW ring \in Ring, NEW last \in Nat, HoldsNewest(ring, last)
    PROVE  LET after == [ring EXCEPT ![Slot(last + 1)] = last + 1]
           IN  after \in Ring /\ HoldsNewest(after, last + 1)
<1> DEFINE after == [ring EXCEPT ![Slot(last + 1)] = last + 1]
<1>1. Ring = [0 .. N - 1 -> Nat]
  BY DEF Ring, N
<1>2. Slot(last + 1) \in 0 .. N - 1
  BY SlotFacts
<1>3. after \in Ring
  <2>1. ring \in [0 .. N - 1 -> Nat] /\ last + 1 \in Nat
    BY <1>1
  <2>2. after \in [0 .. N - 1 -> Nat]
    BY <1>2, <2>1
  <2> QED BY <1>1, <2>2
<1> HIDE DEF after
<1>4. ASSUME NEW i \in 0 .. last + 1, i > last + 1 - N PROVE after[Slot(i)] = i
  <2> USE DEF after
  <2>1. Slot(i) \in 0 .. N - 1
    BY SlotFacts
  <2>2. CASE i = last + 1
    BY <1>1, <1>2, <2>2
  <2>3. CASE i # last + 1
    <3>1. i < last + 1 /\ last + 1 < i + N /\ i \in 0 .. last /\ i > last - N
      BY <1>4, <2>3, ConstantFacts
    <3>2. Slot(i) # Slot(last + 1)
      BY <3>1, SlotFacts
    <3>3. ring[Slot(i)] = i
      BY <3>1 DEF HoldsNewest
    <3> QED BY <1>1, <1>2, <2>1, <3>2, <3>3
  <2> QED BY <2>2, <2>3
<1>5. HoldsNewest(after, last + 1)
  BY <1>4, ConstantFacts DEF HoldsNewest
<1> QED BY <1>3, <1>5 DEF after

\* Several commands go to their slots (CL_ParseCommandString).
LEMMA HoldsStored ==
    ASSUME NEW ring \in Ring, NEW last \in Nat, NEW b \in Nat, HoldsNewest(ring, last),
           last < b, b - last < N
    PROVE  LET after == Stored(ring, [i \in last + 1 .. b |-> i])
           IN  after \in Ring /\ HoldsNewest(after, b)
<1> DEFINE commands == [i \in last + 1 .. b |-> i]
           after == Stored(ring, commands)
           Here(s) == {i \in DOMAIN commands : Slot(i) = s}
           Top(s) == CHOOSE i \in Here(s) : \A j \in Here(s) : j <= i
<1>1. Ring = [0 .. N - 1 -> Nat]
  BY DEF Ring, N
<1>2. after = [s \in 0 .. N - 1 |-> IF Here(s) = {} THEN ring[s] ELSE commands[Top(s)]]
  BY DEF Stored, N
<1>3. DOMAIN commands = last + 1 .. b /\ \A i \in last + 1 .. b : commands[i] = i
  OBVIOUS
<1>4. ASSUME NEW i \in last + 1 .. b PROVE Here(Slot(i)) = {i}
  <2>1. ASSUME NEW j \in last + 1 .. b, Slot(j) = Slot(i) PROVE j = i
    <3>1. i \in Nat /\ j \in Nat /\ i < j + N /\ j < i + N
      BY ConstantFacts
    <3>2. ~ (i < j) /\ ~ (j < i)
      BY <2>1, <3>1, SlotFacts
    <3> QED BY <3>1, <3>2
  <2> QED BY <1>3, <2>1
<1>5. ASSUME NEW i \in last + 1 .. b PROVE Top(Slot(i)) = i
  <2>1. Here(Slot(i)) = {i} /\ i <= i
    BY <1>4
  <2> HIDE DEF Here
  <2> QED BY <2>1
<1>6. ASSUME NEW s \in 0 .. N - 1, Here(s) # {} PROVE \E i \in last + 1 .. b : s = Slot(i)
  BY <1>3, <1>6
<1> HIDE DEF Here, Top, commands, after
<1>7. \A i \in last + 1 .. b : Slot(i) \in 0 .. N - 1 /\ after[Slot(i)] = i
  <2> SUFFICES ASSUME NEW i \in last + 1 .. b
               PROVE  Slot(i) \in 0 .. N - 1 /\ after[Slot(i)] = i
    OBVIOUS
  <2>1. i \in Nat /\ Slot(i) \in 0 .. N - 1
    BY SlotFacts
  <2>2. Here(Slot(i)) # {}
    BY <1>4
  <2> QED BY <1>2, <1>3, <1>5, <2>1, <2>2
<1>8. ASSUME NEW s \in 0 .. N - 1 PROVE after[s] \in Nat
  <2>1. CASE Here(s) = {}
    BY <1>1, <1>2, <2>1
  <2>2. CASE Here(s) # {}
    BY <1>6, <1>7, <2>2
  <2> QED BY <2>1, <2>2
<1>9. after \in Ring
  BY <1>1, <1>2, <1>8
<1>10. ASSUME NEW i \in 0 .. b, i > b - N PROVE after[Slot(i)] = i
  <2>1. CASE i > last
    BY <1>7, <2>1
  <2>2. CASE i <= last
    <3>1. i \in 0 .. last /\ i > last - N /\ i \in Nat
      BY <1>10, <2>2, ConstantFacts
    <3>2. ASSUME NEW j \in last + 1 .. b PROVE Slot(j) # Slot(i)
      <4>1. j \in Nat /\ i < j /\ j < i + N
        BY <1>10, <2>2, ConstantFacts
      <4> QED BY <3>1, <4>1, SlotFacts
    <3>3. Slot(i) \in 0 .. N - 1
      BY <3>1, SlotFacts
    <3>4. Here(Slot(i)) = {}
      BY <1>6, <3>2, <3>3
    <3>5. ring[Slot(i)] = i
      BY <3>1 DEF HoldsNewest
    <3> QED BY <1>2, <3>3, <3>4, <3>5
  <2> QED BY <2>1, <2>2
<1> QED BY <1>9, <1>10 DEF HoldsNewest, after, commands

\* What a ring gives for consecutive commands it still holds (SV_SendMessage).
LEMMA TextsHeld ==
    ASSUME NEW ring \in Ring, NEW last \in Nat, HoldsNewest(ring, last),
           NEW a \in 0 .. last, NEW b \in a .. last, last - a < N
    PROVE  /\ ring[Slot(a)] = a
           /\ Texts(ring, a + 1 .. b) = [i \in a + 1 .. b |-> i]
<1>1. \A i \in a .. b : i \in 0 .. last /\ i > last - N
  BY ConstantFacts
<1>2. \A i \in a .. b : ring[Slot(i)] = i
  BY <1>1 DEF HoldsNewest
<1> QED BY <1>2 DEF Texts

\* A stretch of commands is what a message may carry.
LEMMA ConsecutiveCommands ==
    ASSUME NEW a \in Nat, NEW b \in Nat
    PROVE  [i \in a + 1 .. b |-> i] \in Commands
<1> DEFINE f == [i \in a + 1 .. b |-> i]
<1>1. f \in [a + 1 .. b -> Nat] /\ a + 1 .. b \in SUBSET Nat
  OBVIOUS
<1> HIDE DEF f
<1>2. \E I \in SUBSET Nat : f \in [I -> Nat]
  BY <1>1
<1>3. f \in Commands
  BY <1>2 DEF Commands
<1> QED BY <1>3 DEF f

\* A channel after Sent.
LEMMA SentFacts ==
    ASSUME NEW S, NEW channel \in Seq(S), NEW m \in S
    PROVE  /\ Sent(channel, m) \in Seq(S)
           /\ Len(channel) <= MaxInFlight => Len(Sent(channel, m)) <= MaxInFlight
           /\ \A j \in 1 .. Len(Sent(channel, m)) :
                 \/ j \in 1 .. Len(channel) /\ Sent(channel, m)[j] = channel[j]
                 \/ j = Len(channel) + 1 /\ Sent(channel, m)[j] = m
BY ConstantFacts DEF Sent

\* A channel after its next message was taken.
LEMMA TailFacts ==
    ASSUME NEW S, NEW channel \in Seq(S), channel # <<>>
    PROVE  /\ Tail(channel) \in Seq(S)
           /\ Len(channel) \in Nat \ {0} /\ Len(Tail(channel)) = Len(channel) - 1
           /\ Head(channel) = channel[1] /\ Head(channel) \in S
           /\ \A j \in 1 .. Len(channel) - 1 : Tail(channel)[j] = channel[j + 1]
OBVIOUS

\* A server's message stays good when the counters grow.
LEMMA ConsecutiveGrows ==
    ASSUME NEW commands, NEW known \in Nat, NEW last \in Nat, NEW known2 \in Nat,
           NEW last2 \in Nat, known <= known2, last <= last2,
           Consecutive(commands, known, last)
    PROVE  Consecutive(commands, known2, last2)
BY DEF Consecutive

LEMMA ServerMessageGrows ==
    ASSUME NEW m, NEW limit \in Nat, NEW known \in Nat, NEW last \in Nat, NEW lost,
           NEW limit2 \in Nat, NEW known2 \in Nat, NEW last2 \in Nat, NEW lost2,
           limit <= limit2, known <= known2, last <= last2, lost \subseteq lost2,
           ServerMessageOK(m, limit, known, last, lost)
    PROVE  ServerMessageOK(m, limit2, known2, last2, lost2)
<1>1. Consecutive(m.commands, known2, last2)
  BY ConsecutiveGrows DEF ServerMessageOK
<1>2. m.ack \in 0 .. limit2 /\ IsText(m.ack, m.key, lost2)
  BY DEF ServerMessageOK, IsText
<1> QED BY <1>1, <1>2 DEF ServerMessageOK

\* So does a client's.
LEMMA ClientMessageGrows ==
    ASSUME NEW m, NEW known \in Nat, NEW last \in Nat, NEW lost,
           NEW known2 \in Nat, NEW last2 \in Nat, NEW lost2,
           known <= known2, last <= last2, lost \subseteq lost2,
           ClientMessageOK(m, known, last, lost)
    PROVE  ClientMessageOK(m, known2, last2, lost2)
<1>1. PICK a \in 0 .. last, b \in 0 .. last :
          /\ m.commands \in [a + 1 .. b -> Nat]
          /\ \A i \in a + 1 .. b : IsText(i, m.commands[i], lost)
          /\ lost = {} => a <= known
  BY DEF ClientMessageOK, ClientCommands
<1>2. a \in 0 .. last2 /\ b \in 0 .. last2
  OBVIOUS
<1>3. \A i \in a + 1 .. b : IsText(i, m.commands[i], lost2)
  BY <1>1 DEF IsText
<1>4. lost2 = {} => a <= known2
  <2>1. lost2 = {} => lost = {}
    OBVIOUS
  <2> QED BY <1>1, <2>1
<1>5. ClientCommands(m.commands, known2, last2, lost2)
  BY <1>1, <1>2, <1>3, <1>4 DEF ClientCommands
<1>6. m.key = m.ack
  BY DEF ClientMessageOK
<1> QED BY <1>5, <1>6 DEF ClientMessageOK

\* A new message acknowledges no less than those before it.
LEMMA AcksSent ==
    ASSUME NEW S, NEW channel \in Seq(S), NEW m \in S,
           NEW acked \in Nat, NEW limit \in Nat, acked <= limit, m.ack = limit,
           AcksOK(channel, acked, limit)
    PROVE  AcksOK(Sent(channel, m), acked, limit)
<1> DEFINE after == Sent(channel, m)
<1>1. \A j \in 1 .. Len(after) :
          \/ j \in 1 .. Len(channel) /\ after[j] = channel[j]
          \/ j = Len(channel) + 1 /\ after[j] = m
  BY SentFacts
<1> HIDE DEF after
<1>2. Len(channel) \in Nat
  OBVIOUS
<1>3. \A j \in 1 .. Len(after) : after[j].ack \in acked .. limit
  BY <1>1 DEF AcksOK
<1>4. ASSUME NEW j \in 1 .. Len(after), NEW k \in 1 .. Len(after), j < k
      PROVE  after[j].ack <= after[k].ack
  <2>1. CASE k \in 1 .. Len(channel) /\ after[k] = channel[k]
    <3>1. j \in 1 .. Len(channel) /\ after[j] = channel[j]
      BY <1>1, <1>2, <1>4, <2>1
    <3> QED BY <1>4, <2>1, <3>1 DEF AcksOK
  <2>2. CASE after[k] = m
    BY <1>3, <2>2
  <2> QED BY <1>1, <2>1, <2>2
<1>5. AcksOK(after, acked, limit)
  BY <1>3, <1>4 DEF AcksOK
<1> QED BY <1>5 DEF after

\* Acknowledgements stay good when the limit grows.
LEMMA AcksGrow ==
    ASSUME NEW channel, NEW acked \in Nat, NEW limit \in Nat, NEW limit2 \in Nat,
           limit <= limit2, AcksOK(channel, acked, limit)
    PROVE  AcksOK(channel, acked, limit2)
BY DEF AcksOK

\* Taking the next message, and believing its acknowledgement or not, leaves the rest good.
LEMMA AcksTail ==
    ASSUME NEW S, NEW channel \in Seq(S), channel # <<>>,
           NEW acked \in Nat, NEW limit \in Nat, NEW acked2 \in Nat,
           acked2 = acked \/ acked2 = Head(channel).ack,
           AcksOK(channel, acked, limit)
    PROVE  AcksOK(Tail(channel), acked2, limit)
<1> DEFINE after == Tail(channel)
<1>1. /\ Len(channel) \in Nat \ {0} /\ Len(after) = Len(channel) - 1
      /\ \A j \in 1 .. Len(after) : after[j] = channel[j + 1]
      /\ Head(channel) = channel[1]
  BY TailFacts
<1> HIDE DEF after
<1>2. \A j \in 1 .. Len(channel) : channel[j].ack \in acked2 .. limit
  <2>1. \A j \in 1 .. Len(channel) : channel[j].ack \in acked .. limit
    BY DEF AcksOK
  <2>2. \A j \in 2 .. Len(channel) : channel[1].ack <= channel[j].ack
    BY <1>1 DEF AcksOK
  <2>3. CASE acked2 = acked
    BY <2>1, <2>3
  <2>4. CASE acked2 = channel[1].ack
    <3> SUFFICES ASSUME NEW j \in 1 .. Len(channel) PROVE channel[j].ack \in acked2 .. limit
      OBVIOUS
    <3>1. CASE j = 1
      BY <1>1, <2>1, <2>4, <3>1
    <3>2. CASE j \in 2 .. Len(channel)
      BY <2>1, <2>2, <2>4, <3>2
    <3> QED BY <1>1, <3>1, <3>2
  <2> QED BY <1>1, <2>3, <2>4
<1>3. \A j \in 1 .. Len(after) : after[j].ack \in acked2 .. limit
  BY <1>1, <1>2
<1>4. ASSUME NEW j \in 1 .. Len(after), NEW k \in 1 .. Len(after), j < k
      PROVE  after[j].ack <= after[k].ack
  <2>1. /\ j + 1 \in 1 .. Len(channel) /\ after[j] = channel[j + 1]
        /\ k + 1 \in 1 .. Len(channel) /\ after[k] = channel[k + 1]
        /\ j + 1 < k + 1
    BY <1>1, <1>4
  <2> QED BY <2>1 DEF AcksOK
<1>5. AcksOK(after, acked2, limit)
  BY <1>3, <1>4 DEF AcksOK
<1> QED BY <1>5 DEF after

\* What is under way after sending: what was, and the new message.
LEMMA AllSent ==
    ASSUME NEW S, NEW channel \in Seq(S), NEW m \in S, NEW j \in 1 .. Len(Sent(channel, m))
    PROVE  \/ Sent(channel, m)[j] = m
           \/ \E k \in 1 .. Len(channel) : Sent(channel, m)[j] = channel[k]
BY SentFacts

\* What is under way after the next message was taken: what was.
LEMMA AllTail ==
    ASSUME NEW S, NEW channel \in Seq(S), channel # <<>>, NEW j \in 1 .. Len(Tail(channel))
    PROVE  \E k \in 1 .. Len(channel) : Tail(channel)[j] = channel[k]
<1>1. j + 1 \in 1 .. Len(channel) /\ Tail(channel)[j] = channel[j + 1]
  BY TailFacts
<1> QED BY <1>1

-----------------------------------------------------------------------------
(* Every step keeps the invariant *)

\* A new connection satisfies the invariant.
LEMMA InitInv ==
    Init => IInv
<1> SUFFICES ASSUME Init PROVE IInv
  OBVIOUS
<1> USE DEF Init
<1>1. TypeOK
  BY ConstantFacts DEF TypeOK, Ring, N
<1>2. ChannelType
  BY DEF ChannelType
<1>3. CounterInv
  BY ConstantFacts DEF CounterInv, IsText
<1>4. RingInv
  BY ConstantFacts, SlotFacts DEF RingInv, HoldsNewest, N
<1>5. ToServerInv /\ ToClientInv
  BY DEF ToServerInv, ToClientInv, AcksOK
<1>6. ServerExecutedInv /\ CgameExecutedInv
  BY DEF ServerExecutedInv, CgameExecutedInv
<1> QED BY <1>1, <1>2, <1>3, <1>4, <1>5, <1>6 DEF IInv

\* What the invariant says about numbers.
LEMMA NumberFacts ==
    ASSUME IInv
    PROVE  /\ reliableSequence \in Nat /\ reliableAcknowledge \in Nat
           /\ lastClientCommand \in Nat /\ svSequence \in Nat /\ svAcknowledge \in Nat
           /\ serverCommandSequence \in Nat /\ serverCommandNum \in Nat
           /\ cgsCommandSequence \in Nat /\ lastClientCommandString \in Nat
           /\ reliableAcknowledge <= reliableSequence /\ lastClientCommand <= reliableSequence
           /\ reliableSequence - reliableAcknowledge <= N + 1
           /\ svAcknowledge <= serverCommandSequence /\ serverCommandSequence <= svSequence
           /\ svSequence - svAcknowledge <= ServerOutstanding
BY ConstantFacts DEF IInv, TypeOK, CounterInv

\* As long as nothing was overwritten, all that is outstanding is in the ring.
LEMMA NothingLost ==
    ASSUME IInv, overwritten = {}
    PROVE  /\ reliableSequence - reliableAcknowledge <= N
           /\ reliableAcknowledge <= lastClientCommand
BY NumberFacts, ConstantFacts DEF IInv, CounterInv

\* What is overwritten is at least a ring's length old.
LEMMA LostAreOld ==
    ASSUME IInv, NEW i \in overwritten
    PROVE  i \in Nat /\ i <= reliableSequence - N
BY NumberFacts, ConstantFacts DEF IInv, TypeOK, N

\* CL_AddReliableCommand: the new command overwrites one that is acknowledged, or one
\* that counts as overwritten from then on.
LEMMA AddInv ==
    ASSUME IInv, CL_AddReliableCommand
    PROVE  IInv'
<1>1. CASE /\ state' = "dropped"
           /\ UNCHANGED <<reliableSequence, reliableCommands, overwritten, reliableAcknowledge,
                          clientIn, cgame, serverOut, serverIn, toServer, toClient>>
  <2> USE <1>1 DEF clientIn, cgame, serverOut, serverIn
  <2>1. TypeOK' /\ ChannelType'
    BY DEF IInv, TypeOK, ChannelType
  <2>2. CounterInv' /\ RingInv'
    BY DEF IInv, CounterInv, RingInv, HoldsNewest
  <2>3. ToServerInv' /\ ToClientInv'
    BY DEF IInv, ToServerInv, ToClientInv
  <2>4. ServerExecutedInv' /\ CgameExecutedInv'
    BY DEF IInv, ServerExecutedInv, CgameExecutedInv
  <2> QED BY <2>1, <2>2, <2>3, <2>4 DEF IInv
<1>2. CASE /\ reliableSequence - reliableAcknowledge <= N
           /\ reliableSequence < MaxClientCommands
           /\ reliableSequence' = reliableSequence + 1
           /\ reliableCommands' = [reliableCommands EXCEPT
                                      ![Slot(reliableSequence + 1)] = reliableSequence + 1]
           /\ overwritten' = overwritten \cup
                ({reliableSequence + 1 - N} \cap (reliableAcknowledge + 1 .. reliableSequence))
           /\ UNCHANGED <<state, reliableAcknowledge, clientIn, cgame, serverOut, serverIn,
                          toServer, toClient>>
  <2>1. reliableCommands' \in Ring /\ HoldsNewest(reliableCommands', reliableSequence')
    <3>1. reliableCommands \in Ring /\ HoldsNewest(reliableCommands, reliableSequence)
      BY DEF IInv, TypeOK, RingInv
    <3> QED BY <1>2, <3>1, NumberFacts, HoldsAdded
  <2> USE <1>2 DEF clientIn, cgame, serverOut, serverIn
  <2>2. overwritten \subseteq overwritten'
    OBVIOUS
  <2>3. overwritten' \subseteq 1 .. reliableSequence' - N
    <3>1. overwritten \subseteq 1 .. reliableSequence - N
      BY DEF IInv, TypeOK, N
    <3>2. reliableSequence \in Nat /\ reliableAcknowledge \in Nat /\ N \in Nat \ {0}
          /\ reliableSequence' = reliableSequence + 1
      BY NumberFacts, ConstantFacts
    <3>3. ASSUME NEW i \in overwritten PROVE i \in 1 .. reliableSequence' - N
      BY ONLY <3>1, <3>2, <3>3
    <3>4. ASSUME NEW i \in reliableAcknowledge + 1 .. reliableSequence, i = reliableSequence + 1 - N
          PROVE  i \in 1 .. reliableSequence' - N
      BY ONLY <3>2, <3>4
    <3> QED BY <3>3, <3>4
  <2>4. TypeOK'
    <3>1. overwritten' \subseteq 1 .. reliableSequence' - MaxReliableCommands
      BY <2>3 DEF N
    <3>2. reliableSequence' \in 0 .. MaxClientCommands /\ reliableAcknowledge' \in 0 .. reliableSequence'
          /\ lastClientCommand' \in 0 .. reliableSequence'
      BY NumberFacts, ConstantFacts
    <3> QED BY <2>1, <3>1, <3>2 DEF IInv, TypeOK, Ring
  <2>5. ChannelType'
    BY DEF IInv, ChannelType
  <2>6. CounterInv'
    <3>1. reliableSequence' - reliableAcknowledge' <= N + 1
      BY NumberFacts, ConstantFacts
    <3>2. ASSUME reliableSequence' - reliableAcknowledge' = N + 1
          PROVE  reliableSequence' - N \in overwritten'
      <4>1. reliableSequence + 1 - N = reliableAcknowledge + 1
        BY <3>2, NumberFacts, ConstantFacts
      <4>2. reliableSequence + 1 - N \in reliableAcknowledge + 1 .. reliableSequence
        BY <3>2, <4>1, NumberFacts, ConstantFacts
      <4>3. reliableSequence' - N = reliableSequence + 1 - N
        BY NumberFacts, ConstantFacts
      <4>4. reliableSequence + 1 - N \in overwritten'
        BY <4>2
      <4> QED BY <4>3, <4>4
    <3>3. overwritten' = {} => reliableAcknowledge' <= lastClientCommand'
      BY <2>2, NothingLost
    <3>4. IsText(lastClientCommand, lastClientCommandString, overwritten')
      BY <2>2 DEF IInv, CounterInv, IsText
    <3>5. svSequence' - svAcknowledge' <= ServerOutstanding
      BY NumberFacts
    <3> QED BY <3>1, <3>2, <3>3, <3>4, <3>5 DEF CounterInv
  <2>7. RingInv'
    BY <2>1 DEF IInv, RingInv, HoldsNewest
  <2>8. ToServerInv'
    <3>1. ASSUME NEW j \in 1 .. Len(toServer)
          PROVE  ClientMessageOK(toServer[j], lastClientCommand, reliableSequence + 1, overwritten')
      <4>1. ClientMessageOK(toServer[j], lastClientCommand, reliableSequence, overwritten)
        BY DEF IInv, ToServerInv
      <4> QED BY <2>2, <4>1, NumberFacts, ClientMessageGrows
    <3> QED BY <3>1 DEF IInv, ToServerInv
  <2>9. ToClientInv'
    <3>1. ASSUME NEW j \in 1 .. Len(toClient)
          PROVE  ServerMessageOK(toClient[j], lastClientCommand, svAcknowledge, svSequence, overwritten')
      <4>1. ServerMessageOK(toClient[j], lastClientCommand, svAcknowledge, svSequence, overwritten)
        BY DEF IInv, ToClientInv
      <4> QED BY <2>2, <4>1, NumberFacts, ServerMessageGrows
    <3>2. overwritten' = {} => AcksOK(toClient, reliableAcknowledge, lastClientCommand)
      BY <2>2 DEF IInv, ToClientInv
    <3> QED BY <3>1, <3>2 DEF ToClientInv
  <2>10. ServerExecutedInv' /\ CgameExecutedInv'
    BY <2>2 DEF IInv, ServerExecutedInv, CgameExecutedInv, IsText
  <2> QED BY <2>4, <2>5, <2>6, <2>7, <2>8, <2>9, <2>10 DEF IInv
<1> QED BY <1>1, <1>2 DEF CL_AddReliableCommand, Added, Predecessor, N

\* The commands of CL_WritePacket: each with its text, or overwritten.
LEMMA WritePacketCommands ==
    ASSUME IInv, NEW count \in CommandCounts
    PROVE  ClientCommands(Texts(reliableCommands,
                                reliableAcknowledge + 1 .. reliableAcknowledge + count),
                          lastClientCommand, reliableSequence, overwritten)
<1> DEFINE a == reliableAcknowledge
           b == reliableAcknowledge + count
           commands == Texts(reliableCommands, a + 1 .. b)
<1>0. reliableSequence \in Nat /\ N \in Nat
  BY NumberFacts, ConstantFacts
<1>1. a \in 0 .. reliableSequence /\ b \in 0 .. reliableSequence
  <2>1. count \in 0 .. reliableSequence - reliableAcknowledge
    BY NumberFacts DEF CommandCounts
  <2> QED BY <2>1, NumberFacts
<1>2. reliableCommands \in [0 .. N - 1 -> Nat]
  BY DEF IInv, TypeOK, Ring, N
<1>3. commands = [i \in a + 1 .. b |-> reliableCommands[Slot(i)]]
  BY DEF Texts
<1> HIDE DEF a, b, commands
<1>4. commands \in [a + 1 .. b -> Nat]
  <2>1. ASSUME NEW i \in a + 1 .. b PROVE reliableCommands[Slot(i)] \in Nat
    <3>1. i \in Nat
      BY ONLY <1>0, <1>1
    <3>2. Slot(i) \in 0 .. N - 1
      BY <3>1, SlotFacts
    <3> QED BY <1>2, <3>2
  <2> QED BY <1>3, <2>1
<1>5. ASSUME NEW i \in a + 1 .. b PROVE IsText(i, commands[i], overwritten)
  <2>1. i \in 0 .. reliableSequence /\ i > a
    BY <1>0, <1>1
  <2>2. CASE i > reliableSequence - N
    BY <1>3, <2>1, <2>2 DEF IInv, RingInv, HoldsNewest, IsText
  <2>3. CASE ~ (i > reliableSequence - N)
    <3>1. reliableSequence - a <= N + 1
      BY NumberFacts DEF a
    <3>2. i = reliableSequence - N /\ reliableSequence - a = N + 1
      BY ONLY <1>0, <1>1, <2>1, <2>3, <3>1
    <3>3. i \in overwritten
      BY <3>2 DEF IInv, CounterInv, a
    <3> QED BY <3>3 DEF IsText
  <2> QED BY <2>2, <2>3
<1>6. overwritten = {} => a <= lastClientCommand
  BY NothingLost DEF a
<1> QED BY <1>1, <1>4, <1>5, <1>6 DEF ClientCommands, a, b, commands

\* CL_WritePacket: what is repeated is still in the ring, or overwritten.
LEMMA WritePacketInv ==
    ASSUME IInv, NEW count \in 0 .. MaxClientCommands, CL_WritePacket(count)
    PROVE  IInv'
<1> DEFINE m == [ack |-> serverCommandSequence,
                 key |-> serverCommands[Slot(serverCommandSequence)],
                 commands |-> Texts(reliableCommands,
                                    reliableAcknowledge + 1 .. reliableAcknowledge + count)]
<1>1. /\ count \in CommandCounts
      /\ toServer' = Sent(toServer, m)
      /\ UNCHANGED <<state, clientOut, clientIn, cgame, serverOut, serverIn, toClient>>
  BY DEF CL_WritePacket
<1>2. ClientCommands(m.commands, lastClientCommand, reliableSequence, overwritten)
  BY <1>1, WritePacketCommands
<1>3. m.key = m.ack /\ m.ack = serverCommandSequence
  <2>1. serverCommands[Slot(serverCommandSequence)] = serverCommandSequence
    BY NumberFacts, ConstantFacts DEF IInv, RingInv, HoldsNewest
  <2> QED BY <2>1
<1>4. m \in ClientMessage
  <2>1. m.commands \in Commands
    <3> HIDE DEF m
    <3>1. PICK a \in 0 .. reliableSequence, b \in 0 .. reliableSequence :
              m.commands \in [a + 1 .. b -> Nat]
      BY <1>2 DEF ClientCommands
    <3>2. a + 1 .. b \in SUBSET Nat
      BY NumberFacts
    <3> QED BY <3>1, <3>2 DEF Commands
  <2> QED BY <1>3, <2>1, NumberFacts DEF ClientMessage
<1>5. ClientMessageOK(m, lastClientCommand, reliableSequence, overwritten)
  BY <1>2, <1>3 DEF ClientMessageOK
<1> HIDE DEF m
<1>6. Sent(toServer, m) \in Seq(ClientMessage) /\ Len(Sent(toServer, m)) <= MaxInFlight
  BY <1>4, SentFacts DEF IInv, ChannelType, TypeOK
<1> USE <1>1 DEF clientOut, clientIn, cgame, serverOut, serverIn
<1>7. TypeOK'
  BY <1>6 DEF IInv, TypeOK
<1>8. ChannelType' /\ CounterInv' /\ RingInv'
  BY <1>6 DEF IInv, ChannelType, CounterInv, RingInv, HoldsNewest
<1>9. ToServerInv'
  <2>1. AcksOK(Sent(toServer, m), svAcknowledge, serverCommandSequence)
    BY <1>3, <1>4, NumberFacts, AcksSent DEF IInv, ToServerInv, ChannelType
  <2>2. ASSUME NEW j \in 1 .. Len(Sent(toServer, m))
        PROVE  ClientMessageOK(Sent(toServer, m)[j], lastClientCommand, reliableSequence, overwritten)
    <3>1. toServer \in Seq(ClientMessage)
      BY DEF IInv, ChannelType
    <3>2. \/ Sent(toServer, m)[j] = m
          \/ \E k \in 1 .. Len(toServer) : Sent(toServer, m)[j] = toServer[k]
      BY <1>4, <3>1, AllSent
    <3> QED BY <1>5, <3>2 DEF IInv, ToServerInv
  <2> QED BY <2>1, <2>2 DEF ToServerInv
<1>10. ToClientInv' /\ ServerExecutedInv' /\ CgameExecutedInv'
  BY DEF IInv, ToClientInv, ServerExecutedInv, CgameExecutedInv
<1> QED BY <1>7, <1>8, <1>9, <1>10 DEF IInv

\* A message from the server that acknowledges a command which the ring still holds is
\* decoded with its own key (CL_Netchan_Decode); as long as nothing was overwritten, none
\* is too far behind (CL_PacketEvent).
LEMMA ReadsRightly ==
    ASSUME IInv, NEW j \in 1 .. Len(toClient)
    PROVE  /\ toClient[j].ack > reliableSequence - N =>
                  DecodeKey(toClient[j]) = toClient[j].key
           /\ overwritten = {} => ~ TooFarBehind(toClient[j])
<1> DEFINE m == toClient[j]
<1>1. m.ack \in 0 .. lastClientCommand /\ IsText(m.ack, m.key, overwritten)
  BY DEF IInv, ToClientInv, ServerMessageOK
<1>2. overwritten = {} => m.ack >= reliableAcknowledge
  BY NumberFacts DEF IInv, ToClientInv, AcksOK
<1> HIDE DEF m
<1>3. m.ack \in 0 .. reliableSequence
  BY <1>1, NumberFacts
<1>4. ASSUME m.ack > reliableSequence - N PROVE DecodeKey(m) = m.key
  <2>1. m.ack \notin overwritten
    <3>1. reliableSequence \in Nat /\ N \in Nat
      BY NumberFacts, ConstantFacts
    <3>2. m.ack \in overwritten => m.ack <= reliableSequence - N
      BY LostAreOld
    <3> QED BY ONLY <1>3, <1>4, <3>1, <3>2
  <2>2. m.key = m.ack
    BY <1>1, <2>1 DEF IsText
  <2> QED BY <1>3, <1>4, <2>2 DEF DecodeKey, IInv, RingInv, HoldsNewest
<1>5. ASSUME overwritten = {} PROVE ~ TooFarBehind(m)
  <2>1. reliableSequence - reliableAcknowledge <= N
    BY <1>5, NothingLost
  <2>2. /\ reliableSequence \in Nat /\ reliableAcknowledge \in Nat /\ N \in Nat
        /\ m.ack >= reliableAcknowledge /\ m.ack \in Nat
    BY <1>2, <1>3, <1>5, NumberFacts, ConstantFacts
  <2>3. ~ (m.ack < reliableSequence - N)
    BY ONLY <2>1, <2>2
  <2> QED BY <2>3 DEF TooFarBehind, N
<1> QED BY <1>4, <1>5 DEF m

\* CL_ParseCommandString for all commands of a message: the sequence goes on to the
\* message's last command, and the ring holds the newest.
LEMMA ParseStores ==
    ASSUME IInv, NEW m, Consecutive(m.commands, svAcknowledge, svSequence), ParseCommands(m)
    PROVE  /\ serverCommandSequence' \in serverCommandSequence .. svSequence
           /\ serverCommandNum' \in 0 .. serverCommandSequence'
           /\ serverCommandNum <= serverCommandNum'
           /\ serverCommands' \in Ring
           /\ HoldsNewest(serverCommands', serverCommandSequence')
<1> DEFINE old == serverCommandSequence
           Max(S) == CHOOSE i \in S : \A k \in S : k <= i
<1>1. PICK a \in 0 .. svAcknowledge :
        \E b \in 0 .. svSequence : b - a < N /\ m.commands = [i \in a + 1 .. b |-> i]
  BY DEF Consecutive
<1>2. PICK b \in 0 .. svSequence : b - a < N /\ m.commands = [i \in a + 1 .. b |-> i]
  BY <1>1
<1>3. /\ old \in Nat /\ a \in Nat /\ b \in Nat /\ a <= old /\ old <= svSequence
      /\ svSequence \in Nat /\ serverCommandNum \in 0 .. old
  BY <1>1, <1>2, NumberFacts DEF IInv, TypeOK
<1>4. NewCommands(m) = old + 1 .. b
  BY <1>2, <1>3 DEF NewCommands
<1>5. [i \in NewCommands(m) |-> m.commands[i]] = [i \in old + 1 .. b |-> i]
  BY <1>2, <1>3, <1>4
<1>6. serverCommands \in Ring /\ HoldsNewest(serverCommands, old)
  BY DEF IInv, TypeOK, RingInv
<1>7. /\ serverCommandSequence' = IF NewCommands(m) = {} THEN old ELSE Max(NewCommands(m))
      /\ serverCommands' = Stored(serverCommands, [i \in NewCommands(m) |-> m.commands[i]])
      /\ serverCommandNum' \in {serverCommandNum, serverCommandSequence'}
  BY DEF ParseCommands
<1>8. CASE b <= old
  <2>1. NewCommands(m) = {}
    BY <1>3, <1>4, <1>8
  <2>2. Stored(serverCommands, [i \in NewCommands(m) |-> m.commands[i]]) = serverCommands
    BY <1>6, <2>1 DEF Stored, Ring
  <2> QED BY <1>3, <1>6, <1>7, <2>1, <2>2
<1>9. CASE old < b
  <2>1. NewCommands(m) # {} /\ Max(NewCommands(m)) = b
    <3>1. b \in NewCommands(m) /\ \A k \in NewCommands(m) : k \in Nat /\ k <= b
      BY <1>3, <1>4, <1>9
    <3>2. \A i \in NewCommands(m) : (\A k \in NewCommands(m) : k <= i) => i = b
      BY <1>3, <3>1
    <3> QED BY <3>1, <3>2
  <2>2. serverCommandSequence' = b
    BY <1>7, <2>1
  <2>3. b - old < N
    BY <1>2, <1>3, ConstantFacts
  <2>4. serverCommands' \in Ring /\ HoldsNewest(serverCommands', b)
    BY <1>3, <1>5, <1>6, <1>7, <1>9, <2>3, HoldsStored
  <2>5. b \in old .. svSequence /\ serverCommandNum <= b
    BY <1>2, <1>3, <1>9
  <2>6. serverCommandNum' \in 0 .. b /\ serverCommandNum <= serverCommandNum'
    <3>1. serverCommandNum' = serverCommandNum \/ serverCommandNum' = b
      BY <1>7, <2>2
    <3> QED BY <1>3, <2>5, <3>1
  <2> QED BY <2>2, <2>4, <2>5, <2>6
<1> QED BY <1>3, <1>8, <1>9

\* An acknowledgement that goes on, or stays, keeps the bound on what is outstanding.
LEMMA Outstanding ==
    ASSUME NEW sequence \in Nat, NEW before \in Nat, NEW after \in 0 .. sequence,
           sequence - before <= N + 1, sequence - after <= N \/ after = before
    PROVE  /\ sequence - after <= N + 1
           /\ sequence - after = N + 1 => after = before
BY ConstantFacts

\* CL_PacketEvent: where the acknowledgement ends up.
LEMMA PacketEventAcknowledges ==
    ASSUME IInv, CL_PacketEvent
    PROVE  /\ reliableAcknowledge' \in 0 .. reliableSequence
           /\ reliableSequence - reliableAcknowledge' <= N
                \/ reliableAcknowledge' = reliableAcknowledge
           /\ overwritten = {} =>
                 /\ reliableAcknowledge' <= lastClientCommand
                 /\ \/ reliableAcknowledge' = reliableAcknowledge
                    \/ reliableAcknowledge' = Head(toClient).ack
<1> DEFINE m == Head(toClient)
<1>1. toClient # <<>> /\ 1 \in 1 .. Len(toClient) /\ m = toClient[1]
  BY TailFacts DEF CL_PacketEvent, IInv, ChannelType
<1>2. m.ack \in 0 .. lastClientCommand
  BY <1>1 DEF IInv, ToClientInv, ServerMessageOK
<1>3. overwritten = {} => ~ TooFarBehind(m) /\ reliableAcknowledge <= lastClientCommand
  BY <1>1, ReadsRightly, NothingLost
<1>4. \/ TooFarBehind(m) /\ reliableAcknowledge' = reliableSequence
      \/ ~ TooFarBehind(m) /\ reliableAcknowledge' = m.ack
      \/ reliableAcknowledge' = reliableAcknowledge
  BY DEF CL_PacketEvent
<1> HIDE DEF m
<1>5. /\ reliableSequence \in Nat /\ reliableAcknowledge \in Nat /\ lastClientCommand \in Nat
      /\ reliableAcknowledge <= reliableSequence /\ lastClientCommand <= reliableSequence
      /\ N \in Nat
  BY NumberFacts, ConstantFacts
<1>6. CASE TooFarBehind(m) /\ reliableAcknowledge' = reliableSequence
  BY <1>3, <1>5, <1>6
<1>7. CASE ~ TooFarBehind(m) /\ reliableAcknowledge' = m.ack
  BY <1>2, <1>5, <1>7 DEF TooFarBehind, N, m
<1>8. CASE reliableAcknowledge' = reliableAcknowledge
  BY <1>3, <1>5, <1>8
<1> QED BY <1>4, <1>6, <1>7, <1>8

\* CL_PacketEvent: whether the message is legible or not.
LEMMA PacketEventInv ==
    ASSUME IInv, CL_PacketEvent
    PROVE  IInv'
<1> DEFINE m == Head(toClient)
<1>1. /\ toClient # <<>> /\ toClient' = Tail(toClient)
      /\ state' \in {state, "dropped"} /\ state \in {"connected", "dropped"}
      /\ UNCHANGED <<reliableSequence, reliableCommands, overwritten, cgame, serverOut, serverIn,
                     toServer>>
  BY DEF CL_PacketEvent, IInv, TypeOK
<1>2. /\ Len(toClient) \in Nat \ {0} /\ Len(toClient') = Len(toClient) - 1
      /\ m = toClient[1] /\ toClient' \in Seq(ServerMessage)
  BY <1>1, TailFacts DEF IInv, ChannelType
<1>3. 1 \in 1 .. Len(toClient)
  BY <1>2
<1>4. Consecutive(m.commands, svAcknowledge, svSequence)
  BY <1>2, <1>3 DEF IInv, ToClientInv, ServerMessageOK
<1>5. /\ reliableAcknowledge' \in 0 .. reliableSequence
      /\ reliableSequence - reliableAcknowledge' <= N
           \/ reliableAcknowledge' = reliableAcknowledge
      /\ overwritten = {} =>
            /\ reliableAcknowledge' <= lastClientCommand
            /\ reliableAcknowledge' = reliableAcknowledge \/ reliableAcknowledge' = m.ack
  BY PacketEventAcknowledges
<1>6. UNCHANGED clientIn \/ ParseCommands(m)
  BY DEF CL_PacketEvent
<1> HIDE DEF m
<1>7. /\ serverCommandSequence' \in serverCommandSequence .. svSequence
      /\ serverCommandNum' \in 0 .. serverCommandSequence'
      /\ serverCommandNum <= serverCommandNum'
      /\ serverCommands' \in Ring
      /\ HoldsNewest(serverCommands', serverCommandSequence')
  <2>1. CASE UNCHANGED clientIn
    <3>1. /\ serverCommandSequence' = serverCommandSequence
          /\ serverCommandNum' = serverCommandNum
          /\ serverCommands' = serverCommands
      BY <2>1 DEF clientIn
    <3> QED BY <3>1, NumberFacts DEF IInv, TypeOK, RingInv
  <2>2. CASE ParseCommands(m)
    BY <1>4, <2>2, ParseStores
  <2> QED BY <1>6, <2>1, <2>2
<1> USE DEF cgame, serverOut, serverIn
<1>8. TypeOK'
  BY <1>1, <1>2, <1>5, <1>7, NumberFacts, ConstantFacts DEF IInv, TypeOK, Ring
<1>9. ChannelType'
  BY <1>1, <1>2 DEF IInv, ChannelType
<1>10. CounterInv'
  <2>1. /\ reliableSequence \in Nat /\ reliableAcknowledge \in Nat /\ N \in Nat
        /\ reliableSequence - reliableAcknowledge <= N + 1
        /\ reliableSequence' = reliableSequence
        /\ reliableAcknowledge' \in 0 .. reliableSequence
    BY <1>1, <1>5, NumberFacts, ConstantFacts
  <2>2. \/ reliableSequence - reliableAcknowledge' <= N
        \/ reliableAcknowledge' = reliableAcknowledge
    BY <1>5
  <2>3. /\ reliableSequence - reliableAcknowledge' <= N + 1
        /\ reliableSequence - reliableAcknowledge' = N + 1
              => reliableAcknowledge' = reliableAcknowledge
    BY <2>1, <2>2, Outstanding
  <2>4. reliableSequence' - reliableAcknowledge' = N + 1 => reliableSequence' - N \in overwritten'
    BY <1>1, <2>3 DEF IInv, CounterInv
  <2>5. overwritten' = {} => reliableAcknowledge' <= lastClientCommand'
    BY <1>1, <1>5
  <2> QED BY <1>1, <2>3, <2>4, <2>5 DEF IInv, CounterInv
<1>11. RingInv'
  BY <1>1, <1>7 DEF IInv, RingInv, HoldsNewest
<1>12. ToServerInv'
  <2>1. AcksOK(toServer, svAcknowledge, serverCommandSequence')
    BY <1>7, NumberFacts, AcksGrow DEF IInv, ToServerInv
  <2> QED BY <1>1, <2>1 DEF IInv, ToServerInv
<1>13. ToClientInv'
  <2>1. ASSUME overwritten = {}
        PROVE  AcksOK(Tail(toClient), reliableAcknowledge', lastClientCommand)
    BY <1>1, <1>5, <2>1, NumberFacts, AcksTail DEF IInv, ToClientInv, ChannelType, m
  <2>2. ASSUME NEW j \in 1 .. Len(Tail(toClient))
        PROVE  ServerMessageOK(Tail(toClient)[j], lastClientCommand, svAcknowledge, svSequence,
                               overwritten)
    <3>1. \E k \in 1 .. Len(toClient) : Tail(toClient)[j] = toClient[k]
      BY <1>1, AllTail DEF IInv, ChannelType
    <3> QED BY <3>1 DEF IInv, ToClientInv
  <2> QED BY <1>1, <2>1, <2>2 DEF ToClientInv
<1>14. ServerExecutedInv' /\ CgameExecutedInv'
  BY <1>1 DEF IInv, ServerExecutedInv, CgameExecutedInv
<1> QED BY <1>8, <1>9, <1>10, <1>11, <1>12, <1>13, <1>14 DEF IInv

\* What cgame is given is the command it asked for, since CycledOut says when the slot
\* has another (CL_CGameNeedsServerCommand).
LEMMA ExecuteInv ==
    ASSUME IInv, CG_ExecuteNewServerCommands
    PROVE  IInv'
<1> DEFINE n == cgsCommandSequence + 1
<1>1. /\ state = "connected" /\ cgsCommandSequence < serverCommandNum
      /\ cgsCommandSequence' = n
      /\ UNCHANGED <<clientOut, clientIn, serverOut, serverIn, toServer, toClient>>
  BY DEF CG_ExecuteNewServerCommands, Pending
<1>2. n \in 1 .. serverCommandNum /\ n \in 0 .. serverCommandSequence
  BY <1>1, NumberFacts DEF IInv, TypeOK
<1>3. \/ state' = "dropped" /\ executedByCgame' = executedByCgame
      \/ /\ ~ CycledOut(n) /\ state' = state
         /\ executedByCgame' = Append(executedByCgame, serverCommands[Slot(n)])
  BY DEF CG_ExecuteNewServerCommands
<1> HIDE DEF n
<1>4. ~ CycledOut(n) => serverCommands[Slot(n)] = n
  BY <1>2, NumberFacts, ConstantFacts DEF CycledOut, IInv, RingInv, HoldsNewest, N
<1> USE <1>1 DEF clientOut, clientIn, serverOut, serverIn
<1>5. TypeOK'
  BY <1>2, <1>3, NumberFacts DEF IInv, TypeOK
<1>6. ChannelType' /\ CounterInv' /\ RingInv'
  BY DEF IInv, ChannelType, CounterInv, RingInv, HoldsNewest
<1>7. ToServerInv' /\ ToClientInv' /\ ServerExecutedInv'
  BY DEF IInv, ToServerInv, ToClientInv, ServerExecutedInv
<1>8. CgameExecutedInv'
  <2>1. /\ executedByCgame \in Seq(Nat) /\ Len(executedByCgame) = cgsCommandSequence
        /\ \A i \in 1 .. Len(executedByCgame) : executedByCgame[i] = i
        /\ n \in Nat
    BY <1>2 DEF IInv, CgameExecutedInv
  <2>2. CASE state' = "dropped" /\ executedByCgame' = executedByCgame
    BY <2>1, <2>2 DEF CgameExecutedInv
  <2>3. CASE state' = state /\ executedByCgame' = Append(executedByCgame, n)
    <3>1. /\ executedByCgame' \in Seq(Nat) /\ Len(executedByCgame') = n
          /\ \A i \in 1 .. Len(executedByCgame') : executedByCgame'[i] = i
      <4>1. cgsCommandSequence \in Nat
        BY NumberFacts
      <4> QED BY ONLY <2>1, <2>3, <4>1 DEF n
    <3> QED BY <3>1 DEF CgameExecutedInv
  <2> QED BY <1>3, <1>4, <2>2, <2>3
<1> QED BY <1>5, <1>6, <1>7, <1>8 DEF IInv

\* The server adds a command.
LEMMA AddServerCommandInv ==
    ASSUME IInv, SV_AddServerCommand
    PROVE  IInv'
<1>1. /\ svSequence < MaxServerCommands /\ svSequence - svAcknowledge < ServerOutstanding
      /\ svSequence' = svSequence + 1
      /\ svCommands' = [svCommands EXCEPT ![Slot(svSequence + 1)] = svSequence + 1]
      /\ UNCHANGED <<state, clientOut, clientIn, cgame, svAcknowledge, serverIn,
                     toServer, toClient>>
  BY DEF SV_AddServerCommand
<1>2. svCommands' \in Ring /\ HoldsNewest(svCommands', svSequence')
  <2>1. svCommands \in Ring /\ HoldsNewest(svCommands, svSequence)
    BY DEF IInv, TypeOK, RingInv
  <2> QED BY <1>1, <2>1, NumberFacts, HoldsAdded
<1> USE <1>1 DEF clientOut, clientIn, cgame, serverIn
<1>3. TypeOK'
  BY <1>2, NumberFacts, ConstantFacts DEF IInv, TypeOK, Ring
<1>4. ChannelType'
  BY DEF IInv, ChannelType
<1>5. CounterInv'
  BY NumberFacts, ConstantFacts DEF IInv, CounterInv
<1>6. RingInv'
  BY <1>2 DEF IInv, RingInv, HoldsNewest
<1>7. ToClientInv'
  <2>1. ASSUME NEW j \in 1 .. Len(toClient)
        PROVE  ServerMessageOK(toClient[j], lastClientCommand, svAcknowledge, svSequence + 1,
                               overwritten)
    <3>1. ServerMessageOK(toClient[j], lastClientCommand, svAcknowledge, svSequence, overwritten)
      BY DEF IInv, ToClientInv
    <3> QED BY <3>1, NumberFacts, ServerMessageGrows
  <2> QED BY <2>1 DEF IInv, ToClientInv
<1>8. ToServerInv' /\ ServerExecutedInv' /\ CgameExecutedInv'
  BY DEF IInv, ToServerInv, ServerExecutedInv, CgameExecutedInv
<1> QED BY <1>3, <1>4, <1>5, <1>6, <1>7, <1>8 DEF IInv

\* The server repeats its commands.
LEMMA SendMessageInv ==
    ASSUME IInv, NEW legible \in BOOLEAN, SV_SendMessage(legible)
    PROVE  IInv'
<1> DEFINE m == [ack |-> lastClientCommand, key |-> lastClientCommandString,
                 legible |-> legible,
                 commands |-> Texts(svCommands, svAcknowledge + 1 .. svSequence)]
<1>1. /\ toClient' = Sent(toClient, m)
      /\ UNCHANGED <<state, clientOut, clientIn, cgame, serverOut, serverIn, toServer>>
  BY DEF SV_SendMessage
<1>2. /\ svSequence - svAcknowledge < N /\ svAcknowledge \in 0 .. svSequence
      /\ svSequence \in svAcknowledge .. svSequence
  BY NumberFacts, ConstantFacts
<1>3. m.commands = [i \in svAcknowledge + 1 .. svSequence |-> i]
  <2>1. svCommands \in Ring /\ HoldsNewest(svCommands, svSequence)
    BY DEF IInv, TypeOK, RingInv
  <2>2. Texts(svCommands, svAcknowledge + 1 .. svSequence)
          = [i \in svAcknowledge + 1 .. svSequence |-> i]
    BY <1>2, <2>1, NumberFacts, TextsHeld
  <2> QED BY <2>2
<1>4. m.key = lastClientCommandString /\ m.ack = lastClientCommand /\ m.legible \in BOOLEAN
  OBVIOUS
<1>5. m \in ServerMessage
  <2>1. m.commands \in Commands
    <3> HIDE DEF m
    <3> QED BY <1>3, NumberFacts, ConsecutiveCommands
  <2> QED BY <1>4, <2>1, NumberFacts DEF ServerMessage
<1> HIDE DEF m
<1>6. ServerMessageOK(m, lastClientCommand, svAcknowledge, svSequence, overwritten)
  <2>1. svAcknowledge \in 0 .. svAcknowledge /\ svSequence \in 0 .. svSequence
    BY NumberFacts
  <2>2. Consecutive(m.commands, svAcknowledge, svSequence)
    BY <1>2, <1>3, <2>1 DEF Consecutive
  <2>3. m.ack \in 0 .. lastClientCommand
    BY <1>4, NumberFacts
  <2>4. IsText(m.ack, m.key, overwritten)
    BY <1>4 DEF IInv, CounterInv
  <2> QED BY <2>2, <2>3, <2>4 DEF ServerMessageOK
<1>7. Sent(toClient, m) \in Seq(ServerMessage) /\ Len(Sent(toClient, m)) <= MaxInFlight
  BY <1>5, SentFacts DEF IInv, ChannelType, TypeOK
<1> USE <1>1 DEF clientOut, clientIn, cgame, serverOut, serverIn
<1>8. TypeOK'
  BY <1>7 DEF IInv, TypeOK
<1>9. ChannelType' /\ CounterInv' /\ RingInv'
  BY <1>7 DEF IInv, ChannelType, CounterInv, RingInv, HoldsNewest
<1>10. ToClientInv'
  <2>1. ASSUME overwritten = {}
        PROVE  AcksOK(Sent(toClient, m), reliableAcknowledge, lastClientCommand)
    BY <1>4, <1>5, <2>1, NumberFacts, NothingLost, AcksSent DEF IInv, ToClientInv, ChannelType
  <2>2. ASSUME NEW j \in 1 .. Len(Sent(toClient, m))
        PROVE  ServerMessageOK(Sent(toClient, m)[j], lastClientCommand, svAcknowledge, svSequence,
                               overwritten)
    <3>1. toClient \in Seq(ServerMessage)
      BY DEF IInv, ChannelType
    <3>2. \/ Sent(toClient, m)[j] = m
          \/ \E k \in 1 .. Len(toClient) : Sent(toClient, m)[j] = toClient[k]
      BY <1>5, <3>1, AllSent
    <3> QED BY <1>6, <3>2 DEF IInv, ToClientInv
  <2> QED BY <2>1, <2>2 DEF ToClientInv
<1>11. ToServerInv' /\ ServerExecutedInv' /\ CgameExecutedInv'
  BY DEF IInv, ToServerInv, ServerExecutedInv, CgameExecutedInv
<1> QED BY <1>8, <1>9, <1>10, <1>11 DEF IInv

\* The next message from the client is decoded with the key it was encoded with
\* (CL_Netchan_Encode).
LEMMA ServerReadsRightly ==
    ASSUME IInv, NEW j \in 1 .. Len(toServer)
    PROVE  svCommands[Slot(toServer[j].ack)] = toServer[j].key
<1> DEFINE m == toServer[j]
<1>1. m.ack \in svAcknowledge .. serverCommandSequence /\ m.key = m.ack
  BY DEF IInv, ToServerInv, AcksOK, ClientMessageOK
<1> HIDE DEF m
<1>2. m.ack \in 0 .. svSequence /\ m.ack > svSequence - N
  <2>1. /\ svAcknowledge \in Nat /\ serverCommandSequence \in Nat /\ svSequence \in Nat
        /\ serverCommandSequence <= svSequence /\ svSequence - svAcknowledge <= ServerOutstanding
    BY NumberFacts
  <2>2. ServerOutstanding \in Nat /\ N \in Nat /\ ServerOutstanding < N
    BY ConstantFacts
  <2> QED BY ONLY <1>1, <2>1, <2>2
<1>3. svCommands[Slot(m.ack)] = m.key
  BY <1>1, <1>2 DEF IInv, RingInv, HoldsNewest
<1> QED BY <1>3 DEF m

\* The server executes what follows the last command it executed, or nothing.
LEMMA ServerExecutes ==
    ASSUME IInv, SV_ExecuteClientMessage
    PROVE  /\ lastClientCommand' \in lastClientCommand .. reliableSequence
           /\ lastClientCommandString' \in Nat
           /\ IsText(lastClientCommand', lastClientCommandString', overwritten)
           /\ executedByServer' \in Seq(Nat)
           /\ Len(executedByServer') = lastClientCommand'
           /\ \A i \in 1 .. lastClientCommand' : IsText(i, executedByServer'[i], overwritten)
           /\ state' \in {state, "dropped"}
<1> DEFINE m == Head(toServer)
           new == {i \in DOMAIN m.commands : i > lastClientCommand}
           top == CHOOSE i \in new : \A j \in new : j <= i
           added == [i \in 1 .. top - lastClientCommand |-> m.commands[lastClientCommand + i]]
<1>1. /\ toServer # <<>> /\ Len(toServer) \in Nat \ {0} /\ m = toServer[1]
      /\ 1 \in 1 .. Len(toServer)
  BY TailFacts DEF SV_ExecuteClientMessage, IInv, ChannelType
<1>2. svCommands[Slot(m.ack)] = m.key
  BY <1>1, ServerReadsRightly
<1>3. ClientCommands(m.commands, lastClientCommand, reliableSequence, overwritten)
  BY <1>1 DEF IInv, ToServerInv, ClientMessageOK
<1>4. /\ lastClientCommand \in lastClientCommand .. reliableSequence
      /\ lastClientCommandString \in Nat
      /\ IsText(lastClientCommand, lastClientCommandString, overwritten)
      /\ executedByServer \in Seq(Nat)
      /\ Len(executedByServer) = lastClientCommand
      /\ \A i \in 1 .. lastClientCommand : IsText(i, executedByServer[i], overwritten)
  BY NumberFacts DEF IInv, CounterInv, ServerExecutedInv
<1>5. \/ UNCHANGED serverIn /\ state' \in {state, "dropped"}
      \/ /\ new # {} /\ lastClientCommand + 1 \in new
         /\ lastClientCommand' = top /\ lastClientCommandString' = m.commands[top]
         /\ executedByServer' = executedByServer \o added
         /\ state' = state
  BY <1>2 DEF SV_ExecuteClientMessage
<1>6. CASE UNCHANGED serverIn /\ state' \in {state, "dropped"}
  BY <1>4, <1>6 DEF serverIn
<1>7. CASE /\ new # {} /\ lastClientCommand + 1 \in new
           /\ lastClientCommand' = top /\ lastClientCommandString' = m.commands[top]
           /\ executedByServer' = executedByServer \o added
           /\ state' = state
  <2>1. PICK a \in 0 .. reliableSequence, b \in 0 .. reliableSequence :
          /\ m.commands \in [a + 1 .. b -> Nat]
          /\ \A i \in a + 1 .. b : IsText(i, m.commands[i], overwritten)
    BY <1>3 DEF ClientCommands
  <2> HIDE DEF m
  <2>2. lastClientCommand \in Nat /\ a \in Nat /\ b \in Nat /\ b <= reliableSequence
    BY <2>1, NumberFacts
  <2>3. new = lastClientCommand + 1 .. b /\ lastClientCommand + 1 <= b /\ a <= lastClientCommand
    <3>1. new = {i \in a + 1 .. b : i > lastClientCommand}
      BY <2>1
    <3>2. lastClientCommand + 1 \in a + 1 .. b
      BY <1>7, <3>1
    <3> HIDE DEF new
    <3> QED BY <2>2, <3>1, <3>2
  <2>4. top = b
    <3>1. b \in new /\ \A k \in new : k \in Nat /\ k <= b
      BY <2>2, <2>3
    <3>2. \A i \in new : (\A k \in new : k <= i) => i = b
      BY <2>2, <3>1
    <3> HIDE DEF new
    <3> QED BY <3>1, <3>2
  <2> HIDE DEF new, top
  <2>5. /\ added \in Seq(Nat) /\ Len(added) = b - lastClientCommand
        /\ \A i \in 1 .. b - lastClientCommand : added[i] = m.commands[lastClientCommand + i]
    <3>1. \A i \in 1 .. b - lastClientCommand : m.commands[lastClientCommand + i] \in Nat
      <4> SUFFICES ASSUME NEW i \in 1 .. b - lastClientCommand
                   PROVE  m.commands[lastClientCommand + i] \in Nat
        OBVIOUS
      <4>1. lastClientCommand + i \in a + 1 .. b
        BY <2>2, <2>3
      <4> QED BY <2>1, <4>1
    <3>2. added = [i \in 1 .. b - lastClientCommand |-> m.commands[lastClientCommand + i]]
      BY <2>4
    <3>3. b - lastClientCommand \in Nat
      BY <2>2, <2>3
    <3> HIDE DEF added
    <3> QED BY <3>1, <3>2, <3>3
  <2> HIDE DEF added
  <2>6. /\ executedByServer' \in Seq(Nat)
        /\ Len(executedByServer') = Len(executedByServer) + Len(added)
        /\ \A i \in 1 .. Len(executedByServer) + Len(added) :
              executedByServer'[i] = IF i <= Len(executedByServer) THEN executedByServer[i]
                                     ELSE added[i - Len(executedByServer)]
    BY <1>4, <1>7, <2>5, ConcatProperties, Zenon
  <2>7. Len(executedByServer) = lastClientCommand /\ lastClientCommand + Len(added) = b
    BY <1>4, <2>2, <2>5
  <2>8. ASSUME NEW i \in 1 .. b PROVE IsText(i, executedByServer'[i], overwritten)
    <3>1. CASE i <= lastClientCommand
      <4>1. i \in 1 .. lastClientCommand /\ executedByServer'[i] = executedByServer[i]
        BY <2>2, <2>6, <2>7, <3>1
      <4> QED BY <1>4, <4>1
    <3>2. CASE ~ (i <= lastClientCommand)
      <4>1. /\ i - lastClientCommand \in 1 .. b - lastClientCommand
            /\ lastClientCommand + (i - lastClientCommand) = i
            /\ i \in a + 1 .. b
        BY <2>2, <2>3, <3>2
      <4>2. executedByServer'[i] = added[i - lastClientCommand]
        BY <2>6, <2>7, <3>2
      <4>3. executedByServer'[i] = m.commands[i]
        BY <2>5, <4>1, <4>2
      <4> QED BY <2>1, <4>1, <4>3
    <3> QED BY <3>1, <3>2
  <2>9. b \in lastClientCommand .. reliableSequence /\ b \in a + 1 .. b
    BY <2>2, <2>3
  <2>10. m.commands[b] \in Nat /\ IsText(b, m.commands[b], overwritten)
    BY <2>1, <2>9
  <2> QED BY <1>7, <2>4, <2>6, <2>7, <2>8, <2>9, <2>10
<1> QED BY <1>5, <1>6, <1>7

\* The server reads a message of CL_WritePacket.
LEMMA ExecuteClientMessageInv ==
    ASSUME IInv, SV_ExecuteClientMessage
    PROVE  IInv'
<1> DEFINE m == Head(toServer)
<1>1. /\ toServer # <<>> /\ toServer' = Tail(toServer)
      /\ UNCHANGED <<clientOut, clientIn, cgame, svSequence, svCommands, toClient>>
  BY DEF SV_ExecuteClientMessage
<1>2. /\ Len(toServer) \in Nat \ {0} /\ Len(toServer') = Len(toServer) - 1
      /\ m = toServer[1] /\ toServer' \in Seq(ClientMessage)
  BY <1>1, TailFacts DEF IInv, ChannelType
<1>3. 1 \in 1 .. Len(toServer)
  BY <1>2
<1>4. svCommands[Slot(m.ack)] = m.key
  BY <1>2, <1>3, ServerReadsRightly
<1>5. m.ack \in svAcknowledge .. serverCommandSequence
  BY <1>2, <1>3 DEF IInv, ToServerInv, AcksOK
<1>6. svAcknowledge' = m.ack
  BY <1>4 DEF SV_ExecuteClientMessage
<1>7. /\ lastClientCommand' \in lastClientCommand .. reliableSequence
      /\ lastClientCommandString' \in Nat
      /\ IsText(lastClientCommand', lastClientCommandString', overwritten)
      /\ state' \in {state, "dropped"} /\ state \in {"connected", "dropped"}
  BY ServerExecutes DEF IInv, TypeOK
<1>8. ServerExecutedInv'
  BY <1>1, ServerExecutes DEF ServerExecutedInv, clientOut
<1> HIDE DEF m
<1> USE <1>1 DEF clientOut, clientIn, cgame
<1>9. TypeOK'
  BY <1>2, <1>5, <1>6, <1>7, NumberFacts, ConstantFacts DEF IInv, TypeOK
<1>10. ChannelType'
  BY <1>2 DEF IInv, ChannelType
<1>11. CounterInv'
  <2>1. /\ svAcknowledge \in Nat /\ serverCommandSequence \in Nat /\ svSequence \in Nat
        /\ svSequence - svAcknowledge <= ServerOutstanding /\ ServerOutstanding \in Nat
        /\ svSequence' = svSequence /\ lastClientCommand \in Nat /\ reliableAcknowledge \in Nat
        /\ reliableSequence \in Nat
    BY NumberFacts, ConstantFacts
  <2>2. svSequence' - svAcknowledge' <= ServerOutstanding
    BY ONLY <1>5, <1>6, <2>1
  <2>3. overwritten' = {} => reliableAcknowledge' <= lastClientCommand'
    <3>1. overwritten = {} => reliableAcknowledge <= lastClientCommand
      BY NothingLost
    <3> QED BY <1>7, <2>1, <3>1
  <2> QED BY <1>7, <2>2, <2>3 DEF IInv, CounterInv
<1>12. RingInv'
  BY DEF IInv, RingInv, HoldsNewest
<1>13. lastClientCommand' \in Nat /\ lastClientCommand <= lastClientCommand'
       /\ m.ack \in Nat /\ svAcknowledge <= m.ack
  BY <1>5, <1>7, NumberFacts
<1>14. ToServerInv'
  <2>1. AcksOK(Tail(toServer), m.ack, serverCommandSequence)
    BY <1>13, NumberFacts, AcksTail DEF IInv, ToServerInv, ChannelType, m
  <2>2. ASSUME NEW j \in 1 .. Len(Tail(toServer))
        PROVE  ClientMessageOK(Tail(toServer)[j], lastClientCommand', reliableSequence, overwritten)
    <3>1. \E k \in 1 .. Len(toServer) : Tail(toServer)[j] = toServer[k]
      BY AllTail DEF IInv, ChannelType
    <3>2. ClientMessageOK(Tail(toServer)[j], lastClientCommand, reliableSequence, overwritten)
      BY <3>1 DEF IInv, ToServerInv
    <3> QED BY <1>13, <3>2, NumberFacts, ClientMessageGrows
  <2> QED BY <1>6, <2>1, <2>2 DEF ToServerInv
<1>15. ToClientInv'
  <2>1. overwritten = {} => AcksOK(toClient, reliableAcknowledge, lastClientCommand')
    BY <1>13, NumberFacts, AcksGrow DEF IInv, ToClientInv
  <2>2. ASSUME NEW j \in 1 .. Len(toClient)
        PROVE  ServerMessageOK(toClient[j], lastClientCommand', m.ack, svSequence, overwritten)
    <3>1. ServerMessageOK(toClient[j], lastClientCommand, svAcknowledge, svSequence, overwritten)
      BY DEF IInv, ToClientInv
    <3> QED BY <1>13, <3>1, NumberFacts, ServerMessageGrows
  <2> QED BY <1>6, <2>1, <2>2 DEF ToClientInv
<1>16. CgameExecutedInv'
  BY <1>7 DEF IInv, CgameExecutedInv
<1> QED BY <1>8, <1>9, <1>10, <1>11, <1>12, <1>14, <1>15, <1>16 DEF IInv

\* A message is lost.
LEMMA LoseInv ==
    ASSUME IInv, Lose
    PROVE  IInv'
<1>1. UNCHANGED <<state, clientOut, clientIn, cgame, serverOut, serverIn>>
  BY DEF Lose
<1> USE DEF clientOut, clientIn, cgame, serverOut, serverIn
<1>2. CounterInv' /\ RingInv' /\ ServerExecutedInv' /\ CgameExecutedInv'
  BY <1>1 DEF IInv, CounterInv, RingInv, ServerExecutedInv, CgameExecutedInv, HoldsNewest
<1>3. CASE toServer # <<>> /\ toServer' = Tail(toServer) /\ UNCHANGED toClient
  <2>1. /\ toServer' \in Seq(ClientMessage) /\ Len(toServer) \in Nat
        /\ Len(toServer') = Len(toServer) - 1
    BY <1>3, TailFacts DEF IInv, ChannelType
  <2>2. AcksOK(Tail(toServer), svAcknowledge, serverCommandSequence)
    BY <1>3, NumberFacts, AcksTail DEF IInv, ToServerInv, ChannelType
  <2>3. ASSUME NEW j \in 1 .. Len(Tail(toServer))
        PROVE  ClientMessageOK(Tail(toServer)[j], lastClientCommand, reliableSequence, overwritten)
    <3>1. \E k \in 1 .. Len(toServer) : Tail(toServer)[j] = toServer[k]
      BY <1>3, AllTail DEF IInv, ChannelType
    <3> QED BY <3>1 DEF IInv, ToServerInv
  <2>4. ToServerInv' /\ ToClientInv'
    BY <1>1, <1>3, <2>2, <2>3 DEF IInv, ToServerInv, ToClientInv
  <2>5. TypeOK' /\ ChannelType'
    BY <1>1, <1>3, <2>1, ConstantFacts DEF IInv, TypeOK, ChannelType
  <2> QED BY <1>2, <2>4, <2>5 DEF IInv
<1>4. CASE toClient # <<>> /\ toClient' = Tail(toClient) /\ UNCHANGED toServer
  <2>1. /\ toClient' \in Seq(ServerMessage) /\ Len(toClient) \in Nat
        /\ Len(toClient') = Len(toClient) - 1
    BY <1>4, TailFacts DEF IInv, ChannelType
  <2>2. overwritten = {} => AcksOK(Tail(toClient), reliableAcknowledge, lastClientCommand)
    BY <1>4, NumberFacts, AcksTail DEF IInv, ToClientInv, ChannelType
  <2>3. ASSUME NEW j \in 1 .. Len(Tail(toClient))
        PROVE  ServerMessageOK(Tail(toClient)[j], lastClientCommand, svAcknowledge, svSequence,
                               overwritten)
    <3>1. \E k \in 1 .. Len(toClient) : Tail(toClient)[j] = toClient[k]
      BY <1>4, AllTail DEF IInv, ChannelType
    <3> QED BY <3>1 DEF IInv, ToClientInv
  <2>4. ToServerInv' /\ ToClientInv'
    BY <1>1, <1>4, <2>2, <2>3 DEF IInv, ToServerInv, ToClientInv
  <2>5. TypeOK' /\ ChannelType'
    BY <1>1, <1>4, <2>1, ConstantFacts DEF IInv, TypeOK, ChannelType
  <2> QED BY <1>2, <2>4, <2>5 DEF IInv
<1> QED BY <1>3, <1>4 DEF Lose

\* Nothing happens.
LEMMA StutterInv ==
    ASSUME IInv, UNCHANGED vars
    PROVE  IInv'
<1> USE DEF vars, clientOut, clientIn, cgame, serverOut, serverIn
<1>1. TypeOK' /\ ChannelType' /\ CounterInv' /\ RingInv'
  BY DEF IInv, TypeOK, ChannelType, CounterInv, RingInv, HoldsNewest
<1>2. ToServerInv' /\ ToClientInv'
  BY DEF IInv, ToServerInv, ToClientInv
<1>3. ServerExecutedInv' /\ CgameExecutedInv'
  BY DEF IInv, ServerExecutedInv, CgameExecutedInv
<1> QED BY <1>1, <1>2, <1>3 DEF IInv

-----------------------------------------------------------------------------
(* Theorems *)

\* The inductive invariant: the rings hold the newest commands of their counters, and
\* whatever is under way acknowledges a command that was executed and repeats commands
\* with their texts, except those that CL_AddReliableCommand has overwritten
\* (CL_WritePacket, CL_PacketEvent).
THEOREM Invariance ==
    Spec => []IInv
<1>1. Init => IInv
  BY InitInv
<1>2. IInv /\ [Next]_vars => IInv'
  <2> SUFFICES ASSUME IInv, [Next]_vars PROVE IInv'
    OBVIOUS
  <2>1. CASE CL_AddReliableCommand
    BY <2>1, AddInv
  <2>2. CASE \E count \in 0 .. MaxClientCommands : CL_WritePacket(count)
    BY <2>2, WritePacketInv
  <2>3. CASE CL_PacketEvent
    BY <2>3, PacketEventInv
  <2>4. CASE CG_ExecuteNewServerCommands
    BY <2>4, ExecuteInv
  <2>5. CASE SV_AddServerCommand
    BY <2>5, AddServerCommandInv
  <2>6. CASE \E legible \in BOOLEAN : SV_SendMessage(legible)
    BY <2>6, SendMessageInv
  <2>7. CASE SV_ExecuteClientMessage
    BY <2>7, ExecuteClientMessageInv
  <2>8. CASE Lose
    BY <2>8, LoseInv
  <2>9. CASE UNCHANGED vars
    BY <2>9, StutterInv
  <2> QED
    BY <2>1, <2>2, <2>3, <2>4, <2>5, <2>6, <2>7, <2>8, <2>9 DEF Next
<1> QED BY <1>1, <1>2, PTL DEF Spec

\* The counters of the two ends stay in order, cgame's behind the client's behind the
\* server's, also after commands were overwritten or a message was too far behind
\* (CL_PacketEvent, CL_AddReliableCommand).
THEOREM TypeCorrect ==
    Spec => []TypeOK
<1>1. IInv => TypeOK
  BY DEF IInv
<1> QED BY <1>1, Invariance, PTL

\* The server executes the client's commands in order and once, and intact but for those
\* overwritten (CL_AddReliableCommand, CL_WritePacket).
THEOREM ClientInOrder ==
    Spec => []ClientCommandsInOrder
<1>1. IInv => ClientCommandsInOrder
  <2> SUFFICES ASSUME IInv PROVE ClientCommandsInOrder
    OBVIOUS
  <2>1. DOMAIN executedByServer = 1 .. lastClientCommand
    BY DEF IInv, ServerExecutedInv
  <2> QED BY <2>1 DEF ClientCommandsInOrder, IInv, ServerExecutedInv, IsText
<1> QED BY <1>1, Invariance, PTL

\* cgame executes the server's commands in order, once and intact, however far it falls
\* behind (CL_ParseCommandString, CL_CGameNeedsServerCommand).
THEOREM ServerInOrder ==
    Spec => []ServerCommandsInOrder
<1>1. IInv => ServerCommandsInOrder
  BY DEF IInv, CgameExecutedInv, ServerCommandsInOrder
<1> QED BY <1>1, Invariance, PTL

\* Commands are executed in order and once in both directions (CL_AddReliableCommand,
\* CL_CGameNeedsServerCommand).
THEOREM CommandsAlwaysInOrder ==
    Spec => []CommandsInOrder
  BY ClientInOrder, ServerInOrder, PTL DEF CommandsInOrder

\* Every message that acknowledges a command which its receiver still holds is decoded
\* with the key it was encoded with (CL_Netchan_Decode, CL_Netchan_Encode).
THEOREM KeysAlwaysAgree ==
    Spec => []KeysAgree
<1>1. IInv => KeysAgree
  <2> SUFFICES ASSUME IInv PROVE KeysAgree
    OBVIOUS
  <2>1. DOMAIN toClient = 1 .. Len(toClient) /\ DOMAIN toServer = 1 .. Len(toServer)
    BY DEF IInv, ChannelType
  <2> QED BY <2>1, ReadsRightly, ServerReadsRightly DEF KeysAgree, N
<1> QED BY <1>1, Invariance, PTL

\* Until a command is overwritten, the client stops repeating one only after the server
\* executed it (CL_PacketEvent, CL_AddReliableCommand).
THEOREM AcknowledgesExecuted ==
    Spec => []AcknowledgedIsExecuted
<1>1. IInv => AcknowledgedIsExecuted
  BY DEF IInv, CounterInv, AcknowledgedIsExecuted
<1> QED BY <1>1, Invariance, PTL

\* What the guard of CL_AddReliableCommand does keep: at most one command more than the
\* ring holds is outstanding, and then only the oldest is overwritten.
THEOREM KeepsUnacknowledged ==
    Spec => []UnacknowledgedIsKept
<1>1. IInv => UnacknowledgedIsKept
  <2> SUFFICES ASSUME IInv PROVE UnacknowledgedIsKept
    OBVIOUS
  <2>1. ASSUME NEW i \in reliableAcknowledge + 1 .. reliableSequence,
               ~ (i = reliableAcknowledge + 1
                    /\ reliableSequence - reliableAcknowledge = N + 1)
        PROVE  reliableCommands[Slot(i)] = i
    <3>1. i \in 0 .. reliableSequence /\ i > reliableSequence - N
      BY <2>1, NumberFacts, ConstantFacts
    <3> QED BY <3>1 DEF IInv, RingInv, HoldsNewest
  <2> QED BY <2>1, NumberFacts DEF UnacknowledgedIsKept, N
<1> QED BY <1>1, Invariance, PTL
===============================================================================
