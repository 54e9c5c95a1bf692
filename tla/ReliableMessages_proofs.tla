----------------------- MODULE ReliableMessages_proofs -----------------------
(***************************************************************************)
(* The reader of the reliable stream never loses step with the writer:     *)
(* for every size of fragments, headers, windows and messages.             *)
(*                                                                         *)
(* A message begins a fragment and every fragment but its last is full, so *)
(* the stream says of each fragment which bytes of which message it has    *)
(* (StreamInv).  What the reader holds, in msg and in fragmentbuffer, are  *)
(* the bytes of one message up to where the next fragment begins           *)
(* (ReaderInv): nothing of the next message is ever taken with the end of  *)
(* one, and the first fragment of a message has its whole header.          *)
(***************************************************************************)
EXTENDS ReliableMessages, WellFoundedInduction, TLAPS

USE MessageAssumption

\* A byte of a message.
Letter == [msg : Nat, pos : Nat]
Byte(m, p) == [msg |-> m, pos |-> p]

\* Message m, and the bytes of it that fragment i of the stream has.
Total(m) == HeaderSize + sent[m]
Owner(i) == stream[i][1].msg
From(i) == stream[i][1].pos
To(i) == From(i) + Len(stream[i]) - 1

\* The byte that comes after byte p of message m, and the one after fragment i.
Following(m, p) == IF p = Total(m) THEN <<m + 1, 1>> ELSE <<m, p + 1>>
After(i) == IF i = 0 THEN <<1, 1>> ELSE Following(Owner(i), To(i))

\* A fragment has bytes of one message, from where the one before it ends, and is full
\* unless it ends the message.
FragmentOK(i) ==
    /\ Len(stream[i]) \in 1 .. FragmentSize
    /\ Owner(i) \in 1 .. Len(sent) /\ From(i) \in Nat \ {0}
    /\ stream[i] = [q \in 1 .. Len(stream[i]) |-> Byte(Owner(i), From(i) + q - 1)]
    /\ <<Owner(i), From(i)>> = After(i - 1)
    /\ To(i) <= Total(Owner(i))
    /\ Len(stream[i]) = FragmentSize \/ To(i) = Total(Owner(i))

StreamInv ==
    /\ sent \in Seq(Nat)
    /\ stream \in Seq(Seq(Letter))
    /\ \A i \in 1 .. Len(stream) : FragmentOK(i)
    /\ After(Len(stream)) = <<Len(sent) + 1, 1>>

\* The message under way.
Current == Len(executed) + 1

\* What was read of it is followed by what is cached, and that by the next fragment.
ReaderInv ==
    /\ rxSequence \in 0 .. arrived /\ arrived \in 0 .. Len(stream)
    /\ executed \in Seq(Seq(Letter))
    /\ Len(executed) <= Len(sent)
    /\ \A m \in 1 .. Len(executed) : executed[m] = Bytes(m, sent[m])
    /\ Len(msg) \in Nat /\ msg = [q \in 1 .. Len(msg) |-> Byte(Current, q)]
    /\ Len(fragmentbuffer) \in 0 .. FragmentSize - 1
    /\ fragmentbuffer = [q \in 1 .. Len(fragmentbuffer) |-> Byte(Current, Len(msg) + q)]
    /\ msg = <<>> => fragmentbuffer = <<>> /\ After(rxSequence) = <<Current, 1>>
    /\ msg # <<>> => /\ Current <= Len(sent) /\ HeaderSize <= Len(msg)
                     /\ Len(msg) + Len(fragmentbuffer) <= Total(Current)
                     /\ After(rxSequence) = Following(Current, Len(msg) + Len(fragmentbuffer))

MessageInv == StreamInv /\ ReaderInv

-----------------------------------------------------------------------------
(* The loop of ReliableMessageReceive *)

\* What induction is taken from: every set of numbers that is not empty has a least one.
LEMMA LeastNumber ==
    ASSUME NEW T \in SUBSET Nat, T # {}
    PROVE  \E x \in T : \A y \in T : x <= y
<1> DEFINE Less == {ss \in Nat \X Nat : ss[1] < ss[2]}
<1>1. IsWellFoundedOn(Less, Nat)
  <2>1. OpToRel(<, Nat) = Less
    BY DEF OpToRel
  <2> QED BY <2>1, NatLessThanWellFounded
<1> HIDE DEF Less
<1>2. PICK x \in T : \A y \in T : ~ (<<y, x>> \in Less)
  BY <1>1, WFMin
<1>3. ASSUME NEW y \in T PROVE x <= y
  <2>1. ~ (<<y, x>> \in Less) /\ <<y, x>> \in Nat \X Nat
    BY <1>2
  <2>2. y < x => <<y, x>> \in Less
    BY <2>1 DEF Less
  <2> QED BY <2>1, <2>2
<1> QED BY <1>3

\* Induction over a set of numbers: the prover takes no operator as an argument.
LEMMA Induct ==
    ASSUME NEW S \in SUBSET Nat, 0 \in S, \A n \in S : n + 1 \in S
    PROVE  S = Nat
<1> SUFFICES ASSUME Nat \ S # {} PROVE FALSE
  OBVIOUS
<1>1. PICK x \in Nat \ S : \A y \in Nat \ S : x <= y
  BY LeastNumber
<1>2. x # 0
  OBVIOUS
<1>3. x - 1 \in S
  BY <1>1, <1>2
<1> QED BY <1>1, <1>2, <1>3

LEMMA Joined ==
    ASSUME NEW S, NEW a \in Seq(S), NEW b \in Seq(S)
    PROVE  a \o b \in Seq(S)
OBVIOUS

\* The bytes after turn i of the loop, with those of the turns before it in g.
Gathered(g, i) == IF i = 0 THEN fragmentbuffer ELSE g[i - 1] \o stream[rxSequence + i]

\* There is a function with the equation that defines the loop.
LEMMA LoopExists ==
    ASSUME NEW N \in Nat
    PROVE  \E g : g = [i \in 0 .. N |-> Gathered(g, i)]
<1> DEFINE Gathers(g, k) == \A i \in 0 .. N : i <= k => g[i] = Gathered(g, i)
    Turns == {k \in Nat : \E g : g = [i \in 0 .. N |-> g[i]] /\ Gathers(g, k)}
<1>1. 0 \in Turns
  <2> DEFINE g == [i \in 0 .. N |-> fragmentbuffer]
  <2>1. g = [i \in 0 .. N |-> g[i]] /\ Gathers(g, 0)
    BY DEF Gathered
  <2> HIDE DEF g
  <2> QED BY <2>1
<1>2. ASSUME NEW k \in Turns PROVE k + 1 \in Turns
  <2>1. PICK g : g = [i \in 0 .. N |-> g[i]] /\ Gathers(g, k)
    BY <1>2
  <2> DEFINE h == [i \in 0 .. N |-> Gathered(g, i)]
  <2>2. h = [i \in 0 .. N |-> h[i]] /\ \A i \in 0 .. N : h[i] = Gathered(g, i)
    OBVIOUS
  <2> HIDE DEF h
  <2>3. \A i \in 0 .. N : i <= k => h[i] = g[i]
    BY <2>1, <2>2
  <2>4. ASSUME NEW i \in 0 .. N, i <= k + 1 PROVE h[i] = Gathered(h, i)
    <3>1. i # 0 => i - 1 \in 0 .. N /\ i - 1 <= k
      BY <1>2, <2>4
    <3>2. i # 0 => h[i - 1] = g[i - 1]
      BY <2>3, <3>1
    <3> QED BY <2>2, <3>2 DEF Gathered
  <2>5. Gathers(h, k + 1)
    BY <2>4
  <2>6. k + 1 \in Nat
    BY <1>2
  <2> HIDE DEF Gathers
  <2> QED BY <2>2, <2>5, <2>6
<1>3. N \in Turns
  <2> HIDE DEF Turns
  <2>1. Turns \in SUBSET Nat
    BY DEF Turns
  <2> QED BY <1>1, <1>2, <2>1, Induct
<1>4. PICK g : g = [i \in 0 .. N |-> g[i]] /\ Gathers(g, N)
  BY <1>3
<1>5. \A i \in 0 .. N : g[i] = Gathered(g, i)
  BY <1>4
<1> QED BY <1>4, <1>5

\* What is available grows by a fragment with each turn.
LEMMA AvailableGrows ==
    ASSUME arrived - rxSequence \in Nat
    PROVE  /\ Available(0) = fragmentbuffer
           /\ \A i \in 1 .. arrived - rxSequence :
                Available(i) = Available(i - 1) \o stream[rxSequence + i]
<1> DEFINE N == arrived - rxSequence
           g == CHOOSE bytes : bytes = [i \in 0 .. N |-> Gathered(bytes, i)]
<1>1. \A i : Available(i) = g[i]
  BY DEF Available, Gathered
<1>2. g = [i \in 0 .. N |-> Gathered(g, i)]
  <2>1. \E bytes : bytes = [i \in 0 .. N |-> Gathered(bytes, i)]
    <3>1. N \in Nat
      OBVIOUS
    <3> HIDE DEF N
    <3> QED BY <3>1, LoopExists
  <2> QED BY <2>1
<1>3. N \in Nat
  OBVIOUS
<1> HIDE DEF g, N
<1>4. g[0] = Gathered(g, 0) /\ \A i \in 1 .. N : i # 0 /\ g[i] = Gathered(g, i)
  BY <1>2, <1>3
<1>5. Available(0) = fragmentbuffer /\ \A i \in 1 .. N : Available(i) = Available(i - 1) \o stream[rxSequence + i]
  BY <1>1, <1>4 DEF Gathered
<1> QED BY <1>5 DEF N

\* All that is available are bytes.
LEMMA AvailableBytes ==
    ASSUME MessageInv, NEW i \in 0 .. arrived - rxSequence
    PROVE  Available(i) \in Seq(Letter)
<1> DEFINE N == arrived - rxSequence
           Lists == {k \in Nat : k <= N => Available(k) \in Seq(Letter)}
<1>1. /\ N \in Nat /\ rxSequence \in Nat /\ Len(stream) \in Nat /\ rxSequence + N <= Len(stream)
      /\ \A k \in 1 .. N : stream[rxSequence + k] \in Seq(Letter)
  BY DEF MessageInv, ReaderInv, StreamInv
<1>2. fragmentbuffer \in Seq(Letter)
  <2>1. Current \in Nat /\ Len(msg) \in Nat /\ Len(fragmentbuffer) \in Nat
    BY DEF MessageInv, ReaderInv, Current
  <2>2. fragmentbuffer = [q \in 1 .. Len(fragmentbuffer) |-> Byte(Current, Len(msg) + q)]
    BY DEF MessageInv, ReaderInv
  <2>3. \A q \in 1 .. Len(fragmentbuffer) : Byte(Current, Len(msg) + q) \in Letter
    BY <2>1 DEF Byte, Letter
  <2>4. fragmentbuffer \in [1 .. Len(fragmentbuffer) -> Letter]
    BY <2>2, <2>3
  <2> QED BY <2>1, <2>4
<1>3. Available(0) = fragmentbuffer /\ \A k \in 1 .. N : Available(k) = Available(k - 1) \o stream[rxSequence + k]
  BY <1>1, AvailableGrows
<1>6. i \in Nat /\ i <= N
  BY <1>1
<1> HIDE DEF N
<1>7. 0 \in Lists
  BY <1>2, <1>3
<1>4. ASSUME NEW k \in Lists PROVE k + 1 \in Lists
  <2> SUFFICES ASSUME k + 1 <= N PROVE Available(k + 1) \in Seq(Letter)
    BY <1>4
  <2>1. k + 1 \in 1 .. N /\ (k + 1) - 1 = k /\ Available(k) \in Seq(Letter)
    BY <1>1, <1>4
  <2>2. Available(k + 1) = Available(k) \o stream[rxSequence + (k + 1)]
    BY <1>3, <2>1
  <2>3. stream[rxSequence + (k + 1)] \in Seq(Letter)
    BY <1>1, <2>1
  <2> QED BY <2>1, <2>2, <2>3, Joined, ZenonT(30)
<1>5. i \in Lists
  <2> HIDE DEF Lists
  <2>1. Lists \in SUBSET Nat
    BY DEF Lists
  <2> QED BY <1>4, <1>6, <1>7, <2>1, Induct
<1> QED BY <1>5, <1>6

\* The loop stops at the first fragment that gives enough, or at the last.
LEMMA TakenStops ==
    ASSUME MessageInv, NEW len \in Nat, NEW t, t = Taken(len)
    PROVE  /\ t \in 0 .. arrived - rxSequence
           /\ t = arrived - rxSequence \/ Len(Available(t)) >= len
           /\ \A j \in 0 .. t - 1 : Len(Available(j)) < len
<1> DEFINE N == arrived - rxSequence
           Stops == {i \in 0 .. N : i = N \/ Len(Available(i)) >= len}
<1>1. N \in Nat
  BY DEF MessageInv, ReaderInv
<1>2. \A j \in 0 .. N : Len(Available(j)) \in Nat
  <2> SUFFICES ASSUME NEW j \in 0 .. N PROVE Len(Available(j)) \in Nat
    OBVIOUS
  <2>1. Available(j) \in Seq(Letter)
    BY AvailableBytes
  <2> QED BY <2>1
<1>3. PICK i \in Stops : \A j \in Stops : i <= j
  <2>1. Stops \in SUBSET Nat /\ N \in Stops
    BY <1>1
  <2> HIDE DEF Stops
  <2> QED BY <2>1, LeastNumber
<1>4. /\ i = N \/ Len(Available(i)) >= len
      /\ \A j \in 0 .. i - 1 : Len(Available(j)) < len
  <2> SUFFICES ASSUME NEW j \in 0 .. i - 1 PROVE Len(Available(j)) < len
    BY <1>3
  <2>1. j \in 0 .. N /\ j < i
    BY <1>1, <1>3
  <2>2. j \notin Stops
    BY <1>3, <2>1
  <2> QED BY <1>2, <2>1, <2>2
<1> QED BY <1>3, <1>4 DEF Taken

-----------------------------------------------------------------------------
(* The reader *)

LEMMA ReaderTypes ==
    ASSUME MessageInv
    PROVE  /\ rxSequence \in Nat /\ arrived \in Nat /\ arrived - rxSequence \in Nat
           /\ Len(stream) \in Nat /\ arrived <= Len(stream) /\ Len(sent) \in Nat
           /\ Current \in Nat \ {0} /\ Len(msg) \in Nat /\ Len(fragmentbuffer) \in Nat
           /\ \A m \in 1 .. Len(sent) : Total(m) \in Nat /\ Total(m) >= HeaderSize
<1>1. /\ rxSequence \in Nat /\ arrived \in Nat /\ arrived - rxSequence \in Nat
      /\ Len(stream) \in Nat /\ arrived <= Len(stream) /\ Len(sent) \in Nat
      /\ Len(msg) \in Nat /\ Len(fragmentbuffer) \in Nat
  BY DEF MessageInv, ReaderInv, StreamInv
<1>2. Current \in Nat \ {0}
  BY DEF MessageInv, ReaderInv, Current
<1>3. \A m \in 1 .. Len(sent) : Total(m) \in Nat /\ Total(m) >= HeaderSize
  BY DEF MessageInv, StreamInv, Total
<1> QED BY <1>1, <1>2, <1>3

\* As long as the loop goes on, it has collected the bytes of one message, and a fragment
\* that ends it is followed by the next message.
LEMMA LoopReads ==
    ASSUME MessageInv, Current \in 1 .. Len(sent),
           NEW len \in Nat, len + Len(msg) <= Total(Current),
           msg # <<>> \/ len <= HeaderSize,
           NEW t \in 0 .. arrived - rxSequence,
           \A j \in 0 .. t - 1 : Len(Available(j)) < len
    PROVE  LET n == Len(Available(t))
           IN  /\ n \in Nat /\ Len(msg) + n <= Total(Current)
               /\ Available(t) = [q \in 1 .. n |-> Byte(Current, Len(msg) + q)]
               /\ Len(msg) + n > 0 =>
                    After(rxSequence + t) = Following(Current, Len(msg) + n)
               /\ Len(msg) + n = 0 => After(rxSequence + t) = <<Current, 1>>
<1> DEFINE L == Len(msg)
           n(k) == Len(Available(k))
           Reads(k) == /\ n(k) \in Nat /\ L + n(k) <= Total(Current)
                       /\ Available(k) = [q \in 1 .. n(k) |-> Byte(Current, L + q)]
                       /\ L + n(k) > 0 => After(rxSequence + k) = Following(Current, L + n(k))
                       /\ L + n(k) = 0 => After(rxSequence + k) = <<Current, 1>>
           Turns == {k \in Nat : k <= t => Reads(k)}
<1>0. /\ rxSequence \in Nat /\ arrived \in Nat /\ arrived - rxSequence \in Nat /\ L \in Nat
      /\ Len(stream) \in Nat /\ arrived <= Len(stream) /\ Total(Current) \in Nat
      /\ t \in Nat /\ Current \in Nat /\ HeaderSize \in Nat
  BY ReaderTypes
<1>1. 0 \in Turns
  <2>1. Available(0) = fragmentbuffer
    BY <1>0, AvailableGrows
  <2>2. Reads(0)
    <3>1. /\ n(0) \in Nat /\ Available(0) = [q \in 1 .. n(0) |-> Byte(Current, L + q)]
      BY <2>1 DEF MessageInv, ReaderInv
    <3>2. CASE msg = <<>>
      BY <1>0, <2>1, <3>1, <3>2 DEF MessageInv, ReaderInv
    <3>3. CASE msg # <<>>
      <4>1. L > 0
        BY <3>3 DEF MessageInv, ReaderInv
      <4>2. /\ L + n(0) <= Total(Current) /\ rxSequence + 0 = rxSequence
            /\ After(rxSequence) = Following(Current, L + n(0))
        BY <1>0, <2>1, <3>3 DEF MessageInv, ReaderInv
      <4> QED BY <1>0, <3>1, <4>1, <4>2
    <3> QED BY <3>2, <3>3
  <2> QED BY <2>2
<1>2. ASSUME NEW k \in Turns PROVE k + 1 \in Turns
  <2> SUFFICES ASSUME k + 1 <= t PROVE Reads(k + 1)
    BY <1>2
  <2> DEFINE f == stream[rxSequence + (k + 1)]
             i == rxSequence + (k + 1)
  <2>1. /\ k \in Nat /\ k + 1 \in 1 .. arrived - rxSequence /\ (k + 1) - 1 = k
        /\ i \in 1 .. Len(stream) /\ i - 1 = rxSequence + k /\ k \in 0 .. t - 1
    BY <1>0, <1>2
  <2>2. Reads(k)
    BY <1>2, <2>1
  <2>3. n(k) < len
    BY <2>1
  <2>4. Available(k + 1) = Available(k) \o stream[i]
    BY <1>0, <2>1, AvailableGrows
  <2>5. FragmentOK(i)
    BY <2>1 DEF MessageInv, StreamInv
  <2>6. L + n(k) < Total(Current)
    BY <1>0, <2>2, <2>3
  <2>7. After(i - 1) = <<Current, L + n(k) + 1>>
    BY <1>0, <2>1, <2>2, <2>6 DEF Following
  <2>8. Owner(i) = Current /\ From(i) = L + n(k) + 1
    BY <2>5, <2>7 DEF FragmentOK
  <2> HIDE DEF i
  <2>9. /\ Len(stream[i]) \in Nat /\ Len(stream[i]) >= 1
        /\ stream[i] = [q \in 1 .. Len(stream[i]) |-> Byte(Current, L + n(k) + q)]
        /\ To(i) = L + n(k) + Len(stream[i])
        /\ To(i) <= Total(Current)
    <3>1. Len(stream[i]) \in Nat /\ Len(stream[i]) >= 1
      BY <2>5 DEF FragmentOK
    <3>2. \A q \in 1 .. Len(stream[i]) : (L + n(k) + 1) + q - 1 = L + n(k) + q
      BY <1>0, <2>2, <3>1
    <3>3. stream[i] = [q \in 1 .. Len(stream[i]) |-> Byte(Current, (L + n(k) + 1) + q - 1)]
      BY <2>5, <2>8 DEF FragmentOK
    <3>4. stream[i] = [q \in 1 .. Len(stream[i]) |-> Byte(Current, L + n(k) + q)]
      BY <3>2, <3>3
    <3>5. To(i) <= Total(Current)
      BY <2>5, <2>8 DEF FragmentOK
    <3>6. To(i) = L + n(k) + Len(stream[i])
      <4>1. n(k) \in Nat /\ L \in Nat
        BY <1>0, <2>2
      <4> HIDE DEF n, L
      <4> QED BY <2>8, <3>1, <4>1 DEF To
    <3> QED BY <3>1, <3>4, <3>5, <3>6
  <2>10. /\ Available(k) \in Seq(Letter) /\ stream[i] \in Seq(Letter)
    <3>1. k \in 0 .. arrived - rxSequence
      BY <1>0, <2>1
    <3>2. Available(k) \in Seq(Letter)
      BY <3>1, AvailableBytes
    <3>3. stream \in Seq(Seq(Letter)) /\ i \in 1 .. Len(stream)
      BY <2>1 DEF MessageInv, StreamInv, i
    <3> QED BY ONLY <3>2, <3>3
  <2>11. n(k + 1) = n(k) + Len(stream[i])
    BY <2>4, <2>10
  <2>12. Available(k + 1) = [q \in 1 .. n(k + 1) |-> Byte(Current, L + q)]
    <3> DEFINE a == Available(k)
               b == stream[i]
               c == Available(k + 1)
    <3>1. c = [q \in 1 .. Len(c) |-> c[q]]
      <4>1. c \in Seq(Letter)
        <5>1. k + 1 \in 0 .. arrived - rxSequence
          BY <2>1
        <5> QED BY <5>1, AvailableBytes
      <4> HIDE DEF c
      <4> QED BY <4>1
    <3>2. ASSUME NEW q \in 1 .. Len(c) PROVE c[q] = Byte(Current, L + q)
      <4>1. CASE q <= Len(a)
        <5>1. q \in 1 .. Len(a)
          BY <3>2, <4>1, <2>2
        <5>2. c[q] = a[q]
          BY <2>4, <2>10, <5>1
        <5>3. a[q] = Byte(Current, L + q)
          BY <2>2, <5>1
        <5> QED BY <5>2, <5>3
      <4>2. CASE q > Len(a)
        <5>1. q - Len(a) \in 1 .. Len(b)
          <6>1. Len(c) = Len(a) + Len(b) /\ Len(a) \in Nat /\ Len(b) \in Nat
            BY <2>2, <2>9, <2>11
          <6> QED BY <3>2, <4>2, <6>1
        <5>2. c[q] = b[q - Len(a)]
          BY <2>4, <2>10, <4>2, <3>2
        <5>3. b[q - Len(a)] = Byte(Current, L + Len(a) + (q - Len(a)))
          BY <2>9, <5>1
        <5>4. L + Len(a) + (q - Len(a)) = L + q
          BY <1>0, <2>2, <3>2
        <5> QED BY <5>2, <5>3, <5>4
      <4> QED BY <2>2, <3>2, <4>1, <4>2
    <3> QED BY <3>1, <3>2
  <2>13. After(rxSequence + (k + 1)) = Following(Current, L + n(k + 1))
    <3>1. i # 0 /\ i = rxSequence + (k + 1)
      BY <2>1 DEF i
    <3>2. After(i) = Following(Owner(i), To(i))
      BY <3>1 DEF After
    <3>3. To(i) = L + n(k + 1)
      <4>1. n(k) \in Nat /\ L \in Nat /\ Len(stream[i]) \in Nat
        BY <1>0, <2>2, <2>9
      <4> HIDE DEF n, L
      <4> QED BY <2>9, <2>11, <4>1
    <3> QED BY <2>8, <3>1, <3>2, <3>3
  <2>14. n(k + 1) \in Nat /\ L + n(k + 1) <= Total(Current) /\ L + n(k + 1) > 0
    <3>1. n(k) \in Nat /\ L \in Nat /\ Total(Current) \in Nat
      BY <1>0, <2>2
    <3>2. /\ To(i) = L + n(k) + Len(stream[i]) /\ To(i) <= Total(Current)
          /\ Len(stream[i]) \in Nat /\ Len(stream[i]) >= 1
      BY <2>9
    <3> HIDE DEF n, L
    <3>3. L + n(k + 1) = To(i) /\ n(k + 1) \in Nat /\ n(k + 1) > 0
      <4>1. Len(stream[i]) \in Nat /\ Len(stream[i]) >= 1
        BY <3>2
      <4> QED BY ONLY <2>11, <3>1, <3>2, <4>1
    <3> QED BY <3>1, <3>2, <3>3
  <2> HIDE DEF n, L
  <2> QED BY <2>12, <2>13, <2>14
<1>3. t \in Turns
  <2> HIDE DEF Turns
  <2>1. Turns \in SUBSET Nat
    BY DEF Turns
  <2> QED BY <1>0, <1>1, <1>2, <2>1, Induct
<1> QED BY <1>0, <1>3

LEMMA Sliced ==
    ASSUME NEW S, NEW a \in Seq(S), NEW lo \in Nat \ {0}, NEW hi \in 0 .. Len(a), lo <= hi + 1
    PROVE  /\ SubSeq(a, lo, hi) \in Seq(S)
           /\ Len(SubSeq(a, lo, hi)) = hi - lo + 1
           /\ \A q \in 1 .. hi - lo + 1 : SubSeq(a, lo, hi)[q] = a[lo + q - 1]
           /\ SubSeq(a, lo, hi) = [q \in 1 .. hi - lo + 1 |-> a[lo + q - 1]]
OBVIOUS

\* What the stream says does not change while the stream does not.
LEMMA StreamStays ==
    ASSUME MessageInv, UNCHANGED <<sent, stream>>
    PROVE  StreamInv'
<1>1. \A i : Owner(i)' = Owner(i) /\ From(i)' = From(i) /\ To(i)' = To(i)
  BY DEF Owner, From, To
<1>2. \A i : After(i)' = After(i)
  BY DEF After, Owner, From, To, Following, Total
<1>3. \A i \in 1 .. Len(stream) : Total(Owner(i))' = Total(Owner(i))
  BY <1>1 DEF Total
<1>4. \A i \in 1 .. Len(stream) : FragmentOK(i)'
  <2> SUFFICES ASSUME NEW i \in 1 .. Len(stream), FragmentOK(i)
               PROVE  FragmentOK(i)'
    BY DEF MessageInv, StreamInv
  <2>1. After(i - 1)' = After(i - 1)
    BY <1>2
  <2> QED BY <1>1, <1>3, <2>1 DEF FragmentOK
<1>5. After(Len(stream))' = After(Len(stream))
  BY <1>2
<1> QED BY <1>4, <1>5 DEF MessageInv, StreamInv

\* A header is read whole, from the first fragment of the next message.
LEMMA HeaderInOne ==
    ASSUME MessageInv, msg = <<>>, Read(HeaderSize) # <<>>
    PROVE  LET n == Len(Available(Taken(HeaderSize)))
           IN  /\ Current \in 1 .. Len(sent) /\ Taken(HeaderSize) = 1 /\ rxSequence < arrived
               /\ n \in HeaderSize .. FragmentSize /\ n <= Total(Current)
               /\ Available(Taken(HeaderSize)) = [q \in 1 .. n |-> Byte(Current, q)]
               /\ After(rxSequence + 1) = Following(Current, n)
<1> DEFINE t == Taken(HeaderSize)
<1>1. /\ rxSequence \in Nat /\ arrived \in Nat /\ arrived - rxSequence \in Nat
      /\ Len(stream) \in Nat /\ arrived <= Len(stream) /\ Len(sent) \in Nat
      /\ Current \in Nat \ {0} /\ HeaderSize \in Nat \ {0}
  BY ReaderTypes
<1>2. /\ t \in 0 .. arrived - rxSequence
      /\ t = arrived - rxSequence \/ Len(Available(t)) >= HeaderSize
      /\ \A j \in 0 .. t - 1 : Len(Available(j)) < HeaderSize
  BY <1>1, TakenStops
<1>3. Available(0) = <<>> /\ Len(msg) = 0
  BY <1>1, AvailableGrows DEF MessageInv, ReaderInv
<1> HIDE DEF t
<1>4. t # 0
  <2> SUFFICES ASSUME t = 0 PROVE FALSE
    OBVIOUS
  <2>1. Available(t) = <<>>
    BY <1>3
  <2>2. Read(HeaderSize) = <<>>
    BY <1>1, <2>1 DEF Read, t, Least
  <2> QED BY <2>2
<1>5. rxSequence < arrived
  BY <1>1, <1>2, <1>4
<1> DEFINE i == rxSequence + 1
           f == stream[i]
<1>6. FragmentOK(i) /\ i - 1 = rxSequence /\ i # 0 /\ f \in Seq(Letter)
  BY <1>1, <1>5 DEF MessageInv, StreamInv
<1>7. Owner(i) = Current /\ From(i) = 1
  <2>1. After(rxSequence) = <<Current, 1>>
    BY DEF MessageInv, ReaderInv
  <2> QED BY <1>6, <2>1 DEF FragmentOK
<1> HIDE DEF i
<1>8. Current \in 1 .. Len(sent) /\ Total(Current) \in Nat /\ Total(Current) >= HeaderSize
  <2>1. Current \in 1 .. Len(sent)
    BY <1>6, <1>7 DEF FragmentOK
  <2> QED BY <2>1, ReaderTypes
<1>9. /\ Len(f) \in 1 .. FragmentSize /\ To(i) = Len(f) /\ To(i) <= Total(Current)
      /\ Len(f) = FragmentSize \/ To(i) = Total(Current)
  BY <1>6, <1>7 DEF FragmentOK, To
<1>10. Len(f) \in HeaderSize .. FragmentSize /\ Len(f) <= Total(Current)
  BY <1>1, <1>8, <1>9
<1>11. f = [q \in 1 .. Len(f) |-> Byte(Current, q)]
  <2>1. f = [q \in 1 .. Len(f) |-> Byte(Current, 1 + q - 1)]
    BY <1>6, <1>7 DEF FragmentOK
  <2>2. \A q \in 1 .. Len(f) : 1 + q - 1 = q
    BY <1>9
  <2> QED BY <2>1, <2>2
<1>12. Available(1) = f
  <2>1. Available(1) = Available(0) \o f
    <3>1. 1 \in 1 .. arrived - rxSequence /\ 1 - 1 = 0
      BY <1>1, <1>5
    <3>2. Available(1) = Available(1 - 1) \o stream[rxSequence + 1]
      BY <1>1, <3>1, AvailableGrows
    <3> QED BY <3>1, <3>2 DEF i
  <2> QED BY <1>3, <1>6, <2>1
<1>13. t = 1
  <2> HIDE DEF f
  <2>1. Len(Available(1)) >= HeaderSize
    BY <1>1, <1>10, <1>12
  <2>2. ~ (Len(Available(1)) < HeaderSize)
    BY <1>1, <1>10, <1>12
  <2>3. t - 1 \in Nat /\ (t >= 2 => 1 \in 0 .. t - 1)
    BY <1>1, <1>2, <1>4
  <2>4. t < 2
    BY <1>1, <1>2, <2>2, <2>3
  <2> QED BY <1>1, <1>2, <1>4, <2>4
<1>14. After(i) = Following(Current, Len(f))
  BY <1>6, <1>7, <1>9 DEF After
<1> QED BY <1>5, <1>8, <1>10, <1>11, <1>12, <1>13, <1>14 DEF t, i

LEMMA HeaderKeeps ==
    ASSUME MessageInv, ReceiveHeader
    PROVE  MessageInv'
<1> DEFINE a == Available(Taken(HeaderSize))
           n == Len(a)
           H == HeaderSize
<1>1. /\ Current \in 1 .. Len(sent) /\ Taken(HeaderSize) = 1 /\ rxSequence < arrived
      /\ n \in H .. FragmentSize /\ n <= Total(Current)
      /\ a = [q \in 1 .. n |-> Byte(Current, q)]
      /\ After(rxSequence + 1) = Following(Current, n)
  BY HeaderInOne DEF ReceiveHeader
<1>2. /\ msg' = SubSeq(a, 1, Least(H, n)) /\ fragmentbuffer' = SubSeq(a, H + 1, n)
      /\ rxSequence' = rxSequence + 1 /\ UNCHANGED <<sent, stream, arrived, state, executed>>
  BY <1>1 DEF ReceiveHeader, ReliableMessageReceive, Read, Rest
<1>3. a \in Seq(Letter)
  <2>1. 1 \in 0 .. arrived - rxSequence
    BY <1>1, ReaderTypes
  <2> QED BY <1>1, <2>1, AvailableBytes
<1>4. H \in Nat \ {0} /\ FragmentSize \in Nat /\ n \in Nat /\ H <= n /\ Least(H, n) = H
  BY <1>1 DEF Least
<1> HIDE DEF a, n, H
<1>5. Current' = Current /\ Current \in Nat
  BY <1>1, <1>2, ReaderTypes DEF Current
<1>6. /\ Len(msg') = H /\ msg' = [q \in 1 .. H |-> Byte(Current, q)]
  <2>1. H \in 0 .. Len(a) /\ Len(a) = n /\ H - 1 + 1 = H
    BY <1>4 DEF n
  <2>2. Len(msg') = H /\ msg' = [q \in 1 .. H |-> a[1 + q - 1]]
    BY <1>2, <1>3, <1>4, <2>1, Sliced
  <2>3. \A q \in 1 .. H : a[1 + q - 1] = Byte(Current, q)
    BY <1>1, <1>4
  <2> QED BY <2>2, <2>3
<1>7. /\ Len(fragmentbuffer') = n - H
      /\ fragmentbuffer' = [q \in 1 .. n - H |-> Byte(Current, H + q)]
  <2>1. H + 1 \in Nat \ {0} /\ n \in 0 .. Len(a) /\ n - (H + 1) + 1 = n - H /\ H + 1 <= n + 1
    BY <1>4 DEF n
  <2>2. /\ Len(fragmentbuffer') = n - H
        /\ fragmentbuffer' = [q \in 1 .. n - H |-> a[(H + 1) + q - 1]]
    BY <1>2, <1>3, <2>1, Sliced
  <2>3. \A q \in 1 .. n - H : a[(H + 1) + q - 1] = Byte(Current, H + q)
    BY <1>1, <1>4
  <2> QED BY <2>2, <2>3
<1>8. StreamInv'
  BY <1>2, StreamStays
<1>9. /\ rxSequence' \in 0 .. arrived' /\ arrived' \in 0 .. Len(stream')
      /\ executed' \in Seq(Seq(Letter)) /\ Len(executed') <= Len(sent')
      /\ \A m \in 1 .. Len(executed') : executed'[m] = Bytes(m, sent'[m])
  BY <1>1, <1>2 DEF MessageInv, ReaderInv
<1>10. /\ Len(msg') \in Nat /\ msg' = [q \in 1 .. Len(msg') |-> Byte(Current', q)] /\ msg' # <<>>
       /\ Len(fragmentbuffer') \in 0 .. FragmentSize - 1
       /\ fragmentbuffer' = [q \in 1 .. Len(fragmentbuffer') |-> Byte(Current', Len(msg') + q)]
       /\ Len(msg') + Len(fragmentbuffer') = n
  BY <1>1, <1>4, <1>5, <1>6, <1>7
<1>11. /\ Current' <= Len(sent') /\ HeaderSize <= Len(msg') /\ n <= Total(Current)'
  BY <1>1, <1>2, <1>4, <1>5, <1>6 DEF H, Total
<1>12. After(rxSequence)' = Following(Current, n)
  BY <1>1, <1>2 DEF After, Owner, From, To, Following, Total
<1>13. Following(Current, Len(msg) + Len(fragmentbuffer))' = Following(Current, n)
  BY <1>2, <1>5, <1>10 DEF Following, Total
<1>14. ReaderInv'
  BY <1>9, <1>10, <1>11, <1>12, <1>13 DEF ReaderInv
<1> QED BY <1>8, <1>14 DEF MessageInv

\* The size read from a header is that of the message under way.
LEMMA HeaderSays ==
    ASSUME MessageInv, msg # <<>>
    PROVE  MessageSize(msg) = sent[Current] /\ Wanted(msg) = Total(Current)
<1>1. /\ Current \in 1 .. Len(sent) /\ HeaderSize <= Len(msg)
      /\ msg = [q \in 1 .. Len(msg) |-> Byte(Current, q)]
  BY ReaderTypes DEF MessageInv, ReaderInv
<1>2. /\ \A p \in 1 .. HeaderSize : msg[p] = Byte(Current, p)
      /\ msg[1].msg = Current
  <2>1. Len(msg) \in Nat /\ HeaderSize \in Nat \ {0}
    BY ReaderTypes
  <2> QED BY <1>1, <2>1 DEF Byte
<1>3. sent[Current] \in Nat
  BY <1>1 DEF MessageInv, StreamInv
<1>4. MessageSize(msg) = sent[Current]
  BY <1>1, <1>2 DEF MessageSize, Byte
<1> QED BY <1>3, <1>4 DEF Wanted, Total

\* The body's bytes go on where the message under way stops, and none of the next
\* message comes with them.
LEMMA BodyKeeps ==
    ASSUME MessageInv, ReceiveBody
    PROVE  MessageInv'
<1> DEFINE L == Len(msg)
           W == Total(Current)
           more == W - L
           t == Taken(more)
           a == Available(t)
           n == Len(a)
<1>0. /\ rxSequence \in Nat /\ arrived \in Nat /\ arrived - rxSequence \in Nat
      /\ Len(stream) \in Nat /\ arrived <= Len(stream) /\ Len(sent) \in Nat
      /\ Current \in Nat \ {0} /\ HeaderSize \in Nat \ {0} /\ L \in Nat
      /\ Len(fragmentbuffer) \in Nat
  BY ReaderTypes
<1>1. /\ Current \in 1 .. Len(sent) /\ HeaderSize <= L /\ msg # <<>>
      /\ L + Len(fragmentbuffer) <= W /\ W \in Nat
      /\ msg = [q \in 1 .. L |-> Byte(Current, q)]
  <2>1. /\ Current \in 1 .. Len(sent) /\ HeaderSize <= L /\ msg # <<>>
        /\ L + Len(fragmentbuffer) <= W
        /\ msg = [q \in 1 .. L |-> Byte(Current, q)]
    BY <1>0 DEF ReceiveBody, MessageInv, ReaderInv
  <2> QED BY <2>1, ReaderTypes
<1>2. MessageSize(msg) = sent[Current] /\ Wanted(msg) = W
  BY <1>1, HeaderSays
<1>3. more \in Nat /\ more + L <= W
  BY <1>0, <1>1
<1>4. /\ t \in 0 .. arrived - rxSequence
      /\ \A j \in 0 .. t - 1 : Len(Available(j)) < more
  BY <1>3, TakenStops
<1>5. /\ n \in Nat /\ L + n <= W
      /\ a = [q \in 1 .. n |-> Byte(Current, L + q)]
      /\ After(rxSequence + t) = Following(Current, L + n)
  <2> HIDE DEF t
  <2>1. L + Len(Available(t)) > 0 \/ Len(Available(t)) \notin Nat
    BY <1>0, <1>1
  <2> HIDE DEF more
  <2>2. more + Len(msg) <= Total(Current)
    BY <1>3
  <2> QED BY <1>1, <1>3, <1>4, <2>1, <2>2, LoopReads
<1>6. a \in Seq(Letter)
  BY <1>4, AvailableBytes
<1>7. /\ rxSequence' = rxSequence + t /\ UNCHANGED <<sent, stream, arrived, state>>
      /\ fragmentbuffer' = SubSeq(a, more + 1, n)
      /\ LET all == msg \o SubSeq(a, 1, Least(more, n))
         IN  IF Len(all) < W THEN msg' = all /\ UNCHANGED executed
             ELSE msg' = <<>> /\ executed' = Append(executed, all)
  BY <1>2 DEF ReceiveBody, ReliableMessageReceive, Read, Rest
<1> HIDE DEF t
<1>8. n <= more /\ SubSeq(a, 1, Least(more, n)) = a /\ SubSeq(a, more + 1, n) = <<>>
  <2>1. n <= more /\ Least(more, n) = n
    BY <1>0, <1>1, <1>3, <1>5 DEF Least
  <2> HIDE DEF more, a
  <2>2. SubSeq(a, 1, n) = a
    BY <1>6
  <2>3. SubSeq(a, more + 1, n) = <<>>
    BY <1>3, <1>5, <1>6, <2>1
  <2> QED BY <2>1, <2>2, <2>3
<1> DEFINE all == msg \o a
<1>9. fragmentbuffer' = <<>> /\ IF Len(all) < W THEN msg' = all /\ UNCHANGED executed
                                ELSE msg' = <<>> /\ executed' = Append(executed, all)
  BY <1>7, <1>8
<1> HIDE DEF a, n, more
<1>10. Len(a) = n /\ L = Len(msg) /\ W = Total(Current)
  BY DEF n
<1> HIDE DEF L, W, all
<1>11. /\ Len(all) = L + n /\ all = [q \in 1 .. L + n |-> Byte(Current, q)]
       /\ all \in Seq(Letter)
  <2>1. msg \in Seq(Letter)
    <3>1. \A q \in 1 .. L : Byte(Current, q) \in Letter
      BY <1>0 DEF Byte, Letter
    <3>2. msg \in [1 .. L -> Letter]
      BY <1>1, <3>1
    <3> QED BY <1>0, <3>2
  <2>2. /\ all \in Seq(Letter) /\ Len(all) = L + n
        /\ \A q \in 1 .. L : all[q] = msg[q]
        /\ \A q \in 1 .. n : all[L + q] = a[q]
    <3>1. /\ msg \o a \in Seq(Letter) /\ Len(msg \o a) = Len(msg) + Len(a)
          /\ \A q \in 1 .. Len(msg) : (msg \o a)[q] = msg[q]
          /\ \A q \in 1 .. Len(a) : (msg \o a)[Len(msg) + q] = a[q]
      BY <1>6, <2>1
    <3> QED BY <1>10, <3>1, Zenon DEF all
  <2>3. ASSUME NEW q \in 1 .. L + n PROVE all[q] = Byte(Current, q)
    <3>1. CASE q <= L
      BY <1>0, <1>1, <2>2, <3>1
    <3>2. CASE q > L
      <4>1. q - L \in 1 .. n /\ L + (q - L) = q
        BY <1>0, <1>5, <2>3, <3>2
      <4>2. all[L + (q - L)] = a[q - L]
        BY <2>2, <4>1
      <4>3. a[q - L] = Byte(Current, L + (q - L))
        BY <1>5, <4>1
      <4> QED BY <4>1, <4>2, <4>3
    <3> QED BY <1>0, <1>5, <2>3, <3>1, <3>2
  <2>4. all = [q \in 1 .. Len(all) |-> all[q]]
    BY <2>2
  <2> QED BY <2>2, <2>3, <2>4
<1>12. StreamInv'
  BY <1>7, StreamStays
<1>13. /\ rxSequence' \in 0 .. arrived' /\ arrived' \in 0 .. Len(stream')
       /\ Len(fragmentbuffer') = 0
  <2>1. fragmentbuffer' = <<>>
    BY <1>9
  <2>2. rxSequence' = rxSequence + t /\ arrived' = arrived /\ stream' = stream
    BY <1>7
  <2>3. t \in 0 .. arrived - rxSequence
    BY <1>4
  <2> QED BY <1>0, <2>1, <2>2, <2>3
<1>17. /\ Len(fragmentbuffer') \in 0 .. FragmentSize - 1
       /\ fragmentbuffer' = [q \in 1 .. Len(fragmentbuffer') |-> Byte(Current', Len(msg') + q)]
  <2>1. Len(fragmentbuffer') \in 0 .. FragmentSize - 1
    BY <1>0, <1>13
  <2>2. <<>> = [q \in 1 .. 0 |-> Byte(Current', Len(msg') + q)]
    OBVIOUS
  <2> QED BY <1>9, <1>13, <2>1, <2>2
<1>14. After(rxSequence)' = Following(Current, L + n)
  BY <1>5, <1>7 DEF After, Owner, From, To, Following, Total
<1>15. CASE Len(all) < W
  <2>1. msg' = all /\ UNCHANGED executed /\ Current' = Current
    BY <1>9, <1>15 DEF Current
  <2>2. /\ Len(msg') = L + n /\ Len(msg') \in Nat /\ msg' # <<>>
        /\ msg' = [q \in 1 .. Len(msg') |-> Byte(Current', q)]
    <3>1. L \in Nat /\ n \in Nat /\ L + n > 0
      BY <1>0, <1>1, <1>5
    <3>2. Len(msg') = L + n /\ msg' = [q \in 1 .. L + n |-> Byte(Current, q)]
      BY <1>11, <2>1
    <3>3. msg' # <<>>
      BY <3>1, <3>2
    <3> QED BY <2>1, <3>1, <3>2, <3>3
  <2>3. Following(Current, Len(msg) + Len(fragmentbuffer))' = Following(Current, L + n)
    <3>1. Len(msg') + Len(fragmentbuffer') = L + n
      BY <1>0, <1>5, <1>13, <2>2
    <3> QED BY <1>7, <2>1, <3>1 DEF Following, Total
  <2>4. /\ Current' <= Len(sent') /\ HeaderSize <= Len(msg')
        /\ Len(msg') + Len(fragmentbuffer') <= Total(Current)'
    <3>1. Total(Current)' = W
      BY <1>7, <1>10, <2>1 DEF Total
    <3>2. Len(sent') = Len(sent) /\ Len(msg') = L + n /\ Len(fragmentbuffer') = 0
      BY <1>7, <1>13, <2>2
    <3>3. L \in Nat /\ n \in Nat /\ W \in Nat /\ L + n <= W /\ HeaderSize <= L /\ Current <= Len(sent)
      BY <1>0, <1>1, <1>5
    <3> QED BY <1>0, <2>1, <3>1, <3>2, <3>3
  <2>5. /\ executed' \in Seq(Seq(Letter)) /\ Len(executed') <= Len(sent')
        /\ \A m \in 1 .. Len(executed') : executed'[m] = Bytes(m, sent'[m])
    BY <1>7, <2>1 DEF MessageInv, ReaderInv
  <2>7. ReaderInv'
    BY <1>13, <1>14, <1>17, <2>2, <2>3, <2>4, <2>5 DEF ReaderInv
  <2> QED BY <1>12, <2>7 DEF MessageInv
<1>16. CASE ~ (Len(all) < W)
  <2>0. L + n = W
    <3>1. Len(all) = L + n
      BY <1>11
    <3>2. L \in Nat /\ n \in Nat /\ W \in Nat /\ L + n <= W
      BY <1>0, <1>1, <1>5
    <3> QED BY <1>16, <3>1, <3>2
  <2>1. msg' = <<>> /\ executed' = Append(executed, all) /\ L + n = W
    BY <1>9, <1>16, <2>0
  <2>2. executed \in Seq(Seq(Letter)) /\ Len(executed) \in Nat
    BY DEF MessageInv, ReaderInv
  <2>3. /\ executed' \in Seq(Seq(Letter)) /\ Len(executed') = Current
        /\ executed'[Current] = all /\ Current' = Current + 1
        /\ \A m \in 1 .. Len(executed) : executed'[m] = executed[m]
    BY <1>11, <2>1, <2>2 DEF Current
  <2>4. all = Bytes(Current, sent[Current])
    BY <1>10, <1>11, <2>1 DEF Bytes, Byte, Total
  <2>5. \A m \in 1 .. Len(executed') : executed'[m] = Bytes(m, sent'[m])
    <3>1. \A m \in 1 .. Len(executed') : m = Current \/ m \in 1 .. Len(executed)
      BY <2>2, <2>3 DEF Current
    <3> QED BY <1>7, <2>3, <2>4, <3>1 DEF MessageInv, ReaderInv
  <2>6. After(rxSequence)' = <<Current', 1>>
    BY <1>10, <1>14, <2>1, <2>3 DEF Following
  <2>7. /\ Len(msg') \in Nat /\ msg' = [q \in 1 .. Len(msg') |-> Byte(Current', q)]
    <3>1. Len(msg') = 0 /\ <<>> = [q \in 1 .. 0 |-> Byte(Current', q)]
      BY <2>1
    <3> QED BY <2>1, <3>1
  <2>8. Len(executed') <= Len(sent')
    BY <1>1, <1>7, <2>3
  <2>9. ReaderInv'
    BY <1>9, <1>13, <1>17, <2>1, <2>3, <2>5, <2>6, <2>7, <2>8 DEF ReaderInv
  <2> QED BY <1>12, <2>9 DEF MessageInv
<1> QED BY <1>15, <1>16

LEMMA OversizeKeeps ==
    ASSUME MessageInv, Oversize
    PROVE  MessageInv'
<1>1. UNCHANGED <<sent, stream, arrived, rxSequence, fragmentbuffer, msg, executed>>
  BY DEF Oversize
<1>2. StreamInv'
  BY <1>1, StreamStays
<1>3. ReaderInv'
  BY <1>1 DEF MessageInv, ReaderInv, Current, After, Owner, From, To, Following, Total
<1> QED BY <1>2, <1>3 DEF MessageInv

-----------------------------------------------------------------------------
(* The stream *)

LEMMA FragmentArrivesKeeps ==
    ASSUME MessageInv, FragmentArrives
    PROVE  MessageInv'
<1>1. /\ UNCHANGED <<sent, stream, rxSequence, fragmentbuffer, msg, executed>>
      /\ arrived' = arrived + 1 /\ arrived < Len(stream)
  BY DEF FragmentArrives
<1>2. StreamInv'
  BY <1>1, StreamStays
<1>3. rxSequence' \in 0 .. arrived' /\ arrived' \in 0 .. Len(stream')
  BY <1>1, ReaderTypes
<1>4. /\ executed' \in Seq(Seq(Letter)) /\ Len(executed') <= Len(sent')
      /\ \A m \in 1 .. Len(executed') : executed'[m] = Bytes(m, sent'[m])
      /\ Len(msg') \in Nat /\ msg' = [q \in 1 .. Len(msg') |-> Byte(Current', q)]
      /\ Len(fragmentbuffer') \in 0 .. FragmentSize - 1
      /\ fragmentbuffer' = [q \in 1 .. Len(fragmentbuffer') |-> Byte(Current', Len(msg') + q)]
  BY <1>1 DEF MessageInv, ReaderInv, Current
<1>5. /\ msg' = <<>> => fragmentbuffer' = <<>> /\ After(rxSequence)' = <<Current', 1>>
      /\ msg' # <<>> => /\ Current' <= Len(sent') /\ HeaderSize <= Len(msg')
                        /\ Len(msg') + Len(fragmentbuffer') <= Total(Current)'
                        /\ After(rxSequence)' = Following(Current, Len(msg) + Len(fragmentbuffer))'
  BY <1>1 DEF MessageInv, ReaderInv, Current, After, Owner, From, To, Following, Total
<1> QED BY <1>2, <1>3, <1>4, <1>5 DEF MessageInv, ReaderInv

\* A message of T bytes is cut into full pieces, and what is left.
LEMMA Pieces ==
    ASSUME NEW T \in Nat \ {0}, NEW F \in Nat \ {0}, NEW K, K = (T + F - 1) \div F
    PROVE  K \in Nat \ {0} /\ K * F >= T /\ (K - 1) * F < T
OBVIOUS

LEMMA Multiples ==
    ASSUME NEW F \in Nat, NEW a \in Nat, NEW b \in Nat, a <= b
    PROVE  a * F \in Nat /\ a * F <= b * F /\ (a + 1) * F = a * F + F
OBVIOUS

\* Where piece f begins and ends.
LEMMA PieceEnds ==
    ASSUME NEW T \in Nat \ {0}, NEW F \in Nat \ {0}, NEW K, K = (T + F - 1) \div F
    PROVE  \A f \in 1 .. K :
             /\ (f - 1) * F \in Nat /\ Least(f * F, T) \in Nat
             /\ (f - 1) * F < Least(f * F, T) /\ Least(f * F, T) <= T
             /\ Least(f * F, T) - (f - 1) * F <= F
             /\ Least(f * F, T) - (f - 1) * F = F \/ Least(f * F, T) = T
             /\ f < K => Least(f * F, T) = f * F /\ Least(f * F, T) < T
             /\ f = K => Least(f * F, T) = T
<1> TAKE f \in 1 .. K
<1>1. K \in Nat \ {0} /\ K * F >= T /\ (K - 1) * F < T
  BY Pieces
<1>2. /\ f \in Nat /\ f - 1 \in Nat /\ K - 1 \in Nat /\ f - 1 <= K - 1 /\ (f - 1) + 1 = f
      /\ f < K => f <= K - 1
  BY <1>1
<1>3. (f - 1) * F \in Nat /\ (f - 1) * F <= (K - 1) * F /\ f * F = (f - 1) * F + F
  BY <1>2, Multiples
<1>4. f < K => f * F <= (K - 1) * F
  BY <1>2, Multiples
<1>5. f * F \in Nat /\ (K - 1) * F \in Nat
  BY <1>2, Multiples
<1> QED BY <1>1, <1>3, <1>4, <1>5 DEF Least

LEMMA SendKeeps ==
    ASSUME MessageInv, NEW size \in Sizes, CL_SendReliableClientCommand(size)
    PROVE  MessageInv'
<1> DEFINE F == FragmentSize
           T == HeaderSize + size
           K == (T + F - 1) \div F
           lo(f) == (f - 1) * F
           hi(f) == Least(f * F, T)
<1>1. PICK N \in Nat : N = Len(stream)
  BY ReaderTypes
<1>2. PICK M \in Nat \ {0} : M = Len(sent) + 1
  BY ReaderTypes
<1> DEFINE b == Bytes(M, size)
           g == Fragments(b)
<1>3. /\ F \in Nat \ {0} /\ T \in Nat \ {0} /\ size \in Nat /\ HeaderSize \in Nat
      /\ K \in Nat \ {0}
  <2>1. F \in Nat \ {0} /\ T \in Nat \ {0} /\ size \in Nat /\ HeaderSize \in Nat
    OBVIOUS
  <2> HIDE DEF F, T
  <2> QED BY <2>1, Pieces
<1>4. \A f \in 1 .. K :
        /\ lo(f) \in Nat /\ hi(f) \in Nat
        /\ lo(f) < hi(f) /\ hi(f) <= T
        /\ hi(f) - lo(f) <= F
        /\ hi(f) - lo(f) = F \/ hi(f) = T
        /\ f < K => hi(f) = f * F /\ hi(f) < T
        /\ f = K => hi(f) = T
  <2> HIDE DEF F, T
  <2>1. K = (T + F - 1) \div F /\ T \in Nat \ {0} /\ F \in Nat \ {0}
    BY <1>3
  <2> HIDE DEF K
  <2> QED BY <2>1, PieceEnds, Zenon
<1>5. b = [p \in 1 .. T |-> Byte(M, p)] /\ b \in Seq(Letter) /\ Len(b) = T
  <2>1. b = [p \in 1 .. T |-> Byte(M, p)]
    BY DEF Bytes, Byte
  <2>2. \A p \in 1 .. T : Byte(M, p) \in Letter
    BY <1>2, <1>3 DEF Byte, Letter
  <2> HIDE DEF b, T
  <2>3. b \in [1 .. T -> Letter]
    BY <2>1, <2>2
  <2> QED BY <1>3, <2>1, <2>3
<1>6. /\ stream' = stream \o g /\ sent' = Append(sent, size)
      /\ UNCHANGED <<arrived, rxSequence, fragmentbuffer, msg, executed>>
  BY <1>2 DEF CL_SendReliableClientCommand
<1> HIDE DEF b, T
<1>7. g = [f \in 1 .. K |-> SubSeq(b, lo(f) + 1, hi(f))]
  BY <1>5 DEF Fragments
<1> HIDE DEF F, K, g
<1>8. ASSUME NEW f \in 1 .. K
      PROVE  /\ g[f] \in Seq(Letter) /\ Len(g[f]) = hi(f) - lo(f)
             /\ g[f] = [q \in 1 .. Len(g[f]) |-> Byte(M, (lo(f) + 1) + q - 1)]
  <2>1. /\ lo(f) \in Nat /\ hi(f) \in Nat /\ lo(f) < hi(f) /\ hi(f) <= T
    BY <1>4
  <2>2. g[f] = SubSeq(b, lo(f) + 1, hi(f))
    BY <1>7
  <2> HIDE DEF lo, hi
  <2>3. /\ lo(f) + 1 \in Nat \ {0} /\ hi(f) \in 0 .. Len(b) /\ lo(f) + 1 <= hi(f) + 1
        /\ hi(f) - (lo(f) + 1) + 1 = hi(f) - lo(f)
    <3>1. Len(b) = T /\ T \in Nat
      BY <1>3, <1>5
    <3> QED BY <2>1, <3>1
  <2>4. /\ g[f] \in Seq(Letter) /\ Len(g[f]) = hi(f) - (lo(f) + 1) + 1
        /\ g[f] = [q \in 1 .. hi(f) - (lo(f) + 1) + 1 |-> b[(lo(f) + 1) + q - 1]]
    <3>1. PICK s, e : s = lo(f) + 1 /\ e = hi(f)
      OBVIOUS
    <3>2. b \in Seq(Letter) /\ s \in Nat \ {0} /\ e \in 0 .. Len(b) /\ s <= e + 1
      BY <1>5, <2>3, <3>1
    <3>3. /\ SubSeq(b, s, e) \in Seq(Letter) /\ Len(SubSeq(b, s, e)) = e - s + 1
          /\ SubSeq(b, s, e) = [q \in 1 .. e - s + 1 |-> b[s + q - 1]]
      BY <3>2, Sliced
    <3> QED BY <2>2, <3>1, <3>3
  <2>5. \A q \in 1 .. hi(f) - lo(f) : b[(lo(f) + 1) + q - 1] = Byte(M, (lo(f) + 1) + q - 1)
    <3> SUFFICES ASSUME NEW q \in 1 .. hi(f) - lo(f)
                 PROVE  b[(lo(f) + 1) + q - 1] = Byte(M, (lo(f) + 1) + q - 1)
      OBVIOUS
    <3>1. (lo(f) + 1) + q - 1 \in 1 .. T
      BY <1>3, <2>1
    <3> QED BY <1>5, <3>1
  <2> QED BY <2>3, <2>4, <2>5
<1>9. g \in Seq(Seq(Letter)) /\ Len(g) = K
  <2>1. g \in [1 .. K -> Seq(Letter)]
    BY <1>7, <1>8
  <2>2. DOMAIN g = 1 .. K
    BY <1>7
  <2> QED BY <1>3, <2>1, <2>2
<1>10. /\ stream' \in Seq(Seq(Letter)) /\ Len(stream') = N + K
       /\ \A i \in 1 .. N : stream'[i] = stream[i]
       /\ \A f \in 1 .. K : stream'[N + f] = g[f]
  <2>1. stream \in Seq(Seq(Letter))
    BY DEF MessageInv, StreamInv, Letter
  <2> QED BY <1>1, <1>6, <1>9, <2>1
<1>11. /\ sent' \in Seq(Nat) /\ Len(sent') = M /\ sent'[M] = size
       /\ \A m \in 1 .. Len(sent) : sent'[m] = sent[m]
  BY <1>2, <1>3, <1>6 DEF MessageInv, StreamInv
<1>12. /\ \A m \in 1 .. Len(sent) : Total(m)' = Total(m) /\ m # M
       /\ Total(M)' = T
  <2>1. Len(sent) \in Nat /\ M = Len(sent) + 1 /\ M \in 1 .. M
    BY <1>2, <1>3, ReaderTypes
  <2>2. \A m \in 1 .. Len(sent) : Total(m)' = Total(m) /\ m # M
    BY <1>11, <2>1 DEF Total
  <2>3. Total(M)' = T
    BY <1>11 DEF Total, T
  <2> QED BY <2>2, <2>3
<1>13. \A i \in 1 .. N : FragmentOK(i) /\ Owner(i) \in 1 .. Len(sent)
  BY <1>1 DEF MessageInv, StreamInv, FragmentOK
<1>14. \A i \in 1 .. N : /\ Owner(i)' = Owner(i) /\ From(i)' = From(i) /\ To(i)' = To(i)
                         /\ Total(Owner(i))' = Total(Owner(i))
  <2> SUFFICES ASSUME NEW i \in 1 .. N
               PROVE  /\ Owner(i)' = Owner(i) /\ From(i)' = From(i) /\ To(i)' = To(i)
                      /\ Total(Owner(i))' = Total(Owner(i))
    OBVIOUS
  <2>1. Owner(i)' = Owner(i) /\ From(i)' = From(i) /\ To(i)' = To(i)
    BY <1>10 DEF Owner, From, To
  <2>2. Owner(i) \in 1 .. Len(sent)
    BY <1>13
  <2> QED BY <1>11, <2>1, <2>2 DEF Total
<1>15. \A i \in 0 .. N : After(i)' = After(i)
  BY <1>14 DEF After, Following
<1>16. After(N) = <<M, 1>>
  BY <1>1, <1>2 DEF MessageInv, StreamInv
<1>17. \A i \in 1 .. N : FragmentOK(i)'
  <2> SUFFICES ASSUME NEW i \in 1 .. N
               PROVE  FragmentOK(i)'
    OBVIOUS
  <2>1. After(i - 1)' = After(i - 1)
    BY <1>1, <1>15
  <2>2. stream'[i] = stream[i] /\ Len(sent) <= Len(sent') /\ Len(sent) \in Nat /\ Len(sent') \in Nat
    BY <1>2, <1>10, <1>11, ReaderTypes
  <2>3. Owner(i)' \in 1 .. Len(sent')
    BY <1>13, <1>14, <2>2
  <2> QED BY <1>13, <1>14, <2>1, <2>2, <2>3 DEF FragmentOK
<1>18. ASSUME NEW f \in 1 .. K
       PROVE  /\ Owner(N + f)' = M /\ From(N + f)' = lo(f) + 1 /\ To(N + f)' = hi(f)
              /\ After(N + f)' = IF f = K THEN <<M + 1, 1>> ELSE <<M, lo(f + 1) + 1>>
  <2>1. stream'[N + f] = g[f] /\ N + f # 0
    BY <1>10, <1>1
  <2>2. /\ lo(f) \in Nat /\ hi(f) \in Nat /\ lo(f) < hi(f) /\ hi(f) <= T
        /\ f < K => hi(f) = f * F /\ hi(f) < T
        /\ f = K => hi(f) = T
    BY <1>4
  <2>3. lo(f + 1) = f * F
    BY <1>3
  <2> HIDE DEF lo, hi
  <2>4. g[f][1] = Byte(M, lo(f) + 1)
    <3>1. 1 \in 1 .. Len(g[f]) /\ (lo(f) + 1) + 1 - 1 = lo(f) + 1
      <4>1. Len(g[f]) = hi(f) - lo(f)
        BY <1>8
      <4> QED BY <2>2, <4>1
    <3>2. g[f] = [q \in 1 .. Len(g[f]) |-> Byte(M, (lo(f) + 1) + q - 1)]
      BY <1>8
    <3>3. g[f][1] = Byte(M, (lo(f) + 1) + 1 - 1)
      BY <3>1, <3>2
    <3> QED BY <3>1, <3>3
  <2>5. Owner(N + f)' = M /\ From(N + f)' = lo(f) + 1
    BY <2>1, <2>4 DEF Owner, From, Byte
  <2>6. To(N + f)' = hi(f)
    <3>1. Len(stream'[N + f]) = hi(f) - lo(f)
      BY <1>8, <2>1
    <3> QED BY <2>2, <2>5, <3>1 DEF To
  <2>7. After(N + f)' = IF hi(f) = T THEN <<M + 1, 1>> ELSE <<M, hi(f) + 1>>
    BY <1>12, <2>1, <2>5, <2>6 DEF After, Following
  <2>8. (f = K) <=> (hi(f) = T)
    BY <1>3, <2>2
  <2> QED BY <1>3, <2>2, <2>3, <2>5, <2>6, <2>7, <2>8
<1>19. ASSUME NEW f \in 1 .. K
       PROVE  FragmentOK(N + f)'
  <2>1. stream'[N + f] = g[f] /\ Owner(N + f)' = M /\ From(N + f)' = lo(f) + 1 /\ To(N + f)' = hi(f)
    BY <1>10, <1>18
  <2>2. /\ lo(f) \in Nat /\ hi(f) \in Nat /\ lo(f) < hi(f) /\ hi(f) <= T
        /\ hi(f) - lo(f) <= F /\ (hi(f) - lo(f) = F \/ hi(f) = T)
    BY <1>4
  <2>3. After(N + f - 1)' = <<M, lo(f) + 1>>
    <3>1. CASE f = 1
      <4>1. lo(f) = 0
        BY <1>3, <3>1
      <4>2. N + f - 1 = N /\ N \in 0 .. N
        BY <1>1, <3>1
      <4>3. After(N)' = <<M, 1>>
        BY <1>15, <1>16, <4>2
      <4> HIDE DEF lo
      <4> QED BY <4>1, <4>2, <4>3
    <3>2. CASE f # 1
      <4>1. f - 1 \in 1 .. K /\ f - 1 # K /\ (f - 1) + 1 = f /\ N + f - 1 = N + (f - 1)
        BY <1>1, <1>3, <3>2
      <4>2. After(N + (f - 1))' = <<M, lo((f - 1) + 1) + 1>>
        BY <1>18, <4>1
      <4> QED BY <4>1, <4>2
    <3> QED BY <3>1, <3>2
  <2> HIDE DEF lo, hi
  <2>4. Len(stream'[N + f]) \in 1 .. F /\ (Len(stream'[N + f]) = F \/ hi(f) = T)
    <3>1. Len(stream'[N + f]) = hi(f) - lo(f)
      BY <1>8, <2>1
    <3> QED BY <1>3, <2>2, <3>1
  <2>5. M \in 1 .. Len(sent') /\ lo(f) + 1 \in Nat \ {0} /\ hi(f) <= Total(M)'
    BY <1>2, <1>11, <1>12, <2>2
  <2>6. stream'[N + f] = [q \in 1 .. Len(stream'[N + f]) |-> Byte(M, (lo(f) + 1) + q - 1)]
    BY <1>8, <2>1
  <2>7. Total(Owner(N + f))' = T
    BY <1>12, <2>1 DEF Total
  <2>8. To(N + f)' <= Total(Owner(N + f))'
    BY <2>1, <2>2, <2>7
  <2>9. /\ Len(stream'[N + f]) \in 1 .. FragmentSize
        /\ Len(stream'[N + f]) = FragmentSize \/ To(N + f)' = Total(Owner(N + f))'
    BY <2>1, <2>4, <2>7 DEF F
  <2>10. stream'[N + f] = [q \in 1 .. Len(stream'[N + f]) |-> Byte(Owner(N + f)', From(N + f)' + q - 1)]
    BY <2>1, <2>6
  <2>11. <<Owner(N + f)', From(N + f)'>> = After(N + f - 1)'
    BY <2>1, <2>3
  <2>12. Owner(N + f)' \in 1 .. Len(sent') /\ From(N + f)' \in Nat \ {0}
    BY <2>1, <2>5
  <2> QED BY <2>8, <2>9, <2>10, <2>11, <2>12 DEF FragmentOK
<1>20. StreamInv'
  <2>1. \A i \in 1 .. Len(stream') : FragmentOK(i)'
    <3> SUFFICES ASSUME NEW i \in 1 .. Len(stream'), i \notin 1 .. N
                 PROVE  FragmentOK(i)'
      BY <1>17
    <3>1. i - N \in 1 .. K /\ N + (i - N) = i
      BY <1>1, <1>3, <1>10
    <3>2. FragmentOK(N + (i - N))'
      BY <1>19, <3>1
    <3> QED BY <3>1, <3>2
  <2>2. After(Len(stream))' = <<Len(sent') + 1, 1>>
    <3>1. K \in 1 .. K
      BY <1>3
    <3>2. After(N + K)' = <<M + 1, 1>>
      BY <1>18, <3>1
    <3> QED BY <1>10, <1>11, <3>2 DEF After, Owner, From, To, Following, Total
  <2> QED BY <1>10, <1>11, <2>1, <2>2 DEF StreamInv, Letter
<1>21. ReaderInv'
  <2>1. /\ Len(sent) \in Nat /\ Len(sent) < Len(sent') /\ Len(stream) <= Len(stream')
        /\ Len(sent') \in Nat /\ Len(stream) \in Nat /\ Len(stream') \in Nat
        /\ Len(msg) \in Nat /\ Len(fragmentbuffer) \in Nat /\ Current \in Nat
        /\ rxSequence \in Nat /\ arrived \in Nat /\ Len(executed) \in Nat
    <3>1. Len(sent) \in Nat /\ Len(stream) \in Nat /\ Len(msg) \in Nat
          /\ Len(fragmentbuffer) \in Nat /\ Current \in Nat /\ rxSequence \in Nat /\ arrived \in Nat
      BY ReaderTypes
    <3>2. Len(executed) \in Nat
      BY DEF MessageInv, ReaderInv
    <3> QED BY <1>1, <1>2, <1>3, <1>10, <1>11, <3>1, <3>2
  <2>2. /\ rxSequence' \in 0 .. arrived' /\ arrived' \in 0 .. Len(stream') /\ rxSequence \in 0 .. N
    <3>1. rxSequence \in 0 .. arrived /\ arrived \in 0 .. Len(stream)
      BY DEF MessageInv, ReaderInv
    <3>2. rxSequence' = rxSequence /\ arrived' = arrived
      BY <1>6
    <3> QED BY <1>1, <2>1, <3>1, <3>2
  <2>3. /\ executed' \in Seq(Seq(Letter)) /\ Len(executed') <= Len(sent')
        /\ \A m \in 1 .. Len(executed') : executed'[m] = Bytes(m, sent'[m])
    <3>1. executed' = executed /\ executed \in Seq(Seq(Letter)) /\ Len(executed) <= Len(sent)
      BY <1>6 DEF MessageInv, ReaderInv, Letter
    <3>2. \A m \in 1 .. Len(executed) : m \in 1 .. Len(sent) /\ executed[m] = Bytes(m, sent[m])
      BY <2>1, <3>1 DEF MessageInv, ReaderInv
    <3> QED BY <1>11, <2>1, <3>1, <3>2
  <2>4. /\ Len(msg') \in Nat /\ msg' = [q \in 1 .. Len(msg') |-> Byte(Current', q)]
        /\ Len(fragmentbuffer') \in 0 .. FragmentSize - 1
        /\ fragmentbuffer' = [q \in 1 .. Len(fragmentbuffer') |-> Byte(Current', Len(msg') + q)]
        /\ Current' = Current
    BY <1>6 DEF MessageInv, ReaderInv, Current
  <2>5. After(rxSequence)' = After(rxSequence)
    <3>1. PICK r \in 0 .. N : r = rxSequence
      BY <2>2
    <3>2. After(r)' = After(r)
      BY <1>15
    <3> QED BY <1>6, <3>1, <3>2 DEF After, Owner, From, To, Following, Total
  <2>6. msg' = <<>> => fragmentbuffer' = <<>> /\ After(rxSequence)' = <<Current', 1>>
    BY <1>6, <2>4, <2>5 DEF MessageInv, ReaderInv
  <2>7. ASSUME msg' # <<>>
        PROVE  /\ Current' <= Len(sent') /\ HeaderSize <= Len(msg')
               /\ Len(msg') + Len(fragmentbuffer') <= Total(Current)'
               /\ After(rxSequence)' = Following(Current, Len(msg) + Len(fragmentbuffer))'
    <3>1. /\ Current <= Len(sent) /\ HeaderSize <= Len(msg)
          /\ Len(msg) + Len(fragmentbuffer) <= Total(Current)
          /\ After(rxSequence) = Following(Current, Len(msg) + Len(fragmentbuffer))
      BY <1>6, <2>7 DEF MessageInv, ReaderInv
    <3>2. Current \in 1 .. Len(sent)
      BY <3>1, <2>1 DEF Current
    <3>3. sent'[Current'] = sent[Current]
      BY <1>11, <2>4, <3>2
    <3>4. Total(Current)' = Total(Current)
      BY <3>3 DEF Total
    <3> QED BY <1>6, <2>1, <2>4, <2>5, <3>1, <3>4 DEF Following
  <2> QED BY <2>2, <2>3, <2>4, <2>6, <2>7 DEF ReaderInv, Letter
<1> QED BY <1>20, <1>21 DEF MessageInv

-----------------------------------------------------------------------------

\* The reader is in step with the stream (CL_ReceiveReliableMessages over
\* ReliableMessageReceive): what it holds is the beginning of one message, and the next
\* fragment goes on where that ends.
THEOREM MessagesInvariance == Spec => []MessageInv
<1>1. Init => MessageInv
  <2> SUFFICES ASSUME Init PROVE MessageInv
    OBVIOUS
  <2>1. /\ sent = <<>> /\ stream = <<>> /\ arrived = 0 /\ rxSequence = 0
        /\ fragmentbuffer = <<>> /\ msg = <<>> /\ executed = <<>>
    BY DEF Init
  <2>2. StreamInv
    BY <2>1 DEF StreamInv, After
  <2>3. <<>> = [q \in 1 .. 0 |-> Byte(Current, q)] /\ <<>> = [q \in 1 .. 0 |-> Byte(Current, Len(msg) + q)]
    OBVIOUS
  <2>4. After(rxSequence) = <<Current, 1>>
    BY <2>1 DEF After, Current
  <2>5. ReaderInv
    BY <2>1, <2>3, <2>4 DEF ReaderInv
  <2> QED BY <2>2, <2>5 DEF MessageInv
<1>2. MessageInv /\ [Next]_vars => MessageInv'
  <2> SUFFICES ASSUME MessageInv, [Next]_vars PROVE MessageInv'
    OBVIOUS
  <2>1. CASE \E size \in Sizes : CL_SendReliableClientCommand(size)
    BY <2>1, SendKeeps
  <2>2. CASE FragmentArrives
    BY <2>2, FragmentArrivesKeeps
  <2>3. CASE ReceiveHeader
    BY <2>3, HeaderKeeps
  <2>4. CASE Oversize
    BY <2>4, OversizeKeeps
  <2>5. CASE ReceiveBody
    BY <2>5, BodyKeeps
  <2>6. CASE UNCHANGED vars
    <3>1. UNCHANGED <<sent, stream, arrived, rxSequence, fragmentbuffer, msg, executed>>
      BY <2>6 DEF vars
    <3>2. StreamInv'
      BY <3>1, StreamStays
    <3>3. ReaderInv'
      BY <3>1 DEF MessageInv, ReaderInv, Current, After, Owner, From, To, Following, Total
    <3> QED BY <3>2, <3>3 DEF MessageInv
  <2> QED BY <2>1, <2>2, <2>3, <2>4, <2>5, <2>6 DEF Next
<1> QED BY <1>1, <1>2, PTL DEF Spec

\* What is executed are the messages sent, whole and in order, and what is under way is
\* the beginning of the next one (CL_ReceiveReliableMessages).
THEOREM MessagesReadAsWritten == Spec => []ReadAsWritten
<1>1. MessageInv => ReadAsWritten
  <2> SUFFICES ASSUME MessageInv PROVE ReadAsWritten
    OBVIOUS
  <2>1. ExecutedAsSent
    <3>1. executed \in Seq(Seq(Letter)) /\ Len(executed) <= Len(sent)
          /\ \A m \in 1 .. Len(executed) : executed[m] = Bytes(m, sent[m])
      BY DEF MessageInv, ReaderInv, Letter
    <3> QED BY <3>1 DEF ExecutedAsSent
  <2>2. ASSUME msg # <<>>
        PROVE  msg \o fragmentbuffer = SubSeq(Bytes(Current, sent[Current]), 1, Len(msg \o fragmentbuffer))
    <3> DEFINE L == Len(msg)
               n == Len(fragmentbuffer)
               all == msg \o fragmentbuffer
               b == Bytes(Current, sent[Current])
    <3>1. /\ L \in Nat /\ n \in Nat /\ Current \in 1 .. Len(sent)
          /\ msg = [q \in 1 .. L |-> Byte(Current, q)]
          /\ fragmentbuffer = [q \in 1 .. n |-> Byte(Current, L + q)]
          /\ L + n <= Total(Current) /\ Total(Current) \in Nat
      <4>1. /\ L \in Nat /\ n \in Nat /\ Current \in 1 .. Len(sent)
        BY <2>2, ReaderTypes DEF MessageInv, ReaderInv
      <4>2. /\ msg = [q \in 1 .. L |-> Byte(Current, q)]
            /\ fragmentbuffer = [q \in 1 .. n |-> Byte(Current, L + q)]
            /\ L + n <= Total(Current)
        BY <2>2 DEF MessageInv, ReaderInv
      <4> QED BY <4>1, <4>2, ReaderTypes
    <3>2. \A q \in Nat \ {0} : Byte(Current, q) \in Letter /\ Byte(Current, L + q) \in Letter
      BY <3>1 DEF Byte, Letter
    <3> HIDE DEF L, n
    <3>3. msg \in [1 .. L -> Letter] /\ fragmentbuffer \in [1 .. n -> Letter]
      BY <3>1, <3>2
    <3>4. msg \in Seq(Letter) /\ fragmentbuffer \in Seq(Letter)
      <4>1. L \in Nat /\ n \in Nat
        BY <3>1
      <4> QED BY <3>3, <4>1
    <3>5. /\ all \in Seq(Letter) /\ Len(all) = L + n
          /\ \A q \in 1 .. L : all[q] = msg[q]
          /\ \A q \in 1 .. n : all[L + q] = fragmentbuffer[q]
      BY <3>4 DEF L, n
    <3>6. b = [q \in 1 .. Total(Current) |-> Byte(Current, q)]
      BY DEF Bytes, Total, Byte
    <3> HIDE DEF all, b
    <3>7. ASSUME NEW q \in 1 .. L + n PROVE all[q] = Byte(Current, q)
      <4>1. CASE q <= L
        BY <3>1, <3>5, <3>7, <4>1
      <4>2. CASE q > L
        <5>1. q - L \in 1 .. n /\ L + (q - L) = q
          BY <3>1, <3>7, <4>2
        <5>2. all[L + (q - L)] = fragmentbuffer[q - L]
          BY <3>5, <5>1
        <5>3. fragmentbuffer[q - L] = Byte(Current, L + (q - L))
          BY <3>1, <5>1
        <5> QED BY <5>1, <5>2, <5>3
      <4> QED BY <3>1, <3>7, <4>1, <4>2
    <3>8. all = [q \in 1 .. L + n |-> Byte(Current, q)]
      <4>1. all = [q \in 1 .. Len(all) |-> all[q]]
        BY <3>5
      <4> QED BY <3>5, <3>7, <4>1
    <3>9. b \in Seq(Letter) /\ Len(b) = Total(Current)
      <4>1. b \in [1 .. Total(Current) -> Letter] /\ DOMAIN b = 1 .. Total(Current)
        BY <3>2, <3>6
      <4>2. Total(Current) \in Nat
        BY <3>1
      <4> QED BY <4>1, <4>2
    <3>10. SubSeq(b, 1, L + n) = [q \in 1 .. (L + n) - 1 + 1 |-> b[1 + q - 1]]
      <4>1. L + n \in 0 .. Len(b) /\ 1 <= (L + n) + 1
        BY <3>1, <3>9
      <4> QED BY <3>9, <4>1, Sliced
    <3>11. (L + n) - 1 + 1 = L + n /\ \A q \in 1 .. L + n : b[1 + q - 1] = Byte(Current, q)
      BY <3>1, <3>6
    <3>12. all = SubSeq(b, 1, Len(all))
      BY <3>5, <3>8, <3>10, <3>11
    <3> QED BY <3>12 DEF all, b
  <2>3. InStep
    <3>1. Len(fragmentbuffer) < FragmentSize
      BY DEF MessageInv, ReaderInv
    <3>2. msg # <<>> => Current <= Len(sent) /\ HeaderSize <= Len(msg)
      BY DEF MessageInv, ReaderInv
    <3> QED BY <2>2, <3>1, <3>2 DEF InStep, Current
  <2> QED BY <2>1, <2>3 DEF ReadAsWritten
<1> QED BY <1>1, MessagesInvariance, PTL

\* What is taken has arrived, no more than the window is taken late, and msg never
\* outgrows its buffer (CL_ReceiveReliableMessages, ReliableMessageReceive).
THEOREM MessagesTypeCorrect == Spec => []TypeOK
<1> DEFINE Fits == /\ Len(msg) <= MaxSize /\ arrived <= rxSequence + WindowSize
                   /\ state \in {"connected", "dropped"}
<1>1. Init => Fits
  BY DEF Init
<1>2. MessageInv /\ MessageInv' /\ Fits /\ [Next]_vars => Fits'
  <2> SUFFICES ASSUME MessageInv, MessageInv', Fits, [Next]_vars PROVE Fits'
    OBVIOUS
  <2>1. /\ rxSequence \in Nat /\ arrived \in Nat /\ arrived - rxSequence \in Nat
        /\ Len(msg) \in Nat /\ HeaderSize \in Nat /\ HeaderSize <= MaxSize
        /\ WindowSize \in Nat /\ MaxSize \in Nat
    BY ReaderTypes
  <2>2. CASE \E size \in Sizes : CL_SendReliableClientCommand(size)
    BY <2>2 DEF CL_SendReliableClientCommand
  <2>3. CASE FragmentArrives
    BY <2>1, <2>3 DEF FragmentArrives
  <2>4. CASE ReceiveHeader
    <3>1. Len(Read(HeaderSize)) = HeaderSize
      <4> DEFINE a == Available(Taken(HeaderSize))
                 n == Len(a)
      <4>1. Taken(HeaderSize) = 1 /\ rxSequence < arrived /\ n \in HeaderSize .. FragmentSize
        BY <2>4, HeaderInOne DEF ReceiveHeader
      <4>2. 1 \in 0 .. arrived - rxSequence
        BY <2>1, <4>1
      <4>3. a \in Seq(Letter)
        BY <4>1, <4>2, AvailableBytes
      <4>4. Read(HeaderSize) = SubSeq(a, 1, Least(HeaderSize, n))
        BY DEF Read
      <4> HIDE DEF a
      <4>5. Least(HeaderSize, n) = HeaderSize /\ HeaderSize \in 0 .. Len(a) /\ 1 <= HeaderSize + 1
        BY <2>1, <4>1 DEF Least
      <4>6. Len(SubSeq(a, 1, HeaderSize)) = HeaderSize - 1 + 1
        BY <4>3, <4>5, Sliced
      <4> QED BY <2>1, <4>4, <4>5, <4>6
    <3>2. msg' = Read(HeaderSize) /\ rxSequence' = rxSequence + Taken(HeaderSize) /\ UNCHANGED <<arrived, state>>
      BY <2>4 DEF ReceiveHeader, ReliableMessageReceive
    <3>3. Taken(HeaderSize) \in 0 .. arrived - rxSequence
      BY <2>1, TakenStops
    <3> QED BY <2>1, <3>1, <3>2, <3>3
  <2>5. CASE Oversize
    BY <2>5 DEF Oversize
  <2>6. CASE ReceiveBody
    <3> DEFINE W == Total(Current)
               t == Taken(W - Len(msg))
    <3>1. Wanted(msg) = W /\ W <= MaxSize /\ msg # <<>>
      BY <2>6, HeaderSays DEF ReceiveBody
    <3>2. Current \in 1 .. Len(sent) /\ W \in Nat /\ Len(msg) <= W
      <4>1. Current \in 1 .. Len(sent) /\ Len(msg) + Len(fragmentbuffer) <= W
        <5>1. Current <= Len(sent) /\ Len(msg) + Len(fragmentbuffer) <= W
          BY <3>1 DEF MessageInv, ReaderInv
        <5> QED BY <5>1, ReaderTypes
      <4>2. W \in Nat /\ Len(fragmentbuffer) \in Nat
        BY <4>1, ReaderTypes
      <4> QED BY <2>1, <4>1, <4>2
    <3>3. t \in 0 .. arrived - rxSequence
      <4>1. W - Len(msg) \in Nat
        BY <2>1, <3>2
      <4> QED BY <4>1, TakenStops
    <3>4. rxSequence' = rxSequence + t /\ UNCHANGED <<sent, arrived, state>>
      BY <2>6, <3>1 DEF ReceiveBody, ReliableMessageReceive
    <3>5. msg' = <<>> \/ UNCHANGED executed
      BY <2>6 DEF ReceiveBody
    <3>6. Len(msg') <= MaxSize
      <4>1. CASE msg' = <<>>
        BY <2>1, <4>1
      <4>2. CASE msg' # <<>> /\ UNCHANGED executed
        <5>1. Total(Current)' = W
          BY <3>4, <4>2 DEF Total, Current
        <5>2. Len(msg') + Len(fragmentbuffer') <= Total(Current)' /\ Len(msg') \in Nat /\ Len(fragmentbuffer') \in Nat
          BY <4>2 DEF MessageInv, ReaderInv
        <5> QED BY <2>1, <3>1, <3>2, <5>1, <5>2
      <4> QED BY <3>5, <4>1, <4>2
    <3> HIDE DEF t
    <3> QED BY <2>1, <3>3, <3>4, <3>6
  <2>7. CASE UNCHANGED vars
    BY <2>7 DEF vars
  <2> QED BY <2>2, <2>3, <2>4, <2>5, <2>6, <2>7 DEF Next
<1>3. MessageInv /\ Fits => TypeOK
  BY ReaderTypes DEF MessageInv, ReaderInv, TypeOK
<1> HIDE DEF Fits
<1> QED BY <1>1, <1>2, <1>3, MessagesInvariance, PTL DEF Spec
=============================================================================
