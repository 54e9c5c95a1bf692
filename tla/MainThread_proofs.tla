--------------------------- MODULE MainThread_proofs ---------------------------
(***************************************************************************)
(* Theorems about the two components that a frame of the main thread       *)
(* drives, each for every value of its constants.                          *)
(*                                                                         *)
(* Connection: its safety properties hold together.  The stream may        *)
(* be freed under the protocol it was set up with because no channel is    *)
(* left when the protocol is chosen (ChannelInv), and a demo never meets a *)
(* channel because it only plays in states in which connectResponse is     *)
(* ignored.                                                                *)
(*                                                                         *)
(* Input: a key that stays down is held, and lines are executed in order,  *)
(* whatever the length of the queue and the number of keys.  The queue     *)
(* discards its oldest event, so what must be shown of it is that a key's  *)
(* newest event is what counts (TailDown, QueuedEvent), and that the event *)
(* of the console window is taken before another is queued (QueueInv).     *)
(***************************************************************************)
EXTENDS Connection, Input, SequenceTheorems, FiniteSetTheorems, WellFoundedInduction, TLAPS

-----------------------------------------------------------------------------
(* Connection *)

\* A channel exists only in the connected states, so a connect, a demo or a map
\* load that finds a lower state finds no channel.
ChannelInv == clc.remoteAddress # NoAddress => state >= CA_CONNECTED

\* While the stats are sent, some are wanted, unless the server's answer named none.
Wanted(c) == c.statPacketSyncState # {} \/ c.emptyAnswer = TRUE
WantedInv == state = CA_STATSSYNC => Wanted(clc)

\* An attempt to connect has a server to ask.
Asking == {CA_CHALLENGING, CA_CONNECTING}
AddressInv == state \in Asking => clc.serverAddress \in Servers

IInv ==
    /\ TypeOK
    /\ AddressInv
    /\ ChannelInv
    /\ StreamFollowsChannel
    /\ ChannelToHost
    /\ WantedInv
    /\ DemoIsOffline

USE DEF CA_UNINITIALIZED, CA_DISCONNECTED, CA_CHALLENGING, CA_CONNECTING,
        CA_CONNECTED, CA_STATSSYNC, CA_LOADING, CA_PRIMED, CA_ACTIVE

Clcs == [serverAddress : Addresses, remoteAddress : Addresses,
         challenge : Addresses, demoplaying : BOOLEAN,
         statPacketSyncState : SUBSET StatPackets,
         statPacketSentTime : [StatPackets -> 0 .. NumStatPackets],
         recent : BOOLEAN, emptyAnswer : BOOLEAN]

\* The types of the flags and of the other variables but state, reliablemsg and
\* clc.
FlagTypes ==
    downloadName \in BOOLEAN /\ legacyProtocol \in BOOLEAN /\ svRunning \in BOOLEAN

SetTypes ==
    /\ servername \in Addresses \cup {DemoName}
    /\ svChallenged \subseteq Servers
    /\ svClients \subseteq Servers

-----------------------------------------------------------------------------
\* A non-empty set of numbers has a least one.
LEMMA LeastNumber ==
    ASSUME NEW T, T \subseteq Nat, T # {}
    PROVE  \E m \in T : \A n \in T : m <= n
<1>1. IsWellFoundedOn(OpToRel(<, Nat), Nat)
    BY NatLessThanWellFounded
<1>2. PICK m \in T : \A n \in T : ~(<<n, m>> \in OpToRel(<, Nat))
    BY <1>1, WFMin
<1>3. \A n \in T : ~(n < m)
    BY <1>2 DEF OpToRel
<1>4. m \in T
    BY <1>2, Zenon
<1> QED
    BY <1>3, <1>4

\* No server has the address of a zeroed netadr_t.
LEMMA ServersHaveAddresses == NoAddress \notin Servers /\ Loopback \in Servers
BY ConnectionAssumption DEF NoAddress, Servers, Loopback

\* CL_GetStatPacketIndex returns a wanted packet whenever one is wanted.
LEMMA IndexIsWanted ==
    ASSUME clc \in Clcs, clc.statPacketSyncState # {}
    PROVE  CL_GetStatPacketIndex \in clc.statPacketSyncState
<1> DEFINE wanted == clc.statPacketSyncState
           time == clc.statPacketSentTime
           Best(i) == \A j \in wanted :
                        time[i] < time[j] \/ (time[i] = time[j] /\ i <= j)
<1>1. wanted \subseteq Nat /\ \A i \in wanted : time[i] \in Nat
    BY ConnectionAssumption DEF Clcs, StatPackets
<1> DEFINE Times == {time[i] : i \in wanted}
<1>2. PICK t \in Times : \A u \in Times : t <= u
  <2>1. Times \subseteq Nat /\ Times # {}
    BY <1>1
  <2> HIDE DEF Times
  <2> QED BY <2>1, LeastNumber
<1> DEFINE Oldest == {i \in wanted : time[i] = t}
<1>3. PICK i \in Oldest : \A j \in Oldest : i <= j
  <2>1. Oldest \subseteq Nat /\ Oldest # {}
    BY <1>1, <1>2
  <2> HIDE DEF Oldest
  <2> QED BY <2>1, LeastNumber
<1>4. Best(i)
  <2> SUFFICES ASSUME NEW j \in wanted
               PROVE  time[i] < time[j] \/ (time[i] = time[j] /\ i <= j)
    OBVIOUS
  <2>1. time[i] = t /\ t <= time[j] /\ t \in Nat /\ time[j] \in Nat
    BY <1>1, <1>2, <1>3
  <2>2. time[j] = t => i <= j
    BY <1>3
  <2> QED BY <2>1, <2>2
<1>5. \E k \in wanted : Best(k)
    BY <1>3, <1>4
<1> QED
    BY <1>5 DEF CL_GetStatPacketIndex

\* SentNow keeps the type of statPacketSentTime.
LEMMA SentNowType ==
    ASSUME clc \in Clcs, NEW i \in StatPackets
    PROVE  SentNow(i) \in [StatPackets -> 0 .. NumStatPackets]
BY ConnectionAssumption DEF Clcs, SentNow, StatPackets

\* clc stays what it should be over CL_Disconnect.
LEMMA DisconnectClears ==
    ASSUME IInv
    PROVE  /\ ClcAfterDisconnect \in Clcs
           /\ ClcAfterDisconnect.remoteAddress = NoAddress
           /\ ClcAfterDisconnect.demoplaying = FALSE
<1>1. CASE state >= CA_CONNECTED
    BY <1>1, ConnectionAssumption
    DEF ClcAfterDisconnect, ZeroClc, Clcs, NeverSent, Addresses
<1>2. CASE ~(state >= CA_CONNECTED)
    BY <1>2 DEF ClcAfterDisconnect, IInv, TypeOK, Clcs, ChannelInv, DemoIsOffline
<1> QED BY <1>1, <1>2

\* ... and no stream is left.
LEMMA DisconnectFrees ==
    ASSUME IInv, FreeStream
    PROVE  reliablemsg' = "null"
BY DEF IInv, TypeOK, FreeStream, StreamFollowsChannel

\* TypeOK taken apart.
LEMMA TypeOKParts ==
    TypeOK <=> /\ state \in States
               /\ reliablemsg \in {"null", "set up", "freed"}
               /\ clc \in Clcs
               /\ FlagTypes
               /\ SetTypes
BY Zenon DEF TypeOK, Clcs, FlagTypes, SetTypes

-----------------------------------------------------------------------------
\* The steps that begin with CL_Disconnect.

\* After CL_Disconnect nothing of the connection is left but an address, so
\* every state these steps end in satisfies the invariant.
LEMMA AfterDisconnect ==
    ASSUME IInv, FreeStream, NEW address \in Addresses, NEW demo \in BOOLEAN,
           NEW late \in BOOLEAN,
           clc' = [ClcAfterDisconnect EXCEPT !.serverAddress = address,
                                             !.demoplaying = demo,
                                             !.recent = late],
           state' \in States \ {CA_STATSSYNC},
           demo => state' >= CA_CONNECTED,
           state' \in Asking => address \in Servers,
           FlagTypes', SetTypes'
    PROVE  IInv'
<1>1. /\ ClcAfterDisconnect \in Clcs
      /\ ClcAfterDisconnect.remoteAddress = NoAddress
    BY DisconnectClears
<1>2. /\ clc' \in Clcs
      /\ clc'.remoteAddress = NoAddress
      /\ clc'.demoplaying = demo
      /\ clc'.serverAddress = address
    BY <1>1 DEF Clcs
<1>3. reliablemsg' = "null"
    BY DisconnectFrees
<1>4. TypeOK'
    BY <1>2, <1>3, Zenon DEF TypeOK, Clcs, FlagTypes, SetTypes
<1>5. ChannelInv' /\ StreamFollowsChannel' /\ ChannelToHost' /\ WantedInv' /\ DemoIsOffline'
    BY <1>2, <1>3 DEF ChannelInv, StreamFollowsChannel, ChannelToHost, WantedInv,
                      DemoIsOffline
<1>6. AddressInv'
    BY <1>2 DEF AddressInv
<1> QED BY <1>4, <1>5, <1>6 DEF IInv

\* The three ways in which these steps change clc.
LEMMA ClcForms ==
    ASSUME IInv
    PROVE  LET c == ClcAfterDisconnect
           IN  /\ c.serverAddress \in Addresses /\ c.recent \in BOOLEAN
               /\ c = [c EXCEPT !.serverAddress = c.serverAddress,
                                !.demoplaying = FALSE, !.recent = c.recent]
               /\ \A a : [c EXCEPT !.serverAddress = a] =
                         [c EXCEPT !.serverAddress = a, !.demoplaying = FALSE,
                                   !.recent = c.recent]
               /\ \A a : [c EXCEPT !.serverAddress = a, !.recent = TRUE] =
                         [c EXCEPT !.serverAddress = a, !.demoplaying = FALSE,
                                   !.recent = TRUE]
               /\ [c EXCEPT !.demoplaying = TRUE] =
                  [c EXCEPT !.serverAddress = c.serverAddress,
                            !.demoplaying = TRUE, !.recent = c.recent]
<1> DEFINE c == ClcAfterDisconnect
<1>1. c \in Clcs /\ c.demoplaying = FALSE
    BY DisconnectClears
<1> HIDE DEF c
<1>2. c.serverAddress \in Addresses /\ c.recent \in BOOLEAN
    BY <1>1 DEF Clcs
<1>3. c = [c EXCEPT !.serverAddress = c.serverAddress, !.demoplaying = FALSE,
                    !.recent = c.recent]
    BY <1>1 DEF Clcs
<1>4. ASSUME NEW a
      PROVE  /\ [c EXCEPT !.serverAddress = a] =
                [c EXCEPT !.serverAddress = a, !.demoplaying = FALSE, !.recent = c.recent]
             /\ [c EXCEPT !.serverAddress = a, !.recent = TRUE] =
                [c EXCEPT !.serverAddress = a, !.demoplaying = FALSE, !.recent = TRUE]
    BY <1>1 DEF Clcs
<1>5. [c EXCEPT !.demoplaying = TRUE] =
      [c EXCEPT !.serverAddress = c.serverAddress, !.demoplaying = TRUE,
                !.recent = c.recent]
    BY <1>1 DEF Clcs
<1> QED
    BY <1>2, <1>3, <1>4, <1>5 DEF c

\* CL_Disconnect and the errors that end in it.
LEMMA DropInv ==
    ASSUME IInv, Drop
    PROVE  IInv'
<1>1. FlagTypes /\ SetTypes
    BY TypeOKParts DEF IInv
<1>2. FlagTypes'
    BY <1>1, Zenon DEF FlagTypes, Drop, CL_Disconnect, answers
<1>3. SetTypes'
    BY <1>1 DEF SetTypes, Addresses, Drop, CL_Disconnect, answers
<1>4. /\ FreeStream
      /\ clc' = ClcAfterDisconnect
      /\ state' \in States \ {CA_STATSSYNC} /\ state' \notin Asking
    BY DEF States, Asking, Drop, CL_Disconnect, answers
<1> QED
    BY <1>2, <1>3, <1>4, AfterDisconnect, ClcForms

\* The end of a demo.
LEMMA DemoCompletedInv ==
    ASSUME IInv, CL_DemoCompleted
    PROVE  IInv'
<1>1. FlagTypes /\ SetTypes
    BY TypeOKParts DEF IInv
<1>2. FlagTypes'
    BY <1>1, Zenon DEF FlagTypes, CL_DemoCompleted, CL_Disconnect, servers, answers
<1>3. SetTypes'
    BY <1>1 DEF SetTypes, Addresses, CL_DemoCompleted, CL_Disconnect, servers, answers
<1>4. /\ FreeStream
      /\ clc' = ClcAfterDisconnect
      /\ state' \in States \ {CA_STATSSYNC} /\ state' \notin Asking
    BY DEF States, Asking, CL_DemoCompleted, CL_Disconnect, servers, answers
<1> QED
    BY <1>2, <1>3, <1>4, AfterDisconnect, ClcForms

\* A new attempt to connect.
LEMMA ConnectInv ==
    ASSUME IInv, NEW s \in Servers, CL_Connect_f(s) \/ CL_ConnectNoProfile(s)
    PROVE  IInv'
<1>1. FlagTypes /\ SetTypes
    BY TypeOKParts DEF IInv
<1>2. FlagTypes'
    BY <1>1, Zenon DEF FlagTypes, CL_Connect_f, CL_ConnectNoProfile, answers
<1>3. SetTypes'
    BY <1>1 DEF SetTypes, Addresses, CL_Connect_f, CL_ConnectNoProfile, answers
<1>4. /\ FreeStream
      /\ \/ clc' = [ClcAfterDisconnect EXCEPT !.serverAddress = s]
         \/ clc' = [ClcAfterDisconnect EXCEPT !.serverAddress = s, !.recent = TRUE]
      /\ state' \in States \ {CA_STATSSYNC}
    BY DEF States, CL_Connect_f, CL_ConnectNoProfile, answers
<1>5. s \in Addresses
    BY DEF Addresses
<1> QED
    BY <1>2, <1>3, <1>4, <1>5, AfterDisconnect, ClcForms

\* A name that does not resolve.
LEMMA ConnectBadAddressInv ==
    ASSUME IInv, CL_ConnectBadAddress
    PROVE  IInv'
<1>1. FlagTypes /\ SetTypes
    BY TypeOKParts DEF IInv
<1>2. FlagTypes'
    BY <1>1, Zenon DEF FlagTypes, CL_ConnectBadAddress, servers, answers
<1>3. SetTypes'
    BY <1>1 DEF SetTypes, Addresses, CL_ConnectBadAddress, servers, answers
<1>4. /\ FreeStream
      /\ clc' = [ClcAfterDisconnect EXCEPT !.serverAddress = NoAddress]
      /\ state' \in States \ {CA_STATSSYNC} /\ state' \notin Asking
    BY DEF States, Asking, CL_ConnectBadAddress, servers, answers
<1>5. NoAddress \in Addresses
    BY DEF Addresses
<1> QED
  <2>1. /\ ClcAfterDisconnect.recent \in BOOLEAN
        /\ clc' = [ClcAfterDisconnect EXCEPT !.serverAddress = NoAddress, !.demoplaying = FALSE,
                                             !.recent = ClcAfterDisconnect.recent]
    BY <1>4, ClcForms
  <2> QED BY <1>2, <1>3, <1>4, <1>5, <2>1, AfterDisconnect

\* A demo starts; it is the only step that marks one as playing.
LEMMA PlayDemoInv ==
    ASSUME IInv, CL_PlayDemo
    PROVE  IInv'
<1>1. FlagTypes /\ SetTypes
    BY TypeOKParts DEF IInv
<1>2. FlagTypes'
    BY <1>1, Zenon DEF FlagTypes, CL_PlayDemo, servers, answers
<1>3. SetTypes'
    BY <1>1 DEF SetTypes, Addresses, CL_PlayDemo, servers, answers
<1>4. /\ FreeStream
      /\ clc' = [ClcAfterDisconnect EXCEPT !.demoplaying = TRUE]
      /\ state' \in States \ {CA_STATSSYNC} /\ state' \notin Asking
    BY DEF States, Asking, CL_PlayDemo, servers, answers
<1>5. state' >= CA_CONNECTED
    BY DEF CL_PlayDemo
<1> QED
    BY <1>2, <1>3, <1>4, <1>5, AfterDisconnect, ClcForms
-----------------------------------------------------------------------------
\* The other steps.  They keep the stream and, but for one, the channel.

\* A step that keeps the channel, the protocol and the stream, and stays in or
\* enters the connected states if there is a channel or a demo.
LEMMA KeepsChannel ==
    ASSUME IInv, FlagTypes', SetTypes',
           UNCHANGED <<legacyProtocol, reliablemsg>>,
           clc' \in Clcs,
           clc'.serverAddress = clc.serverAddress,
           clc'.remoteAddress = clc.remoteAddress,
           clc'.demoplaying = clc.demoplaying,
           state' \in States,
           state >= CA_CONNECTED => state' >= CA_CONNECTED,
           state' \in Asking => state' = state,
           state' = CA_STATSSYNC => Wanted(clc')
    PROVE  IInv'
<1>1. /\ state \in States /\ reliablemsg \in {"null", "set up", "freed"}
      /\ ChannelInv /\ StreamFollowsChannel /\ ChannelToHost /\ DemoIsOffline
      /\ AddressInv
    BY DEF IInv, TypeOK
<1>2. TypeOK'
    BY <1>1, Zenon DEF TypeOK, Clcs, FlagTypes, SetTypes
<1>3. ChannelInv' /\ WantedInv'
    BY <1>1 DEF ChannelInv, WantedInv
<1>4. StreamFollowsChannel'
    BY <1>1 DEF StreamFollowsChannel
<1>5. ChannelToHost'
    BY <1>1 DEF ChannelToHost, NET_CompareBaseAdr
<1>6. DemoIsOffline'
    BY <1>1 DEF DemoIsOffline
<1>7. AddressInv'
    BY <1>1 DEF AddressInv
<1> QED
    BY <1>2, <1>3, <1>4, <1>5, <1>6, <1>7 DEF IInv

\* The types a step starts from.
LEMMA TypesNow ==
    ASSUME IInv
    PROVE  state \in States /\ clc \in Clcs /\ FlagTypes /\ SetTypes
BY TypeOKParts DEF IInv

\* recent is not read by the invariant.
LEMMA RecentKeepsType ==
    ASSUME clc \in Clcs, NEW late \in BOOLEAN,
           clc' = [clc EXCEPT !.recent = late]
    PROVE  /\ clc' \in Clcs
           /\ clc'.serverAddress = clc.serverAddress
           /\ clc'.remoteAddress = clc.remoteAddress
           /\ clc'.demoplaying = clc.demoplaying
           /\ Wanted(clc) => Wanted(clc')
BY DEF Clcs, Wanted

\* The same for the updates of the stats fields.
LEMMA WantedKeepsType ==
    ASSUME clc \in Clcs, NEW late \in BOOLEAN, NEW wanted \in SUBSET StatPackets,
           NEW empty \in BOOLEAN,
           clc' = [clc EXCEPT !.recent = late, !.statPacketSyncState = wanted,
                              !.emptyAnswer = empty]
    PROVE  /\ clc' \in Clcs
           /\ clc'.serverAddress = clc.serverAddress
           /\ clc'.remoteAddress = clc.remoteAddress
           /\ clc'.demoplaying = clc.demoplaying
           /\ clc'.statPacketSyncState = wanted
           /\ clc'.emptyAnswer = empty
BY DEF Clcs

\* The same when the wanted packets are set anew and none has been sent.
LEMMA ResetKeepsType ==
    ASSUME clc \in Clcs, NEW late \in BOOLEAN, NEW wanted \in SUBSET StatPackets,
           NEW time \in [StatPackets -> 0 .. NumStatPackets],
           clc' = [clc EXCEPT !.recent = late, !.statPacketSyncState = wanted,
                              !.statPacketSentTime = time, !.emptyAnswer = FALSE]
    PROVE  /\ clc' \in Clcs
           /\ clc'.serverAddress = clc.serverAddress
           /\ clc'.remoteAddress = clc.remoteAddress
           /\ clc'.demoplaying = clc.demoplaying
           /\ clc'.statPacketSyncState = wanted
BY DEF Clcs

\* The same for the update that sets up the channel.
LEMMA SetUpKeepsType ==
    ASSUME clc \in Clcs, NEW late \in BOOLEAN, NEW wanted \in SUBSET StatPackets,
           NEW time \in [StatPackets -> 0 .. NumStatPackets], NEW s \in Addresses,
           clc' = [clc EXCEPT !.remoteAddress = s, !.recent = late,
                              !.statPacketSyncState = wanted,
                              !.statPacketSentTime = time, !.emptyAnswer = FALSE]
    PROVE  /\ clc' \in Clcs
           /\ clc'.serverAddress = clc.serverAddress
           /\ clc'.remoteAddress = s
           /\ clc'.demoplaying = clc.demoplaying
BY DEF Clcs

\* No packet has a time at first.
LEMMA NeverSentType == NeverSent \in [StatPackets -> 0 .. NumStatPackets]
BY ConnectionAssumption DEF NeverSent

\* There is something to send.
LEMMA SomeStatPackets == StatPackets # {}
BY ConnectionAssumption DEF StatPackets

\* Sequenced packets and the passing of time.
LEMMA PacketInv ==
    ASSUME IInv, SequencedPacket \/ CL_LoadingNewMap \/ Silence
    PROVE  IInv'
<1>1. state \in States /\ clc \in Clcs /\ FlagTypes /\ SetTypes /\ WantedInv
    BY TypesNow DEF IInv
<1>2. FlagTypes' /\ SetTypes' /\ UNCHANGED <<legacyProtocol, reliablemsg>>
    BY <1>1, Zenon DEF FlagTypes, SetTypes, SequencedPacket, CL_LoadingNewMap, Silence,
                       servers, answers
<1>3. /\ clc' = [clc EXCEPT !.recent = TRUE] \/ clc' = [clc EXCEPT !.recent = FALSE]
      /\ state' = state \/ state' = CA_CONNECTED
    BY DEF SequencedPacket, CL_LoadingNewMap, Silence
<1>4. /\ clc' \in Clcs
      /\ clc'.serverAddress = clc.serverAddress
      /\ clc'.remoteAddress = clc.remoteAddress
      /\ clc'.demoplaying = clc.demoplaying
      /\ Wanted(clc) => Wanted(clc')
    BY <1>1, <1>3, RecentKeepsType
<1>5. /\ state' \in States
      /\ state >= CA_CONNECTED => state' >= CA_CONNECTED
      /\ state' \in Asking => state' = state
      /\ state' = CA_STATSSYNC => Wanted(clc')
    BY <1>1, <1>3, <1>4 DEF States, WantedInv, Asking
<1> QED
    BY <1>2, <1>4, <1>5, KeepsChannel
\* A gamestate, with or without downloads.
LEMMA GamestateInv ==
    ASSUME IInv, CL_InitDownloads
    PROVE  IInv'
<1>1. state \in States /\ clc \in Clcs /\ FlagTypes /\ SetTypes /\ WantedInv
    BY TypesNow DEF IInv
<1>2. FlagTypes' /\ SetTypes' /\ UNCHANGED <<legacyProtocol, reliablemsg>>
    BY <1>1, Zenon DEF FlagTypes, SetTypes, CL_InitDownloads, servers, answers
<1>3. /\ clc' = [clc EXCEPT !.recent = TRUE]
      /\ state' \in {CA_CONNECTED, CA_PRIMED, CA_LOADING}
    BY DEF CL_InitDownloads
<1>4. /\ clc' \in Clcs
      /\ clc'.serverAddress = clc.serverAddress
      /\ clc'.remoteAddress = clc.remoteAddress
      /\ clc'.demoplaying = clc.demoplaying
      /\ state' = CA_STATSSYNC => Wanted(clc')
  <2>1. /\ clc' \in Clcs
        /\ clc'.serverAddress = clc.serverAddress
        /\ clc'.remoteAddress = clc.remoteAddress
        /\ clc'.demoplaying = clc.demoplaying
    BY <1>1, <1>3, RecentKeepsType
  <2>2. state' # CA_STATSSYNC
    BY <1>3
  <2> QED BY <2>1, <2>2
<1>5. /\ state' \in States
      /\ state >= CA_CONNECTED => state' >= CA_CONNECTED
      /\ state' \in Asking => state' = state
    BY <1>1, <1>3 DEF States, Asking
<1> QED
    BY <1>2, <1>4, <1>5, KeepsChannel

\* The end of the downloads, cgame and the first snapshot.
LEMMA LoadingInv ==
    ASSUME IInv, CL_DownloadsComplete \/ CL_InitCGame \/ CL_FirstSnapshot
    PROVE  IInv'
<1>1. state \in States /\ clc \in Clcs /\ FlagTypes /\ SetTypes /\ WantedInv
    BY TypesNow DEF IInv
<1>2. FlagTypes' /\ SetTypes' /\ UNCHANGED <<legacyProtocol, reliablemsg>>
    BY <1>1, Zenon DEF FlagTypes, SetTypes, CL_DownloadsComplete, CL_InitCGame, CL_FirstSnapshot, servers, answers
<1>3. /\ clc' = clc
      /\ \/ state' = state
         \/ state' \in {CA_PRIMED, CA_ACTIVE}
    BY DEF CL_DownloadsComplete, CL_InitCGame, CL_FirstSnapshot
<1>4. /\ clc' \in Clcs
      /\ clc'.serverAddress = clc.serverAddress
      /\ clc'.remoteAddress = clc.remoteAddress
      /\ clc'.demoplaying = clc.demoplaying
      /\ state' = CA_STATSSYNC => Wanted(clc')
    BY <1>1, <1>3 DEF WantedInv
<1>5. /\ state' \in States
      /\ state >= CA_CONNECTED => state' >= CA_CONNECTED
      /\ state' \in Asking => state' = state
    BY <1>1, <1>3 DEF States, Asking
<1> QED
    BY <1>2, <1>4, <1>5, KeepsChannel

\* The out of band packet of a map change.
LEMMA LoadingNewMapPacketInv ==
    ASSUME IInv, NEW s \in Servers, CL_LoadingNewMapPacket(s)
    PROVE  IInv'
<1>1. state \in States /\ clc \in Clcs /\ FlagTypes /\ SetTypes /\ WantedInv
    BY TypesNow DEF IInv
<1>2. FlagTypes' /\ SetTypes' /\ UNCHANGED <<legacyProtocol, reliablemsg>>
    BY <1>1, Zenon DEF FlagTypes, SetTypes, CL_LoadingNewMapPacket, servers, answers
<1>3. /\ clc' = clc
      /\ state' = CA_CONNECTED
    BY DEF CL_LoadingNewMapPacket
<1>4. /\ clc' \in Clcs
      /\ clc'.serverAddress = clc.serverAddress
      /\ clc'.remoteAddress = clc.remoteAddress
      /\ clc'.demoplaying = clc.demoplaying
      /\ state' = CA_STATSSYNC => Wanted(clc')
    BY <1>1, <1>3
<1>5. /\ state' \in States
      /\ state >= CA_CONNECTED => state' >= CA_CONNECTED
      /\ state' \in Asking => state' = state
    BY <1>1, <1>3 DEF States, Asking
<1> QED
    BY <1>2, <1>4, <1>5, KeepsChannel

\* CL_StatsRequest sets the full mask in whatever state it finds.
LEMMA StatsRequestInv ==
    ASSUME IInv, NEW s \in Servers, CL_StatsRequest(s)
    PROVE  IInv'
<1>1. state \in States /\ clc \in Clcs /\ FlagTypes /\ SetTypes /\ WantedInv
    BY TypesNow DEF IInv
<1>2. FlagTypes' /\ SetTypes' /\ UNCHANGED <<legacyProtocol, reliablemsg>>
    BY <1>1, Zenon DEF FlagTypes, SetTypes, CL_StatsRequest, servers, answers
<1>3. /\ clc' = [clc EXCEPT !.recent = TRUE, !.statPacketSyncState = StatPackets,
                           !.statPacketSentTime = NeverSent, !.emptyAnswer = FALSE]
      /\ state' = CA_STATSSYNC
    BY DEF CL_StatsRequest
<1>4. /\ clc' \in Clcs
      /\ clc'.serverAddress = clc.serverAddress
      /\ clc'.remoteAddress = clc.remoteAddress
      /\ clc'.demoplaying = clc.demoplaying
      /\ state' = CA_STATSSYNC => Wanted(clc')
    BY <1>1, <1>3, ResetKeepsType, NeverSentType, SomeStatPackets DEF Wanted
<1>5. /\ state' \in States
      /\ state >= CA_CONNECTED => state' >= CA_CONNECTED
      /\ state' \in Asking => state' = state
    BY <1>1, <1>3 DEF States, Asking
<1> QED
    BY <1>2, <1>4, <1>5, KeepsChannel

\* CL_StatsResponse leaves CA_STATSSYNC when the answer is 0.
LEMMA StatsResponseInv ==
    ASSUME IInv, NEW s \in Servers, NEW missing \in SUBSET StatPackets,
           CL_StatsResponse(s, missing)
    PROVE  IInv'
<1>1. state \in States /\ clc \in Clcs /\ FlagTypes /\ SetTypes /\ WantedInv
    BY TypesNow DEF IInv
<1>2. FlagTypes' /\ SetTypes' /\ UNCHANGED <<legacyProtocol, reliablemsg>>
    BY <1>1, Zenon DEF FlagTypes, SetTypes, CL_StatsResponse, servers, answers
<1>3. PICK zero \in BOOLEAN :
        /\ clc' = [clc EXCEPT !.recent = TRUE, !.statPacketSyncState = missing,
                              !.emptyAnswer = missing = {} /\ ~zero]
        /\ state = CA_STATSSYNC
        /\ state' = IF zero THEN CA_CONNECTED ELSE state
    BY DEF CL_StatsResponse
<1>4. /\ clc' \in Clcs
      /\ clc'.serverAddress = clc.serverAddress
      /\ clc'.remoteAddress = clc.remoteAddress
      /\ clc'.demoplaying = clc.demoplaying
      /\ state' = CA_STATSSYNC => Wanted(clc')
  <2>1. /\ clc' \in Clcs
        /\ clc'.serverAddress = clc.serverAddress
        /\ clc'.remoteAddress = clc.remoteAddress
        /\ clc'.demoplaying = clc.demoplaying
        /\ clc'.statPacketSyncState = missing
        /\ clc'.emptyAnswer = (missing = {} /\ ~zero)
    BY <1>1, <1>3, WantedKeepsType
  <2>2. state' = CA_STATSSYNC => missing # {} \/ (missing = {} /\ ~zero)
    BY <1>3
  <2> QED BY <2>1, <2>2 DEF Wanted
<1>5. /\ state' \in States
      /\ state >= CA_CONNECTED => state' >= CA_CONNECTED
      /\ state' \in Asking => state' = state
    BY <1>1, <1>3 DEF States, Asking
<1> QED
    BY <1>2, <1>4, <1>5, KeepsChannel

\* CL_ChallengeResponse chooses the protocol: no channel exists in its state.
LEMMA ChallengeResponseInv ==
    ASSUME IInv, NEW s \in Servers, CL_ChallengeResponse(s)
    PROVE  IInv'
<1>1. /\ state \in States /\ clc \in Clcs /\ FlagTypes /\ SetTypes
      /\ ChannelInv /\ StreamFollowsChannel /\ DemoIsOffline /\ AddressInv
    BY TypesNow DEF IInv
<1>2. FlagTypes' /\ SetTypes'
    BY <1>1, Zenon DEF FlagTypes, SetTypes, CL_ChallengeResponse, servers, answers
<1>3. /\ state = CA_CHALLENGING /\ state' = CA_CONNECTING
      /\ clc' = [clc EXCEPT !.challenge = s]
      /\ reliablemsg' = reliablemsg
    BY DEF CL_ChallengeResponse
<1>4. clc.remoteAddress = NoAddress /\ reliablemsg = "null" /\ clc.demoplaying = FALSE
  <2>1. clc.remoteAddress = NoAddress
    BY <1>1, <1>3 DEF ChannelInv
  <2>2. reliablemsg = "null"
    BY <2>1 DEF StreamFollowsChannel, IInv, TypeOK
  <2>3. clc.demoplaying = FALSE
    BY <1>1, <1>3 DEF DemoIsOffline, Clcs
  <2> QED BY <2>1, <2>2, <2>3
<1>5. /\ clc' \in Clcs
      /\ clc'.remoteAddress = NoAddress /\ clc'.demoplaying = FALSE
      /\ state' \in States
    BY <1>1, <1>3, <1>4 DEF Clcs, Addresses, States
<1>6. TypeOK'
    BY <1>2, <1>3, <1>4, <1>5, Zenon DEF TypeOK, Clcs, FlagTypes, SetTypes
<1>7. ChannelInv' /\ StreamFollowsChannel' /\ ChannelToHost' /\ WantedInv' /\ DemoIsOffline'
    BY <1>3, <1>4, <1>5
    DEF ChannelInv, StreamFollowsChannel, ChannelToHost, WantedInv, DemoIsOffline
<1>8. AddressInv'
    BY <1>1, <1>3 DEF AddressInv, Asking, Clcs
<1> QED BY <1>6, <1>7, <1>8 DEF IInv

\* CL_ConnectResponse sets up the channel, and the stream if the protocol has
\* one.
LEMMA ConnectResponseInv ==
    ASSUME IInv, NEW s \in Servers, CL_ConnectResponse(s)
    PROVE  IInv'
<1>1. /\ state \in States /\ clc \in Clcs /\ FlagTypes /\ SetTypes
      /\ ChannelInv /\ StreamFollowsChannel /\ DemoIsOffline
    BY TypesNow DEF IInv
<1>2. FlagTypes' /\ SetTypes'
    BY <1>1, Zenon DEF FlagTypes, SetTypes, CL_ConnectResponse, SetUpChannel, servers,
                       answers
<1>3. /\ state = CA_CONNECTING /\ state' = CA_CONNECTED
      /\ clc' = [clc EXCEPT !.remoteAddress = s, !.recent = TRUE,
                            !.statPacketSyncState = StatPackets,
                            !.statPacketSentTime = NeverSent, !.emptyAnswer = FALSE]
      /\ NET_CompareBaseAdr(s, clc.serverAddress)
      /\ legacyProtocol' = legacyProtocol
    BY DEF CL_ConnectResponse, SetUpChannel
<1>4. reliablemsg = "null" /\ clc.demoplaying = FALSE
  <2>1. clc.remoteAddress = NoAddress
    BY <1>1, <1>3 DEF ChannelInv
  <2>2. reliablemsg = "null"
    BY <2>1 DEF StreamFollowsChannel, IInv, TypeOK
  <2>3. clc.demoplaying = FALSE
    BY <1>1, <1>3 DEF DemoIsOffline, Clcs
  <2> QED BY <2>2, <2>3
<1>5. reliablemsg' = IF legacyProtocol THEN "null" ELSE "set up"
    BY <1>4 DEF CL_ConnectResponse, SetUpChannel
<1>6. /\ clc' \in Clcs
      /\ clc'.remoteAddress = s /\ clc'.demoplaying = FALSE
      /\ clc'.serverAddress = clc.serverAddress
      /\ state' \in States
  <2>1. s \in Addresses /\ NeverSent \in [StatPackets -> 0 .. NumStatPackets]
    BY NeverSentType DEF Addresses
  <2>2. /\ clc' \in Clcs /\ clc'.serverAddress = clc.serverAddress
        /\ clc'.remoteAddress = s /\ clc'.demoplaying = clc.demoplaying
    BY <1>1, <1>3, <2>1, SetUpKeepsType
  <2> QED BY <1>3, <1>4, <2>2 DEF States
<1>7. reliablemsg' \in {"null", "set up", "freed"}
    BY <1>5
<1>8. TypeOK'
    BY <1>2, <1>6, <1>7, Zenon DEF TypeOK, Clcs, FlagTypes, SetTypes
<1>9. StreamFollowsChannel'
    BY <1>3, <1>5, <1>6, ServersHaveAddresses DEF StreamFollowsChannel
<1>10. ChannelInv' /\ ChannelToHost' /\ WantedInv' /\ DemoIsOffline'
    BY <1>3, <1>6
    DEF ChannelInv, ChannelToHost, WantedInv, DemoIsOffline, NET_CompareBaseAdr
<1>11. AddressInv'
    BY <1>3 DEF AddressInv, Asking
<1> QED BY <1>8, <1>9, <1>10, <1>11 DEF IInv
\* CL_MapLoading goes through CL_Disconnect unless the local server is changing
\* its map.
LEMMA MapLoadingInv ==
    ASSUME IInv, CL_MapLoading
    PROVE  IInv'
<1>1. state \in States /\ clc \in Clcs /\ FlagTypes /\ SetTypes
    BY TypesNow
<1>2. SetTypes'
    BY <1>1, ServersHaveAddresses
    DEF SetTypes, CL_MapLoading, AnswerConnect, Addresses
<1>3. CASE state >= CA_CONNECTED /\ servername = Loopback
  <2>1. /\ state' = CA_CONNECTED /\ clc' = clc
        /\ UNCHANGED <<legacyProtocol, reliablemsg>>
    BY <1>3 DEF CL_MapLoading
  <2>2. FlagTypes'
    BY <1>1, <1>3, Zenon DEF FlagTypes, CL_MapLoading
  <2> QED
    BY <1>1, <1>2, <1>3, <2>1, <2>2, KeepsChannel DEF States, Asking
<1>4. CASE ~(state >= CA_CONNECTED /\ servername = Loopback)
  <2>1. /\ FreeStream /\ state' = CA_CONNECTING
        /\ clc' = [ClcAfterDisconnect EXCEPT !.serverAddress = Loopback]
    BY <1>4 DEF CL_MapLoading
  <2>2. FlagTypes'
    BY <1>1, <1>4, Zenon DEF FlagTypes, CL_MapLoading
  <2>3. Loopback \in Addresses /\ state' \in States \ {CA_STATSSYNC}
    BY <2>1, ServersHaveAddresses DEF Addresses, States
  <2> QED
    BY <1>2, <2>1, <2>2, <2>3, AfterDisconnect, ClcForms, ServersHaveAddresses
<1> QED BY <1>3, <1>4

\* CL_CheckForResend may select the old protocol for the local server: it does so
\* in CA_CONNECTING, where no channel exists.
LEMMA SendConnectInv ==
    ASSUME IInv, SendConnect, UNCHANGED <<servername, downloadName, reliablemsg, svRunning>>
    PROVE  IInv'
<1>1. /\ state \in States /\ clc \in Clcs /\ FlagTypes /\ SetTypes
      /\ ChannelInv /\ StreamFollowsChannel /\ ChannelToHost /\ DemoIsOffline
      /\ AddressInv
    BY TypesNow DEF IInv
<1>2. FlagTypes'
    BY <1>1, Zenon DEF FlagTypes, SendConnect
<1>3. state = CA_CONNECTING /\ state' = state /\ clc' = clc /\ reliablemsg' = reliablemsg
    BY DEF SendConnect
<1>4. SetTypes'
  <2>1. clc.serverAddress \in Servers
    BY <1>1, <1>3 DEF AddressInv, Asking
  <2>2. svClients' \subseteq Servers
    BY <1>1, <2>1 DEF SetTypes, SendConnect, AnswerConnect
  <2> QED BY <1>1, <2>2 DEF SetTypes, SendConnect
<1>5. clc.remoteAddress = NoAddress
    BY <1>1, <1>3 DEF ChannelInv
<1>6. reliablemsg = "null"
    BY <1>5 DEF StreamFollowsChannel, IInv, TypeOK
<1>7. TypeOK'
    BY <1>1, <1>2, <1>3, <1>4, <1>6, Zenon DEF TypeOK, Clcs, FlagTypes, SetTypes
<1>8. ChannelInv' /\ StreamFollowsChannel' /\ ChannelToHost' /\ WantedInv' /\ DemoIsOffline'
    BY <1>1, <1>3, <1>5, <1>6
    DEF ChannelInv, StreamFollowsChannel, ChannelToHost, WantedInv, DemoIsOffline
<1>9. AddressInv'
    BY <1>1, <1>3 DEF AddressInv
<1> QED BY <1>7, <1>8, <1>9 DEF IInv

\* A stats packet is sent: its index is in the table, or the time overwrites the mask
\* that an answer has left empty.
LEMMA SendStatsInv ==
    ASSUME IInv, SendStats, UNCHANGED <<servername, downloadName, reliablemsg, svRunning>>
    PROVE  IInv'
<1>1. state \in States /\ clc \in Clcs /\ FlagTypes /\ SetTypes /\ WantedInv
    BY TypesNow DEF IInv
<1>2. FlagTypes' /\ SetTypes' /\ UNCHANGED <<legacyProtocol, reliablemsg>>
    BY <1>1, Zenon DEF FlagTypes, SetTypes, SendStats, answers
<1>3. state = CA_STATSSYNC /\ state' = state
    BY DEF SendStats
<1>4. /\ clc' \in Clcs
      /\ clc'.serverAddress = clc.serverAddress
      /\ clc'.remoteAddress = clc.remoteAddress
      /\ clc'.demoplaying = clc.demoplaying
      /\ Wanted(clc')
  <2>1. CASE /\ CL_GetStatPacketIndex \in StatPackets
             /\ clc' = [clc EXCEPT !.statPacketSentTime = SentNow(CL_GetStatPacketIndex)]
    <3>1. SentNow(CL_GetStatPacketIndex) \in [StatPackets -> 0 .. NumStatPackets]
      BY <1>1, <2>1, SentNowType
    <3>2. Wanted(clc)
      BY <1>1, <1>3 DEF WantedInv
    <3> QED BY <1>1, <2>1, <3>1, <3>2 DEF Clcs, Wanted
  <2>2. ASSUME CL_GetStatPacketIndex = -1, NEW low \in SUBSET StatPackets,
               clc' = [clc EXCEPT !.statPacketSyncState = low]
        PROVE  /\ clc' \in Clcs
               /\ clc'.serverAddress = clc.serverAddress
               /\ clc'.remoteAddress = clc.remoteAddress
               /\ clc'.demoplaying = clc.demoplaying
               /\ Wanted(clc')
    <3>1. clc.statPacketSyncState = {}
      <4>1. \A i \in StatPackets : i # -1
        BY ConnectionAssumption DEF StatPackets
      <4>2. clc.statPacketSyncState \subseteq StatPackets
        BY <1>1 DEF Clcs
      <4> QED BY <1>1, <2>2, <4>1, <4>2, IndexIsWanted
    <3>2. clc.emptyAnswer = TRUE
      BY <1>1, <1>3, <3>1 DEF WantedInv, Wanted
    <3> QED BY <1>1, <2>2, <3>2 DEF Clcs, Wanted
  <2> QED BY <2>1, <2>2 DEF SendStats
<1> QED
    BY <1>1, <1>2, <1>3, <1>4, KeepsChannel

\* A challenge is requested, or the stats are skipped.
LEMMA SendOtherInv ==
    ASSUME IInv, SendChallenge \/ SkipStats,
           UNCHANGED <<servername, downloadName, reliablemsg, svRunning>>
    PROVE  IInv'
<1>1. state \in States /\ clc \in Clcs /\ FlagTypes /\ SetTypes /\ WantedInv /\ AddressInv
    BY TypesNow DEF IInv
<1>2. FlagTypes' /\ UNCHANGED <<legacyProtocol, reliablemsg, clc>>
    BY <1>1, Zenon DEF FlagTypes, SendChallenge, SkipStats
<1>3. state' = state \/ state' = CA_LOADING
    BY DEF SendChallenge, SkipStats
<1>4. CASE SkipStats
  <2>1. SetTypes'
    BY <1>1, <1>4, Zenon DEF SetTypes, SkipStats, answers
  <2> QED BY <1>1, <1>2, <1>3, <2>1, KeepsChannel DEF States, WantedInv, Asking
<1>5. CASE SendChallenge
  <2>1. clc.serverAddress \in Servers
    BY <1>1, <1>5 DEF SendChallenge, AddressInv, Asking
  <2>2. SetTypes'
    BY <1>1, <1>5, <2>1 DEF SetTypes, SendChallenge
  <2> QED BY <1>1, <1>2, <1>3, <2>2, KeepsChannel DEF States, WantedInv, Asking
<1> QED BY <1>4, <1>5
\* CL_CheckForResend as a whole.
LEMMA CheckForResendInv ==
    ASSUME IInv, CL_CheckForResend
    PROVE  IInv'
BY SendConnectInv, SendStatsInv, SendOtherInv DEF CL_CheckForResend

\* A step that changes nothing.
LEMMA StutterInv ==
    ASSUME IInv, UNCHANGED vars
    PROVE  IInv'
BY Zenon
DEF IInv, TypeOK, ChannelInv, StreamFollowsChannel, ChannelToHost, WantedInv,
    DemoIsOffline, AddressInv, vars, servers, answers

-----------------------------------------------------------------------------
\* The inductive invariant holds in every reachable state, one case for each
\* command, packet handler and frame step.
THEOREM Invariance == Spec => []IInv
<1>1. Init => IInv
  <2> SUFFICES ASSUME Init PROVE IInv
    OBVIOUS
  <2>1. /\ clc = ZeroClc /\ state = CA_UNINITIALIZED /\ reliablemsg = "null"
        /\ clc.remoteAddress = NoAddress /\ clc.demoplaying = FALSE
    BY DEF Init, ZeroClc
  <2>2. clc \in Clcs
    BY <2>1, NeverSentType DEF ZeroClc, Clcs, Addresses
  <2>3. FlagTypes
    BY Zenon DEF Init, FlagTypes
  <2>4. SetTypes /\ state \in States
    BY DEF Init, SetTypes, Addresses, States
  <2>5. TypeOK
    BY <2>1, <2>2, <2>3, <2>4, TypeOKParts
  <2> QED
    BY <2>1, <2>5
    DEF IInv, ChannelInv, StreamFollowsChannel, ChannelToHost, WantedInv,
        DemoIsOffline, AddressInv, Asking
<1>2. IInv /\ [Next]_vars => IInv'
  <2> SUFFICES ASSUME IInv, [Next]_vars PROVE IInv'
    OBVIOUS
  <2>1. CASE CL_Disconnect_f \/ Timeout
    BY <2>1, DropInv DEF CL_Disconnect_f, Timeout
  <2>2. CASE CL_ConnectBadAddress
    BY <2>2, ConnectBadAddressInv
  <2>3. CASE CL_PlayDemo
    BY <2>3, PlayDemoInv
  <2>4. CASE CL_DemoCompleted
    BY <2>4, DemoCompletedInv
  <2>5. CASE CL_MapLoading
    BY <2>5, MapLoadingInv
  <2>6. CASE CL_CheckForResend
    BY <2>6, CheckForResendInv
  <2>7. CASE SequencedPacket \/ CL_LoadingNewMap \/ Silence
    BY <2>7, PacketInv
  <2>8. CASE CL_InitDownloads
    BY <2>8, GamestateInv
  <2>9. CASE CL_DownloadsComplete \/ CL_InitCGame \/ CL_FirstSnapshot
    BY <2>9, LoadingInv
  <2>10. CASE \E s \in Servers : CL_Connect_f(s) \/ CL_ConnectNoProfile(s)
    BY <2>10, ConnectInv
  <2>11. CASE \E s \in Servers : CL_ChallengeResponse(s)
    BY <2>11, ChallengeResponseInv
  <2>12. CASE \E s \in Servers : CL_ConnectResponse(s)
    BY <2>12, ConnectResponseInv
  <2>13. CASE \E s \in Servers : CL_StatsRequest(s)
    BY <2>13, StatsRequestInv
  <2>14. CASE \E s \in Servers : CL_LoadingNewMapPacket(s)
    BY <2>14, LoadingNewMapPacketInv
  <2>15. CASE \E s \in Servers : CL_DisconnectPacket(s) \/ CL_ServerErrorPacket(s)
    BY <2>15, DropInv DEF CL_DisconnectPacket, CL_ServerErrorPacket
  <2>16. CASE \E s \in Servers : \E missing \in SUBSET StatPackets :
                CL_StatsResponse(s, missing)
    BY <2>16, StatsResponseInv
  <2>17. CASE UNCHANGED vars
    BY <2>17, StutterInv
  <2> QED
    BY <2>1, <2>2, <2>3, <2>4, <2>5, <2>6, <2>7, <2>8, <2>9, <2>10, <2>11, <2>12,
       <2>13, <2>14, <2>15, <2>16, <2>17 DEF Next
<1> QED
    BY <1>1, <1>2, PTL DEF Spec

\* The variables keep their types.
THEOREM TypeCorrect == Spec => []TypeOK
<1>1. IInv => TypeOK
    BY DEF IInv
<1> QED BY <1>1, Invariance, PTL

\* cl_reliablemsg is set up exactly while a channel of the extended protocol
\* exists and never dangles.
THEOREM StreamIsSafe == Spec => []StreamFollowsChannel
<1>1. IInv => StreamFollowsChannel
    BY DEF IInv
<1> QED BY <1>1, Invariance, PTL

\* The netchan's address is on the host the player asked for.
THEOREM ChannelIsToHost == Spec => []ChannelToHost
<1>1. IInv => ChannelToHost
    BY DEF IInv
<1> QED BY <1>1, Invariance, PTL

\* CL_GetStatPacketIndex is never -1 while the stats are sent, unless the server has
\* answered with a number other than 0 that names no packet.
THEOREM StatsIndexIsValid == Spec => []StatsPacketToSend
<1>1. IInv => StatsPacketToSend
  <2> SUFFICES ASSUME IInv, state = CA_STATSSYNC
               PROVE  CL_GetStatPacketIndex \in StatPackets \/ clc.emptyAnswer
    BY DEF StatsPacketToSend
  <2>1. clc \in Clcs /\ Wanted(clc)
    BY TypesNow DEF IInv, WantedInv
  <2>2. CASE clc.statPacketSyncState # {}
    BY <2>1, <2>2, IndexIsWanted DEF Clcs
  <2>3. CASE clc.emptyAnswer = TRUE
    BY <2>3
  <2> QED BY <2>1, <2>2, <2>3 DEF Wanted
<1> QED BY <1>1, Invariance, PTL

\* A demo never plays next to a channel or a stream.
THEOREM DemosAreOffline == Spec => []DemoIsOffline
<1>1. IInv => DemoIsOffline
    BY DEF IInv
<1> QED BY <1>1, Invariance, PTL

-----------------------------------------------------------------------------
(* Input: the queue *)

Keys == MouseButtons \cup PadButtons \cup Directions

KeyEvents == [type : {"key"}, key : Keys, down : BOOLEAN]
ConsoleEvents == [type : {"console"}, lines : Seq(Nat)]

\* A queue with events of keys only.
KeyQueue == [pending : Seq(KeyEvents), lost : SUBSET Keys]

\* A key that these events leave down is one of H, or its newest event was lost.
Covered(ev, down, H) ==
    \A k \in Keys : DownAfter(ev.pending, down, k) => k \in H \cup ev.lost

LEMMA CoveredByMore ==
    ASSUME NEW ev, NEW down, NEW H, Covered(ev, down, H), NEW G, H \cap Keys \subseteq G \cup ev.lost
    PROVE  Covered(ev, down, G)
  BY DEF Covered

\* A new event: it tells of its key, and of the others what was told before.
LEMMA AppendedDown ==
    ASSUME NEW E, NEW q \in Seq(E), NEW e, NEW down, NEW k,
           DownAfter(Append(q, e), down, k)
    PROVE  \/ e = KeyEvent(k, TRUE)
           \/ k \notin KeysOf(e) /\ DownAfter(q, down, k)
<1> DEFINE p == Append(q, e)
           n == Len(q)
<1>1. /\ n \in Nat /\ Len(p) = n + 1 /\ p[n + 1] = e
      /\ \A i \in 1 .. n : p[i] = q[i]
  OBVIOUS
<1> HIDE DEF p, n
<1>2. CASE k \in down /\ \A i \in 1 .. Len(p) : k \notin KeysOf(p[i])
  <2>1. k \notin KeysOf(e) /\ \A i \in 1 .. n : k \notin KeysOf(q[i])
    BY <1>1, <1>2
  <2> QED BY <1>2, <2>1 DEF DownAfter, n
<1>3. CASE \E i \in 1 .. Len(p) :
               p[i] = KeyEvent(k, TRUE) /\ \A j \in i + 1 .. Len(p) : k \notin KeysOf(p[j])
  <2>1. PICK i \in 1 .. n + 1 :
            p[i] = KeyEvent(k, TRUE) /\ \A j \in i + 1 .. n + 1 : k \notin KeysOf(p[j])
    BY <1>1, <1>3
  <2>2. CASE i = n + 1
    BY <1>1, <2>1, <2>2
  <2>3. CASE i # n + 1
    <3>1. i \in 1 .. n /\ n + 1 \in i + 1 .. n + 1
      BY <1>1, <2>3
    <3>2. k \notin KeysOf(e) /\ q[i] = KeyEvent(k, TRUE)
      BY <1>1, <2>1, <3>1
    <3>3. \A j \in i + 1 .. n : k \notin KeysOf(q[j])
      <4> SUFFICES ASSUME NEW j \in i + 1 .. n PROVE k \notin KeysOf(q[j])
        OBVIOUS
      <4>1. j \in 1 .. n /\ j \in i + 1 .. n + 1
        BY <1>1, <3>1
      <4> QED BY <1>1, <2>1, <4>1
    <3> QED BY <3>1, <3>2, <3>3 DEF DownAfter, n
  <2> QED BY <2>2, <2>3
<1> QED BY <1>2, <1>3 DEF DownAfter, p

\* The oldest event leaves the queue, handled or not.
LEMMA TailDown ==
    ASSUME NEW E, NEW q \in Seq(E), q # <<>>, NEW down, NEW kept, NEW k,
           k \in kept => IF k \in KeysOf(Head(q)) THEN Head(q) = KeyEvent(k, TRUE) ELSE k \in down,
           DownAfter(Tail(q), kept, k)
    PROVE  DownAfter(q, down, k)
<1> DEFINE p == Tail(q)
           n == Len(q)
<1>1. /\ n \in Nat /\ n >= 1 /\ Len(p) = n - 1 /\ q[1] = Head(q)
      /\ \A i \in 1 .. n - 1 : p[i] = q[i + 1]
  OBVIOUS
<1>0. ASSUME NEW m \in Nat, \A i \in m .. n - 1 : k \notin KeysOf(p[i]), m >= 1
      PROVE  \A i \in m + 1 .. n : k \notin KeysOf(q[i])
  <2> HIDE DEF p, n
  <2> SUFFICES ASSUME NEW i \in m + 1 .. n PROVE k \notin KeysOf(q[i])
    OBVIOUS
  <2>1. i - 1 \in m .. n - 1 /\ i - 1 \in 1 .. n - 1 /\ (i - 1) + 1 = i
    BY <1>0, <1>1
  <2> QED BY <1>0, <1>1, <2>1
<1> HIDE DEF p, n
<1>2. CASE k \in kept /\ \A i \in 1 .. Len(p) : k \notin KeysOf(p[i])
  <2>1. \A i \in 2 .. n : k \notin KeysOf(q[i])
    <3>1. 1 \in Nat /\ 1 >= 1 /\ 1 + 1 = 2 /\ \A i \in 1 .. n - 1 : k \notin KeysOf(p[i])
      BY <1>1, <1>2
    <3>2. \A i \in 1 + 1 .. n : k \notin KeysOf(q[i])
      BY <1>0, <3>1
    <3> QED BY <3>1, <3>2
  <2>2. CASE k \in KeysOf(Head(q))
    <3>0. 1 \in 1 .. n /\ 1 + 1 = 2
      BY <1>1
    <3>1. q[1] = KeyEvent(k, TRUE)
      BY <1>1, <1>2, <2>2
    <3> QED BY <2>1, <3>0, <3>1 DEF DownAfter, n
  <2>3. CASE k \notin KeysOf(Head(q))
    <3>1. k \in down /\ \A i \in 1 .. n : k \notin KeysOf(q[i])
      <4> SUFFICES ASSUME NEW i \in 1 .. n PROVE k \notin KeysOf(q[i])
        BY <1>2, <2>3
      <4>1. i = 1 \/ i \in 2 .. n
        BY <1>1
      <4> QED BY <1>1, <2>1, <2>3, <4>1
    <3> QED BY <3>1 DEF DownAfter, n
  <2> QED BY <2>2, <2>3
<1>3. CASE \E i \in 1 .. Len(p) :
               p[i] = KeyEvent(k, TRUE) /\ \A j \in i + 1 .. Len(p) : k \notin KeysOf(p[j])
  <2>1. PICK i \in 1 .. n - 1 :
            p[i] = KeyEvent(k, TRUE) /\ \A j \in i + 1 .. n - 1 : k \notin KeysOf(p[j])
    BY <1>1, <1>3
  <2>2. i + 1 \in 1 .. n /\ i + 1 \in Nat /\ i + 1 >= 1
    BY <1>1
  <2>4. q[i + 1] = KeyEvent(k, TRUE)
    BY <1>1, <2>1
  <2>3. \A j \in (i + 1) + 1 .. n : k \notin KeysOf(q[j])
    BY <1>0, <2>1, <2>2
  <2> QED BY <2>2, <2>3, <2>4 DEF DownAfter, n
<1> QED BY <1>2, <1>3 DEF DownAfter, p

\* What an event makes of the keys that are held.
HeldAfter(H, e) == IF e.type = "key" THEN IF e.down THEN H \cup {e.key} ELSE H \ {e.key} ELSE H

LEMMA QueuedEvent ==
    ASSUME NEW E, E \subseteq KeyEvents \cup ConsoleEvents,
           NEW ev \in [pending : Seq(E), lost : SUBSET Keys], NEW e \in KeyEvents \cup ConsoleEvents,
           NEW down, NEW H, Covered(ev, down, H)
    PROVE  Covered(Com_QueueEvent(ev, e), down, HeldAfter(H, e))
<1> DEFINE new == Com_QueueEvent(ev, e)
           kept == IF Len(ev.pending) >= MaxQueued THEN Tail(ev.pending) ELSE ev.pending
           lost == IF Len(ev.pending) >= MaxQueued THEN ev.lost \cup KeysOf(Head(ev.pending)) ELSE ev.lost
<1>1. new = [pending |-> Append(kept, e), lost |-> lost \ KeysOf(e)]
  BY DEF Com_QueueEvent
<1>2. kept \in Seq(E) /\ (Len(ev.pending) >= MaxQueued => ev.pending # <<>>)
  BY InputAssumption
<1>3. ASSUME NEW k \in Keys, DownAfter(kept, down, k) PROVE k \in H \cup lost
  <2>1. CASE Len(ev.pending) >= MaxQueued
    <3>1. CASE k \in KeysOf(Head(ev.pending))
      BY <2>1, <3>1
    <3>2. CASE k \notin KeysOf(Head(ev.pending))
      <4>1. ev.pending \in Seq(E) /\ ev.pending # <<>> /\ DownAfter(Tail(ev.pending), down, k)
        BY <1>2, <1>3, <2>1
      <4>2. DownAfter(ev.pending, down, k)
        BY <3>2, <4>1, TailDown
      <4> QED BY <2>1, <4>2 DEF Covered
    <3> QED BY <3>1, <3>2
  <2>2. CASE ~ (Len(ev.pending) >= MaxQueued)
    BY <1>3, <2>2 DEF Covered
  <2> QED BY <2>1, <2>2
<1>4. ASSUME NEW k \in Keys, DownAfter(Append(kept, e), down, k)
      PROVE  k \in HeldAfter(H, e) \cup (lost \ KeysOf(e))
  <2> HIDE DEF kept, lost
  <2>1. \/ e = KeyEvent(k, TRUE)
        \/ k \notin KeysOf(e) /\ DownAfter(kept, down, k)
    BY <1>2, <1>4, AppendedDown
  <2>2. CASE e = KeyEvent(k, TRUE)
    BY <2>2 DEF HeldAfter, KeyEvent
  <2>3. CASE k \notin KeysOf(e) /\ DownAfter(kept, down, k)
    BY <1>3, <2>3 DEF HeldAfter, KeysOf
  <2> QED BY <2>1, <2>2, <2>3
<1> HIDE DEF new, kept, lost
<1> QED BY <1>1, <1>4 DEF Covered, new

-----------------------------------------------------------------------------
(* Input: induction *)

\* Induction over a set of numbers: the prover takes no operator as an argument.
LEMMA Induct ==
    ASSUME NEW S \in SUBSET Nat, 0 \in S, \A n \in S : n + 1 \in S
    PROVE  S = Nat
<1> SUFFICES ASSUME Nat \ S # {} PROVE FALSE
  OBVIOUS
<1>1. PICK x \in Nat \ S : \A y \in Nat \ S : x <= y
  BY LeastNumber
<1>2. x # 0
  OBVIOUS
<1>3. x - 1 \in S
  BY <1>1, <1>2
<1> QED BY <1>1, <1>2, <1>3

-----------------------------------------------------------------------------
(* Input: the events of some keys *)

\* The keys in some order, each once.
LEMMA SomeOrder ==
    ASSUME NEW S, IsFiniteSet(S), NEW order, order = SetToSeq(S)
    PROVE  /\ Len(order) \in Nat
           /\ order \in [1 .. Len(order) -> S]
           /\ \A k \in S : \E i \in 1 .. Len(order) : order[i] = k
<1> DEFINE n == Cardinality(S)
           One == {f \in [1 .. n -> S] : IsInjective(f)}
<1>1. n \in Nat /\ ExistsBijection(1 .. n, S)
  BY FS_CardinalityType
<1>2. PICK f : f \in Bijection(1 .. n, S)
  BY <1>1, Zenon DEF ExistsBijection
<1>3. f \in One
  BY <1>2 DEF Bijection, Injection
<1>4. SetToSeq(S) = CHOOSE g \in [1 .. n -> S] : IsInjective(g)
  BY DEF SetToSeq
<1> HIDE DEF n
<1>5. order \in [1 .. n -> S] /\ IsInjective(order)
  BY <1>3, <1>4
<1>6. order \in Injection(1 .. n, S)
  BY <1>5, Zenon DEF Injection
<1>7. Cardinality(1 .. n) = n
  BY <1>1, FS_Interval
<1>8. order \in Surjection(1 .. n, S)
  BY <1>6, <1>7, FS_Injection DEF n
<1>9. Len(order) = n
  BY <1>1, <1>5
<1>10. \A k \in S : \E i \in 1 .. n : order[i] = k
  BY <1>8, Zenon DEF Surjection
<1> QED BY <1>1, <1>5, <1>9, <1>10

\* What the queue is after n events, when it was after[n - 1] before.
QueueStep(ev, order, down, after, n) ==
    IF n = 0 THEN ev ELSE Com_QueueEvent(after[n - 1], KeyEvent(order[n], down))

\* There is a function with the equation that defines QueueKeys.
LEMMA QueueingExists ==
    ASSUME NEW ev, NEW order, NEW down, Len(order) \in Nat
    PROVE  \E f : f = [n \in 0 .. Len(order) |-> QueueStep(ev, order, down, f, n)]
<1> DEFINE M == Len(order)
           Step(f, n) == QueueStep(ev, order, down, f, n)
           Fills(f, k) == \A n \in 0 .. M : n <= k => f[n] = Step(f, n)
           Turns == {k \in Nat : \E f : f = [n \in 0 .. M |-> f[n]] /\ Fills(f, k)}
<1>0. M \in Nat
  OBVIOUS
<1> HIDE DEF M
<1>1. 0 \in Turns
  <2> DEFINE f == [n \in 0 .. M |-> ev]
  <2>1. f = [n \in 0 .. M |-> f[n]] /\ Fills(f, 0)
    BY DEF QueueStep
  <2> HIDE DEF f
  <2> QED BY <2>1
<1>2. ASSUME NEW k \in Turns PROVE k + 1 \in Turns
  <2>1. PICK f : f = [n \in 0 .. M |-> f[n]] /\ Fills(f, k)
    BY <1>2
  <2> DEFINE h == [n \in 0 .. M |-> Step(f, n)]
  <2>2. h = [n \in 0 .. M |-> h[n]] /\ \A n \in 0 .. M : h[n] = Step(f, n)
    OBVIOUS
  <2> HIDE DEF h
  <2>3. \A n \in 0 .. M : n <= k => h[n] = f[n]
    BY <2>1, <2>2
  <2>4. ASSUME NEW n \in 0 .. M, n <= k + 1 PROVE h[n] = Step(h, n)
    <3>1. CASE n = 0
      BY <2>2, <3>1 DEF QueueStep
    <3>2. CASE n # 0
      <4>1. h[n - 1] = f[n - 1]
        <5>1. n - 1 \in 0 .. M /\ n - 1 <= k
          BY <1>0, <2>4, <3>2, k \in Nat
        <5> QED BY <2>3, <5>1
      <4> QED BY <2>2, <2>4, <3>2, <4>1 DEF QueueStep
    <3> QED BY <3>1, <3>2
  <2>5. k + 1 \in Nat /\ Fills(h, k + 1)
    BY <2>4
  <2> QED BY <2>2, <2>5
<1>3. M \in Turns
  <2> HIDE DEF Turns
  <2>1. Turns \in SUBSET Nat
    BY DEF Turns
  <2> QED BY <1>0, <1>1, <1>2, <2>1, Induct
<1>4. PICK f : f = [n \in 0 .. M |-> f[n]] /\ Fills(f, M)
  BY <1>3
<1>5. \A n \in 0 .. M : f[n] = Step(f, n)
  BY <1>0, <1>4
<1> QED BY <1>4, <1>5 DEF M

\* The queue after each of the events.
LEMMA Queueing ==
    ASSUME NEW ev, NEW keys, IsFiniteSet(keys), NEW down
    PROVE  LET order == SetToSeq(keys)
           IN  \E f : /\ f[0] = ev
                      /\ QueueKeys(ev, keys, down) = f[Len(order)]
                      /\ \A n \in 0 .. Len(order) - 1 :
                           f[n + 1] = Com_QueueEvent(f[n], KeyEvent(order[n + 1], down))
<1> DEFINE order == SetToSeq(keys)
           M == Len(order)
           f == CHOOSE f : f = [n \in 0 .. M |->
                    IF n = 0 THEN ev ELSE Com_QueueEvent(f[n - 1], KeyEvent(order[n], down))]
<1>0. M \in Nat
  BY SomeOrder
<1>1. f = [n \in 0 .. M |-> QueueStep(ev, order, down, f, n)]
  <2> HIDE DEF order
  <2>1. \E g : g = [n \in 0 .. M |->
                    IF n = 0 THEN ev ELSE Com_QueueEvent(g[n - 1], KeyEvent(order[n], down))]
    <3>1. PICK g : g = [n \in 0 .. M |-> QueueStep(ev, order, down, g, n)]
      BY <1>0, QueueingExists, Zenon
    <3>2. g = [n \in 0 .. M |->
                    IF n = 0 THEN ev ELSE Com_QueueEvent(g[n - 1], KeyEvent(order[n], down))]
      BY <3>1 DEF QueueStep
    <3> QED BY <3>2
  <2>2. f = [n \in 0 .. M |->
                    IF n = 0 THEN ev ELSE Com_QueueEvent(f[n - 1], KeyEvent(order[n], down))]
    BY <2>1
  <2> HIDE DEF f
  <2> QED BY <2>2 DEF QueueStep
<1>2. QueueKeys(ev, keys, down) = f[M]
  BY DEF QueueKeys
<1> HIDE DEF f, M, order
<1>3. f[0] = ev
  BY <1>0, <1>1 DEF QueueStep
<1>4. ASSUME NEW n \in 0 .. M - 1
      PROVE  f[n + 1] = Com_QueueEvent(f[n], KeyEvent(order[n + 1], down))
  <2>1. n + 1 \in 0 .. M /\ n + 1 # 0 /\ (n + 1) - 1 = n
    BY <1>0
  <2>2. f[n + 1] = QueueStep(ev, order, down, f, n + 1)
    BY <1>1, <2>1
  <2> QED BY <2>1, <2>2 DEF QueueStep
<1> QED BY <1>2, <1>3, <1>4 DEF M, order

LEMMA KeysFinite ==
    ASSUME NEW S \in SUBSET Keys
    PROVE  IsFiniteSet(S)
<1>1. IsFiniteSet(Keys)
  BY InputAssumption, FS_Union DEF Keys
<1> QED BY <1>1, FS_Subset

\* One event of a key after the other: the queue holds events of keys only, and the keys
\* that stay down are those of H, with the keys or without them.
LEMMA QueuedKeys ==
    ASSUME NEW ev \in KeyQueue, NEW keys \in SUBSET Keys, NEW d \in BOOLEAN,
           NEW down, NEW H, Covered(ev, down, H)
    PROVE  /\ QueueKeys(ev, keys, d) \in KeyQueue
           /\ Covered(QueueKeys(ev, keys, d), down, IF d THEN H \cup keys ELSE H \ keys)
<1> DEFINE order == SetToSeq(keys)
           M == Len(order)
           Come(n) == {order[i] : i \in 1 .. n}
           HeldAt(n) == IF d THEN H \cup Come(n) ELSE H \ Come(n)
<1>1. IsFiniteSet(keys)
  BY KeysFinite
<1>2. /\ M \in Nat
      /\ order \in [1 .. M -> keys]
      /\ \A k \in keys : \E i \in 1 .. M : order[i] = k
  BY <1>1, SomeOrder
<1>3. PICK f : /\ f[0] = ev
               /\ QueueKeys(ev, keys, d) = f[M]
               /\ \A n \in 0 .. M - 1 : f[n + 1] = Com_QueueEvent(f[n], KeyEvent(order[n + 1], d))
  <2>1. \E g : /\ g[0] = ev
               /\ QueueKeys(ev, keys, d) = g[Len(SetToSeq(keys))]
               /\ \A n \in 0 .. Len(SetToSeq(keys)) - 1 :
                    g[n + 1] = Com_QueueEvent(g[n], KeyEvent(SetToSeq(keys)[n + 1], d))
    BY ONLY <1>1, Queueing, SMTT(30)
  <2> QED BY <2>1
<1> HIDE DEF order, M
<1> DEFINE Turns == {n \in Nat : n <= M => f[n] \in KeyQueue /\ Covered(f[n], down, HeldAt(n))}
<1>4. 0 \in Turns
  <2>1. Come(0) = {}
    OBVIOUS
  <2>2. HeldAt(0) = H
    BY <2>1
  <2> QED BY <1>3, <2>2
<1>5. ASSUME NEW n \in Turns PROVE n + 1 \in Turns
  <2> SUFFICES ASSUME n + 1 <= M
               PROVE  f[n + 1] \in KeyQueue /\ Covered(f[n + 1], down, HeldAt(n + 1))
    BY <1>5
  <2> DEFINE e == KeyEvent(order[n + 1], d)
  <2>1. n \in 0 .. M - 1 /\ n + 1 \in 1 .. M /\ f[n] \in KeyQueue /\ Covered(f[n], down, HeldAt(n))
    BY <1>2, <1>5
  <2>2. e \in KeyEvents /\ e.type = "key" /\ e.key = order[n + 1] /\ e.down = d
    BY <1>2, <2>1 DEF KeyEvent, KeyEvents
  <2>3. f[n + 1] = Com_QueueEvent(f[n], e)
    BY <1>3, <2>1
  <2>4. Come(n + 1) = Come(n) \cup {order[n + 1]}
    <3>1. 1 .. n + 1 = (1 .. n) \cup {n + 1}
      BY <1>5
    <3> QED BY <3>1
  <2> HIDE DEF e, Come
  <2>5. HeldAfter(HeldAt(n), e) = HeldAt(n + 1)
    BY <2>2, <2>4 DEF HeldAfter
  <2>6. Covered(Com_QueueEvent(f[n], e), down, HeldAfter(HeldAt(n), e))
    <3> HIDE DEF HeldAt
    <3> QED BY <2>1, <2>2, QueuedEvent DEF KeyQueue
  <2>7. Com_QueueEvent(f[n], e) \in KeyQueue
    <3>1. /\ f[n].pending \in Seq(KeyEvents) /\ f[n].lost \in SUBSET Keys
          /\ KeysOf(e) \subseteq Keys
      BY <2>1, <2>2 DEF KeyQueue, KeysOf, KeyEvents
    <3>2. CASE Len(f[n].pending) >= MaxQueued
      <4>1. f[n].pending # <<>>
        BY <3>1, <3>2, InputAssumption
      <4>2. Head(f[n].pending) \in KeyEvents /\ Tail(f[n].pending) \in Seq(KeyEvents)
        BY <3>1, <4>1
      <4>3. KeysOf(Head(f[n].pending)) \subseteq Keys
        BY <4>2 DEF KeysOf, KeyEvents
      <4>4. Append(Tail(f[n].pending), e) \in Seq(KeyEvents)
        BY <2>2, <4>2
      <4> QED BY <3>1, <3>2, <4>3, <4>4 DEF Com_QueueEvent, KeyQueue
    <3>3. CASE ~ (Len(f[n].pending) >= MaxQueued)
      <4>1. Append(f[n].pending, e) \in Seq(KeyEvents)
        BY <2>2, <3>1
      <4> QED BY <3>1, <3>3, <4>1 DEF Com_QueueEvent, KeyQueue
    <3> QED BY <3>2, <3>3
  <2> QED BY <2>3, <2>5, <2>6, <2>7
<1>6. M \in Turns
  <2> HIDE DEF Turns
  <2>1. Turns \in SUBSET Nat
    BY DEF Turns
  <2> QED BY <1>2, <1>4, <1>5, <2>1, Induct
<1>7. Come(M) = keys
  BY <1>2
<1>8. f[M] \in KeyQueue /\ Covered(f[M], down, HeldAt(M))
  BY <1>2, <1>6
<1>9. HeldAt(M) = IF d THEN H \cup keys ELSE H \ keys
  BY <1>7
<1> HIDE DEF HeldAt, Turns
<1> QED BY <1>3, <1>8, <1>9
-----------------------------------------------------------------------------
(* Input: the invariant *)

InputTypes ==
    /\ pc \in {"events", "pump", "execute", "input"}
    /\ events \in [pending : Seq(KeyEvents \cup ConsoleEvents), lost : SUBSET Keys]
    /\ keysDown \subseteq Keys
    /\ oldButtonState \subseteq MouseButtons
    /\ gp_state \in [enabled : BOOLEAN, digitals : SUBSET PadButtons,
                     lastDigitals : SUBSET PadButtons]
    /\ s_stick \in [was_enabled : BOOLEAN, prev : SUBSET Directions]
    /\ mouseInitialized \in BOOLEAN
    /\ settings \in [gamepad : BOOLEAN, legacy : BOOLEAN]
    /\ console \in [text : Seq(Nat), buffer : Seq(Nat), executed : Seq(Nat)]
    /\ typed \in Nat
    /\ pad \in [plugged : BOOLEAN, buttons : SUBSET PadButtons, stick : SUBSET Directions]

\* The event of the console comes last, and it is taken before the queue is filled again.
QueueInv ==
    /\ pc # "events" => events \in KeyQueue
    /\ \A i \in 1 .. Len(events.pending) - 1 : events.pending[i] \in KeyEvents

InputInv == InputTypes /\ QueueInv /\ DownIsHeld /\ LinesInOrder

\* DownIsHeld, of the queue and what is held.
LEMMA HeldIsCovered ==
    /\ DownIsHeld <=> Covered(events, keysDown, Held)
    /\ DownIsHeld' <=> Covered(events', keysDown', Held')
  BY DEF DownIsHeld, Covered, Keys

-----------------------------------------------------------------------------
(* Input: the lines in the queue *)

LinesOf(e) == IF e.type = "console" THEN e.lines ELSE <<>>
Queued(q) == FlattenSeq([i \in 1 .. Len(q) |-> LinesOf(q[i])])

\* With only its last event from the console, the queue holds the lines of that event.
LEMMA QueuedIsLast ==
    ASSUME NEW q \in Seq(KeyEvents \cup ConsoleEvents), q # <<>>,
           \A i \in 1 .. Len(q) - 1 : q[i] \in KeyEvents
    PROVE  Queued(q) = LinesOf(q[Len(q)])
<1> DEFINE n == Len(q)
           seqs == [i \in 1 .. n |-> LinesOf(q[i])]
           Flat(f) == f = [i \in 1 .. n |-> IF i = 1 THEN seqs[i] ELSE f[i - 1] \o seqs[i]]
           flatten == CHOOSE f : Flat(f)
           last == LinesOf(q[n])
<1>1. n \in Nat /\ n >= 1 /\ last \in Seq(Nat)
  BY DEF LinesOf, KeyEvents, ConsoleEvents
<1>2. \A i \in 1 .. n : seqs[i] = IF i = n THEN last ELSE <<>>
  BY DEF LinesOf, KeyEvents
<1>3. Queued(q) = flatten[n]
  <2>1. Len(seqs) = n
    BY <1>1
  <2> QED BY <1>1, <2>1 DEF Queued, FlattenSeq
<1>4. <<>> \o <<>> = <<>> /\ <<>> \o last = last
  BY <1>1
<1> HIDE DEF n, seqs, last
<1>5. \E f : Flat(f)
  <2> DEFINE f == [i \in 1 .. n |-> IF i = n THEN last ELSE <<>>]
  <2>1. ASSUME NEW i \in 1 .. n PROVE f[i] = IF i = 1 THEN seqs[i] ELSE f[i - 1] \o seqs[i]
    <3>1. CASE i = 1
      BY <1>2, <3>1
    <3>2. CASE i # 1
      <4>1. i - 1 \in 1 .. n /\ i - 1 # n
        BY <1>1, <3>2
      <4>2. f[i - 1] = <<>>
        BY <4>1
      <4> QED BY <1>2, <1>4, <3>2, <4>2
    <3> QED BY <3>1, <3>2
  <2>2. f = [i \in 1 .. n |-> f[i]]
    OBVIOUS
  <2> HIDE DEF f
  <2>3. Flat(f)
    BY <2>1, <2>2
  <2> QED BY <2>3
<1>6. Flat(flatten)
  <2> HIDE DEF Flat
  <2> QED BY <1>5
<1>7. \A i \in 1 .. n : flatten[i] = IF i = 1 THEN seqs[i] ELSE flatten[i - 1] \o seqs[i]
  <2> HIDE DEF flatten
  <2> QED BY <1>6
<1> HIDE DEF flatten, Flat
<1> DEFINE Turns == {i \in Nat : i \in 1 .. n => flatten[i] = IF i = n THEN last ELSE <<>>}
<1>8. 0 \in Turns
  OBVIOUS
<1>9. ASSUME NEW i \in Turns PROVE i + 1 \in Turns
  <2> SUFFICES ASSUME i + 1 \in 1 .. n PROVE flatten[i + 1] = IF i + 1 = n THEN last ELSE <<>>
    BY <1>9
  <2>1. CASE i = 0
    BY <1>2, <1>7, <2>1
  <2>2. CASE i # 0
    <3>1. i \in 1 .. n /\ i # n /\ i + 1 # 1 /\ (i + 1) - 1 = i
      BY <1>1, <1>9, <2>2
    <3>2. flatten[i] = <<>>
      BY <1>9, <3>1
    <3>3. flatten[i + 1] = flatten[i] \o seqs[i + 1]
      BY <1>7, <3>1
    <3> QED BY <1>2, <1>4, <3>2, <3>3
  <2> QED BY <2>1, <2>2
<1>10. n \in Turns
  <2> HIDE DEF Turns
  <2>1. Turns \in SUBSET Nat
    BY DEF Turns
  <2> QED BY <1>1, <1>8, <1>9, <2>1, Induct
<1>11. flatten[n] = last
  BY <1>1, <1>10
<1> QED BY <1>3, <1>11 DEF last, n

LEMMA NothingQueued ==
    ASSUME NEW q \in Seq(KeyEvents)
    PROVE  Queued(q) = <<>>
<1>1. CASE q = <<>>
  <2>1. [i \in 1 .. Len(q) |-> LinesOf(q[i])] = <<>>
    BY <1>1
  <2> QED BY <2>1 DEF Queued, FlattenSeq
<1>2. CASE q # <<>>
  <2>1. q \in Seq(KeyEvents \cup ConsoleEvents)
    OBVIOUS
  <2>2. \A i \in 1 .. Len(q) : q[i] \in KeyEvents
    OBVIOUS
  <2>3. Len(q) \in 1 .. Len(q)
    BY <1>2
  <2>4. Queued(q) = LinesOf(q[Len(q)])
    BY <1>2, <2>1, <2>2, QueuedIsLast
  <2> QED BY <2>2, <2>3, <2>4 DEF LinesOf, KeyEvents
<1> QED BY <1>1, <1>2

\* LinesInOrder, of the queue and the console.
AllLines(q, c) == c.executed \o c.buffer \o Queued(q) \o c.text
LEMMA LinesAreAllLines ==
    /\ LinesInOrder <=> AllLines(events.pending, console) = [i \in 1 .. typed |-> i]
    /\ LinesInOrder' <=> AllLines(events'.pending, console') = [i \in 1 .. typed' |-> i]
  BY DEF LinesInOrder, AllLines, Queued, LinesOf
-----------------------------------------------------------------------------
(* Input: the controller *)

GamepadStates == [enabled : BOOLEAN, digitals : SUBSET PadButtons,
                  lastDigitals : SUBSET PadButtons]
Sticks == [was_enabled : BOOLEAN, prev : SUBSET Directions]
PadStates == [plugged : BOOLEAN, buttons : SUBSET PadButtons, stick : SUBSET Directions]

LEMMA Released ==
    ASSUME NEW ev \in KeyQueue, NEW gp \in GamepadStates,
           NEW down, NEW R, Covered(ev, down, R \cup gp.digitals)
    PROVE  LET r == gp_release_all(ev, gp)
           IN  /\ r.events \in KeyQueue /\ r.gp \in GamepadStates
               /\ r.gp.digitals = {} /\ r.gp.enabled = gp.enabled
               /\ Covered(r.events, down, R)
<1> DEFINE q == QueueKeys(ev, gp.lastDigitals, FALSE)
           r == gp_release_all(ev, gp)
<1>1. gp.digitals \in SUBSET Keys /\ gp.lastDigitals \in SUBSET Keys
  BY DEF GamepadStates, Keys
<1>2. q \in KeyQueue /\ Covered(q, down, (R \cup gp.digitals) \ gp.lastDigitals)
  BY <1>1, QueuedKeys
<1> HIDE DEF q
<1>3. r = [events |-> [q EXCEPT !.lost = @ \cup (gp.digitals \ gp.lastDigitals)],
           gp |-> [gp EXCEPT !.digitals = {}, !.lastDigitals = {}]]
  BY DEF gp_release_all, q
<1>4. r.events \in KeyQueue /\ r.events.pending = q.pending
      /\ r.events.lost = q.lost \cup (gp.digitals \ gp.lastDigitals)
  BY <1>1, <1>2, <1>3 DEF KeyQueue
<1>5. r.gp \in GamepadStates /\ r.gp.digitals = {} /\ r.gp.enabled = gp.enabled
  <2>1. r.gp = [gp EXCEPT !.digitals = {}, !.lastDigitals = {}]
    BY <1>3
  <2> HIDE DEF r
  <2> QED BY <2>1 DEF GamepadStates
<1>6. Covered(r.events, down, R)
  BY <1>2, <1>4 DEF Covered
<1> QED BY <1>4, <1>5, <1>6

LEMMA Unplugging ==
    ASSUME NEW ev \in KeyQueue, NEW gp \in GamepadStates,
           NEW down, NEW R, Covered(ev, down, R \cup gp.digitals)
    PROVE  LET r == Unplugged(ev, gp)
           IN  /\ r.events \in KeyQueue /\ r.gp \in GamepadStates
               /\ ~ r.gp.enabled /\ Covered(r.events, down, R \cup r.gp.digitals)
<1> DEFINE g == [gp EXCEPT !.enabled = FALSE]
<1>1. g \in GamepadStates /\ g.digitals = gp.digitals /\ g.enabled = FALSE
  BY DEF GamepadStates
<1>2. Unplugged(ev, gp) = gp_release_all(ev, g)
  BY DEF Unplugged
<1> HIDE DEF g
<1>3. Covered(ev, down, R \cup g.digitals)
  BY <1>1
<1> DEFINE r == gp_release_all(ev, g)
<1>4. /\ r.events \in KeyQueue /\ r.gp \in GamepadStates
      /\ r.gp.digitals = {} /\ r.gp.enabled = g.enabled
      /\ Covered(r.events, down, R)
  BY <1>1, <1>3, Released
<1> HIDE DEF r
<1>5. R \cup r.gp.digitals = R
  BY <1>4
<1> QED BY <1>1, <1>2, <1>4, <1>5 DEF r

\* A poll tells what is down now, and what was down before it is what may be held.
LEMMA Polled ==
    ASSUME NEW ev \in KeyQueue, NEW gp \in GamepadStates, pad \in PadStates, NEW refresh \in BOOLEAN,
           NEW down, NEW R, Covered(ev, down, R \cup gp.digitals)
    PROVE  LET p == gp_poll_all(ev, gp, refresh)
           IN  /\ p.events \in KeyQueue /\ p.gp \in GamepadStates
               /\ Covered(p.events, down,
                          R \cup IF p.gp.enabled THEN p.gp.lastDigitals ELSE p.gp.digitals)
<1> DEFINE r == IF refresh THEN gp_check(ev, gp) ELSE [events |-> ev, gp |-> gp]
           p == gp_poll_all(ev, gp, refresh)
<1>1. r.events \in KeyQueue /\ r.gp \in GamepadStates /\ Covered(r.events, down, R \cup r.gp.digitals)
  <2>1. CASE refresh /\ gp.enabled /\ ~ pad.plugged
    <3>1. r = Unplugged(ev, gp)
      BY <2>1 DEF gp_check
    <3> QED BY <3>1, Unplugging
  <2>2. CASE refresh /\ ~ (gp.enabled /\ ~ pad.plugged)
    <3>1. r = [events |-> ev, gp |-> [gp EXCEPT !.enabled = pad.plugged]]
      BY <2>2 DEF gp_check
    <3>2. r.events = ev /\ r.gp \in GamepadStates /\ r.gp.digitals = gp.digitals
      BY <3>1 DEF GamepadStates, PadStates
    <3> HIDE DEF r
    <3> QED BY <3>2
  <2>3. CASE ~ refresh
    <3>1. r.events = ev /\ r.gp = gp
      BY <2>3
    <3> HIDE DEF r
    <3> QED BY <3>1
  <2> QED BY <2>1, <2>2, <2>3
<1>2. p = IF r.gp.enabled THEN PollState(r.events, r.gp) ELSE r
  BY DEF gp_poll_all
<1> HIDE DEF r, p
<1>3. CASE ~ r.gp.enabled
  BY <1>1, <1>2, <1>3 DEF p
<1>4. CASE r.gp.enabled /\ ~ pad.plugged
  <2>1. p = Unplugged(r.events, r.gp)
    BY <1>2, <1>4 DEF PollState
  <2>2. p.events \in KeyQueue /\ p.gp \in GamepadStates
        /\ ~ p.gp.enabled /\ Covered(p.events, down, R \cup p.gp.digitals)
    BY <1>1, <2>1, Unplugging
  <2> QED BY <2>2 DEF p
<1>5. CASE r.gp.enabled /\ pad.plugged
  <2>1. p = [events |-> r.events,
             gp |-> [r.gp EXCEPT !.lastDigitals = r.gp.digitals, !.digitals = pad.buttons]]
    BY <1>2, <1>5 DEF PollState
  <2>2. p.events = r.events /\ p.gp \in GamepadStates /\ p.gp.enabled
        /\ p.gp.lastDigitals = r.gp.digitals
    BY <1>1, <1>5, <2>1 DEF GamepadStates, PadStates
  <2> QED BY <1>1, <2>2 DEF p
<1> QED BY <1>3, <1>4, <1>5

\* A source that saw these keys before and those now sends the difference.
LEMMA EdgesQueued ==
    ASSUME NEW ev \in KeyQueue, NEW before \in SUBSET Keys, NEW now \in SUBSET Keys,
           NEW down, NEW R, Covered(ev, down, R \cup before)
    PROVE  LET r == QueueKeys(QueueKeys(ev, now \ before, TRUE), before \ now, FALSE)
           IN  r \in KeyQueue /\ Covered(r, down, R \cup now)
<1> DEFINE q == QueueKeys(ev, now \ before, TRUE)
           r == QueueKeys(q, before \ now, FALSE)
<1>0. now \ before \in SUBSET Keys /\ before \ now \in SUBSET Keys
  OBVIOUS
<1>1. q \in KeyQueue /\ Covered(q, down, (R \cup before) \cup (now \ before))
  BY <1>0, QueuedKeys
<1> HIDE DEF q
<1>2. r \in KeyQueue /\ Covered(r, down, ((R \cup before) \cup (now \ before)) \ (before \ now))
  BY <1>0, <1>1, QueuedKeys
<1>3. ((R \cup before) \cup (now \ before)) \ (before \ now) \subseteq R \cup now
  OBVIOUS
<1> HIDE DEF r
<1>4. Covered(r, down, R \cup now)
  BY <1>2, <1>3, CoveredByMore
<1> QED BY <1>2, <1>4 DEF r, q

\* IN_GamepadsMove, of what the queue and what the controller's part of Held become.
LEMMA GamepadsMoved ==
    ASSUME events \in KeyQueue, gp_state \in GamepadStates, s_stick \in Sticks, pad \in PadStates,
           NEW refresh \in BOOLEAN, IN_GamepadsMove(refresh),
           NEW down, NEW M, Covered(events, down, M \cup gp_state.digitals \cup s_stick.prev)
    PROVE  /\ events' \in KeyQueue /\ gp_state' \in GamepadStates /\ s_stick' \in Sticks
           /\ Covered(events', down, M \cup gp_state'.digitals \cup s_stick'.prev)
<1> DEFINE p == gp_poll_all(events, gp_state, refresh)
           d == gp_dispatch_buttons(p.events, p.gp)
           here == [s_stick EXCEPT !.was_enabled = TRUE]
           moved == IF settings.legacy THEN Gamepad_ApplyLeftStick(d, here)
                    ELSE [events |-> d, stick |-> here]
           gone == Gamepad_ReleaseMovement(p.events, s_stick)
<1>1. /\ p.events \in KeyQueue /\ p.gp \in GamepadStates
      /\ Covered(p.events, down,
                 (M \cup s_stick.prev) \cup IF p.gp.enabled THEN p.gp.lastDigitals ELSE p.gp.digitals)
  <2>1. M \cup gp_state.digitals \cup s_stick.prev = (M \cup s_stick.prev) \cup gp_state.digitals
    OBVIOUS
  <2>2. Covered(events, down, (M \cup s_stick.prev) \cup gp_state.digitals)
    BY <2>1
  <2> QED BY <2>2, Polled
<1>2. IF p.gp.enabled
      THEN events' = moved.events /\ s_stick' = moved.stick /\ gp_state' = p.gp
      ELSE events' = gone.events /\ s_stick' = gone.stick /\ gp_state' = p.gp
  BY DEF IN_GamepadsMove
<1> HIDE DEF p
<1>3. CASE p.gp.enabled
  <2>1. /\ events' = moved.events /\ s_stick' = moved.stick /\ gp_state' = p.gp
        /\ Covered(p.events, down, (M \cup s_stick.prev) \cup p.gp.lastDigitals)
    BY <1>1, <1>2, <1>3
  <2>2. p.gp.digitals \in SUBSET Keys /\ p.gp.lastDigitals \in SUBSET Keys
    BY <1>1 DEF GamepadStates, Keys
  <2>3. d = QueueKeys(QueueKeys(p.events, p.gp.digitals \ p.gp.lastDigitals, TRUE),
                      p.gp.lastDigitals \ p.gp.digitals, FALSE)
    BY DEF gp_dispatch_buttons
  <2>4. d \in KeyQueue /\ Covered(d, down, (M \cup s_stick.prev) \cup p.gp.digitals)
    <3> DEFINE r == QueueKeys(QueueKeys(p.events, p.gp.digitals \ p.gp.lastDigitals, TRUE),
                              p.gp.lastDigitals \ p.gp.digitals, FALSE)
    <3>1. r \in KeyQueue /\ Covered(r, down, (M \cup s_stick.prev) \cup p.gp.digitals)
      BY <1>1, <2>1, <2>2, EdgesQueued
    <3> HIDE DEF r
    <3>2. d = r
      BY <2>3 DEF r
    <3> HIDE DEF d
    <3> QED BY <3>1, <3>2
  <2>5. here \in Sticks /\ here.prev = s_stick.prev /\ s_stick.prev \in SUBSET Keys
    BY DEF Sticks, Keys
  <2> HIDE DEF d, here
  <2>6. /\ moved.events \in KeyQueue /\ moved.stick \in Sticks
        /\ Covered(moved.events, down, (M \cup p.gp.digitals) \cup moved.stick.prev)
    <3>0. (M \cup s_stick.prev) \cup p.gp.digitals = (M \cup p.gp.digitals) \cup s_stick.prev
      OBVIOUS
    <3>1. CASE settings.legacy
      <4>1. /\ moved.events = QueueKeys(QueueKeys(d, pad.stick \ s_stick.prev, TRUE),
                                        s_stick.prev \ pad.stick, FALSE)
            /\ moved.stick \in Sticks /\ moved.stick.prev = pad.stick
        BY <2>5, <3>1 DEF Gamepad_ApplyLeftStick, Sticks, PadStates
      <4>2. pad.stick \in SUBSET Keys
        BY DEF PadStates, Keys
      <4>3. Covered(d, down, (M \cup p.gp.digitals) \cup s_stick.prev)
        BY <2>4, <3>0
      <4> HIDE DEF moved
      <4> DEFINE r == QueueKeys(QueueKeys(d, pad.stick \ s_stick.prev, TRUE),
                                s_stick.prev \ pad.stick, FALSE)
      <4>4. r \in KeyQueue /\ Covered(r, down, (M \cup p.gp.digitals) \cup pad.stick)
        BY <2>4, <2>5, <4>2, <4>3, EdgesQueued
      <4> HIDE DEF r
      <4>5. moved.events = r
        BY <4>1 DEF r
      <4> QED BY <4>1, <4>4, <4>5
    <3>2. CASE ~ settings.legacy
      <4>1. moved.events = d /\ moved.stick = here
        BY <3>2
      <4> HIDE DEF moved
      <4> QED BY <2>4, <2>5, <3>0, <4>1
    <3> QED BY <3>1, <3>2
  <2> HIDE DEF moved
  <2>7. M \cup gp_state'.digitals \cup s_stick'.prev = (M \cup p.gp.digitals) \cup moved.stick.prev
    BY <2>1
  <2> QED BY <1>1, <2>1, <2>6, <2>7
<1>4. CASE ~ p.gp.enabled
  <2>1. /\ events' = gone.events /\ s_stick' = gone.stick /\ gp_state' = p.gp
        /\ Covered(p.events, down, (M \cup s_stick.prev) \cup p.gp.digitals)
    BY <1>1, <1>2, <1>4
  <2>2. CASE s_stick.was_enabled
    <3>1. gone = [events |-> QueueKeys(p.events, s_stick.prev, FALSE),
                  stick |-> [was_enabled |-> FALSE, prev |-> {}]]
      BY <2>2 DEF Gamepad_ReleaseMovement
    <3>2. s_stick.prev \in SUBSET Keys /\ gone.stick \in Sticks /\ gone.stick.prev = {}
          /\ gone.events = QueueKeys(p.events, s_stick.prev, FALSE)
      BY <3>1 DEF Sticks, Keys
    <3> HIDE DEF gone
    <3>3. gone.events \in KeyQueue
          /\ Covered(gone.events, down, ((M \cup s_stick.prev) \cup p.gp.digitals) \ s_stick.prev)
      <4>1. FALSE \in BOOLEAN
        OBVIOUS
      <4> DEFINE r == QueueKeys(p.events, s_stick.prev, FALSE)
                 H == (M \cup s_stick.prev) \cup p.gp.digitals
      <4>2. Covered(p.events, down, H)
        BY <2>1
      <4>3. H \ s_stick.prev = IF FALSE THEN H \cup s_stick.prev ELSE H \ s_stick.prev
        OBVIOUS
      <4> HIDE DEF H
      <4>4. r \in KeyQueue /\ Covered(r, down, H \ s_stick.prev)
        BY <1>1, <3>2, <4>1, <4>2, <4>3, QueuedKeys
      <4> HIDE DEF r
      <4>5. gone.events = r
        BY <3>2 DEF r
      <4> QED BY <4>4, <4>5 DEF H
    <3>4. ((M \cup s_stick.prev) \cup p.gp.digitals) \ s_stick.prev
              \subseteq M \cup gp_state'.digitals \cup s_stick'.prev
      BY <2>1
    <3>5. Covered(gone.events, down, M \cup gp_state'.digitals \cup s_stick'.prev)
      BY <3>3, <3>4, CoveredByMore
    <3> QED BY <1>1, <2>1, <3>2, <3>3, <3>5
  <2>3. CASE ~ s_stick.was_enabled
    <3>1. gone.events = p.events /\ gone.stick = s_stick
      BY <2>3 DEF Gamepad_ReleaseMovement
    <3>2. M \cup gp_state'.digitals \cup s_stick'.prev = (M \cup s_stick.prev) \cup p.gp.digitals
      BY <2>1, <3>1
    <3> HIDE DEF gone
    <3> QED BY <1>1, <2>1, <3>1, <3>2
  <2> QED BY <2>2, <2>3
<1> QED BY <1>3, <1>4
-----------------------------------------------------------------------------
(* Input: the steps *)

LEMMA InputStarts ==
    InputInit => InputInv
<1> SUFFICES ASSUME InputInit PROVE InputInv
  OBVIOUS
<1>1. events.pending = <<>> /\ events \in KeyQueue
  BY DEF InputInit, KeyQueue
<1>2. InputTypes
  BY DEF InputInit, InputTypes, AtRest
<1>3. QueueInv
  BY <1>1 DEF QueueInv
<1>4. DownIsHeld
  BY DEF InputInit, DownIsHeld, DownAfter
<1>5. LinesInOrder
  <2>1. Queued(events.pending) = <<>>
    BY <1>1, NothingQueued DEF KeyQueue
  <2>2. AllLines(events.pending, console) = <<>> /\ typed = 0
    BY <2>1 DEF InputInit, AllLines
  <2>3. [i \in 1 .. 0 |-> i] = <<>>
    OBVIOUS
  <2> QED BY <2>2, <2>3, LinesAreAllLines
<1> QED BY <1>2, <1>3, <1>4, <1>5 DEF InputInv

\* A step that only queues events of keys, none of the console being in the queue.
LEMMA KeysStep ==
    ASSUME InputInv, events \in KeyQueue, events' \in KeyQueue,
           keysDown' = keysDown, console' = console, typed' = typed,
           Covered(events', keysDown, Held')
    PROVE  QueueInv' /\ DownIsHeld' /\ LinesInOrder'
<1>1. QueueInv'
  <2>1. \A i \in 1 .. Len(events'.pending) : events'.pending[i] \in KeyEvents
    BY DEF KeyQueue
  <2>2. Len(events'.pending) \in Nat
    BY DEF KeyQueue
  <2>3. \A i \in 1 .. Len(events'.pending) - 1 : i \in 1 .. Len(events'.pending)
    BY <2>2
  <2> QED BY <2>1, <2>3 DEF QueueInv
<1>2. DownIsHeld'
  BY HeldIsCovered
<1>3. LinesInOrder'
  <2>1. Queued(events.pending) = <<>> /\ Queued(events'.pending) = <<>>
    BY NothingQueued DEF KeyQueue
  <2> QED BY <2>1, LinesAreAllLines DEF InputInv, AllLines
<1> QED BY <1>1, <1>2, <1>3

LEMMA KeyQueueTyped ==
    ASSUME NEW ev \in KeyQueue
    PROVE  ev \in [pending : Seq(KeyEvents \cup ConsoleEvents), lost : SUBSET Keys]
  BY DEF KeyQueue

LEMMA StepOfFrame ==
    ASSUME InputInv, IN_Frame
    PROVE  InputInv'
<1>1. /\ events \in KeyQueue /\ gp_state \in GamepadStates /\ s_stick \in Sticks /\ pad \in PadStates
  BY DEF InputInv, InputTypes, QueueInv, IN_Frame, GamepadStates, Sticks, PadStates
<1>2. Covered(events, keysDown, oldButtonState \cup gp_state.digitals \cup s_stick.prev)
  BY HeldIsCovered DEF InputInv, Held
<1>3. /\ events' \in KeyQueue /\ gp_state' \in GamepadStates /\ s_stick' \in Sticks
      /\ Covered(events', keysDown, oldButtonState \cup gp_state'.digitals \cup s_stick'.prev)
  <2>1. CASE \E refresh \in BOOLEAN : IN_GamepadsMove(refresh)
    BY <1>1, <1>2, <2>1, GamepadsMoved
  <2>2. CASE UNCHANGED <<events, gamepad>>
    <3>1. events' = events /\ gp_state' = gp_state /\ s_stick' = s_stick
      BY <2>2 DEF gamepad
    <3> QED BY <1>1, <1>2, <3>1
  <2> QED BY <2>1, <2>2 DEF IN_Frame
<1>4. UNCHANGED <<messages, keysDown, oldButtonState, mouseInitialized, in_appactive, settings, console, typed, pad, foreground>>
      /\ pc' = "events"
  BY DEF IN_Frame, window, world
<1>5. QueueInv' /\ DownIsHeld' /\ LinesInOrder'
  BY <1>1, <1>3, <1>4, KeysStep DEF Held
<1>6. InputTypes'
  BY <1>3, <1>4, KeyQueueTyped DEF InputInv, InputTypes, GamepadStates, Sticks
<1> QED BY <1>5, <1>6 DEF InputInv

LEMMA StepOfMouse ==
    ASSUME InputInv, NEW mstate \in SUBSET MouseButtons, IN_MouseEvent(mstate)
    PROVE  InputInv'
<1>1. /\ events \in KeyQueue /\ oldButtonState \in SUBSET Keys /\ mstate \in SUBSET Keys
  BY DEF InputInv, InputTypes, QueueInv, IN_MouseEvent, Message, Keys
<1> DEFINE R == gp_state.digitals \cup s_stick.prev
           r == QueueKeys(QueueKeys(events, mstate \ oldButtonState, TRUE), oldButtonState \ mstate, FALSE)
<1>2. Covered(events, keysDown, R \cup oldButtonState)
  <2>1. Held = R \cup oldButtonState
    BY DEF Held
  <2> QED BY <2>1, HeldIsCovered DEF InputInv
<1>3. r \in KeyQueue /\ Covered(r, keysDown, R \cup mstate)
  BY <1>1, <1>2, EdgesQueued
<1>4. /\ events' = r /\ oldButtonState' = mstate
      /\ UNCHANGED <<pc, keysDown, in_appactive, mouseInitialized, gp_state, s_stick, settings, console, typed, pad, foreground>>
  BY DEF IN_MouseEvent, Message, gamepad, world
<1> HIDE DEF r
<1>5. Held' = R \cup mstate
  BY <1>4 DEF Held
<1>6. QueueInv' /\ DownIsHeld' /\ LinesInOrder'
  BY <1>1, <1>3, <1>4, <1>5, KeysStep
<1>7. InputTypes'
  BY <1>3, <1>4, KeyQueueTyped DEF InputInv, InputTypes
<1> QED BY <1>6, <1>7 DEF InputInv

\* Steps that leave the queue and what is held alone.
LEMMA StepsAside ==
    ASSUME InputInv,
           \/ VID_AppActivate \/ MovePad \/ SwitchWindow \/ PumpBegins \/ UNCHANGED inputVars
    PROVE  InputInv'
<1>1. /\ UNCHANGED <<events, oldButtonState, mouseInitialized, gp_state, s_stick, settings, console, typed>>
      /\ keysDown' \subseteq keysDown
      /\ pad' \in PadStates
      /\ pc' \in {pc, "pump"} /\ (pc' # pc => events.pending = <<>>)
  <2>1. pad \in PadStates
    BY DEF InputInv, InputTypes, PadStates
  <2>2. CASE VID_AppActivate
    BY <2>1, <2>2 DEF VID_AppActivate, Message, gamepad, world
  <2>3. CASE MovePad
    <3>1. \/ pad' \in [plugged : {TRUE}, buttons : SUBSET PadButtons, stick : SUBSET Directions]
          \/ pad' = [plugged |-> FALSE, buttons |-> {}, stick |-> {}]
      BY <2>3, Zenon DEF MovePad, AtRest
    <3>2. pad' \in PadStates
      <4>1. CASE pad' \in [plugged : {TRUE}, buttons : SUBSET PadButtons, stick : SUBSET Directions]
        <5>1. {TRUE} \subseteq BOOLEAN
          OBVIOUS
        <5> QED BY <4>1, <5>1, Zenon DEF PadStates
      <4>2. CASE pad' = [plugged |-> FALSE, buttons |-> {}, stick |-> {}]
        BY <4>2 DEF PadStates
      <4> QED BY <3>1, <4>1, <4>2
    <3> QED BY <2>3, <3>2 DEF MovePad, frame, window, gamepad
  <2>4. CASE SwitchWindow
    BY <2>1, <2>4 DEF SwitchWindow, frame, window, gamepad
  <2>5. CASE PumpBegins
    BY <2>1, <2>5 DEF PumpBegins, window, gamepad, world
  <2>6. CASE UNCHANGED inputVars
    BY <2>1, <2>6 DEF inputVars, frame, window, gamepad, world
  <2> QED BY <2>2, <2>3, <2>4, <2>5, <2>6
<1>2. InputTypes'
  BY <1>1 DEF InputInv, InputTypes, PadStates
<1>3. QueueInv'
  <2>1. events.pending = <<>> => events \in KeyQueue
    BY DEF InputInv, InputTypes, KeyQueue
  <2> QED BY <1>1, <2>1 DEF InputInv, QueueInv
<1>4. DownIsHeld'
  BY <1>1 DEF InputInv, DownIsHeld, Held, DownAfter
<1>5. LinesInOrder'
  BY <1>1 DEF InputInv, LinesInOrder
<1> QED BY <1>2, <1>3, <1>4, <1>5 DEF InputInv
LEMMA Regrouped ==
    ASSUME NEW a \in Seq(Nat), NEW b \in Seq(Nat), NEW c \in Seq(Nat)
    PROVE  (a \o b) \o c = a \o (b \o c)
  OBVIOUS

\* The lines, one part after the other.
LEMMA PartsJoined ==
    ASSUME NEW a \in Seq(Nat), NEW b \in Seq(Nat), NEW c \in Seq(Nat), NEW d \in Seq(Nat)
    PROVE  /\ (a \o b) \o <<>> \o c \o d = a \o b \o c \o d
           /\ a \o (b \o c) \o <<>> \o d = a \o b \o c \o d
           /\ a \o b \o c \o <<>> = a \o b \o <<>> \o c
<1>1. /\ a \o b \in Seq(Nat) /\ a \o b \o c \in Seq(Nat)
      /\ b \o c \in Seq(Nat) /\ a \o (b \o c) \in Seq(Nat)
  BY ConcatProperties
<1>2. (a \o b) \o c = a \o (b \o c)
  BY Regrouped
<1>3. (a \o b) \o <<>> = a \o b /\ (a \o (b \o c)) \o <<>> = a \o (b \o c)
      /\ (a \o b \o c) \o <<>> = a \o b \o c
  BY <1>1, ConcatEmptySeq
<1> QED BY <1>1, <1>2, <1>3

LEMMA StepOfLine ==
    ASSUME InputInv, InputLineWndProc
    PROVE  InputInv'
<1>1. /\ UNCHANGED <<pc, events, keysDown, oldButtonState, mouseInitialized, gp_state, s_stick, settings, pad>>
      /\ typed' = typed + 1
      /\ console' = [console EXCEPT !.text = Append(@, typed + 1)]
  BY DEF InputLineWndProc, frame, window, gamepad, world
<1>2. /\ console.text \in Seq(Nat) /\ console.buffer \in Seq(Nat) /\ console.executed \in Seq(Nat)
      /\ typed \in Nat /\ console \in [text : Seq(Nat), buffer : Seq(Nat), executed : Seq(Nat)]
  BY DEF InputInv, InputTypes
<1>3. /\ console' \in [text : Seq(Nat), buffer : Seq(Nat), executed : Seq(Nat)]
      /\ console'.text = Append(console.text, typed + 1)
      /\ console'.buffer = console.buffer /\ console'.executed = console.executed
  <2>1. Append(console.text, typed + 1) \in Seq(Nat)
    BY <1>2
  <2> QED BY <1>1, <1>2, <2>1
<1>4. InputTypes'
  BY <1>1, <1>2, <1>3 DEF InputInv, InputTypes
<1>a. QueueInv'
  BY <1>1 DEF InputInv, QueueInv
<1>b. DownIsHeld'
  BY <1>1 DEF InputInv, DownIsHeld, Held, DownAfter
<1>5. LinesInOrder'
  <2> DEFINE before == console.executed \o console.buffer \o Queued(events.pending)
  <2>1. Queued(events.pending) \in Seq(Nat)
    <3>1. CASE events.pending = <<>>
      <4>1. events.pending \in Seq(KeyEvents)
        BY <3>1
      <4>2. Queued(events.pending) = <<>>
        BY <4>1, NothingQueued
      <4> QED BY <4>2
    <3>2. CASE events.pending # <<>>
      <4> DEFINE q == events.pending
      <4>1. q \in Seq(KeyEvents \cup ConsoleEvents) /\ \A i \in 1 .. Len(q) - 1 : q[i] \in KeyEvents
        BY DEF InputInv, InputTypes, QueueInv
      <4>2. Queued(q) = LinesOf(q[Len(q)])
        BY <3>2, <4>1, QueuedIsLast
      <4>3. q[Len(q)] \in KeyEvents \cup ConsoleEvents
        BY <3>2, <4>1
      <4>4. LinesOf(q[Len(q)]) \in Seq(Nat)
        BY <4>3 DEF LinesOf, KeyEvents, ConsoleEvents
      <4> QED BY <4>2, <4>4
    <3> QED BY <3>1, <3>2
  <2>2. before \in Seq(Nat)
    <3>1. console.executed \o console.buffer \in Seq(Nat)
      BY <1>2, ConcatProperties
    <3> QED BY <2>1, <3>1, ConcatProperties
  <2>3. AllLines(events.pending, console) = before \o console.text
        /\ AllLines(events'.pending, console') = before \o Append(console.text, typed + 1)
    BY <1>1, <1>3 DEF AllLines
  <2> HIDE DEF before
  <2>4. before \o Append(console.text, typed + 1) = Append(before \o console.text, typed + 1)
    <3>1. Append(console.text, typed + 1) = console.text \o <<typed + 1>>
          /\ Append(before \o console.text, typed + 1) = (before \o console.text) \o <<typed + 1>>
      BY <1>2, <2>2
    <3>2. <<typed + 1>> \in Seq(Nat)
      BY <1>2
    <3>3. (before \o console.text) \o <<typed + 1>> = before \o (console.text \o <<typed + 1>>)
      BY <1>2, <2>2, <3>2, Regrouped
    <3> QED BY <3>1, <3>3
  <2>5. before \o console.text = [i \in 1 .. typed |-> i]
    BY <2>3, LinesAreAllLines DEF InputInv
  <2>6. Append([i \in 1 .. typed |-> i], typed + 1) = [i \in 1 .. typed + 1 |-> i]
    BY <1>2
  <2> QED BY <1>1, <2>3, <2>4, <2>5, <2>6, LinesAreAllLines
<1> QED BY <1>4, <1>a, <1>b, <1>5 DEF InputInv

LEMMA StepOfCommands ==
    ASSUME InputInv, Cbuf_Execute
    PROVE  InputInv'
<1>1. /\ UNCHANGED <<keysDown, oldButtonState, gp_state, typed, pad>>
      /\ settings' \in [gamepad : BOOLEAN, legacy : BOOLEAN]
      /\ pc' \in {"events", "input"} /\ pc = "execute"
      /\ console' = [console EXCEPT !.executed = @ \o console.buffer, !.buffer = <<>>]
      /\ Sys_In_Restart_f \/ UNCHANGED <<mouseInitialized, events, s_stick>>
  BY DEF Cbuf_Execute, world
<1>2. /\ console.text \in Seq(Nat) /\ console.buffer \in Seq(Nat) /\ console.executed \in Seq(Nat)
      /\ console \in [text : Seq(Nat), buffer : Seq(Nat), executed : Seq(Nat)]
  BY DEF InputInv, InputTypes
<1>3. /\ console' \in [text : Seq(Nat), buffer : Seq(Nat), executed : Seq(Nat)]
      /\ console'.text = console.text /\ console'.buffer = <<>>
      /\ console'.executed = console.executed \o console.buffer
  <2> DEFINE executed == console.executed \o console.buffer
  <2>1. executed \in Seq(Nat) /\ <<>> \in Seq(Nat)
    BY <1>2, ConcatProperties
  <2>2. console' = [console EXCEPT !.executed = executed, !.buffer = <<>>]
    BY <1>1
  <2> HIDE DEF executed
  <2>3. /\ console' \in [text : Seq(Nat), buffer : Seq(Nat), executed : Seq(Nat)]
        /\ console'.text = console.text /\ console'.buffer = <<>> /\ console'.executed = executed
    BY <1>2, <2>1, <2>2
  <2> QED BY <2>3 DEF executed
<1>4. events \in KeyQueue
  BY <1>1 DEF InputInv, QueueInv
<1>5. /\ events' \in KeyQueue /\ events'.pending = events.pending
      /\ s_stick' \in Sticks
      /\ Held \cup events.lost \subseteq Held' \cup events'.lost
  <2>1. s_stick \in Sticks /\ s_stick.prev \subseteq Keys
    BY DEF InputInv, InputTypes, Sticks, Keys
  <2>2. CASE Sys_In_Restart_f
    <3>1. /\ events' = [events EXCEPT !.lost = @ \cup s_stick.prev]
          /\ s_stick' = [was_enabled |-> FALSE, prev |-> {}]
      BY <2>2 DEF Sys_In_Restart_f
    <3>2. events' \in KeyQueue /\ events'.pending = events.pending
          /\ events'.lost = events.lost \cup s_stick.prev
      BY <1>4, <2>1, <3>1 DEF KeyQueue
    <3>3. s_stick' \in Sticks
      BY <3>1 DEF Sticks
    <3> QED BY <1>1, <3>2, <3>3 DEF Held
  <2>3. CASE UNCHANGED <<mouseInitialized, events, s_stick>>
    BY <1>1, <1>4, <2>1, <2>3 DEF Held
  <2> QED BY <1>1, <2>2, <2>3
<1>a. InputTypes'
  <2>1. mouseInitialized' \in BOOLEAN
    BY <1>1 DEF InputInv, InputTypes, Sys_In_Restart_f
  <2> QED BY <1>1, <1>3, <1>5, <2>1, KeyQueueTyped DEF InputInv, InputTypes, Sticks
<1>b. QueueInv'
  BY <1>5, <1>4 DEF InputInv, QueueInv
<1>c. DownIsHeld'
  <2>1. \A k \in MouseButtons \cup PadButtons \cup Directions :
            DownAfter(events.pending, keysDown, k) => k \in Held \cup events.lost
    BY DEF InputInv, DownIsHeld
  <2>2. events'.pending = events.pending /\ keysDown' = keysDown
    BY <1>1, <1>5
  <2> QED BY <2>1, <2>2, <1>5 DEF DownIsHeld
<1>6. LinesInOrder'
  <2>1. Queued(events.pending) = <<>>
    BY <1>4, NothingQueued DEF KeyQueue
  <2>2. <<>> \in Seq(Nat)
    OBVIOUS
  <2>3. AllLines(events.pending, console) = console.executed \o console.buffer \o <<>> \o console.text
        /\ AllLines(events'.pending, console')
             = (console.executed \o console.buffer) \o <<>> \o <<>> \o console.text
    BY <1>1, <1>3, <1>5, <2>1 DEF AllLines
  <2>4. (console.executed \o console.buffer) \o <<>> \o <<>> \o console.text
         = console.executed \o console.buffer \o <<>> \o console.text
    BY <1>2, <2>2, PartsJoined
  <2> QED BY <1>1, <2>3, <2>4, LinesAreAllLines DEF InputInv
<1> QED BY <1>a, <1>b, <1>c, <1>6 DEF InputInv

LEMMA StepOfEvent ==
    ASSUME InputInv, Com_EventLoop
    PROVE  InputInv'
<1> DEFINE q == events.pending
           e == Head(q)
<1>1. /\ q \in Seq(KeyEvents \cup ConsoleEvents) /\ q # <<>>
      /\ e \in KeyEvents \cup ConsoleEvents /\ Tail(q) \in Seq(KeyEvents \cup ConsoleEvents)
      /\ Len(q) \in Nat /\ Len(q) >= 1 /\ Len(Tail(q)) = Len(q) - 1 /\ q[1] = e
      /\ \A i \in 1 .. Len(q) - 1 : Tail(q)[i] = q[i + 1] /\ q[i] \in KeyEvents
      /\ events.lost \in SUBSET Keys
  BY DEF InputInv, InputTypes, QueueInv, Com_EventLoop
<1>2. /\ UNCHANGED <<pc, oldButtonState, mouseInitialized, gp_state, s_stick, settings, typed, pad>>
      /\ pc = "events"
      /\ events' = [events EXCEPT !.pending = Tail(q)]
  BY DEF Com_EventLoop, frame, window, gamepad, world
<1>3. /\ events' \in [pending : Seq(KeyEvents \cup ConsoleEvents), lost : SUBSET Keys]
      /\ events'.pending = Tail(q) /\ events'.lost = events.lost
  BY <1>1, <1>2 DEF InputInv, InputTypes
<1>4. /\ e \in KeyEvents => /\ gp_cl_keyevent(e.key, e.down)
                            /\ console' = console
      /\ e \in ConsoleEvents => /\ console' = [console EXCEPT !.buffer = @ \o e.lines]
                                /\ UNCHANGED keysDown
  <2>1. /\ e \in KeyEvents => e.type = "key"
        /\ e \in ConsoleEvents => e.type = "console"
    BY DEF KeyEvents, ConsoleEvents
  <2>2. \/ e.type = "key" /\ gp_cl_keyevent(e.key, e.down) /\ UNCHANGED console
        \/ /\ e.type = "console"
           /\ console' = [console EXCEPT !.buffer = @ \o e.lines]
           /\ UNCHANGED keysDown
    BY Zenon DEF Com_EventLoop
  <2> HIDE DEF e, q
  <2>3. "key" # "console"
    OBVIOUS
  <2>4. CASE e \in KeyEvents
    <3>1. e.type # "console" /\ e \notin ConsoleEvents
      BY <2>1, <2>3, <2>4
    <3> QED BY <2>2, <2>4, <3>1
  <2>5. CASE e \in ConsoleEvents
    <3>1. e.type # "key" /\ e \notin KeyEvents
      BY <2>1, <2>3, <2>5
    <3> QED BY <2>2, <2>5, <3>1
  <2> QED BY <1>1, <2>4, <2>5
<1>5. /\ gp_state' \in GamepadStates /\ gp_state'.digitals = gp_state.digitals
      /\ keysDown' \subseteq Keys
      /\ console' \in [text : Seq(Nat), buffer : Seq(Nat), executed : Seq(Nat)]
  <2>1. /\ gp_state \in GamepadStates /\ keysDown \subseteq Keys
        /\ console \in [text : Seq(Nat), buffer : Seq(Nat), executed : Seq(Nat)]
    BY DEF InputInv, InputTypes, GamepadStates
  <2>2. CASE e \in KeyEvents
    <3>1. e.key \in Keys
      BY <2>2 DEF KeyEvents
    <3>2. /\ console' = console
          /\ keysDown' = IF e.down THEN keysDown \cup {e.key} ELSE keysDown \ {e.key}
      BY <1>4, <2>2, Zenon DEF gp_cl_keyevent
    <3> HIDE DEF e, q
    <3>3. keysDown' \subseteq Keys
      BY <2>1, <3>1, <3>2
    <3> QED BY <1>2, <2>1, <3>2, <3>3
  <2>3. CASE e \in ConsoleEvents
    <3>1. e.lines \in Seq(Nat) /\ console.buffer \in Seq(Nat)
      BY <2>1, <2>3 DEF ConsoleEvents
    <3>2. console.buffer \o e.lines \in Seq(Nat)
      BY <3>1, ConcatProperties
    <3>3. console' = [console EXCEPT !.buffer = @ \o e.lines] /\ keysDown' = keysDown
      BY <1>4, <2>3
    <3> QED BY <1>2, <2>1, <3>2, <3>3
  <2> QED BY <1>1, <2>2, <2>3
<1>6. InputTypes'
  BY <1>2, <1>3, <1>5 DEF InputInv, InputTypes, GamepadStates
<1>7. QueueInv'
  <2>1. \A i \in 1 .. Len(Tail(q)) - 1 : i \in 1 .. Len(q) - 1 /\ i + 1 \in 1 .. Len(q) - 1
    BY <1>1
  <2>2. \A i \in 1 .. Len(Tail(q)) - 1 : Tail(q)[i] \in KeyEvents
    BY <1>1, <2>1
  <2> QED BY <1>2, <1>3, <2>2 DEF QueueInv
<1>8. DownIsHeld'
  <2> SUFFICES ASSUME NEW k \in Keys, DownAfter(Tail(q), keysDown', k) PROVE k \in Held' \cup events'.lost
    BY <1>3 DEF DownIsHeld, Keys
  <2>1. k \in keysDown' => IF k \in KeysOf(e) THEN e = KeyEvent(k, TRUE) ELSE k \in keysDown
    <3>1. CASE e \in KeyEvents
      <4>1. KeysOf(e) = {e.key} /\ (e.down /\ e.key = k => e = KeyEvent(k, TRUE))
        BY <3>1 DEF KeysOf, KeyEvents, KeyEvent
      <4>2. keysDown' = IF e.down THEN keysDown \cup {e.key} ELSE keysDown \ {e.key}
        BY <1>4, <3>1, Zenon DEF gp_cl_keyevent
      <4> QED BY <4>1, <4>2
    <3>2. CASE e \in ConsoleEvents
      <4>1. KeysOf(e) = {} /\ keysDown' = keysDown
        BY <1>4, <3>2 DEF KeysOf, KeyEvents, ConsoleEvents
      <4> QED BY <4>1
    <3> QED BY <1>1, <3>1, <3>2
  <2>2. DownAfter(q, keysDown, k)
    <3> HIDE DEF q
    <3> QED BY <1>1, <2>1, TailDown
  <2>3. k \in Held \cup events.lost
    BY <2>2 DEF InputInv, DownIsHeld, Keys
  <2> QED BY <1>2, <1>3, <1>5, <2>3 DEF Held
<1>9. LinesInOrder'
  <2>0. /\ console.text \in Seq(Nat) /\ console.buffer \in Seq(Nat) /\ console.executed \in Seq(Nat)
        /\ <<>> \in Seq(Nat)
    BY DEF InputInv, InputTypes
  <2>1. CASE Len(q) = 1
    <3>1. Tail(q) = <<>> /\ Tail(q) \in Seq(KeyEvents)
      <4>1. Len(Tail(q)) = 0 /\ Tail(q) \in Seq(KeyEvents \cup ConsoleEvents)
        BY <1>1, <2>1
      <4> HIDE DEF q
      <4>2. Tail(q) = <<>> /\ <<>> \in Seq(KeyEvents)
        BY <4>1, EmptySeq
      <4> QED BY <4>2
    <3>2. Queued(q) = LinesOf(e) /\ Queued(Tail(q)) = <<>>
      <4> HIDE DEF q, e
      <4>1. \A i \in 1 .. Len(q) - 1 : q[i] \in KeyEvents
        BY <1>1
      <4>2. Queued(q) = LinesOf(q[Len(q)])
        BY <1>1, <4>1, QueuedIsLast
      <4> QED BY <1>1, <2>1, <3>1, <4>2, NothingQueued
    <3>3. CASE e \in KeyEvents
      <4>1. LinesOf(e) = <<>> /\ console' = console
        BY <1>4, <3>3 DEF LinesOf, KeyEvents, ConsoleEvents
      <4> QED BY <1>2, <1>3, <3>2, <4>1, LinesAreAllLines DEF InputInv, AllLines
    <3>4. CASE e \in ConsoleEvents
      <4>1. LinesOf(e) = e.lines /\ e.lines \in Seq(Nat)
            /\ console' = [console EXCEPT !.buffer = @ \o e.lines]
        BY <1>4, <3>4 DEF LinesOf, KeyEvents, ConsoleEvents
      <4>2. /\ console'.text = console.text /\ console'.executed = console.executed
            /\ console'.buffer = console.buffer \o e.lines
        BY <4>1 DEF InputInv, InputTypes
      <4>3. AllLines(q, console) = console.executed \o console.buffer \o e.lines \o console.text
            /\ AllLines(Tail(q), console')
                 = console.executed \o (console.buffer \o e.lines) \o <<>> \o console.text
        BY <3>2, <4>1, <4>2 DEF AllLines
      <4>4. AllLines(Tail(q), console') = AllLines(q, console)
        <5> HIDE DEF e, q
        <5>1. console.executed \o (console.buffer \o e.lines) \o <<>> \o console.text
               = console.executed \o console.buffer \o e.lines \o console.text
          <6> DEFINE x == console.executed
                     y == console.buffer
                     z == e.lines
                     t == console.text
          <6>1. x \in Seq(Nat) /\ y \in Seq(Nat) /\ z \in Seq(Nat) /\ t \in Seq(Nat)
            BY <2>0, <4>1
          <6> HIDE DEF x, y, z, t
          <6>2. x \o (y \o z) \o <<>> \o t = x \o y \o z \o t
            BY ONLY <6>1, PartsJoined, SMTT(30)
          <6> QED BY <6>2 DEF x, y, z, t
        <5> QED BY <4>3, <5>1, Zenon
      <4> QED BY <1>2, <1>3, <4>4, LinesAreAllLines DEF InputInv
    <3> QED BY <1>1, <3>3, <3>4
  <2>2. CASE Len(q) # 1
    <3>1. /\ e \in KeyEvents /\ Tail(q) # <<>>
          /\ \A i \in 1 .. Len(Tail(q)) - 1 : Tail(q)[i] \in KeyEvents
          /\ Tail(q)[Len(Tail(q))] = q[Len(q)]
      <4>1. 1 \in 1 .. Len(q) - 1 /\ Len(Tail(q)) \in 1 .. Len(q) - 1 /\ (Len(q) - 1) + 1 = Len(q)
        <5> HIDE DEF q, e
        <5> QED BY <1>1, <2>2
      <4>2. Tail(q)[Len(Tail(q))] = q[Len(q)] /\ e \in KeyEvents
        BY <1>1, <4>1
      <4>3. Tail(q) # <<>>
        <5> HIDE DEF q, e
        <5>1. Len(Tail(q)) # 0 /\ Len(<<>>) = 0
          BY <1>1, <2>2
        <5> QED BY <5>1
      <4>4. \A i \in 1 .. Len(Tail(q)) - 1 : Tail(q)[i] \in KeyEvents
        BY <1>3, <1>7, Zenon DEF QueueInv
      <4> QED BY <4>2, <4>3, <4>4
    <3>2. Queued(Tail(q)) = Queued(q)
      <4> HIDE DEF q, e
      <4>1. \A i \in 1 .. Len(q) - 1 : q[i] \in KeyEvents
        BY <1>1
      <4>2. Queued(q) = LinesOf(q[Len(q)])
        BY <1>1, <4>1, QueuedIsLast
      <4>3. Queued(Tail(q)) = LinesOf(Tail(q)[Len(Tail(q))])
        BY <1>1, <3>1, QueuedIsLast
      <4> QED BY <3>1, <4>2, <4>3
    <3>3. console' = console
      BY <1>4, <3>1 DEF KeyEvents, ConsoleEvents
    <3> QED BY <1>2, <1>3, <3>2, <3>3, LinesAreAllLines DEF InputInv, AllLines
  <2> QED BY <2>1, <2>2
<1> QED BY <1>6, <1>7, <1>8, <1>9 DEF InputInv
LEMMA StepOfConsole ==
    ASSUME InputInv, PumpEnds
    PROVE  InputInv'
<1> DEFINE e == ConsoleEvent(console.text)
           kept == IF Len(events.pending) >= MaxQueued THEN Tail(events.pending) ELSE events.pending
<1>1. /\ UNCHANGED <<keysDown, oldButtonState, mouseInitialized, gp_state, s_stick, settings, typed, pad>>
      /\ pc = "pump"
      /\ pc' = IF events'.pending = <<>> THEN "execute" ELSE "events"
      /\ events' = IF console.text = <<>> THEN events ELSE Com_QueueEvent(events, e)
      /\ console' = [console EXCEPT !.text = <<>>]
  BY DEF PumpEnds, window, gamepad, world
<1>2. /\ events \in KeyQueue
      /\ console.text \in Seq(Nat) /\ console.buffer \in Seq(Nat) /\ console.executed \in Seq(Nat)
      /\ console \in [text : Seq(Nat), buffer : Seq(Nat), executed : Seq(Nat)]
  BY <1>1 DEF InputInv, InputTypes, QueueInv
<1>3. /\ console' \in [text : Seq(Nat), buffer : Seq(Nat), executed : Seq(Nat)]
      /\ console'.text = <<>> /\ console'.buffer = console.buffer /\ console'.executed = console.executed
  <2>1. <<>> \in Seq(Nat)
    OBVIOUS
  <2> QED BY <1>1, <1>2, <2>1
<1>4. Held' = Held
  BY <1>1 DEF Held
<1>5. pc' \in {"execute", "events"}
  BY <1>1
<1>6. CASE console.text = <<>>
  <2>1. events' = events
    BY <1>1, <1>6
  <2>2. InputTypes' /\ QueueInv'
    BY <1>1, <1>2, <1>3, <1>5, <2>1 DEF InputInv, InputTypes, QueueInv
  <2>3. DownIsHeld'
    BY <1>1, <1>4, <2>1 DEF InputInv, DownIsHeld, DownAfter
  <2>4. LinesInOrder'
    BY <1>1, <1>3, <1>6, <2>1, LinesAreAllLines DEF InputInv, AllLines
  <2> QED BY <2>2, <2>3, <2>4 DEF InputInv
<1>7. CASE console.text # <<>>
  <2>1. events' = Com_QueueEvent(events, e)
    BY <1>1, <1>7
  <2>2. e \in ConsoleEvents /\ e.type = "console" /\ e.lines = console.text /\ KeysOf(e) = {}
    BY <1>2 DEF ConsoleEvent, ConsoleEvents, KeysOf
  <2> HIDE DEF e
  <2>3. /\ kept \in Seq(KeyEvents)
        /\ events'.pending = Append(kept, e)
        /\ events'.lost \in SUBSET Keys
        /\ events' = [pending |-> events'.pending, lost |-> events'.lost]
    <3>1. events.pending \in Seq(KeyEvents) /\ events.lost \in SUBSET Keys
      BY <1>2 DEF KeyQueue
    <3>2. CASE Len(events.pending) >= MaxQueued
      <4>1. events.pending # <<>>
        BY <3>1, <3>2, InputAssumption
      <4>2. Head(events.pending) \in KeyEvents /\ Tail(events.pending) \in Seq(KeyEvents)
        BY <3>1, <4>1
      <4>3. KeysOf(Head(events.pending)) \subseteq Keys
        BY <4>2 DEF KeysOf, KeyEvents
      <4> QED BY <2>1, <2>2, <3>1, <3>2, <4>2, <4>3 DEF Com_QueueEvent
    <3>3. CASE ~ (Len(events.pending) >= MaxQueued)
      BY <2>1, <2>2, <3>1, <3>3 DEF Com_QueueEvent
    <3> QED BY <3>2, <3>3
  <2> HIDE DEF kept
  <2>4. /\ Append(kept, e) \in Seq(KeyEvents \cup ConsoleEvents)
        /\ Append(kept, e) # <<>> /\ Len(Append(kept, e)) = Len(kept) + 1
        /\ Append(kept, e)[Len(kept) + 1] = e
        /\ \A i \in 1 .. Len(kept) : Append(kept, e)[i] \in KeyEvents
        /\ Len(kept) \in Nat
    BY <2>2, <2>3
  <2>5. pc' = "events"
    BY <1>1, <2>3, <2>4
  <2>6. InputTypes'
    BY <1>1, <1>3, <2>3, <2>4, <2>5 DEF InputInv, InputTypes
  <2>7. QueueInv'
    <3>1. Len(events'.pending) - 1 = Len(kept)
      BY <2>3, <2>4
    <3> QED BY <2>3, <2>4, <2>5, <3>1 DEF QueueInv
  <2>8. DownIsHeld'
    <3>1. Covered(Com_QueueEvent(events, e), keysDown, HeldAfter(Held, e))
      <4>1. Covered(events, keysDown, Held)
        BY HeldIsCovered DEF InputInv
      <4>2. KeyEvents \subseteq KeyEvents \cup ConsoleEvents
        OBVIOUS
      <4> QED BY <1>2, <2>2, <4>1, <4>2, QueuedEvent DEF KeyQueue
    <3>2. HeldAfter(Held, e) = Held
      BY <2>2 DEF HeldAfter
    <3> QED BY <1>1, <1>4, <2>1, <3>1, <3>2, HeldIsCovered
  <2>9. LinesInOrder'
    <3>1. Queued(events.pending) = <<>>
      BY <1>2, NothingQueued DEF KeyQueue
    <3>2. Queued(Append(kept, e)) = console.text
      <4> DEFINE q == Append(kept, e)
      <4>1. /\ q \in Seq(KeyEvents \cup ConsoleEvents) /\ q # <<>>
            /\ Len(q) - 1 = Len(kept) /\ q[Len(q)] = e
        BY <2>4
      <4>2. \A i \in 1 .. Len(q) - 1 : q[i] \in KeyEvents
        BY <2>4, <4>1
      <4> HIDE DEF q
      <4>3. Queued(q) = LinesOf(e)
        BY <4>1, <4>2, QueuedIsLast
      <4> QED BY <2>2, <4>3 DEF LinesOf, q
    <3>3. AllLines(events'.pending, console') = console.executed \o console.buffer \o console.text \o <<>>
          /\ AllLines(events.pending, console) = console.executed \o console.buffer \o <<>> \o console.text
      BY <1>3, <2>3, <3>1, <3>2 DEF AllLines
    <3>4. console.executed \o console.buffer \o console.text \o <<>>
           = console.executed \o console.buffer \o <<>> \o console.text
      <4> DEFINE x == console.executed
                 y == console.buffer
                 z == console.text
      <4>1. x \in Seq(Nat) /\ y \in Seq(Nat) /\ z \in Seq(Nat)
        BY <1>2
      <4> HIDE DEF x, y, z
      <4>2. x \o y \o z \o <<>> = x \o y \o <<>> \o z
        BY <4>1, PartsJoined
      <4> QED BY <4>2 DEF x, y, z
    <3> QED BY <1>1, <3>3, <3>4, LinesAreAllLines DEF InputInv
  <2> QED BY <2>6, <2>7, <2>8, <2>9 DEF InputInv
<1> QED BY <1>6, <1>7

-----------------------------------------------------------------------------
(* Input: the theorems *)

LEMMA InputInvariance ==
    InputSpec => []InputInv
<1>1. InputInv /\ [InputNext]_inputVars => InputInv'
  <2> SUFFICES ASSUME InputInv, [InputNext]_inputVars PROVE InputInv'
    OBVIOUS
  <2>1. CASE IN_Frame
    BY <2>1, StepOfFrame
  <2>2. CASE Cbuf_Execute
    BY <2>2, StepOfCommands
  <2>3. CASE Com_EventLoop
    BY <2>3, StepOfEvent
  <2>4. CASE PumpEnds
    BY <2>4, StepOfConsole
  <2>5. CASE \E mstate \in SUBSET MouseButtons : IN_MouseEvent(mstate)
    BY <2>5, StepOfMouse
  <2>6. CASE InputLineWndProc
    BY <2>6, StepOfLine
  <2>7. CASE VID_AppActivate \/ MovePad \/ SwitchWindow \/ PumpBegins \/ UNCHANGED inputVars
    BY <2>7, StepsAside
  <2> QED BY <2>1, <2>2, <2>3, <2>4, <2>5, <2>6, <2>7, Zenon DEF InputNext, MainStep
<1> QED BY <1>1, InputStarts, PTL DEF InputSpec

\* The variables have their types: in the queue there are presses and releases of the keys
\* of the three sources, and lines of the console.
THEOREM InputTypeCorrect == InputSpec => []InputTypes
<1>1. InputInv => InputTypes
  BY DEF InputInv
<1> QED BY <1>1, InputInvariance, PTL

\* A key that stays down is one whose source will release it, through overflows of the
\* queue, changes of the focus and of the settings, the plug and restarts of the input,
\* but for the events lost in the queue, at the unplugging and at a restart
\* (gp_release_all, Gamepad_ReleaseMovement, IN_MouseEvent, IN_StartupGamepads).
THEOREM KeysStayDownOnlyHeld == InputSpec => []DownIsHeld
<1>1. InputInv => DownIsHeld
  BY DEF InputInv
<1> QED BY <1>1, InputInvariance, PTL

\* Every line typed into the console window is executed once and in order, for a queue of
\* any length (Com_GetEvent, Com_QueueEvent).
THEOREM LinesExecutedInOrder == InputSpec => []LinesInOrder
<1>1. InputInv => LinesInOrder
  BY DEF InputInv
<1> QED BY <1>1, InputInvariance, PTL
=============================================================================
