------------------------------ MODULE Connection ------------------------------
(***************************************************************************)
(* The connection of the client to a server: cl_main.c.                    *)
(*                                                                         *)
(* clientUIActives.state climbs from CA_UNINITIALIZED over the challenge,  *)
(* the connect request and the gamestate to CA_ACTIVE.  Out of band        *)
(* packets, sequenced packets, console commands, demos and a local server  *)
(* all move it.  An out of band packet carries no session: each handler    *)
(* decides from the state and the sender's address whether to believe it,  *)
(* so a late or repeated packet of an earlier session, or of another       *)
(* server on the same host, is the interesting input.                      *)
(*                                                                         *)
(* So a packet a server can have sent at some time may arrive at any later *)
(* time, any number of times: fresh, late, repeated or never.  The local   *)
(* server's packets alone are never late.                                  *)
(*                                                                         *)
(* Time is left out: a frame in which a retransmit timer has not run out   *)
(* does nothing, and recent says whether lastPacketTime is less than three *)
(* seconds old.  Servers are not in the repository; they answer as the     *)
(* client's requests and handlers expect.  The servers a player has put in *)
(* the filter list, and the updater (autoupdateStarted), only keep         *)
(* CL_CheckForResend from sending.                                         *)
(***************************************************************************)
EXTENDS Integers

CONSTANTS
    Hosts, Ports,       \* a remote server is a host and a port
    XPorts,             \* the ports of servers that answer "xproto"
    NumStatPackets      \* packets the stats are sent in (7)

ASSUME ConnectionAssumption ==
    /\ XPorts \subseteq Ports
    /\ "none" \notin Hosts
    /\ NumStatPackets \in Nat \ {0}

\* connstate_t.
CA_UNINITIALIZED == 0
CA_DISCONNECTED == 1
CA_CHALLENGING == 3
CA_CONNECTING == 4
CA_CONNECTED == 5
CA_STATSSYNC == 6
CA_LOADING == 7
CA_PRIMED == 8
CA_ACTIVE == 9
States == {CA_UNINITIALIZED, CA_DISCONNECTED, CA_CHALLENGING, CA_CONNECTING,
           CA_CONNECTED, CA_STATSSYNC, CA_LOADING, CA_PRIMED, CA_ACTIVE}

Loopback == <<"localhost", "loopback">>
Servers == (Hosts \X Ports) \cup {Loopback}
NoAddress == <<"none", "none">>     \* a zeroed netadr_t
DemoName == <<"demo", "none">>      \* cls.servername while a demo plays

StatPackets == 0 .. NumStatPackets - 1

VARIABLES
    state,              \* clientUIActives.state
    servername,         \* cls.servername
    downloadName,       \* cls.downloadName is not empty
    legacyProtocol,     \* com_legacyProtocol
    reliablemsg,        \* cl_reliablemsg: "null", "set up" or "freed"
    clc,                \* clc, as far as the connection depends on it
    svRunning,          \* com_sv_running
    svChallenged,       \* servers that were asked for a challenge
    svClients           \* servers that have accepted the client

answers == <<svChallenged, svClients>>
servers == <<svRunning, answers>>
vars == <<state, servername, downloadName, legacyProtocol, reliablemsg, clc,
          servers>>

\* clientConnection_t after memset.  challenge is the server that issued it.
\* statPacketSyncState is the set of packets still wanted.  Of the times of
\* statPacketSentTime only the order counts: the packet sent last has
\* NumStatPackets, the ones before it less, 0 is a packet never sent.  recent:
\* lastPacketTime is less than three seconds ago.  emptyAnswer is history: the
\* packets wanted are those of an answer that was not 0 and named none.
NeverSent == [i \in StatPackets |-> 0]

ZeroClc ==
    [serverAddress |-> NoAddress, remoteAddress |-> NoAddress,
     challenge |-> NoAddress, demoplaying |-> FALSE,
     statPacketSyncState |-> {}, statPacketSentTime |-> NeverSent, recent |-> FALSE,
     emptyAnswer |-> FALSE]

Init ==
    /\ state = CA_UNINITIALIZED
    /\ servername = NoAddress
    /\ downloadName = FALSE
    /\ legacyProtocol = FALSE
    /\ reliablemsg = "null"
    /\ clc = ZeroClc
    /\ svRunning = FALSE
    /\ svChallenged = {}
    /\ svClients = {}

-----------------------------------------------------------------------------
\* CL_Disconnect, called alone or at the head of the commands below.

\* clc is zeroed only when the state says there is a connection.
ClcAfterDisconnect == IF state >= CA_CONNECTED THEN ZeroClc ELSE clc

\* ReliableMessageDisconnect, and the NULL that follows it.
FreeStream == reliablemsg' = IF legacyProtocol THEN reliablemsg ELSE "null"

\* A transfer outlives the connection if the server asked the client to
\* disconnect for it (cls.disconnectForWWWdl).
CL_Disconnect ==
    /\ FreeStream
    /\ clc' = ClcAfterDisconnect
    /\ state' = CA_UNINITIALIZED
    /\ downloadName' \in {FALSE, downloadName}

\* The "disconnect" command and Com_Error(ERR_DROP), which also end the
\* local server.
Drop ==
    /\ CL_Disconnect
    /\ svRunning' = FALSE
    /\ UNCHANGED <<servername, legacyProtocol, answers>>

-----------------------------------------------------------------------------
\* What servers send.

\* A packet of the server can arrive.  The local server's come in order and are
\* handled in the frame they are sent in.
Arrives(s) == s = Loopback => svRunning /\ clc.remoteAddress = Loopback

\* The server accepts a connect request that carries its own challenge.  The
\* local one asks for none.
AnswerConnect(s) ==
    svClients' = IF clc.challenge = s \/ s = Loopback THEN svClients \cup {s}
                 ELSE svClients

-----------------------------------------------------------------------------
\* Console commands, demos and the local server.

\* The "disconnect" command.  A server command "w", a broken message and missing
\* files that may not be downloaded end the same way.
CL_Disconnect_f == state # CA_UNINITIALIZED /\ Drop

\* CL_Connect_f when the name resolves.  "connect localhost" kills the local
\* server.
CL_Connect_f(s) ==
    /\ FreeStream
    /\ servername' = s
    /\ downloadName' = FALSE
    /\ svRunning' = (svRunning /\ s # Loopback)
    /\ \/ /\ s # Loopback
          /\ state' = CA_CHALLENGING
          /\ clc' = [ClcAfterDisconnect EXCEPT !.serverAddress = s]
       \/ /\ s = Loopback
          /\ state' = CA_CONNECTING
          /\ clc' = [ClcAfterDisconnect EXCEPT !.serverAddress = s, !.recent = TRUE]
    /\ UNCHANGED <<legacyProtocol, answers>>

\* CL_Connect_f without a player profile: Com_Error after the address is set.
CL_ConnectNoProfile(s) ==
    /\ FreeStream
    /\ servername' = s
    /\ downloadName' = FALSE
    /\ svRunning' = FALSE
    /\ state' = CA_UNINITIALIZED
    /\ clc' = [ClcAfterDisconnect EXCEPT !.serverAddress = s]
    /\ UNCHANGED <<legacyProtocol, answers>>

\* CL_Connect_f when the name does not resolve.
CL_ConnectBadAddress ==
    /\ FreeStream
    /\ servername' = NoAddress
    /\ downloadName' = FALSE
    /\ state' = CA_DISCONNECTED
    /\ clc' = [ClcAfterDisconnect EXCEPT !.serverAddress = NoAddress]
    /\ UNCHANGED <<legacyProtocol, servers>>

\* CL_PlayDemo reads the demo up to the end of its gamestate.  The demo says
\* which protocol its messages are in.
CL_PlayDemo ==
    /\ ~svRunning
    /\ FreeStream
    /\ servername' = DemoName
    /\ downloadName' \in {FALSE, downloadName}
    /\ state' = CA_PRIMED
    /\ clc' = [ClcAfterDisconnect EXCEPT !.demoplaying = TRUE]
    /\ legacyProtocol' \in BOOLEAN
    /\ UNCHANGED servers

\* CL_DemoCompleted: the file is at its end, or broken.
CL_DemoCompleted ==
    /\ clc.demoplaying
    /\ CL_Disconnect
    /\ UNCHANGED <<servername, legacyProtocol, servers>>

\* CL_MapLoading that selects the old protocol before it disconnects.
MapLoadingProtocolFirst ==
    /\ svRunning' = TRUE
    /\ ~(state >= CA_CONNECTED /\ servername = Loopback)
    /\ servername' = Loopback
    /\ downloadName' \in {FALSE, downloadName}
    /\ state' = CA_CONNECTING
    /\ clc' = [ClcAfterDisconnect EXCEPT !.serverAddress = Loopback]
    /\ legacyProtocol' = TRUE /\ AnswerConnect(Loopback)
    /\ UNCHANGED <<reliablemsg, svChallenged>>

\* CL_MapLoading: the local server changes its map, or starts and the client
\* connects to it.  The call of CL_CheckForResend selects the old protocol
\* and sends the request, unless a demo is still marked as playing.
CL_MapLoading ==
    /\ svRunning' = TRUE
    /\ \/ /\ state >= CA_CONNECTED /\ servername = Loopback
          /\ state' = CA_CONNECTED
          /\ UNCHANGED <<servername, downloadName, legacyProtocol, reliablemsg, clc,
                         svClients>>
       \/ /\ ~(state >= CA_CONNECTED /\ servername = Loopback)
          /\ FreeStream
          /\ servername' = Loopback
          /\ downloadName' \in {FALSE, downloadName}
          /\ state' = CA_CONNECTING
          /\ clc' = [ClcAfterDisconnect EXCEPT !.serverAddress = Loopback]
          /\ IF clc'.demoplaying
             THEN UNCHANGED <<legacyProtocol, svClients>>
             ELSE legacyProtocol' = TRUE /\ AnswerConnect(Loopback)
    /\ UNCHANGED svChallenged

-----------------------------------------------------------------------------
\* CL_CheckForResend, once its timer has run out.

\* The wanted packet that was never sent, or sent the longest time ago; -1 if
\* none is wanted.  (One sent in this very millisecond would be left out, but
\* cls.realtime grows in every frame, and a frame asks once.)
CL_GetStatPacketIndex ==
    LET wanted == clc.statPacketSyncState
        time == clc.statPacketSentTime
    IN  IF wanted = {} THEN -1
        ELSE CHOOSE i \in wanted : \A j \in wanted :
               time[i] < time[j] \/ (time[i] = time[j] /\ i <= j)

\* statPacketSentTime[i] = cls.realtime
SentNow(i) ==
    [j \in StatPackets |->
        LET time == clc.statPacketSentTime
        IN  IF j = i THEN NumStatPackets
            ELSE IF time[j] > time[i] THEN time[j] - 1 ELSE time[j]]

\* "getchallenge"
SendChallenge ==
    /\ state = CA_CHALLENGING
    /\ svChallenged' = svChallenged \cup {clc.serverAddress}
    /\ UNCHANGED <<state, legacyProtocol, clc, svClients>>

\* "connect"
SendConnect ==
    /\ state = CA_CONNECTING
    /\ legacyProtocol' = (legacyProtocol \/ clc.serverAddress = Loopback)
    /\ AnswerConnect(clc.serverAddress)
    /\ UNCHANGED <<state, clc, svChallenged>>

\* "stats": only the old protocol sends them this way.  The element before
\* statPacketSentTime is the word that statPacketSyncState is part of: with
\* index -1 the time overwrites it.
SendStats ==
    /\ state = CA_STATSSYNC
    /\ legacyProtocol
    /\ \/ /\ CL_GetStatPacketIndex \in StatPackets
          /\ clc' = [clc EXCEPT !.statPacketSentTime = SentNow(CL_GetStatPacketIndex)]
       \/ /\ CL_GetStatPacketIndex = -1
          /\ \E low \in SUBSET StatPackets : clc' = [clc EXCEPT !.statPacketSyncState = low]
    /\ UNCHANGED <<state, legacyProtocol, answers>>

SkipStats ==
    /\ state = CA_STATSSYNC
    /\ ~legacyProtocol
    /\ state' = CA_LOADING
    /\ UNCHANGED <<legacyProtocol, clc, answers>>

CL_CheckForResend ==
    /\ ~clc.demoplaying
    /\ SendChallenge \/ SendConnect \/ SendStats \/ SkipStats
    /\ UNCHANGED <<servername, downloadName, reliablemsg, svRunning>>

-----------------------------------------------------------------------------
\* CL_ConnectionlessPacket: the handlers of the out of band packets.

\* Only the hosts are compared, not the ports.
NET_CompareBaseAdr(a, b) == a[1] = b[1]

\* CL_ChallengeResponse
CL_ChallengeResponse(s) ==
    /\ s \in svChallenged
    /\ state = CA_CHALLENGING
    /\ NET_CompareBaseAdr(s, clc.serverAddress)
    /\ clc' = [clc EXCEPT !.challenge = s]
    /\ legacyProtocol' = (s[2] \notin XPorts)
    /\ state' = CA_CONNECTING
    /\ UNCHANGED <<servername, downloadName, reliablemsg, servers>>

\* Netchan_Setup, the reliable stream of the extended protocol, and the stats
\* packets to send.
SetUpChannel(s, wanted) ==
    /\ reliablemsg' = CASE ~legacyProtocol -> "set up"
                        [] legacyProtocol /\ reliablemsg = "null" -> "null"
                        [] OTHER -> "freed"
    /\ clc' = [clc EXCEPT !.remoteAddress = s, !.recent = TRUE,
                          !.statPacketSyncState = wanted,
                          !.statPacketSentTime = NeverSent, !.emptyAnswer = FALSE]
    /\ state' = CA_CONNECTED
    /\ UNCHANGED <<servername, downloadName, legacyProtocol, servers>>

ConnectResponseArrives(s) == s \in svClients /\ (s = Loopback => svRunning)

\* CL_ConnectResponse without the test of the address.
ConnectResponseAnyHost(s) ==
    /\ ConnectResponseArrives(s)
    /\ state = CA_CONNECTING
    /\ SetUpChannel(s, StatPackets)

\* CL_ConnectResponse without the tests of the state.
ConnectResponseAnyTime(s) ==
    /\ ConnectResponseArrives(s)
    /\ NET_CompareBaseAdr(s, clc.serverAddress)
    /\ SetUpChannel(s, StatPackets)

\* CL_ConnectResponse
CL_ConnectResponse(s) ==
    /\ ConnectResponseArrives(s)
    /\ state = CA_CONNECTING
    /\ NET_CompareBaseAdr(s, clc.serverAddress)
    /\ SetUpChannel(s, StatPackets)

\* CL_StatsRequest that leaves the mask of the last transfer.
StatsRequestNoReset(s) ==
    /\ s \in svClients /\ Arrives(s)
    /\ NET_CompareBaseAdr(s, clc.serverAddress)
    /\ ~downloadName
    /\ state # CA_STATSSYNC
    /\ state' = CA_STATSSYNC
    /\ clc' = [clc EXCEPT !.recent = TRUE, !.statPacketSentTime = NeverSent]
    /\ UNCHANGED <<servername, downloadName, legacyProtocol, reliablemsg, servers>>

\* CL_StatsRequest
CL_StatsRequest(s) ==
    /\ s \in svClients /\ Arrives(s)
    /\ NET_CompareBaseAdr(s, clc.serverAddress)
    /\ ~downloadName
    /\ state # CA_STATSSYNC
    /\ state' = CA_STATSSYNC
    /\ clc' = [clc EXCEPT !.recent = TRUE, !.statPacketSyncState = StatPackets,
                          !.statPacketSentTime = NeverSent, !.emptyAnswer = FALSE]
    /\ UNCHANGED <<servername, downloadName, legacyProtocol, reliablemsg, servers>>

\* CL_StatsResponse: the bits of the answer name the packets the server lacks.
\* It is compared with 0 before all but the bits of packets are masked out.
CL_StatsResponse(s, missing) ==
    /\ s \in svClients /\ Arrives(s)
    /\ state = CA_STATSSYNC
    /\ NET_CompareBaseAdr(s, clc.serverAddress)
    /\ \E zero \in BOOLEAN :
          /\ zero => missing = {}
          /\ state' = IF zero THEN CA_CONNECTED ELSE state
          /\ clc' = [clc EXCEPT !.recent = TRUE, !.statPacketSyncState = missing,
                                !.emptyAnswer = missing = {} /\ ~zero]
    /\ UNCHANGED <<servername, downloadName, legacyProtocol, reliablemsg, servers>>

\* CL_LoadingNewMapPacket
CL_LoadingNewMapPacket(s) ==
    /\ s \in svClients /\ Arrives(s)
    /\ legacyProtocol
    /\ NET_CompareBaseAdr(s, clc.serverAddress)
    /\ ~downloadName
    /\ state' = CA_CONNECTED
    /\ UNCHANGED <<servername, downloadName, legacyProtocol, reliablemsg, clc, servers>>

\* CL_DisconnectPacket: a server that no longer knows the client.
CL_DisconnectPacket(s) ==
    /\ s \in svClients /\ Arrives(s)
    /\ state >= CA_CHALLENGING
    /\ s = clc.remoteAddress
    /\ ~clc.recent
    /\ Drop

\* CL_ServerErrorPacket: CL_OOBErrorParser always returns 0.
CL_ServerErrorPacket(s) ==
    /\ s \in svChallenged \cup svClients /\ Arrives(s)
    /\ state # CA_UNINITIALIZED
    /\ NET_CompareBaseAdr(s, clc.serverAddress)
    /\ Drop

-----------------------------------------------------------------------------
\* CL_PacketEvent and CL_ReceiveReliableMessages: sequenced packets.

\* Only a packet from the channel's address is read.
FromServer ==
    /\ state >= CA_CONNECTED
    /\ clc.remoteAddress # NoAddress

\* A sequenced packet that only shows that the server is alive.
SequencedPacket ==
    /\ FromServer
    /\ clc' = [clc EXCEPT !.recent = TRUE]
    /\ UNCHANGED <<state, servername, downloadName, legacyProtocol, reliablemsg, servers>>

\* svc_gamestate: CL_ParseGamestate, CL_InitDownloads and, when no file is
\* missing, CL_DownloadsComplete with CL_InitCGame, which ends in CA_PRIMED.
\* On a local server cgame may be running already.
CL_InitDownloads ==
    /\ FromServer
    /\ \/ ~svRunning /\ downloadName' = TRUE /\ state' = CA_CONNECTED
       \/ downloadName' = FALSE /\ state' = CA_PRIMED
       \/ svRunning /\ downloadName' = FALSE /\ state' = CA_LOADING
    /\ clc' = [clc EXCEPT !.recent = TRUE]
    /\ UNCHANGED <<servername, legacyProtocol, reliablemsg, servers>>

\* The last download is complete: the client reports it and waits for another
\* gamestate.
CL_DownloadsComplete ==
    /\ downloadName /\ FromServer
    /\ downloadName' = FALSE
    /\ UNCHANGED <<state, servername, legacyProtocol, reliablemsg, clc, servers>>

\* The local server starts cgame.
CL_InitCGame ==
    /\ svRunning /\ state = CA_LOADING
    /\ state' = CA_PRIMED
    /\ UNCHANGED <<servername, downloadName, legacyProtocol, reliablemsg, clc, servers>>

\* CL_FirstSnapshot: cgame has one, of the server or of a demo.
CL_FirstSnapshot ==
    /\ state = CA_PRIMED
    /\ state' = CA_ACTIVE
    /\ UNCHANGED <<servername, downloadName, legacyProtocol, reliablemsg, clc, servers>>

\* Server command "l": CL_LoadingNewMap, ignored in a demo.
CL_LoadingNewMap ==
    /\ FromServer
    /\ ~clc.demoplaying
    /\ state' = CA_CONNECTED
    /\ clc' = [clc EXCEPT !.recent = TRUE]
    /\ UNCHANGED <<servername, downloadName, legacyProtocol, reliablemsg, servers>>

\* Three seconds pass without a packet.
Silence ==
    /\ clc.recent
    /\ clc' = [clc EXCEPT !.recent = FALSE]
    /\ UNCHANGED <<state, servername, downloadName, legacyProtocol, reliablemsg, servers>>

\* The timeout (sub_46C590).
Timeout ==
    /\ state >= CA_CONNECTED
    /\ ~clc.demoplaying
    /\ ~clc.recent
    /\ Drop

Next ==
    \/ CL_Disconnect_f \/ CL_ConnectBadAddress
    \/ CL_PlayDemo \/ CL_DemoCompleted \/ CL_MapLoading
    \/ CL_CheckForResend
    \/ SequencedPacket \/ CL_InitDownloads \/ CL_DownloadsComplete
    \/ CL_InitCGame \/ CL_FirstSnapshot \/ CL_LoadingNewMap
    \/ Silence \/ Timeout
    \/ \E s \in Servers :
          \/ CL_Connect_f(s) \/ CL_ConnectNoProfile(s)
          \/ CL_ChallengeResponse(s) \/ CL_ConnectResponse(s)
          \/ CL_StatsRequest(s) \/ CL_LoadingNewMapPacket(s)
          \/ CL_DisconnectPacket(s) \/ CL_ServerErrorPacket(s)
          \/ \E missing \in SUBSET StatPackets : CL_StatsResponse(s, missing)

Spec == Init /\ [][Next]_vars

-----------------------------------------------------------------------------
\* Every variable has its type.
Addresses == Servers \cup {NoAddress}

TypeOK ==
    /\ state \in States
    /\ servername \in Addresses \cup {DemoName}
    /\ downloadName \in BOOLEAN /\ legacyProtocol \in BOOLEAN
    /\ reliablemsg \in {"null", "set up", "freed"}
    /\ clc \in [serverAddress : Addresses, remoteAddress : Addresses,
               challenge : Addresses, demoplaying : BOOLEAN,
               statPacketSyncState : SUBSET StatPackets,
               statPacketSentTime : [StatPackets -> 0 .. NumStatPackets],
               recent : BOOLEAN, emptyAnswer : BOOLEAN]
    /\ svRunning \in BOOLEAN
    /\ svChallenged \subseteq Servers
    /\ svClients \subseteq Servers

\* The reliable stream exists exactly as long as a channel of the extended
\* protocol does, and the pointer to it never dangles: whatever order connects,
\* demos, map loads and late packets come in, the protocol is never switched
\* under a live stream (CL_Disconnect frees it only if the protocol is still
\* the extended one, CL_ConnectResponse without resetting the pointer).
StreamFollowsChannel ==
    /\ reliablemsg # "freed"
    /\ (reliablemsg = "set up") = (clc.remoteAddress # NoAddress /\ ~legacyProtocol)

\* The channel belongs to the host the player asked for: no late answer of
\* an earlier attempt sets up a channel to another host.
ChannelToHost ==
    clc.remoteAddress # NoAddress =>
        NET_CompareBaseAdr(clc.remoteAddress, clc.serverAddress)

\* While the client sends its stats there is a packet to send, whichever requests
\* and answers were repeated, late, or meant for an earlier transfer: the index of
\* CL_GetStatPacketIndex is a packet's.  The one exception is a server that answers
\* neither 0 nor a packet (CL_StatsResponse), and it ends with the next request.
StatsPacketToSend ==
    state = CA_STATSSYNC => CL_GetStatPacketIndex \in StatPackets \/ clc.emptyAnswer

\* A demo plays apart from any server: no channel, no stream, and a state from
\* which CL_Disconnect clears the demo.
DemoIsOffline ==
    clc.demoplaying =>
        /\ clc.remoteAddress = NoAddress
        /\ reliablemsg = "null"
        /\ state >= CA_CONNECTED
===============================================================================
