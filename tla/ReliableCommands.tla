--------------------------- MODULE ReliableCommands ---------------------------
(***************************************************************************)
(* The reliable commands of the game protocol: cl_main.c, cl_netchan.c.    *)
(*                                                                         *)
(* Client and server number the text commands they send each other, keep   *)
(* them in rings of MAX_RELIABLE_COMMANDS and repeat them in every message *)
(* until the other side has acknowledged them.  The text of the last       *)
(* acknowledged command is also the key of the messages: each side reads   *)
(* it from its own ring when it encodes or decodes.                        *)
(*                                                                         *)
(* The messages travel over the Netchan module's channel: some are lost,   *)
(* those that are processed are whole, in order and processed once.  So    *)
(* the channels are sequences here, from which messages disappear.  The    *)
(* part of the key that is sent in clear (serverMessageSequence, serverId) *)
(* and the constant part (challenge) are left out.  Numbers count from the *)
(* last gamestate, which marks a server command sequence.                  *)
(*                                                                         *)
(* The text of the n-th command is n, and 0 is the empty text, so a slot   *)
(* that was overwritten shows.  The server is not in the repository: it is *)
(* modelled from what the client sends it and expects of it.               *)
(***************************************************************************)
EXTENDS Integers, Sequences

CONSTANTS
    MaxReliableCommands,    \* MAX_RELIABLE_COMMANDS (128)
    ServerOutstanding,      \* most commands the server leaves unacknowledged
    MaxClientCommands,      \* bound: client commands
    MaxServerCommands,      \* bound: server commands
    MaxInFlight             \* bound: messages in one direction

ASSUME CommandAssumption ==
    /\ MaxReliableCommands \in Nat \ {0}
    /\ ServerOutstanding \in 0 .. MaxReliableCommands - 1
    /\ MaxClientCommands \in Nat /\ MaxServerCommands \in Nat
    /\ MaxInFlight \in Nat \ {0}

VARIABLES
    state,                  \* "connected", or "dropped" after ERR_DROP
    reliableSequence,       \* clc.reliableSequence
    reliableAcknowledge,    \* clc.reliableAcknowledge
    reliableCommands,       \* clc.reliableCommands
    serverCommandSequence,  \* clc.serverCommandSequence
    serverCommands,         \* clc.serverCommands
    serverCommandNum,       \* serverCommandNum of the newest snapshot
    cgsCommandSequence,     \* cgs.serverCommandSequence
    svSequence,             \* the server's client_t: reliableSequence,
    svAcknowledge,          \* reliableAcknowledge,
    svCommands,             \* reliableCommands,
    lastClientCommand,      \* lastClientCommand and
    lastClientCommandString, \* lastClientCommandString
    toServer, toClient,     \* messages under way
    executedByServer,       \* history: client commands the server executed
    executedByCgame,        \* history: server commands cgame executed
    overwritten             \* history: client commands that lost their slot to a later
                            \* one before they were acknowledged

clientOut == <<reliableSequence, reliableAcknowledge, reliableCommands, overwritten>>
clientIn == <<serverCommandSequence, serverCommands, serverCommandNum>>
cgame == <<cgsCommandSequence, executedByCgame>>
serverOut == <<svSequence, svAcknowledge, svCommands>>
serverIn == <<lastClientCommand, lastClientCommandString, executedByServer>>
vars == <<state, clientOut, clientIn, cgame, serverOut, serverIn, toServer, toClient>>

Slot(i) == i % MaxReliableCommands

Ring == [0 .. MaxReliableCommands - 1 -> Nat]

\* The commands numbered in I, as a ring holds them.
Texts(ring, I) == [i \in I |-> ring[Slot(i)]]

\* The ring after these commands were stored in it, in the order of their numbers.
Stored(ring, commands) ==
    [s \in 0 .. MaxReliableCommands - 1 |->
        LET here == {i \in DOMAIN commands : Slot(i) = s}
        IN  IF here = {} THEN ring[s]
            ELSE commands[CHOOSE i \in here : \A j \in here : j <= i]]

\* A message enters its channel, or is lost when the channel is full.
Sent(channel, m) == IF Len(channel) < MaxInFlight THEN Append(channel, m) ELSE channel

-----------------------------------------------------------------------------
(* The client sends *)

\* Mutant: the command goes to the slot of the number before.
AddedBefore(ring) == [ring EXCEPT ![Slot(reliableSequence)] = reliableSequence + 1]

Added(ring) == [ring EXCEPT ![Slot(reliableSequence + 1)] = reliableSequence + 1]

\* The command that has had the slot of the next one.
Predecessor == reliableSequence + 1 - MaxReliableCommands

\* The test lets one command more into the ring than it has slots.
CL_AddReliableCommand ==
    /\ state = "connected"
    /\ \/ /\ reliableSequence - reliableAcknowledge > MaxReliableCommands
          /\ state' = "dropped"
          /\ UNCHANGED <<reliableSequence, reliableCommands, overwritten>>
       \/ /\ reliableSequence - reliableAcknowledge <= MaxReliableCommands
          /\ reliableSequence < MaxClientCommands
          /\ reliableSequence' = reliableSequence + 1
          /\ reliableCommands' = Added(reliableCommands)
          /\ overwritten' = overwritten \cup
                ({Predecessor} \cap (reliableAcknowledge + 1 .. reliableSequence))
          /\ UNCHANGED state
    /\ UNCHANGED <<reliableAcknowledge, clientIn, cgame, serverOut, serverIn,
                   toServer, toClient>>

\* Mutant: the room kept free for the rest of the packet is all the room there is.
CommandCountsNone == 0 .. reliableSequence - reliableAcknowledge

\* How many commands fit a packet depends on their lengths; the first always does,
\* because the header leaves 2000 of the 0x800 bytes free.
CommandCounts ==
    IF reliableSequence = reliableAcknowledge THEN {0}
    ELSE 1 .. reliableSequence - reliableAcknowledge

\* CL_WritePacket with count commands, encoded by CL_Netchan_Transmit.
CL_WritePacket(count) ==
    /\ state = "connected"
    /\ count \in CommandCounts
    /\ toServer' = Sent(toServer,
           [ack |-> serverCommandSequence,
            key |-> serverCommands[Slot(serverCommandSequence)],
            commands |-> Texts(reliableCommands,
                               reliableAcknowledge + 1 .. reliableAcknowledge + count)])
    /\ UNCHANGED <<state, clientOut, clientIn, cgame, serverOut, serverIn, toClient>>

-----------------------------------------------------------------------------
(* The client receives *)

\* Mutant: one command too early.
TooFarBehindEarly(m) == m.ack <= reliableSequence - MaxReliableCommands

\* More commands follow the acknowledged one than the ring has slots.  Nothing is read
\* of the message then, and all commands count as acknowledged.
TooFarBehind(m) == m.ack < reliableSequence - MaxReliableCommands

\* Mutant: decoded before the acknowledgement is read.
DecodeKeyOld(m) == reliableCommands[Slot(reliableAcknowledge)]

\* The key of CL_Netchan_Decode.
DecodeKey(m) == reliableCommands[Slot(m.ack)]

\* The commands of m that CL_ParseCommandString has not stored before.
NewCommands(m) == {i \in DOMAIN m.commands : i > serverCommandSequence}

\* CL_ParseCommandString, for all commands of m; CL_ParseSnapshot, if m has a valid
\* snapshot, keeps the sequence reached.
ParseCommands(m) ==
    /\ serverCommandSequence' = IF NewCommands(m) = {} THEN serverCommandSequence
                                ELSE CHOOSE i \in NewCommands(m) : \A j \in NewCommands(m) : j <= i
    /\ serverCommands' = Stored(serverCommands, [i \in NewCommands(m) |-> m.commands[i]])
    /\ serverCommandNum' \in {serverCommandNum, serverCommandSequence'}

\* CL_PacketEvent for a message that Netchan_Process has let through.  A message that
\* ends in something CL_ParseServerMessage does not know takes its acknowledgement
\* back, but not its commands.  A message decoded with the wrong key reads as
\* something unknown, or as something that makes the parser drop the connection.
CL_PacketEvent ==
    /\ state = "connected"
    /\ toClient # <<>>
    /\ toClient' = Tail(toClient)
    /\ LET m == Head(toClient)
       IN  CASE TooFarBehind(m) ->
                  /\ reliableAcknowledge' = reliableSequence
                  /\ UNCHANGED <<state, clientIn>>
             [] ~ TooFarBehind(m) /\ DecodeKey(m) # m.key ->
                  /\ state' \in {"connected", "dropped"}
                  /\ UNCHANGED <<reliableAcknowledge, clientIn>>
             [] OTHER ->
                  /\ reliableAcknowledge' = IF m.legible THEN m.ack ELSE reliableAcknowledge
                  /\ ParseCommands(m)
                  /\ UNCHANGED state
    /\ UNCHANGED <<reliableSequence, reliableCommands, overwritten, cgame, serverOut, serverIn,
                   toServer>>

\* cgame has not executed all commands up to its snapshot.
Pending == cgsCommandSequence < serverCommandNum

\* The slot of command n was given to a later one.
CycledOut(n) == n <= serverCommandSequence - MaxReliableCommands

\* One turn of the loop of CG_ExecuteNewServerCommands; the snapshot that cgame
\* transitions to may be older than the newest.
CG_ExecuteNewServerCommands ==
    /\ state = "connected"
    /\ Pending
    /\ LET n == cgsCommandSequence + 1
       IN  /\ cgsCommandSequence' = n
           /\ IF CycledOut(n) \/ n > serverCommandSequence
              THEN state' = "dropped" /\ UNCHANGED executedByCgame
              ELSE /\ executedByCgame' = Append(executedByCgame, serverCommands[Slot(n)])
                   /\ UNCHANGED state
    /\ UNCHANGED <<clientOut, clientIn, serverOut, serverIn, toServer, toClient>>

-----------------------------------------------------------------------------
(* The server, and the network *)

SV_AddServerCommand ==
    /\ svSequence < MaxServerCommands
    /\ svSequence - svAcknowledge < ServerOutstanding
    /\ svSequence' = svSequence + 1
    /\ svCommands' = [svCommands EXCEPT ![Slot(svSequence + 1)] = svSequence + 1]
    /\ UNCHANGED <<state, clientOut, clientIn, cgame, svAcknowledge, serverIn,
                   toServer, toClient>>

\* A message with all commands that wait for acknowledgement; legible is FALSE when
\* it holds something newer than this client.
SV_SendMessage(legible) ==
    /\ toClient' = Sent(toClient,
           [ack |-> lastClientCommand, key |-> lastClientCommandString, legible |-> legible,
            commands |-> Texts(svCommands, svAcknowledge + 1 .. svSequence)])
    /\ UNCHANGED <<state, clientOut, clientIn, cgame, serverOut, serverIn, toServer>>

\* Commands that were executed before are skipped; a gap drops the client.
SV_ExecuteClientMessage ==
    /\ toServer # <<>>
    /\ toServer' = Tail(toServer)
    /\ LET m == Head(toServer)
           new == {i \in DOMAIN m.commands : i > lastClientCommand}
       IN  IF svCommands[Slot(m.ack)] # m.key
           THEN UNCHANGED <<state, svAcknowledge, serverIn>>
           ELSE /\ svAcknowledge' = m.ack
                /\ CASE new = {} -> UNCHANGED <<state, serverIn>>
                     [] new # {} /\ lastClientCommand + 1 \notin new ->
                          state' = "dropped" /\ UNCHANGED serverIn
                     [] OTHER ->
                          LET last == CHOOSE i \in new : \A j \in new : j <= i
                          IN  /\ lastClientCommand' = last
                              /\ lastClientCommandString' = m.commands[last]
                              /\ executedByServer' = executedByServer \o
                                    [i \in 1 .. last - lastClientCommand |->
                                        m.commands[lastClientCommand + i]]
                              /\ UNCHANGED state
    /\ UNCHANGED <<clientOut, clientIn, cgame, svSequence, svCommands, toClient>>

\* The next message of a channel does not arrive.
Lose ==
    /\ \/ toServer # <<>> /\ toServer' = Tail(toServer) /\ UNCHANGED toClient
       \/ toClient # <<>> /\ toClient' = Tail(toClient) /\ UNCHANGED toServer
    /\ UNCHANGED <<state, clientOut, clientIn, cgame, serverOut, serverIn>>

-----------------------------------------------------------------------------
\* Both sides after a new connection's first gamestate.
Init ==
    /\ state = "connected"
    /\ reliableSequence = 0 /\ reliableAcknowledge = 0
    /\ reliableCommands = [s \in 0 .. MaxReliableCommands - 1 |-> 0]
    /\ serverCommandSequence = 0 /\ serverCommandNum = 0
    /\ serverCommands = [s \in 0 .. MaxReliableCommands - 1 |-> 0]
    /\ cgsCommandSequence = 0
    /\ svSequence = 0 /\ svAcknowledge = 0
    /\ svCommands = [s \in 0 .. MaxReliableCommands - 1 |-> 0]
    /\ lastClientCommand = 0 /\ lastClientCommandString = 0
    /\ toServer = <<>> /\ toClient = <<>>
    /\ executedByServer = <<>> /\ executedByCgame = <<>>
    /\ overwritten = {}

Next ==
    \/ CL_AddReliableCommand
    \/ \E count \in 0 .. MaxClientCommands : CL_WritePacket(count)
    \/ CL_PacketEvent
    \/ CG_ExecuteNewServerCommands
    \/ SV_AddServerCommand
    \/ \E legible \in BOOLEAN : SV_SendMessage(legible)
    \/ SV_ExecuteClientMessage
    \/ Lose

Spec == Init /\ [][Next]_vars

\* CL_SendCmd writes packets as long as the connection lasts, Com_EventLoop reads
\* what arrives, the server sends snapshots all the time, and the network does not
\* lose, nor the server make illegible, every message.
Fairness ==
    /\ WF_vars(\E count \in 0 .. MaxClientCommands : CL_WritePacket(count))
    /\ SF_vars(SV_SendMessage(TRUE))
    /\ SF_vars(SV_ExecuteClientMessage)
    /\ WF_vars(CL_PacketEvent)
    /\ SF_vars(toClient # <<>> /\ Head(toClient).legible /\ CL_PacketEvent)

FairSpec == Spec /\ Fairness

-----------------------------------------------------------------------------
(* Properties *)

\* The counters of the two ends are in order: cgame's behind the newest snapshot's, that
\* behind what was received, that behind what was sent (clientConnection_t).
TypeOK ==
    /\ state \in {"connected", "dropped"}
    /\ reliableSequence \in 0 .. MaxClientCommands
    /\ reliableAcknowledge \in 0 .. reliableSequence
    /\ reliableCommands \in Ring
    /\ serverCommandSequence \in 0 .. svSequence
    /\ serverCommands \in Ring
    /\ serverCommandNum \in 0 .. serverCommandSequence
    /\ cgsCommandSequence \in 0 .. serverCommandNum
    /\ svSequence \in 0 .. MaxServerCommands
    /\ svAcknowledge \in 0 .. serverCommandSequence
    /\ svCommands \in Ring
    /\ lastClientCommand \in 0 .. reliableSequence
    /\ lastClientCommandString \in Nat
    /\ Len(toServer) <= MaxInFlight /\ Len(toClient) <= MaxInFlight
    /\ overwritten \subseteq 1 .. reliableSequence - MaxReliableCommands

\* The server executes the client's commands in order, each once and with the text it
\* was given, although every packet repeats all that fit (CL_WritePacket) from slots that
\* are used again.  Only a command that CL_AddReliableCommand has overwritten may come
\* with another text, and it too keeps its place.
ClientCommandsInOrder ==
    /\ Len(executedByServer) = lastClientCommand
    /\ \A i \in DOMAIN executedByServer : executedByServer[i] = i \/ i \in overwritten

\* cgame executes the server's commands in order, each once and with the text it was
\* given, or the connection is dropped: the ring is overwritten behind a cgame that
\* is slow, since a command is acknowledged when it is stored (CL_ParseCommandString,
\* CL_CGameNeedsServerCommand).
ServerCommandsInOrder == \A i \in DOMAIN executedByCgame : executedByCgame[i] = i

\* Both directions (CL_AddReliableCommand, CL_CGameNeedsServerCommand).
CommandsInOrder == ClientCommandsInOrder /\ ServerCommandsInOrder

\* What is under way to the server is decoded with the key it was encoded with, and what
\* is under way to the client too, as long as fewer than MAX_RELIABLE_COMMANDS commands
\* follow the one it acknowledges: however late it is, whichever commands it repeats and
\* whatever was overwritten (CL_Netchan_Decode, CL_Netchan_Encode, CL_AddReliableCommand).
KeysAgree ==
    /\ \A j \in DOMAIN toClient :
          toClient[j].ack > reliableSequence - MaxReliableCommands =>
              DecodeKey(toClient[j]) = toClient[j].key
    /\ \A j \in DOMAIN toServer : svCommands[Slot(toServer[j].ack)] = toServer[j].key

\* reliableAcknowledge is "the last one the server has executed" (client.h) until a
\* command is overwritten: a full ring alone, or late messages that acknowledge old
\* commands, never make the client stop repeating one that the server has not executed,
\* since CL_PacketEvent finds a message too far behind only when one command more is
\* outstanding than the ring holds.
AcknowledgedIsExecuted == overwritten = {} => reliableAcknowledge <= lastClientCommand

\* "if we would be losing an old command that hasn't been acknowledged, we must drop the
\* connection", says the comment in CL_AddReliableCommand.  Its test does so for all but
\* one command: at most one more than the ring holds is outstanding, only then is the
\* oldest one lost, and all others are in their slots.
UnacknowledgedIsKept ==
    /\ reliableSequence - reliableAcknowledge <= MaxReliableCommands + 1
    /\ \A i \in reliableAcknowledge + 1 .. reliableSequence :
          \/ reliableCommands[Slot(i)] = i
          \/ i = reliableAcknowledge + 1
             /\ reliableSequence - reliableAcknowledge = MaxReliableCommands + 1

\* Every client command is executed by the server in the end, if the connection lasts and
\* no command was overwritten, although a packet may have room for only one of them
\* (CL_WritePacket) and the client can not read what acknowledges the command whose slot
\* was used again last.
ClientCommandsArrive ==
    \A n \in 1 .. MaxClientCommands :
        reliableSequence >= n ~>
            lastClientCommand >= n \/ state = "dropped" \/ overwritten # {}
===============================================================================
