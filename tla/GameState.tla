------------------------------ MODULE GameState ------------------------------
(***************************************************************************)
(* Configuration strings, from the server into the client, into a demo and *)
(* back: cl_main.c.                                                        *)
(*                                                                         *)
(* A game state brings all strings at the start of a map, those with a     *)
(* constant default only where they differ from it; afterwards server      *)
(* commands change one string each, a long one in pieces.  The strings lie *)
(* behind each other in one block of characters, which is built anew when  *)
(* one of them changes; servers of the x-protocol have a second block.     *)
(*                                                                         *)
(* One of them, the system information, sets variables of the client:      *)
(* sv_cheats, sv_pure and, here, one other.                                *)
(*                                                                         *)
(* "record" writes the strings as a game state, then the messages that     *)
(* arrive from the next full snapshot on.  Playing the demo runs the same  *)
(* code on what was written.                                               *)
(*                                                                         *)
(* Commands arrive in order, and a message repeats what was not            *)
(* acknowledged: that is ReliableCommands.  The server is not in the       *)
(* repository.  Entities and players' names are left out, and a map changes *)
(* when all commands before it were executed: from which command the host's *)
(* cgame goes on otherwise can not be read from this code.                 *)
(***************************************************************************)
EXTENDS Cvars, SequencesExt

CONSTANTS
    MaxConfigStrings,   \* MAX_CONFIGSTRINGS (2442), strings of one block
    Capacity,           \* MAX_GAMESTATE_CHARS (0x20000)
    Defaults,           \* constantConfigStrings: index -> text
    Slots,              \* MAX_RELIABLE_COMMANDS (128)
    Characters,         \* those of a string
    PieceLength,        \* characters that fit one command
    BigInfoString,      \* BIG_INFO_STRING (8192)
    Changes,            \* the strings the server sets: <<index, text>>
    Maps,               \* the strings that each map starts with
    SystemVariable,     \* a variable that the system information sets
    Cheating,           \* the system informations with sv_cheats set
    Pure,               \* those with sv_pure set
    ConnectsWith,       \* bound: what it may be when a connection begins
    MaxCommands,        \* bound: server commands
    MaxEntries          \* bound: entries of a demo

Index == 0 .. 2 * MaxConfigStrings - 1

CS_SYSTEMINFO == 1

\* The end of a string, in its block.
End == "end"

ASSUME GameStateAssumption ==
    /\ MaxConfigStrings \in Nat \ {0, 1}
    /\ DOMAIN Defaults \subseteq Index \ {0} \* 0 ends the table
    /\ <<>> \notin {Defaults[i] : i \in DOMAIN Defaults}
    /\ End \notin Characters
    /\ \A d \in DOMAIN Defaults : Defaults[d] \in Seq(Characters)
    /\ \A m \in DOMAIN Maps :
         DOMAIN Maps[m] = Index /\ \A i \in Index : Maps[m][i] \in Seq(Characters)
    /\ \A c \in Changes : c[1] \in Index /\ c[2] \in Seq(Characters)
    /\ SystemVariable \in Names
    /\ Cheating \subseteq Seq(Characters) /\ Pure \subseteq Seq(Characters)
    /\ {Capacity, Slots, PieceLength, BigInfoString} \subseteq Nat \ {0}

VARIABLES
    mode,           \* "menu", "live", "replay", or "over": after an error, or left
    legacy,         \* com_legacyProtocol
    client,         \* clc, cl and cgs
    extGameState,   \* the second block: no part of cl
    bigConfigString, \* bigConfigString of CL_CGameNeedsServerCommand
    sv_pure,        \* the variable of this name, a Boolean
    server,         \* map, the commands before it, the first one not acknowledged, and
                    \* com_sv_running: whether it is this process
    svCommands,     \* all server commands of the connection
    recording,      \* clc.demorecording and clc.demowaiting: "no", "waiting", "yes"
    demo,           \* the entries of the demo file
    position,       \* how many of them were read
    shown,          \* history: the client and its strings when it was left
    stale           \* history: strings of the second block that outlived their game state

gameVars == <<mode, legacy, client, extGameState, bigConfigString, server, svCommands,
              recording, demo, position, shown, stale, sv_pure>>

infoVars == <<cvarVars, sv_pure>>

-----------------------------------------------------------------------------
(* gameState_t *)

EmptyGameState ==
    [stringOffsets |-> [i \in 0 .. MaxConfigStrings - 1 |-> 0],
     stringData |-> [k \in 0 .. Capacity - 1 |-> End],
     dataCount |-> 1]

\* The string at an offset: the characters up to the next end.
StringAt(gs, offset) ==
    LET last == CHOOSE k \in offset .. Capacity :
                    /\ k = Capacity \/ gs.stringData[k] = End
                    /\ \A j \in offset .. k - 1 : gs.stringData[j] # End
    IN  [j \in 1 .. last - offset |-> gs.stringData[offset + j - 1]]

\* A string is put behind the others.
Appended(gs, i, text) ==
    [stringOffsets |-> [gs.stringOffsets EXCEPT ![i] = gs.dataCount],
     stringData |-> [k \in DOMAIN gs.stringData |->
        CASE k \in gs.dataCount .. gs.dataCount + Len(text) - 1 -> text[k - gs.dataCount + 1]
          [] k = gs.dataCount + Len(text) -> End
          [] OTHER -> gs.stringData[k]],
     dataCount |-> gs.dataCount + Len(text) + 1]

\* The block of string i, and its place there.
Block(i) == IF i < MaxConfigStrings THEN client.gameState ELSE extGameState
FirstOf(i) == IF i < MaxConfigStrings THEN 0 ELSE MaxConfigStrings
Place(i) == i - FirstOf(i)

\* CL_GetConfigString: offset 0 holds the empty string.
CL_GetConfigString(i) == StringAt(Block(i), Block(i).stringOffsets[Place(i)])

-----------------------------------------------------------------------------
(* Game states *)

\* Mutant: the new system information is looked at before it is in its place.
SystemInfoBefore(gs) == CL_GetConfigString(CS_SYSTEMINFO)

SystemInfo(gs) == StringAt(gs, gs.stringOffsets[CS_SYSTEMINFO])

\* Cvar_SetCheatState, of the host: what is protected gets its reset value.
Cvar_SetCheatState ==
    [c \in Names |-> IF "cheat" \in cvar[c].flags THEN Dvar_SetVariant(cvar[c], cvar[c].reset, FALSE)
                     ELSE cvar[c]]

\* Cvar_Set: a pair of the system information.
Cvar_Set(vars, t) ==
    {[vars EXCEPT ![SystemVariable] =
        IF @.type = "none" THEN Cvar_RegisterNew("string", {"user"}, t, 0)
        ELSE Dvar_SetVariant(@, x, FALSE)] : x \in Meanings(SystemVariable, t)}

\* Unless the server is this process, with the same variables, every pair of the system
\* information sets one; without sv_cheats the protected ones are reset before, if the
\* client is not active yet.  A demo also sets sv_cheats and clears sv_pure.
CL_SystemInfoChanged(gs, com_sv_running) ==
    LET info == SystemInfo(gs)
        demoplaying == mode = "replay"
        sets == info # <<>> /\ ~ com_sv_running
        resets == ~ demoplaying /\ ~ com_sv_running /\ info \notin Cheating
    IN  /\ \E vars \in {cvar} \cup IF resets THEN {Cvar_SetCheatState} ELSE {} :
               cvar' \in IF sets THEN Cvar_Set(vars, info) ELSE {vars}
        /\ cvar_cheats' = (demoplaying \/ IF sets THEN info \in Cheating ELSE cvar_cheats)
        /\ sv_pure' = (~ demoplaying /\ IF sets THEN info \in Pure ELSE sv_pure)

\* The strings of a game state, and the defaults of those it leaves out.
WithDefaults(strings) ==
    [i \in DOMAIN strings \cup DOMAIN Defaults |->
        IF i \in DOMAIN strings THEN strings[i] ELSE Defaults[i]]

\* These strings, those of one block, in the order of their indices.
Filled(gs, strings, first) ==
    LET after[n \in 0 .. MaxConfigStrings] ==
            IF n = 0 THEN gs
            ELSE IF first + n - 1 \notin DOMAIN strings THEN after[n - 1]
            ELSE Appended(after[n - 1], n - 1, strings[first + n - 1])
    IN  after[MaxConfigStrings]

\* The block has room for all its strings.
HasRoom(gs) == gs.dataCount <= Capacity

\* Strings of the second block that keep an offset of an earlier game state: it names
\* some place among the new strings.
Outliving(strings) ==
    {i \in MaxConfigStrings .. 2 * MaxConfigStrings - 1 :
        /\ extGameState.stringOffsets[Place(i)] # 0
        /\ legacy' \/ i \notin DOMAIN strings}

\* CL_ParseGamestateLegacy and CL_ParseGamestateX, with what the message sets and the
\* number of the last command before it.  CL_ClearState wipes cl, which the second block
\* is not in: there, only strings that are sent are set.  Game states are left out that do
\* not fit: nothing looks at the room for the defaults.
CL_ParseGamestate(map, sequence, sent, local) ==
    LET strings == WithDefaults(sent)
        block == Filled(EmptyGameState, strings, 0)
        ext == Filled([extGameState EXCEPT !.dataCount = 1], strings, MaxConfigStrings)
    IN  /\ HasRoom(block) /\ HasRoom(ext)
        /\ IF DOMAIN sent = {}
           THEN mode' = "over" /\ UNCHANGED <<client, extGameState, infoVars, stale>>
           ELSE /\ client' = [client EXCEPT
                       !.map = map, !.gameState = block,
                       !.serverCommandSequence = sequence, !.serverCommandNum = client.executed]
                /\ CL_SystemInfoChanged(block, local)
                /\ extGameState' = IF legacy' THEN extGameState ELSE ext
                /\ stale' = Outliving(strings)
                /\ mode' = IF mode = "menu" THEN "live" ELSE mode

-----------------------------------------------------------------------------
(* Server commands *)

\* The strings of i's block with s for i, without those that are empty.
Modified(i, s) ==
    LET all == [j \in FirstOf(i) .. FirstOf(i) + MaxConfigStrings - 1 |->
                    IF j = i THEN s ELSE CL_GetConfigString(j)]
    IN  [j \in {j \in DOMAIN all : all[j] # <<>>} |-> all[j]]

\* CL_ConfigstringModified, for the command that cgame executes: the block is built anew.
CL_ConfigstringModified(i, s) ==
    LET block == Filled(EmptyGameState, Modified(i, s), FirstOf(i))
        executed == [client EXCEPT !.executed = @ + 1]
    IN  IF CL_GetConfigString(i) = s
        THEN client' = executed /\ UNCHANGED <<mode, extGameState, infoVars, stale>>
        ELSE IF ~ HasRoom(block)
        THEN mode' = "over" /\ client' = executed /\ UNCHANGED <<extGameState, infoVars, stale>>
        ELSE /\ IF i < MaxConfigStrings
                THEN client' = [executed EXCEPT !.gameState = block] /\ UNCHANGED extGameState
                ELSE client' = executed /\ extGameState' = block
             /\ IF i = CS_SYSTEMINFO THEN CL_SystemInfoChanged(block, server.local) ELSE UNCHANGED infoVars
             /\ stale' = stale \ {i}
             /\ UNCHANGED mode

unchangedByCommand == <<legacy, server, svCommands, recording, demo, position, shown>>

\* The command that cgame asks for next, and what is in its slot.
Asked == client.executed + 1
Command == client.serverCommands[Asked % Slots]

\* Mutant: off by one.
CycledOutLate == Asked < client.serverCommandSequence - Slots

\* The slot was given to a later command.
CycledOut == Asked <= client.serverCommandSequence - Slots

\* One turn of CG_ExecuteNewServerCommands: the newest snapshot has the command.
Executes == mode \in {"live", "replay"} /\ client.executed < client.serverCommandNum

\* The last game state of the demo, and the numbers of the commands
\* that a player of the demo receives.
Recorded ==
    LET at == Max({p \in DOMAIN demo : demo[p].kind = "gamestate"})
        received == UNION {demo[p].first .. demo[p].last :
                        p \in {p \in at .. Len(demo) : demo[p].kind = "message"}}
    IN  [state |-> demo[at], commands |-> {n \in received : n > demo[at].sequence}]

\* A command that can not be had any more ends a connection; a demo goes on without it.
CommandIsLost ==
    /\ Executes /\ CycledOut
    /\ IF mode = "replay"
       THEN /\ client' = [client EXCEPT !.executed = Asked]
            /\ shown' = [shown EXCEPT !.skipped = @ \/ Asked \in Recorded.commands]
            /\ UNCHANGED mode
       ELSE mode' = "over" /\ UNCHANGED <<client, shown>>
    /\ UNCHANGED <<infoVars, legacy, server, svCommands, recording, demo, position, extGameState,
                   bigConfigString, stale>>

\* A slot that was never filled holds the empty text.
CommandIsEmpty ==
    /\ Executes /\ ~ CycledOut /\ Command.cmd = "none"
    /\ client' = [client EXCEPT !.executed = Asked]
    /\ UNCHANGED <<unchangedByCommand, infoVars, mode, extGameState, bigConfigString, stale>>

\* "x": the first piece, after "d" and the index.
FirstPiece ==
    /\ Executes /\ ~ CycledOut /\ Command.cmd = "x"
    /\ bigConfigString' = [index |-> Command.index, text |-> Command.text]
    /\ client' = [client EXCEPT !.executed = Asked]
    /\ UNCHANGED <<unchangedByCommand, infoVars, mode, extGameState, stale>>

\* "y" and "z" append to what is there, whatever it is; with nothing before them the
\* piece's own words are taken for the command.
Pieced == bigConfigString.text \o Command.text
TooLong == Len(Pieced) + (IF Command.cmd = "z" THEN 1 ELSE 0) >= BigInfoString

PieceTooLong ==
    /\ Executes /\ ~ CycledOut /\ Command.cmd \in {"y", "z"} /\ TooLong
    /\ mode' = "over"
    /\ UNCHANGED <<unchangedByCommand, infoVars, client, extGameState, bigConfigString, stale>>

NextPiece ==
    /\ Executes /\ ~ CycledOut /\ Command.cmd = "y" /\ ~ TooLong
    /\ bigConfigString' = [bigConfigString EXCEPT !.text = Pieced]
    /\ client' = [client EXCEPT !.executed = Asked]
    /\ UNCHANGED <<unchangedByCommand, infoVars, mode, extGameState, stale>>

LastPiece ==
    /\ Executes /\ ~ CycledOut /\ Command.cmd = "z" /\ ~ TooLong
    /\ bigConfigString' = [bigConfigString EXCEPT !.text = Pieced]
    /\ IF bigConfigString.index \in Index
       THEN CL_ConfigstringModified(bigConfigString.index, Pieced)
       ELSE \E s \in {<<>>, Pieced} : CL_ConfigstringModified(0, s)
    /\ UNCHANGED unchangedByCommand

\* "d".
WholeString ==
    /\ Executes /\ ~ CycledOut /\ Command.cmd = "d"
    /\ CL_ConfigstringModified(Command.index, Command.text)
    /\ UNCHANGED <<unchangedByCommand, bigConfigString>>

CL_CGameNeedsServerCommand ==
    CommandIsLost \/ CommandIsEmpty \/ FirstPiece \/ PieceTooLong \/ NextPiece \/ LastPiece \/ WholeString

\* CL_ParseCommandString for the commands first .. last, those that were not received
\* before, and the snapshot behind them.
CL_ParseServerMessage(first, last) ==
    LET new == {n \in first .. last : n > client.serverCommandSequence}
        received == Max(new \cup {client.serverCommandSequence})
    IN  client' = [client EXCEPT
            !.serverCommands = [slot \in DOMAIN @ |->
                LET here == {n \in new : n % Slots = slot}
                IN  IF here = {} THEN @[slot] ELSE svCommands[Max(here)]],
            !.serverCommandSequence = received, !.serverCommandNum = received]

-----------------------------------------------------------------------------
(* Demos *)

\* Mutant: only the first block is written.
WrittenFirstBlock(gs, ext) ==
    [i \in {i \in 0 .. MaxConfigStrings - 1 : gs.stringOffsets[i] # 0} |-> StringAt(gs, gs.stringOffsets[i])]

\* CL_Record_WriteGameState writes every string that has an offset.
Written(gs, ext) ==
    LET block(i) == IF i < MaxConfigStrings THEN gs ELSE ext
        offset(i) == block(i).stringOffsets[Place(i)]
    IN  [i \in {i \in Index : offset(i) # 0 /\ (legacy => i < MaxConfigStrings)} |->
            StringAt(block(i), offset(i))]

Protocol == [kind |-> "protocol"]

\* The history part: what cgame had executed, and the defaults that were empty.
GameStateEntry(c, strings, emptied) ==
    [kind |-> "gamestate", map |-> c.map, sequence |-> c.serverCommandSequence,
     strings |-> strings, executed |-> c.executed, emptied |-> emptied]

Message(first, last) == [kind |-> "message", first |-> first, last |-> last]

\* CL_Record_f.  Messages are written from the next full snapshot on.
CL_Record_f ==
    /\ mode = "live" /\ recording = "no" /\ demo = <<>>
    /\ recording' = "waiting"
    /\ demo' = (IF legacy THEN <<>> ELSE <<Protocol>>) \o
               <<GameStateEntry(client, Written(client.gameState, extGameState),
                                {i \in DOMAIN Defaults : CL_GetConfigString(i) = <<>>})>>
    /\ UNCHANGED <<infoVars, mode, legacy, client, extGameState, bigConfigString, server, svCommands,
                   position, shown, stale>>

\* CL_PacketEvent with a message that Netchan_Process lets through: the commands from
\* first on, which the server takes for the first that was not acknowledged.
CL_PacketEvent(first, full) ==
    LET last == Len(svCommands)
        writes == recording = "yes" \/ (recording = "waiting" /\ full)
    IN  /\ mode = "live"
        /\ first \in server.first .. client.serverCommandSequence + 1
        /\ server' = [server EXCEPT !.first = first]
        /\ last - first < Slots
        /\ CL_ParseServerMessage(first, last)
        /\ writes => Len(demo) < MaxEntries
        /\ recording' = IF writes THEN "yes" ELSE recording
        /\ demo' = IF writes THEN Append(demo, Message(first, last)) ELSE demo
        /\ UNCHANGED <<infoVars, mode, legacy, extGameState, bigConfigString, svCommands, position,
                       shown, stale>>

\* What is no part of the game has been zeroed: clc, cl and cgs.
NoClient ==
    [map |-> 0, gameState |-> EmptyGameState, serverCommandSequence |-> 0, serverCommandNum |-> 0,
     serverCommands |-> [slot \in 0 .. Slots - 1 |-> [cmd |-> "none"]], executed |-> 0]

NoServer == [map |-> 0, sequence |-> 0, first |-> 1, local |-> FALSE]

NoBigConfigString == [index |-> -1, text |-> <<>>]

\* CL_PlayDemo, which disconnects, in this process or in a new one.  A server in this
\* process was shut down before.
CL_PlayDemo(newProcess) ==
    /\ mode = "live" /\ demo # <<>>
    /\ mode' = "replay" /\ legacy' = TRUE /\ recording' = "no"
    /\ client' = NoClient
    /\ shown' = [map |-> client.map, executed |-> client.executed,
                 strings |-> [i \in Index |-> CL_GetConfigString(i)], skipped |-> FALSE]
    /\ IF newProcess
       THEN extGameState' = EmptyGameState /\ bigConfigString' = NoBigConfigString
       ELSE UNCHANGED <<extGameState, bigConfigString>>
    /\ stale' = {} /\ server' = NoServer
    /\ UNCHANGED <<infoVars, svCommands, demo, position>>

\* CL_ReadDemoMessage.
CL_ReadDemoMessage ==
    /\ mode = "replay" /\ position < Len(demo)
    /\ position' = position + 1
    /\ LET entry == demo[position + 1]
       IN  CASE entry.kind = "protocol" ->
                  legacy' = FALSE /\ UNCHANGED <<mode, client, extGameState, infoVars, stale>>
             [] entry.kind = "gamestate" ->
                  /\ client.map # 0 => client.executed = entry.sequence
                  /\ UNCHANGED legacy
                  /\ CL_ParseGamestate(entry.map, entry.sequence, entry.strings, FALSE)
             [] entry.kind = "message" ->
                  /\ CL_ParseServerMessage(entry.first, entry.last)
                  /\ UNCHANGED <<mode, legacy, extGameState, infoVars, stale>>
    /\ UNCHANGED <<bigConfigString, server, svCommands, recording, demo, shown>>

-----------------------------------------------------------------------------
(* The server *)

Default(i) == IF i \in DOMAIN Defaults THEN Defaults[i] ELSE <<>>

\* What a game state of map m sets: the strings that differ from their defaults.
Sent(m, isLegacy) ==
    [i \in {i \in Index : Maps[m][i] # Default(i) /\ (isLegacy => i < MaxConfigStrings)} |-> Maps[m][i]]

\* The server starts the next map, and its game state arrives; a recording client writes
\* it as it came, or with the x-protocol as it has it now.
NewMap(isLegacy, local) ==
    LET m == server.map + 1
        sent == Sent(m, isLegacy)
    IN  /\ mode \in {"menu", "live"} /\ m \in DOMAIN Maps
        /\ mode = "menu" => /\ cvar[SystemVariable].type # "enum"
                            /\ cvar[SystemVariable] \in ConnectsWith
        /\ mode = "live" => legacy = isLegacy /\ local = server.local /\ client.executed = Len(svCommands)
        /\ recording = "yes" => Len(demo) < MaxEntries
        /\ legacy' = isLegacy
        /\ server' = [server EXCEPT !.map = m, !.sequence = Len(svCommands), !.local = local]
        /\ CL_ParseGamestate(m, Len(svCommands), sent, local)
        /\ demo' = IF recording = "yes" /\ mode' = "live"
                   THEN Append(demo, GameStateEntry(client',
                            IF isLegacy THEN sent ELSE Written(client'.gameState, extGameState'), {}))
                   ELSE demo
        /\ UNCHANGED <<bigConfigString, svCommands, recording, position, shown>>

\* The commands that set string i to text; value is what it has with this piece.
Commands(i, text) ==
    LET n == (Len(text) + PieceLength - 1) \div PieceLength
        upTo(p) == IF p = n THEN Len(text) ELSE p * PieceLength
    IN  IF n <= 1 THEN <<[cmd |-> "d", index |-> i, text |-> text, value |-> text]>>
        ELSE [p \in 1 .. n |->
                [cmd |-> IF p = 1 THEN "x" ELSE IF p = n THEN "z" ELSE "y", index |-> i,
                 text |-> SubSeq(text, upTo(p - 1) + 1, upTo(p)),
                 value |-> SubSeq(text, 1, upTo(p))]]

\* The server's strings after its first n commands.
ServerString(i, n) ==
    LET set == {k \in server.sequence + 1 .. n :
                    svCommands[k].index = i /\ svCommands[k].cmd \in {"d", "z"}}
    IN  IF set = {} THEN Maps[server.map][i] ELSE svCommands[Max(set)].value

\* The server changes a string.
SV_SetConfigstring(i, text) ==
    /\ mode = "live" /\ (legacy => i < MaxConfigStrings)
    /\ text # ServerString(i, Len(svCommands))
    /\ Len(svCommands \o Commands(i, text)) <= MaxCommands
    /\ svCommands' = svCommands \o Commands(i, text)
    /\ UNCHANGED <<infoVars, mode, legacy, client, extGameState, bigConfigString, server, recording,
                   demo, position, shown, stale>>

-----------------------------------------------------------------------------
GameInit ==
    /\ mode = "menu" /\ legacy = FALSE
    /\ client = NoClient /\ extGameState = EmptyGameState
    /\ bigConfigString = NoBigConfigString
    /\ server = NoServer /\ svCommands = <<>>
    /\ recording = "no" /\ demo = <<>> /\ position = 0
    /\ shown = [map |-> 0, executed |-> 0, strings |-> [i \in Index |-> <<>>],
                 skipped |-> FALSE]
    /\ stale = {} /\ sv_pure = TRUE
    /\ CvarInit

\* Variables are registered and set before a connection.
Variables == mode = "menu" /\ CvarNext /\ UNCHANGED gameVars

GameNext ==
    \/ Variables
    \/ \E isLegacy, local \in BOOLEAN : NewMap(isLegacy, local)
    \/ \E c \in Changes : SV_SetConfigstring(c[1], c[2])
    \/ \E first \in 1 .. MaxCommands + 1, full \in BOOLEAN : CL_PacketEvent(first, full)
    \/ CL_CGameNeedsServerCommand
    \/ CL_Record_f
    \/ \E newProcess \in BOOLEAN : CL_PlayDemo(newProcess)
    \/ CL_ReadDemoMessage

GameSpec == GameInit /\ [][GameNext]_<<gameVars, cvarVars>>

-----------------------------------------------------------------------------
(* Properties *)

\* While connected, the client has the strings that the server had when it had added the
\* commands cgame has executed: defaults are filled in, long strings put together, and
\* a block that was built anew has lost and mixed up nothing.  Not so for strings of the
\* second block that the new game state does not mention (CL_ParseGamestateX).
StringsFollowServer ==
    mode = "live" =>
        \A i \in Index \ stale :
            (legacy => i < MaxConfigStrings) => CL_GetConfigString(i) = ServerString(i, client.executed)

\* Commands executed after the game state was written that the demo does not have: they
\* were received but not executed then, or before the first full snapshot.
Lost == (Recorded.state.executed + 1 .. shown.executed) \ Recorded.commands

\* The demo begins inside a long string: it has a later piece without the one before.
Torn ==
    \E n \in Recorded.commands :
        svCommands[n].cmd \in {"y", "z"} /\ n - 1 \notin Recorded.commands

\* Playing a demo shows, after each command, the strings that were seen when it was
\* recorded: what CL_Record_WriteGameState and the messages bring is what the client had,
\* whatever was in the slots, the buffer for long strings and the second block before.
\* Not so for the strings of commands the demo lacks, defaults that were emptied (they
\* have no offset and are not written), and strings of an earlier game state; nor when more
\* of it was read than the slots hold before cgame went on.
ReplayShowsLive ==
    /\ mode = "replay" /\ client.map # 0
    /\ client.map = shown.map /\ client.executed = shown.executed
    /\ ~ Torn /\ ~ shown.skipped
    => \A i \in Index \ (stale \cup Recorded.state.emptied \cup {svCommands[n].index : n \in Lost}) :
            CL_GetConfigString(i) = shown.strings[i]

\* What the system information says is in force, "at every gamestate, and possibly during
\* gameplay" (CL_SystemInfoChanged), however the variable is protected and whatever was
\* latched, when the server is another process; in a demo too, but for sv_cheats, which is
\* set then, and sv_pure, which is not.
SystemInfoInForce ==
    LET info == CL_GetConfigString(CS_SYSTEMINFO)
        connected == mode = "live" /\ ~ server.local
    IN  /\ (connected \/ mode = "replay") /\ info # <<>> => cvar[SystemVariable].string = info
        /\ connected /\ info # <<>> => cvar_cheats = (info \in Cheating) /\ sv_pure = (info \in Pure)
        /\ mode = "replay" /\ client.map # 0 => cvar_cheats /\ ~ sv_pure
=============================================================================
