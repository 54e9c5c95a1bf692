------------------------------ MODULE ServerList ------------------------------
(***************************************************************************)
(* The server browser's lists: cl_main.c.                                  *)
(*                                                                         *)
(* The list of the community's masters is fetched by a thread of its own   *)
(* (CL_GetServersThread), started by the console command "globalservers";  *)
(* the thread replaces cls.globalServers inside the section of             *)
(* GlobalCriticalSection, whose actions are part of this module's.  The    *)
(* list of the publisher's master (cls.mplayerServers) comes in packets    *)
(* that the main thread adds to it.  In its frames the main thread looks   *)
(* servers up by binary search and takes their answers; while the browser  *)
(* refreshes (ui_main.c) it asks them for their state.                     *)
(*                                                                         *)
(* Left out: times, what a server tells of itself, the filter (an answer   *)
(* here is what the filter lets pass), favourites and servers of the local *)
(* network, which are searched from end to end, and the cache file.        *)
(***************************************************************************)
EXTENDS GlobalCriticalSection, Sequences, SequencesExt

CONSTANTS
    QueryThreads,   \* the threads that may run CL_GetServersThread
    Answers,        \* what a master may answer: sequences of addresses
    MaxServers,     \* MAX_GLOBAL_SERVERS
    MaxPpf,         \* cl_maxppf: questions per frame
    MaxRequests,    \* bound: "globalservers" commands
    MaxPackets,     \* bound: packets of the publisher's master
    OtherCalls      \* how often the other threads enter the section

Adr == UNION {{a[i] : i \in DOMAIN a} : a \in Answers}

ASSUME ServerListAssumption ==
    /\ QueryThreads \subseteq Workers
    /\ \A a \in Answers : a \in Seq(Nat \ {0})
    /\ {MaxServers, MaxPpf} \subseteq Nat \ {0}
    /\ {MaxRequests, MaxPackets, OtherCalls} \subseteq Nat

VARIABLES
    locked,         \* getserversinfo.locked
    body,           \* where each query thread is in CL_GetServersThread
    answer,         \* what it has received
    list,           \* cls.globalServers and cls.mplayerServers
    num,            \* cls.numglobalservers and cls.nummplayerservers
    source,         \* cls.pingUpdateSource
    pingIndex,      \* cls.currentPingServer
    refreshActive,  \* uiMem.serverStatus.refreshActive
    timelimit,      \* timelimit of UI_DoServerRefresh is not 0
    requests, packets, calls,
    notCreated      \* history: Sys_CreateNewThread has failed

sectionVars == <<mainthread_lock, signalled, criticalSection, pc>>
browser == <<refreshActive, timelimit>>
listVars == <<list, num, source, pingIndex, browser>>
threadVars == <<locked, body, answer, notCreated>>
counters == <<requests, packets, calls>>
serverVars == <<sectionVars, listVars, threadVars, counters>>

Source == {"global", "mplayer"}
Bodies == {"none", "query", "purge", "fill", "sort", "filled", "stamp", "stamped", "free"}

-----------------------------------------------------------------------------
(* Lists *)

\* CL_InitServerInfo: no ping known (-1) and no question sent (queryTime 0); the server
\* is asked only while both hold.
ServerInfo(a) == [adr |-> a, toAsk |-> TRUE]

\* CL_FindServerByAddr: binary search in the first n entries of l; 0 when not found.
CL_FindServerByAddr(l, n, a) ==
    LET search[r \in (0..n) \X (0..n)] ==
            LET lo == r[1]  hi == r[2]  mid == (lo + hi) \div 2 + 1
            IN  IF lo >= hi THEN 0
                ELSE IF a > l[mid].adr THEN search[<<mid, hi>>]
                ELSE IF a < l[mid].adr THEN search[<<lo, mid - 1>>] ELSE mid
    IN  search[<<0, n>>]

\* The loop of both responses over the addresses received: a server that the first n
\* entries already have is initialized anew, the others are appended while there is room.
AddServer(l, n, a) ==
    LET k == CL_FindServerByAddr(l, n, a)
    IN  IF Len(l) >= MaxServers THEN l
        ELSE IF k > 0 THEN [l EXCEPT ![k] = ServerInfo(a)]
        ELSE Append(l, ServerInfo(a))

AddServers(l, n, adrs) ==
    LET add[i \in 0..Len(adrs)] == IF i = 0 THEN l ELSE AddServer(add[i - 1], n, adrs[i])
    IN  add[Len(adrs)]

\* Mutant: the list is left as the master sent it.
UnsortedServers(l) == {l}

\* qsort with CL_GlobalServerSortCompare leaves equal addresses in any order.
SortedServers(l) ==
    LET Orders == {p \in [DOMAIN l -> DOMAIN l] :
                    \A i, j \in DOMAIN l : i < j => /\ p[i] # p[j]
                                                  /\ l[p[i]].adr <= l[p[j]].adr}
    IN  {[i \in DOMAIN l |-> l[p[i]]] : p \in Orders}

-----------------------------------------------------------------------------
(* The main thread, in a frame *)

InFrame == pc[Main] = "frame"

\* The thread is created, or Sys_CreateNewThread fails, which nobody looks at.
CreateThread ==
    \/ LET free == {w \in QueryThreads : body[w] = "none"}
       IN  /\ free # {}
           /\ body' = [body EXCEPT ![CHOOSE w \in free : TRUE] = "query"]
           /\ UNCHANGED notCreated
    \/ notCreated' = TRUE /\ UNCHANGED body

\* CL_GlobalServers_f for the community's masters.  CL_MasterServerInit may find none.
CL_GlobalServers_f ==
    /\ InFrame /\ requests < MaxRequests
    /\ requests' = requests + 1
    /\ source' = "global"
    /\ \/ locked /\ UNCHANGED <<locked, body, notCreated>>
       \/ ~locked /\ UNCHANGED <<locked, body, notCreated>>
       \/ ~locked /\ locked' = TRUE /\ CreateThread
    /\ UNCHANGED <<sectionVars, answer, list, num, pingIndex, browser, packets, calls>>

\* CL_GlobalServers_f for the publisher's master: a packet is sent.
CL_MplayerServers_f ==
    /\ InFrame /\ requests < MaxRequests
    /\ requests' = requests + 1
    /\ source' = "mplayer"
    /\ UNCHANGED <<sectionVars, threadVars, list, num, pingIndex, browser, packets, calls>>

\* CL_ServersResponsePacket: the very first one discards what the cache file had.
CL_ServersResponsePacket(adrs) ==
    LET purge == packets = 0 /\ adrs # <<>>
        old == IF purge THEN <<>> ELSE list["mplayer"]
        new == AddServers(old, IF purge THEN 0 ELSE num["mplayer"], adrs)
    IN  /\ InFrame /\ packets < MaxPackets
        /\ packets' = packets + 1
        /\ \E sorted \in SortedServers(new) : list' = [list EXCEPT !["mplayer"] = sorted]
        /\ num' = [num EXCEPT !["mplayer"] = Len(new)]
        /\ pingIndex' = 0
        /\ UNCHANGED <<sectionVars, threadVars, source, browser, requests, calls>>

\* CL_SourceEngineQueryInfoPacket and CL_ServerInfoPacket: the answer is looked up in
\* the list that is being refreshed now.  It may come late (to a question sent before the
\* list was replaced), twice or never.
CL_ServerInfoPacket(a) ==
    LET k == CL_FindServerByAddr(list[source], num[source], a)
    IN  /\ InFrame /\ k > 0
        /\ list' = [list EXCEPT ![source][k].toAsk = FALSE]
        /\ UNCHANGED <<sectionVars, threadVars, num, source, pingIndex, browser, counters>>

-----------------------------------------------------------------------------
(* The browser, which shows the list s (ui_netSource): it may be another one each time *)

\* The servers that the loop of CL_UpdateDirtyPings would still ask, from pingIndex on.
Unasked(s) == {i \in pingIndex + 1 .. num[s] : list[s][i].toAsk}

\* Where the loop stops: after MaxPpf questions or at the end of the list.
StopsAt(s) ==
    IF Cardinality(Unasked(s)) < MaxPpf
    THEN num[s]
    ELSE CHOOSE i \in Unasked(s) : Cardinality({j \in Unasked(s) : j <= i}) = MaxPpf

\* The first servers, up to the one at stop, are sent a question (queryTime is set).
Asked(s, stop) ==
    [list EXCEPT ![s] = [i \in DOMAIN @ |->
        IF i \in Unasked(s) /\ i <= stop THEN [@[i] EXCEPT !.toAsk = FALSE] ELSE @[i]]]


\* CL_UpdateDirtyPings(s) returns more.  It does nothing when the client is not
\* disconnected.  When no server was sent a question it still returns qtrue if one of those
\* it passed was asked a moment ago (or in the first two seconds of the program).
CL_UpdateDirtyPings(s, more) ==
    \/ UNCHANGED <<list, source, pingIndex>> /\ ~more
    \/ /\ source' = s
       /\ \/ num[s] = 0 /\ ~more /\ UNCHANGED <<list, pingIndex>>
          \/ num[s] > 0 /\ pingIndex >= num[s] /\ ~more /\ pingIndex' = 0 /\ UNCHANGED list
          \/ /\ pingIndex < num[s]
             /\ list' = Asked(s, StopsAt(s))
             /\ pingIndex' = StopsAt(s)
             /\ Unasked(s) # {} => more

\* UI_DoServerRefresh, in the frames in which the browser is drawn.  As soon as
\* CL_UpdateDirtyPings returns qfalse it is not called any more: a second later, or when
\* the masters have been waited for long enough, the refresh stops.  A frame that only
\* waits changes nothing.
UI_DoServerRefresh(s) ==
    /\ InFrame /\ refreshActive
    /\ \/ \E more \in BOOLEAN :
             /\ ~timelimit
             /\ CL_UpdateDirtyPings(s, more)
             /\ timelimit' = ~more
             /\ UNCHANGED refreshActive
       \/ /\ timelimit
          /\ refreshActive' = FALSE /\ timelimit' = FALSE
          /\ UNCHANGED <<list, source, pingIndex>>
    /\ UNCHANGED <<sectionVars, threadVars, num, counters>>

\* The list with all servers to be asked again.
LAN_ResetPings(s) ==
    [list EXCEPT ![s] = [i \in DOMAIN @ |-> IF i <= num[s] THEN ServerInfo(@[i].adr) ELSE @[i]]]

\* UI_StartServerRefresh: the menu's "refresh".  A full one also gives the command
\* "globalservers", which comes in a later frame.  A timelimit that is set stays set.
UI_StartServerRefresh(s) ==
    /\ InFrame
    /\ refreshActive' = TRUE
    /\ list' = LAN_ResetPings(s)
    /\ UNCHANGED <<sectionVars, threadVars, num, source, pingIndex, timelimit, counters>>

\* UI_StopServerRefresh, when the menu asks for it.
UI_StopServerRefresh ==
    /\ InFrame /\ refreshActive
    /\ refreshActive' = FALSE
    /\ UNCHANGED <<sectionVars, threadVars, list, num, source, pingIndex, timelimit, counters>>

-----------------------------------------------------------------------------
MainFrame == Com_Frame /\ UNCHANGED <<listVars, threadVars, counters>>

MainSection == (MainCheck \/ MainSetEvent \/ MainWait) /\ UNCHANGED <<listVars, threadVars, counters>>

-----------------------------------------------------------------------------
(* CL_GetServersThread *)

At(w, place) == body[w] = place
GotoBody(w, place) == body' = [body EXCEPT ![w] = place]

\* Mutant: locked stays set when there is no memory.
QueryWithoutMemoryLocked(w) ==
    /\ At(w, "query") /\ pc[w] = "idle"
    /\ GotoBody(w, "none")
    /\ UNCHANGED <<sectionVars, listVars, locked, answer, counters, notCreated>>

\* Z_Malloc fails.
QueryWithoutMemory(w) ==
    /\ At(w, "query") /\ pc[w] = "idle"
    /\ locked' = FALSE
    /\ GotoBody(w, "none")
    /\ UNCHANGED <<sectionVars, listVars, answer, counters, notCreated>>

\* A master answers, or none can be reached, it times out or it answers nonsense.
Query(w) ==
    /\ At(w, "query") /\ pc[w] = "idle"
    /\ \/ \E a \in Answers : answer' = [answer EXCEPT ![w] = a] /\ GotoBody(w, "purge")
       \/ GotoBody(w, "stamp") /\ UNCHANGED answer
    /\ UNCHANGED <<sectionVars, listVars, locked, counters, notCreated>>

\* Sys_EnterGlobalCriticalSection, from both places of the thread.
QueryEnters(w) ==
    /\ body[w] \in {"purge", "stamp"}
    /\ Call(w)
    /\ UNCHANGED <<listVars, threadVars, counters>>

Inside(w) == pc[w] = "section"

\* "Purge the old cached serverlist".
Purge(w) ==
    /\ Inside(w) /\ At(w, "purge")
    /\ list' = [list EXCEPT !["global"] = <<>>]
    /\ num' = [num EXCEPT !["global"] = 0]
    /\ GotoBody(w, "fill")
    /\ UNCHANGED <<sectionVars, source, pingIndex, browser, locked, answer, notCreated, counters>>

\* The new servers are written while cls.numglobalservers is still 0.
Fill(w) ==
    /\ Inside(w) /\ At(w, "fill")
    /\ list' = [list EXCEPT !["global"] = AddServers(@, num["global"], answer[w])]
    /\ GotoBody(w, "sort")
    /\ UNCHANGED <<sectionVars, num, source, pingIndex, browser, locked, answer, notCreated,
                   counters>>

Sort(w) ==
    /\ Inside(w) /\ At(w, "sort")
    /\ \E sorted \in SortedServers(list["global"]) : list' = [list EXCEPT !["global"] = sorted]
    /\ num' = [num EXCEPT !["global"] = Len(list["global"])]
    /\ pingIndex' = 0
    /\ GotoBody(w, "filled")
    /\ UNCHANGED <<sectionVars, source, browser, locked, answer, notCreated, counters>>

\* Mutant: locked is dropped when the list is there, before the stamp.
StampAndUnlock(w) ==
    /\ Inside(w) /\ At(w, "stamp")
    /\ GotoBody(w, "stamped")
    /\ locked' = FALSE
    /\ UNCHANGED <<sectionVars, listVars, answer, notCreated, counters>>

\* cls.globalServerRequestTime = Sys_Milliseconds().
Stamp(w) ==
    /\ Inside(w) /\ At(w, "stamp")
    /\ GotoBody(w, "stamped")
    /\ UNCHANGED <<sectionVars, listVars, locked, answer, notCreated, counters>>

\* Mutant: the section is entered for the stamp without leaving it after the list.
QueryLeavesOnce(w) ==
    /\ \/ At(w, "filled") /\ Inside(w) /\ GotoBody(w, "stamp") /\ Goto(w, "trying")
         /\ UNCHANGED <<mainthread_lock, signalled, criticalSection>>
       \/ At(w, "stamped") /\ DropLock(w) /\ UNCHANGED body
       \/ WorkerSetEvent(w) /\ UNCHANGED body
       \/ LeaveCriticalSection(w) /\ GotoBody(w, "free")
    /\ UNCHANGED <<listVars, locked, answer, notCreated, counters>>

\* Sys_LeaveGlobalCriticalSection, after the list and after the stamp.
QueryLeaves(w) ==
    /\ \/ body[w] \in {"filled", "stamped"} /\ DropLock(w) /\ UNCHANGED body
       \/ WorkerSetEvent(w) /\ UNCHANGED body
       \/ LeaveCriticalSection(w) /\ GotoBody(w, IF At(w, "filled") THEN "stamp" ELSE "free")
    /\ UNCHANGED <<listVars, locked, answer, notCreated, counters>>

QueryWaits(w) ==
    /\ EnterCriticalSection(w) \/ RaiseLock(w) \/ WorkerWait(w)
    /\ UNCHANGED <<listVars, threadVars, counters>>

\* Z_Free, locked = qfalse, return.
Finish(w) ==
    /\ At(w, "free")
    /\ locked' = FALSE
    /\ GotoBody(w, "none")
    /\ UNCHANGED <<sectionVars, listVars, answer, notCreated, counters>>

QueryStep(w) ==
    \/ QueryWithoutMemory(w) \/ Query(w) \/ QueryEnters(w) \/ QueryWaits(w)
    \/ Purge(w) \/ Fill(w) \/ Sort(w) \/ Stamp(w) \/ QueryLeaves(w) \/ Finish(w)

\* The threads that fetch the configuration and the filter.
OtherCall(w) ==
    /\ calls < OtherCalls
    /\ calls' = calls + 1
    /\ Call(w)
    /\ UNCHANGED <<listVars, threadVars, requests, packets>>

OtherStep(w) ==
    /\ EnterCriticalSection(w) \/ WorkerStep(w)
    /\ UNCHANGED <<listVars, threadVars, counters>>

-----------------------------------------------------------------------------
ServersInit ==
    /\ Init
    /\ locked = FALSE /\ notCreated = FALSE
    /\ body = [w \in QueryThreads |-> "none"]
    /\ answer = [w \in QueryThreads |-> <<>>]
    /\ list = [s \in Source |-> <<>>]
    /\ num = [s \in Source |-> 0]
    /\ source = "global"
    /\ pingIndex = 0
    /\ refreshActive = FALSE /\ timelimit = FALSE
    /\ requests = 0 /\ packets = 0 /\ calls = 0

FrameOperation ==
    \/ CL_GlobalServers_f \/ CL_MplayerServers_f
    \/ \E s \in Source : UI_StartServerRefresh(s) \/ UI_DoServerRefresh(s)
    \/ UI_StopServerRefresh
    \/ \E a \in Answers : CL_ServersResponsePacket(a)
    \/ \E a \in Adr : CL_ServerInfoPacket(a)

ServersNext ==
    \/ MainSection \/ MainFrame
    \/ FrameOperation
    \/ \E w \in QueryThreads : QueryStep(w)
    \/ \E w \in Workers \ QueryThreads : OtherCall(w) \/ OtherStep(w)

ServersSpec == ServersInit /\ [][ServersNext]_serverVars

\* The main thread goes on; the browser's menu stays open, so that UI_DoServerRefresh is
\* called in every frame and its waits, all bounded in time, are over at last; threads go on.
FairServersSpec ==
    /\ ServersSpec
    /\ WF_serverVars(MainSection \/ MainFrame)
    /\ SF_serverVars(\E s \in Source : UI_DoServerRefresh(s))
    /\ \A w \in QueryThreads : WF_serverVars(QueryStep(w))
    /\ \A w \in Workers \ QueryThreads : WF_serverVars(OtherStep(w))

-----------------------------------------------------------------------------
(* Properties *)

\* "Preventing 2 querythreads to launch" (getservers_t.locked): two threads never run
\* CL_GetServersThread, which reads the one static getserversinfo, at the same time.
OneQueryThread ==
    \A v, w \in QueryThreads : body[v] # "none" /\ body[w] # "none" => v = w

\* A frame sees only whole lists: every server it has listed is found by its address,
\* although the thread purges, fills and sorts cls.globalServers in several steps and
\* fills it while cls.numglobalservers is 0 (CL_FindServerByAddr).
FrameFindsEveryServer ==
    InFrame => \A s \in Source :
        /\ num[s] = Len(list[s])
        /\ \A i \in 1..num[s] :
             LET k == CL_FindServerByAddr(list[s], num[s], list[s][i].adr)
             IN  k > 0 /\ list[s][k].adr = list[s][i].adr

\* The browser can ask the masters again in the end, unless the thread could not be
\* created (CL_GlobalServers_f leaves locked set then).
QueryEnds == locked ~> (~locked \/ notCreated)

\* The thread uses the section as GlobalCriticalSection says: it enters, twice in
\* CL_GetServersThread, only after it has left.  So what is proved of the section for
\* every set of threads holds here.
ImplementsSection == Spec

=============================================================================
