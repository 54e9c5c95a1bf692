----------------------------- MODULE Downloads -----------------------------
(***************************************************************************)
(* The download of the files a server references (cl_main.c, from          *)
(* CL_InitDownloads to CL_WWWDownloadStop, with FS_CompareFiles of         *)
(* files.c): block by block from a server of the old protocol, by segments *)
(* and with check sums from a server of the x-protocol, which takes        *)
(* verified segments from the temporary file of an earlier attempt, and    *)
(* from a web server when the game server redirects the client there.      *)
(*                                                                         *)
(* A file is the sequence of its units (a unit stands for a block); a      *)
(* check sum of some units is equal to another exactly when the units are. *)
(* cl holds the fields of cls and the statics of cl_main.c, fs what is on  *)
(* the disk and in the search path.  A handler of the code is an operator  *)
(* from worlds to worlds, a world being the client, its files and the two  *)
(* queues of the connection; the game server, the web server and the user  *)
(* are modelled from how this code uses them.                              *)
(***************************************************************************)
EXTENDS Integers, Sequences, SequencesExt, FiniteSetsExt, Transfers

CONSTANTS
    Iwds,          \* the .iwd files the server references, in its order
    FFs,           \* the fast files it references (of a mod or a user map)
    Size,          \* units of each file
    SegSize,       \* units of a segment (2 MB)
    StaleTemps,    \* what earlier runs may have left in the temporary files
    MaxInFlight,   \* bound on the blocks of a server of the old protocol
    MaxFaults,     \* bound on failures, map changes and lost connections
    None, Nameless, Url    \* the names "", ".tmp" and the address of a redirect

File == Range(Iwds) \cup Range(FFs)
Temp == File \cup {Nameless}

ASSUME DownloadAssumption ==
    /\ Iwds \in Seq(File) /\ FFs \in Seq(File)
    /\ Size \in [File -> Nat \ {0}]
    /\ SegSize \in Nat \ {0}
    /\ {None, Nameless, Url} \cap File = {}

VARIABLES
    legacy,    \* the server speaks the old protocol (Com_IsLegacyServer)
    cl,        \* the client's download state
    fs,        \* its files
    toServer,  \* the client's commands on their way
    toClient,  \* the server's messages on their way
    server,    \* the game server's download of this client
    faults     \* faults so far

vars == <<legacy, cl, fs, toServer, toClient, server, faults>>

Genuine(f) == [i \in 1 .. Size[f] |-> <<f, i>>]
Corrupt == <<None, 0>>    \* a unit that no file of the server has

NoTransfer == [file |-> None]

World == [cl |-> cl, fs |-> fs, out |-> toServer, in |-> toClient]
Becomes(world) ==
    \E w \in {world} :
        /\ cl' = w.cl
        /\ fs' = w.fs
        /\ toServer' = w.out
        /\ toClient' = w.in

-----------------------------------------------------------------------------
(* Sending, closing, disconnecting. *)

\* A client that is not connected sends nothing.
Send(w, m) ==
    IF w.cl.state = "idle" THEN w ELSE [w EXCEPT !.out = Append(@, m)]

\* Mutant: the transfer is freed, the download goes on.
StopTransferOnly(w) == [w EXCEPT !.cl.ft = NoTransfer]
CL_WWWDownloadStop(w) == [w EXCEPT !.cl.inProgress = FALSE, !.cl.ft = NoTransfer]

CL_ClearStaticDownload(w) ==
    CL_WWWDownloadStop(
        [w EXCEPT !.cl = [@ EXCEPT !.restart = FALSE, !.temp = None, !.name = None,
                                   !.wwwName = None, !.www = FALSE, !.bbl8r = FALSE]])

CloseDownload(w) == [w EXCEPT !.cl.handle = None]

CL_Disconnect(w) ==
    LET left == IF w.cl.bbl8r THEN w
                ELSE CL_ClearStaticDownload(CloseDownload(w))
    IN  [left EXCEPT !.cl.remote = None, !.cl.completed = 0, !.cl.state = "idle",
                     !.out = <<>>, !.in = <<>>]

\* Com_Error(ERR_DROP): the host program's error handling disconnects.
Drop(w) == CL_Disconnect(w)

-----------------------------------------------------------------------------
(* Files. *)

Open(w) == [w EXCEPT !.cl.handle = w.cl.temp, !.fs.tmp[w.cl.temp] = <<>>]

\* Without a file open, nothing is written.
Write(w, units) ==
    IF w.cl.handle = None THEN w ELSE [w EXCEPT !.fs.tmp[w.cl.handle] = @ \o units]

\* A temporary file that does not exist is not renamed.
RenameTemp(w, t, f) ==
    IF f \in File /\ t \in Temp /\ w.fs.tmp[t] # <<>>
    THEN [w EXCEPT !.fs.disk[f] = w.fs.tmp[t], !.fs.tmp[t] = <<>>]
    ELSE w

FS_Restart(w) == [w EXCEPT !.fs.loaded = w.fs.disk]

\* The files that are not present, in the server's order.
Missing(files, present) ==
    LET among[n \in 0 .. Len(files)] ==
            IF n = 0 THEN <<>>
            ELSE IF files[n] \in present THEN among[n - 1]
            ELSE Append(among[n - 1], files[n])
    IN  among[Len(files)]

\* An .iwd file is looked for in the search path, by its check sum.
FS_ComparePaks(d) == Missing(Iwds, {f \in File : d.loaded[f] = Genuine(f)})
\* A fast file is looked for on the disk, by its size.
FS_CompareFFs(d) == Missing(FFs, {f \in File : Len(d.disk[f]) = Size[f]})
FS_CompareFiles(d) == FS_ComparePaks(d) \o FS_CompareFFs(d)

-----------------------------------------------------------------------------
(* Which file comes next. *)

CL_BeginDownload(w, local, remote) ==
    Send([w EXCEPT !.cl = [@ EXCEPT !.name = local, !.remote = remote,
                                    !.temp = IF local = None THEN Nameless ELSE local,
                                    !.block = 0, !.count = 0]],
         [cmd |-> "begin", file |-> remote])

CL_DownloadsComplete(w) ==
    IF w.cl.restart
    THEN LET restarted == FS_Restart([w EXCEPT !.cl.restart = FALSE, !.cl.completed = 0])
         IN  CL_ClearStaticDownload(
                 IF w.cl.bbl8r THEN restarted ELSE Send(restarted, [cmd |-> "done"]))
    ELSE [w EXCEPT !.cl.state = "loading"]

CL_NextDownload(w) ==
    IF w.cl.list = <<>>
    THEN CL_DownloadsComplete(w)
    ELSE LET f == Head(w.cl.list)
         IN  [CL_BeginDownload(w, f, f) EXCEPT !.cl.restart = TRUE, !.cl.list = Tail(@)]

\* Mutant: the file that failed is passed over too.
SkipTheFailedFile(w) ==
    IF legacy THEN w
    ELSE [w EXCEPT !.cl.list = SubSeq(@, w.cl.completed + 2, Len(@))]

CL_SkipAlreadyDownloadedFiles(w) ==
    IF legacy THEN w
    ELSE [w EXCEPT !.cl.list = SubSeq(@, w.cl.completed + 1, Len(@))]

\* allow is cl_allowDownload, which the user sets.
CL_InitDownloads(w, allow) ==
    LET clear  == CL_ClearStaticDownload(w)
        needed == FS_CompareFiles(w.fs)
    IN  IF needed = <<>> THEN CL_DownloadsComplete([clear EXCEPT !.cl.list = <<>>])
        ELSE IF allow
        THEN CL_NextDownload(CL_SkipAlreadyDownloadedFiles(
                 [clear EXCEPT !.cl.list = needed, !.cl.state = "connected"]))
        ELSE Drop(clear)

\* The end of CL_ParseGamestateX and CL_ParseGamestateLegacy; fresh says that
\* FS_NeedRestart finds another checksumFeed.
CL_ParseGamestate(w, fresh, allow) ==
    CL_InitDownloads(
        IF fresh
        THEN [FS_Restart(w) EXCEPT !.cl.completed = IF legacy THEN @ ELSE 0]
        ELSE w,
        allow)

-----------------------------------------------------------------------------
(* Blocks from a server of the old protocol. *)

CL_ParseDownloadBlock(w) ==
    LET opened == IF w.cl.handle = None THEN Open(w) ELSE w
    IN  Send([opened EXCEPT !.cl.block = @ + 1], [cmd |-> "nextdl", n |-> w.cl.block])

\* The zero-length block: the file is complete.
EndOfFile(w) ==
    LET installed == RenameTemp(CloseDownload(w), w.cl.temp, w.cl.name)
    IN  CL_NextDownload([installed EXCEPT !.cl.temp = None, !.cl.name = None,
                                          !.cl.remote = None])

CL_ParseDownload(w, m) ==
    IF m.n # w.cl.block
    THEN IF m.n > w.cl.block THEN Send(w, [cmd |-> "retransdl", n |-> w.cl.block]) ELSE w
    ELSE IF w.cl.handle = None /\ w.cl.temp = None
    THEN Send(w, [cmd |-> "stopdl"])
    ELSE LET taken == Write(CL_ParseDownloadBlock(w), m.units)
         IN  IF m.units = <<>> THEN EndOfFile(taken)
             ELSE [taken EXCEPT !.cl.count = @ + Len(m.units)]

-----------------------------------------------------------------------------
(* Segments from a server of the x-protocol. *)

\* Segment k of the cache file, counted from the end of what was downloaded.
CacheHas(w, k) == Len(w.fs.cache[w.cl.temp]) >= w.cl.count + k * SegSize
CacheGood(w, k) ==
    LET from == w.cl.count + (k - 1) * SegSize
        segment(s) == SubSeq(s, from + 1, from + SegSize)
    IN  /\ CacheHas(w, k)
        /\ from + SegSize <= Size[w.cl.chksum]
        /\ segment(w.fs.cache[w.cl.temp]) = segment(Genuine(w.cl.chksum))

\* The segments CL_DownloadGetNextSegment copies before one is bad or missing.
FromCache(w) ==
    IF w.cl.cacheEOF THEN 0
    ELSE Max({k \in 0 .. Len(w.fs.cache[w.cl.temp]) : \A j \in 1 .. k : CacheGood(w, j)})

CL_DownloadRequestSegments(w, n) ==
    Send(w, [cmd |-> "request", from |-> w.cl.count, n |-> n])

\* The client after it, and whether it is done.
CL_DownloadGetNextSegment(w) ==
    LET k      == FromCache(w)
        copied == [Write(w, SubSeq(w.fs.cache[w.cl.temp], w.cl.count + 1,
                                   w.cl.count + k * SegSize))
                      EXCEPT !.cl.count = @ + k * SegSize]
        bad    == ~w.cl.cacheEOF /\ CacheHas(w, k + 1)
        rest   == w.cl.size - copied.cl.count
        atEOF  == [copied EXCEPT !.cl.cacheEOF = TRUE]
    IN  IF w.cl.size = w.cl.count THEN [w |-> w, done |-> TRUE]
        ELSE IF bad
        THEN [w |-> CL_DownloadRequestSegments(copied, SegSize), done |-> FALSE]
        ELSE IF rest > 0
        THEN [w |-> CL_DownloadRequestSegments(atEOF, rest), done |-> FALSE]
        ELSE [w |-> atEOF, done |-> TRUE]

\* 1 = finished, 0 = not finished, -1 = to be started again.
CL_RequestAndReadDownload(w) ==
    LET next == CL_DownloadGetNextSegment(w)
    IN  [w |-> next.w,
         r |-> IF next.w.cl.count # w.cl.size THEN 0 ELSE IF next.done THEN 1 ELSE -1]

\* Mutant: only the length is compared.
VerifyLength(w) == Len(w.fs.tmp[w.cl.temp]) = Size[w.cl.chksum]
CL_VerifyFinal(w) == w.fs.tmp[w.cl.temp] = Genuine(w.cl.chksum)
Unreadable(w) == w.fs.tmp[w.cl.temp] = <<>>

BeginAgain(w) == CL_BeginDownload(w, w.cl.name, w.cl.remote)

\* A file that is not what the check sum says.
Corrupted(w, again) == IF again THEN BeginAgain(w) ELSE Drop(w)

\* What FILEINIT and SERVERDL do after CL_RequestAndReadDownload: SERVERDL begins a
\* corrupted file again.
Proceed(step, again) ==
    LET closed == CloseDownload(step.w)
        whole  == [closed EXCEPT !.fs.cache[step.w.cl.temp] = <<>>]
    IN  CASE step.r = 0 -> step.w
          [] step.r = -1 -> Corrupted(closed, again)
          [] step.r = 1 /\ Unreadable(whole) -> Drop(whole)
          [] step.r = 1 /\ ~Unreadable(whole) /\ CL_VerifyFinal(whole) ->
                 CL_NextDownload([RenameTemp(whole, whole.cl.temp, whole.cl.name)
                                     EXCEPT !.cl.completed = @ + 1])
          [] OTHER -> Corrupted(whole, again)

\* The temporary file becomes the cache file.
FileInit(w, f) ==
    IF w.cl.name # f THEN Drop([w EXCEPT !.cl.chksum = f])
    ELSE IF w.cl.handle # None THEN Drop(CloseDownload([w EXCEPT !.cl.chksum = f]))
    ELSE LET t == w.cl.temp
             cached == Open([w EXCEPT !.cl.chksum = f, !.fs.cache[t] = w.fs.tmp[t]])
         IN  Proceed(CL_RequestAndReadDownload(
                         [cached EXCEPT !.cl.size = Size[f], !.cl.cacheEOF = FALSE]),
                     FALSE)

ServerDl(w, m) ==
    IF w.cl.handle = None THEN Drop(w)
    ELSE IF m.from # w.cl.count \/ m.from + Len(m.units) > w.cl.size
    THEN Drop(CloseDownload(w))
    ELSE IF m.units # <<>>
    THEN [Write(w, m.units) EXCEPT !.cl.count = @ + Len(m.units)]
    ELSE Proceed(CL_RequestAndReadDownload(w), TRUE)

-----------------------------------------------------------------------------
(* Redirected downloads. *)

CL_ReportWWWDLFail(w) == Send(w, [cmd |-> "wwwfail"])

\* reachable says that CL_WWWBeginDownload finds the web server.
CL_ParseWWWDownload(w, m, reachable) ==
    LET named == [w EXCEPT !.cl.wwwName = w.cl.name, !.cl.name = Url,
                           !.cl.size = m.size, !.cl.www = TRUE]
        acked == IF legacy THEN Send(named, [cmd |-> "wwwack"]) ELSE named
        begun == [acked EXCEPT !.cl.ft = Transfer(m.file, w.cl.count),
                               !.cl.remote = Url, !.cl.head = FALSE, !.cl.inProgress = TRUE]
    IN  IF ~reachable
        THEN CloseDownload([CL_WWWDownloadStop(CL_ReportWWWDLFail(acked))
                               EXCEPT !.cl.www = FALSE])
        ELSE IF m.later
        THEN [Send(begun, [cmd |-> "wwwbbl8r"]) EXCEPT !.cl.bbl8r = TRUE]
        ELSE begun

\* The first look at an active transfer: unless the server continues the file, it
\* is written anew.
CheckHead(w) ==
    IF ~w.cl.ft.active \/ w.cl.head THEN w
    ELSE LET kept == IF w.cl.ft.code # 206 THEN CloseDownload(w) ELSE w
         IN  [(IF kept.cl.handle = None THEN Open(kept) ELSE kept) EXCEPT !.cl.head = TRUE]

\* The file on the web server is not the one announced.
SizeMismatch(w) ==
    \/ w.cl.ft.total # 0 /\ w.cl.ft.total # w.cl.size
    \/ w.cl.ft.total # 0 /\ w.cl.ft.code = 206 /\ w.cl.ft.from # w.cl.count

Flush(w) == [Write(w, w.cl.ft.buf) EXCEPT !.cl.ft.buf = <<>>]

\* One call with the transfer in state st (0 under way, 1 finished, -1 failed);
\* large says that the buffer is large enough to be written out.
CL_WWWDownloadLoop(w, st, large) ==
    LET seen == CheckHead(w)
    IN  CASE w.cl.ft = NoTransfer -> [w |-> w, status |-> -1]
          [] w.cl.ft # NoTransfer /\ st = 0 ->
                 IF ~w.cl.ft.active THEN [w |-> seen, status |-> 0]
                 ELSE IF SizeMismatch(seen) THEN [w |-> seen, status |-> -1]
                 ELSE [w |-> IF large THEN Flush(seen) ELSE seen, status |-> 0]
          [] w.cl.ft # NoTransfer /\ st = 1 /\ w.cl.ft.code \in {200, 206} ->
                 [w |-> [CloseDownload(Flush(seen)) EXCEPT !.cl.ft = NoTransfer],
                  status |-> 1]
          [] OTHER -> [w |-> seen, status |-> -1]

\* Mutant: a download that failed is counted.
WWWFailedCounted(w) ==
    IF w.cl.bbl8r THEN Drop(CL_ClearStaticDownload(w))
    ELSE [CL_WWWDownloadStop(CL_ReportWWWDLFail(w))
             EXCEPT !.cl.www = FALSE, !.cl.completed = @ + 1]

WWWFailed(w) ==
    IF w.cl.bbl8r THEN Drop(CL_ClearStaticDownload(w))
    ELSE [CL_WWWDownloadStop(CL_ReportWWWDLFail(w)) EXCEPT !.cl.www = FALSE]

ClearNames(w) == [w EXCEPT !.cl.name = None, !.cl.temp = None, !.cl.remote = None]

\* The command "reconnect" is left in the command buffer, see Reconnect.
WWWFinished(w) ==
    LET named == ClearNames(RenameTemp(w, w.cl.temp, w.cl.wwwName))
        told  == IF w.cl.bbl8r THEN [named EXCEPT !.cl.reconnect = TRUE]
                 ELSE Send(named, [cmd |-> "wwwdone"])
    IN  CL_NextDownload([CL_WWWDownloadStop(told)
                            EXCEPT !.cl.www = FALSE, !.cl.completed = @ + 1])

\* The names are cleared before the download is begun again.
WWWCorrupted(w) == BeginAgain(ClearNames(w))

CL_WWWDownload(w, st, large) ==
    LET loop   == CL_WWWDownloadLoop(w, st, large)
        closed == CloseDownload(loop.w)
    IN  CASE loop.status = 0 -> loop.w
          [] loop.status = -1 -> WWWFailed(closed)
          [] loop.status = 1 /\ legacy -> WWWFinished(closed)
          [] loop.status = 1 /\ ~legacy /\ Unreadable(closed) -> Drop(closed)
          [] loop.status = 1 /\ ~legacy /\ ~Unreadable(closed) /\ CL_VerifyFinal(closed) ->
                 WWWFinished(closed)
          [] OTHER -> WWWCorrupted(closed)

-----------------------------------------------------------------------------
(* The client's steps. *)

\* CL_ParseServerMessage and CL_ExecuteReliableMessage for one message.  What the
\* client said before it had the game state of a new map, the server ignores.
ReceiveMessage ==
    /\ toClient # <<>>
    /\ LET m == Head(toClient)
           w == [World EXCEPT !.in = Tail(@)]
       IN  \/ /\ m.type = "gamestate"
              /\ \E allow \in BOOLEAN :
                     Becomes(CL_ParseGamestate([w EXCEPT !.out = IF m.fresh THEN <<>> ELSE @],
                                               m.fresh, allow))
           \/ /\ m.type = "block"
              /\ Becomes(CL_ParseDownload(w, m))
           \/ /\ m.type = "fileinit"
              /\ Becomes(FileInit(w, m.file))
           \/ /\ m.type = "serverdl"
              /\ Becomes(ServerDl(w, m))
           \/ /\ m.type = "redirect" /\ w.cl.www
              /\ Becomes(w)
           \/ /\ m.type = "redirect" /\ ~w.cl.www
              /\ \E reachable \in BOOLEAN : Becomes(CL_ParseWWWDownload(w, m, reachable))
           \/ /\ m.type \in {"fail", "disconnect"}
              /\ Becomes(Drop(w))
    /\ UNCHANGED <<legacy, server, faults>>

\* The web server's copy is the file, or another, or it is read with what stands before,
\* or with another length.
WebCopies(ft) ==
    LET f == ft.file
    IN  {[size |-> Len(s), body |-> s] :
            s \in {Genuine(f), [Genuine(f) EXCEPT ![1] = Corrupt], Append(Genuine(f), Corrupt)}}
        \cup {[size |-> Size[f], body |-> InsertAt(Genuine(f), n + 1, Corrupt)] :
                  n \in {0, ft.from}}
        \cup {[size |-> n, body |-> Genuine(f)] : n \in 0 .. Size[f] + 1}

Mistold(ft) == ft.active /\ ft.code # 404 /\ ft.total # Size[ft.file]

\* The faults of a call: it fails, the answer is no file, a wrong one, one whose length
\* is told wrong or not at all, or it ends early.
Faults(ft, step) ==
    IF ft = NoTransfer THEN 0
    ELSE Cardinality({f \in {"failed", "missing", "wrong", "untold", "cut"} :
             \/ f = "failed" /\ step.st = -1
             \/ f = "missing" /\ ft.code = 0 /\ step.ft.code = 404
             \/ f = "wrong" /\ ft.code = 0
                 /\ (Corrupt \in Range(step.ft.buf \o step.ft.left) \/ Mistold(step.ft))
             \/ f = "untold" /\ step.st = 1 /\ ~step.ft.active
             \/ f = "cut" /\ step.st = 1 /\ ~step.ft.active /\ step.ft.left # <<>>})

TransferSteps(ft) ==
    IF ft = NoTransfer THEN {[ft |-> ft, st |-> -1]}
    ELSE FileDownloadSendReceive(ft, WebCopies(ft))

\* The part of CL_Frame that carries on a redirected download.
Frame ==
    /\ cl.inProgress
    /\ \E step \in TransferSteps(cl.ft), large \in BOOLEAN :
           /\ faults' = faults + Faults(cl.ft, step)
           /\ faults' <= MaxFaults
           /\ Becomes(CL_WWWDownload([World EXCEPT !.cl.ft = step.ft], step.st, large))
    /\ UNCHANGED <<legacy, server>>

\* CL_Connect_f, until the server's first message.
Connect(w) ==
    [CL_Disconnect(w) EXCEPT
        !.cl.state = "waiting", !.cl.reconnect = FALSE,
        !.in = <<[type |-> "gamestate", fresh |-> TRUE]>>]

NewServer == [file |-> None, ack |-> 0, fallback |-> FALSE]

\* The "reconnect" of a download that went on without the server.
Reconnect ==
    /\ cl.reconnect
    /\ Becomes(Connect(World))
    /\ server' = NewServer
    /\ UNCHANGED <<legacy, faults>>

\* The user connects, again.
UserConnect ==
    /\ cl.state = "idle"
    /\ faults < MaxFaults
    /\ faults' = faults + 1
    /\ Becomes(Connect(World))
    /\ server' = NewServer
    /\ UNCHANGED legacy

\* The connection is lost, or the user leaves.
LoseConnection ==
    /\ cl.state # "idle"
    /\ faults < MaxFaults
    /\ faults' = faults + 1
    /\ Becomes(CL_Disconnect(World))
    /\ UNCHANGED <<legacy, server>>

-----------------------------------------------------------------------------
(* The game server. *)

Answer(messages) == toClient' = toClient \o messages

Segment(f, from, n) ==
    LET last == IF from + n < Size[f] THEN from + n ELSE Size[f]
    IN  [i \in 1 .. last - from |->
            [type |-> "serverdl", from |-> from + i - 1, units |-> <<<<f, from + i>>>>]]
        \o <<[type |-> "serverdl", from |-> last, units |-> <<>>]>>

Redirect(f, later) ==
    [type |-> "redirect", file |-> f, size |-> Size[f], later |-> later]
Resend == [type |-> "gamestate", fresh |-> FALSE]

\* A server of the x-protocol executes a command.  It redirects, or not, when
\* segments of a file it has are asked for, and never again after a redirect failed.
ExecuteX(m) ==
    LET f == server.file
    IN  \/ /\ m.cmd = "begin" /\ m.file \in File
           /\ server' = [server EXCEPT !.file = m.file]
           /\ Answer(<<[type |-> "fileinit", file |-> m.file]>>)
        \/ /\ m.cmd = "begin" /\ m.file \notin File
           /\ UNCHANGED server
           /\ \/ Answer(<<>>)
              \/ Answer(<<[type |-> "fail"]>>)
        \/ /\ m.cmd = "request" /\ f \in File /\ m.from \in 0 .. Size[f] /\ m.n \in Nat
           /\ UNCHANGED server
           /\ \/ Answer(Segment(f, m.from, m.n))
              \/ /\ ~server.fallback
                 /\ \E later \in BOOLEAN : Answer(<<Redirect(f, later)>>)
        \/ /\ m.cmd = "request" /\ ~(f \in File /\ m.from \in 0 .. Size[f] /\ m.n \in Nat)
           /\ UNCHANGED server
           /\ Answer(<<>>)
        \/ /\ m.cmd = "done"
           /\ server' = [server EXCEPT !.file = None]
           /\ Answer(<<Resend>>)
        \/ /\ m.cmd = "wwwfail"
           /\ server' = [server EXCEPT !.file = None, !.fallback = TRUE]
           /\ Answer(<<Resend>>)
        \/ /\ m.cmd = "wwwdone"
           /\ server' = [server EXCEPT !.file = None]
           /\ Answer(<<>>)
        \/ /\ m.cmd = "wwwbbl8r"
           /\ UNCHANGED server
           /\ Answer(<<[type |-> "disconnect"]>>)

\* A server of the old protocol.
ExecuteLegacy(m) ==
    \/ /\ m.cmd = "begin"
       /\ \/ /\ server' = [server EXCEPT !.file = m.file, !.ack = 0]
             /\ Answer(<<>>)
          \/ /\ ~server.fallback
             /\ \E later \in BOOLEAN : Answer(<<Redirect(m.file, later)>>)
             /\ server' = [server EXCEPT !.file = None]
    \/ /\ m.cmd = "nextdl"
       /\ server' = IF server.file = None \/ m.n # server.ack THEN server
                    ELSE IF m.n = Size[server.file] THEN [server EXCEPT !.file = None]
                    ELSE [server EXCEPT !.ack = m.n + 1]
       /\ Answer(<<>>)
    \/ /\ m.cmd \in {"retransdl", "wwwack"}
       /\ UNCHANGED server
       /\ Answer(<<>>)
    \/ /\ m.cmd \in {"stopdl", "wwwdone"}
       /\ server' = [server EXCEPT !.file = None]
       /\ Answer(<<>>)
    \/ /\ m.cmd = "wwwbbl8r"
       /\ UNCHANGED server
       /\ Answer(<<[type |-> "disconnect"]>>)
    \/ /\ m.cmd \in {"done", "wwwfail"}
       /\ server' = [server EXCEPT !.file = None,
                                   !.fallback = @ \/ m.cmd = "wwwfail"]
       /\ Answer(<<Resend>>)

ServerExecute ==
    /\ toServer # <<>>
    /\ \A i \in DOMAIN toClient : toClient[i].type = "gamestate" => ~toClient[i].fresh
    /\ toServer' = Tail(toServer)
    /\ IF legacy THEN ExecuteLegacy(Head(toServer)) ELSE ExecuteX(Head(toServer))
    /\ UNCHANGED <<legacy, cl, fs, faults>>

\* Blocks are sent ahead of their acknowledgement, get lost and are sent again; the
\* server waits long enough not to send one again while its acknowledgement is on
\* the way, for a block does not say which file it is of.
Acknowledged(n) ==
    \E i \in DOMAIN toServer : toServer[i].cmd = "nextdl" /\ toServer[i].n >= n
ServerSendBlock ==
    /\ legacy
    /\ server.file # None
    /\ Len(toClient) + Len(toServer) < MaxInFlight
    /\ \E n \in {server.ack, server.ack + 1} :
           /\ n <= Size[server.file]
           /\ ~Acknowledged(n)
           /\ Answer(<<[type |-> "block", n |-> n,
                        units |-> IF n = Size[server.file] THEN <<>>
                                  ELSE <<<<server.file, n + 1>>>>]>>)
    /\ UNCHANGED <<legacy, cl, fs, toServer, server, faults>>

LoseBlock ==
    /\ toClient # <<>>
    /\ Head(toClient).type = "block"
    /\ toClient' = Tail(toClient)
    /\ UNCHANGED <<legacy, cl, fs, toServer, server, faults>>

\* The server starts another map: a new game state, with another checksumFeed.
MapChange ==
    /\ cl.state \in {"connected", "loading"}
    /\ \A i \in DOMAIN toClient : toClient[i].type # "gamestate"
    /\ faults < MaxFaults
    /\ faults' = faults + 1
    /\ server' = [server EXCEPT !.file = None]
    /\ Answer(<<[type |-> "gamestate", fresh |-> TRUE]>>)
    /\ UNCHANGED <<legacy, cl, fs, toServer>>

-----------------------------------------------------------------------------

Init ==
    /\ legacy \in BOOLEAN
    /\ cl = [state |-> "waiting", restart |-> FALSE, completed |-> 0, list |-> <<>>,
             name |-> None, temp |-> None, wwwName |-> None, remote |-> None,
             www |-> FALSE, bbl8r |-> FALSE, reconnect |-> FALSE, inProgress |-> FALSE,
             head |-> FALSE, ft |-> NoTransfer, handle |-> None, chksum |-> None,
             cacheEOF |-> FALSE, block |-> 0, count |-> 0, size |-> 0]
    /\ \E f \in File, s \in StaleTemps :
           fs = [disk |-> [g \in File |-> <<>>], loaded |-> [g \in File |-> <<>>],
                 tmp |-> [t \in Temp |-> IF t = f THEN s ELSE <<>>],
                 cache |-> [t \in Temp |-> <<>>]]
    /\ toServer = <<>>
    /\ toClient = <<[type |-> "gamestate", fresh |-> TRUE]>>
    /\ server = NewServer
    /\ faults = 0

Next ==
    \/ ServerExecute
    \/ ServerSendBlock
    \/ LoseBlock
    \/ MapChange
    \/ LoseConnection
    \/ UserConnect
    \/ Reconnect
    \/ ReceiveMessage
    \/ Frame

Spec == Init /\ [][Next]_vars

\* The client and the server do not stop: whoever has something to do, some step is
\* taken.  The only steps of the environment that could go on for ever in its place are
\* the blocks of a server of the old protocol.
FairSpec == Spec /\ WF_vars(Next)

-----------------------------------------------------------------------------

(* A server of the x-protocol, or a web server it redirects to, never gets    *)
(* anything else under a file's name than the file itself, whatever an earlier *)
(* attempt left in the temporary file and whatever the web server has:         *)
(* CL_VerifyFinal stands before every rename.                                  *)
InstalledIsGenuine == ~legacy => \A f \in File : fs.disk[f] \in {<<>>, Genuine(f)}

(* The files downloadFilesCompleted counts, which CL_SkipAlreadyDownloadedFiles *)
(* passes over in the list of a repeated game state, are on the disk and only   *)
(* wait for FS_Restart.                                                         *)
CountedAreInstalled ==
    ~legacy => LET list == FS_ComparePaks(fs)
               IN  \A i \in 1 .. Len(list) :
                       i <= cl.completed => fs.disk[list[i]] = Genuine(list[i])

(* CL_DownloadsComplete begins to load the level only when no file that the    *)
(* server references is missing.                                                *)
LoadsWithAllFiles == cl.state = "loading" => FS_CompareFiles(fs) = <<>>

(* Downloads from a server of the x-protocol end: the level is loaded or the    *)
(* connection is given up, after failures, corrupt files and stale caches too.  *)
DownloadsEnd ==
    /\ (~legacy /\ cl.state = "connected") ~> (cl.state \in {"loading", "idle"})
    /\ (~legacy /\ cl.inProgress) ~> ~cl.inProgress
=============================================================================
