------------------------------- MODULE HttpFtp -------------------------------
(***************************************************************************)
(* One file transfer by httpftp.c, over HTTP or FTP: from FileDownloadRequest *)
(* through the calls of FileDownloadSendReceive to the end, with what      *)
(* CL_WWWDownloadLoop takes on the way.  TCP delivers what a server sends   *)
(* in pieces that end anywhere, and the code reads whatever has come.      *)
(*                                                                         *)
(* What is sent over HTTP is a sequence of tokens: the text of a line of   *)
(* the head, CR, LF, the size of a chunk, a unit of the body.  FTP has a   *)
(* connection for commands and replies, of which only the code counts, and *)
(* one for the file.  TLS only delays or fails a call, as the network does. *)
(***************************************************************************)
EXTENDS Integers, Sequences, SequencesExt, FiniteSetsExt, Transfers

CONSTANTS
    Units,          \* length of the file
    InitialBuffer,  \* INITIAL_BUFFERLEN (1024)
    LargeBuffer,    \* the 512 KB from which CL_WWWDownloadLoop takes what has come
    MaxRedirects    \* bound on the redirections of one transfer

ASSUME TransferAssumption ==
    /\ Units \in Nat \ {0} /\ InitialBuffer \in Nat \ {0}
    /\ LargeBuffer \in Nat /\ MaxRedirects \in Nat

VARIABLES
    request,   \* ftRequest_t
    st,        \* the result of the last call
    handed,    \* what the caller has written to its file
    asked,     \* the first unit asked for by a Range header, counted from 0
    answer,    \* the web server's answer, and the tokens of it
    wire,      \* what is on its way on the connection
    line,      \* "up", "closed" by the server or "broken"
    ftp        \* the FTP server: the commands on their way, the data connection

vars == <<request, st, handed, asked, answer, wire, line, ftp>>

-----------------------------------------------------------------------------
(* What a web server sends. *)

Text == <<"text", 0>>
CR == <<"cr", 0>>
LF == <<"lf", 0>>
Size(k) == <<"size", k>>
Body == [i \in 1 .. Units |-> <<"unit", i>>]


\* The status line, a line of fields and the empty line.
Header == <<Text, CR, LF, Text, CR, LF, CR, LF>>
FieldsAt == 3       \* what comes before the fields

NoAnswer == [code |-> 0, framing |-> "no", body |-> <<>>, stream |-> <<>>]

Chunk(s) == <<Size(Len(s)), CR, LF>> \o s \o <<CR, LF>>
\* In one chunk or in two.
Chunkings(s) ==
    {Chunk(SubSeq(s, 1, k)) \o Chunk(SubSeq(s, k + 1, Len(s))) \o <<Size(0), CR, LF, CR, LF>> :
        k \in 1 .. Len(s) - 1}
    \cup {Chunk(s) \o <<Size(0), CR, LF, CR, LF>>}

\* The framing is told, chunked, none (the end of the connection ends the body), or the
\* answer is a redirection.  A server may know nothing of ranges.
Answers(from) ==
    {[code |-> 302, framing |-> "moved", body |-> <<>>, stream |-> Header],
     [code |-> 404, framing |-> "told", body |-> <<>>, stream |-> Header]}
    \cup UNION {LET s == IF c = 206 THEN SubSeq(Body, from + 1, Units) ELSE Body
                IN  {[code |-> c, framing |-> f, body |-> s, stream |-> Header \o s] :
                       f \in {"told", "none"}}
                    \cup {[code |-> c, framing |-> "chunked", body |-> s, stream |-> Header \o t] :
                             t \in Chunkings(s)} :
                c \in {200} \cup IF from > 0 THEN {206} ELSE {}}

-----------------------------------------------------------------------------
(* The request. *)

\* FT_ResetConnectionStatus and HTTP_BuildNewRequest; range is the first unit of a Range field,
\* moved counts the redirections.
HTTP_BuildNewRequest(range, moved) ==
    [protocol |-> "http", open |-> TRUE, toSend |-> <<"GET">>, active |-> FALSE,
     recv |-> <<>>, read |-> 0, max |-> InitialBuffer, total |-> 0, finallen |-> -1,
     head |-> 0, content |-> 0, told |-> FALSE, chunked |-> FALSE, code |-> 0,
     chunkLength |-> 0, chunkOffset |-> 0, moved |-> moved, range |-> range,
     stage |-> 0, transferOpen |-> FALSE, transferTotal |-> 0,
     began |-> FALSE, headCut |-> FALSE]

FTP_DLRequest == [HTTP_BuildNewRequest(0, 0) EXCEPT !.protocol = "ftp", !.toSend = <<>>]

\* The request, with what is on its way to the client and the servers.
World == [q |-> request, answer |-> answer, wire |-> wire, line |-> line, ftp |-> ftp]
Outcome(w, r) == [w |-> w, st |-> r]

\* A full buffer is doubled, but not beyond the length of the whole.
Grown(q) ==
    IF Len(q.recv) # q.max THEN q
    ELSE [q EXCEPT !.max = IF q.finallen > 0 /\ 2 * @ > q.finallen THEN q.finallen ELSE 2 * @]

Space(q) == q.max - Len(q.recv)

Close(w) == [w EXCEPT !.q.open = FALSE]

\* The data that can be read in one call.
Arrived(w, g) ==
    {Outcome([g EXCEPT !.q.recv = @ \o SubSeq(w.wire, 1, n), !.q.total = @ + n,
                       !.wire = SubSeq(@, n + 1, Len(@))],
             1) : n \in 1 .. Min({Space(g.q), Len(w.wire)})}

\* Mutant: a connection that the server has closed is taken for one without new data.
FT_ReceiveForEver(w) ==
    LET g == [w EXCEPT !.q = Grown(@)]
    IN  IF ~w.q.open THEN {Outcome(w, -2)}
        ELSE IF w.line = "broken" THEN {Outcome(Close(g), -2)}
        ELSE {Outcome(g, 0)} \cup Arrived(w, g)

\* The outcomes of FT_ReceiveData: new data 1, none yet 0, closed -1, failed -2.
FT_ReceiveData(w) ==
    LET g == [w EXCEPT !.q = Grown(@)]
    IN  IF ~w.q.open THEN {Outcome(w, -2)}
        ELSE IF w.line = "broken" THEN {Outcome(Close(g), -2)}
        ELSE {Outcome(g, 0)} \cup Arrived(w, g)
             \cup IF Space(g.q) = 0 \/ (w.wire = <<>> /\ w.line = "closed")
                  THEN {Outcome(Close(g), -1)} ELSE {}

-----------------------------------------------------------------------------
(* HTTP. *)

\* MSG_ReadStringLine from position r: where the next line starts.
NextLine(m, r) ==
    CHOOSE i \in r .. Len(m) : /\ i = Len(m) \/ (i > r /\ m[i] = LF)
                              /\ \A j \in r + 1 .. i - 1 : m[j] # LF

\* Lines are read, from position r, up to one that is empty or starts with CR: where
\* that line starts.  A line that has come in part is a line.
EndsHead(m, r, i) ==
    /\ i = r \/ i = Len(m) \/ m[i] = LF
    /\ i = Len(m) \/ m[i + 1] \in {CR, LF}
LastLine(m, r) ==
    CHOOSE i \in r .. Len(m) : EndsHead(m, r, i) /\ \A j \in r .. i - 1 : ~EndsHead(m, r, j)
StartsWithCR(m, i) == i < Len(m) /\ m[i + 1] = CR

\* Chunk after chunk is moved to the end of what was decoded, until one is not all there
\* or has no units.
RECURSIVE Decode(_, _)
Decode(w, closed) ==
    LET m  == w.q.recv
        at == w.q.head + w.q.chunkOffset
        to == w.q.head + w.q.chunkLength
        \* With a line that ends before next and tells a size of k.
        Piece(next, k) ==
            IF (\A i \in at + 1 .. next : m[i] # CR) \/ (k # 0 /\ Len(m) - next < k + 2)
            THEN {Outcome([w EXCEPT !.q.read = next], IF closed THEN -1 ELSE 0)}
            ELSE IF k = 0
            THEN {Outcome([w EXCEPT !.q.content = w.q.chunkLength, !.q.recv = SubSeq(m, 1, to),
                                    !.q.read = 0, !.q.finallen = to],
                          1)}
            ELSE IF m[next + k + 1] # CR \/ m[next + k + 2] # LF THEN {Outcome(w, -1)}
            ELSE UNION {Decode(d, closed) :
                     d \in {[w EXCEPT
                                !.q.recv = SubSeq(m, 1, to) \o SubSeq(m, next + 1, next + k)
                                           \o SubSeq(m, to + k + 1, Len(m)),
                                !.q.chunkLength = @ + k,
                                !.q.chunkOffset = next + k + 2 - w.q.head]}}
    IN  UNION {Piece(next, IF at < Len(m) /\ m[at + 1][1] = "size" THEN m[at + 1][2] ELSE 0) :
                  next \in {NextLine(m, at)}}

\* Mutant: the offset is not kept, and chunks are decoded again.
HTTP_ProcessChunksAgain(w, closed) == Decode([w EXCEPT !.q.chunkOffset = 0], closed)
HTTP_ProcessChunkedEncoding(w, closed) == Decode(w, closed)

\* The range that is not longer than one unit is refused (rangeLow >= rangeHigh).
RangeRefused(w) == w.answer.code = 206 /\ w.q.range >= Units - 1

\* FT_ResetRequest and a new request to the server of the Location field, without the
\* Range field of the first one.
Redirect(w) ==
    {Outcome(Close(w), -1),
     Outcome([w EXCEPT !.q = HTTP_BuildNewRequest(0, w.q.moved + 1),
                       !.answer = NoAnswer, !.wire = <<>>, !.line = "up"], 0)}

\* Once the head is there: is the body?
HTTP_Body(w, closed) ==
    LET begun == [w EXCEPT !.q.active = @ \/ w.q.finallen > 0,
                           !.q.began = @ \/ w.q.finallen > 0]
    IN  IF w.q.told THEN {Outcome(begun, IF w.q.total < w.q.finallen THEN 0 ELSE 1)}
        ELSE IF w.q.chunked
        THEN UNION {HTTP_ProcessChunkedEncoding(b, closed) : b \in {begun}}
        ELSE {Outcome([begun EXCEPT !.q.finallen = w.q.total,
                                    !.q.content = w.q.total - w.q.head],
                      1)}

\* The fields of a head after which the body starts at position at.
ReadFields(w, at) ==
    LET told == w.answer.framing = "told"
    IN  [w EXCEPT !.q.code = w.answer.code,
                  !.q.told = told,
                  !.q.chunked = w.answer.framing = "chunked",
                  !.q.content = IF told THEN Len(w.answer.body) ELSE 0,
                  !.q.read = at,
                  !.q.head = at,
                  !.q.headCut = at < Len(Header),
                  !.q.finallen = IF told THEN Len(w.answer.body) + at ELSE @]

HTTP_ParseHead(w) ==
    LET m    == w.q.recv
        none == [w EXCEPT !.q.code = 0, !.q.content = 0, !.q.told = FALSE, !.q.chunked = FALSE]
        Parse(last) ==
            IF last > FieldsAt /\ w.answer.framing = "moved" THEN Redirect(w)
            ELSE IF last > FieldsAt /\ RangeRefused(w) THEN {Outcome(w, -1)}
            ELSE IF ~StartsWithCR(m, last) THEN {Outcome(w, -1)}
            ELSE UNION {HTTP_Body(h, FALSE) : h \in {ReadFields(w, NextLine(m, last))}}
    IN  UNION {IF StartsWithCR(m, seen)
               THEN UNION {Parse(last) : last \in {LastLine(m, 0)}}
               ELSE {Outcome([none EXCEPT !.q.read = NextLine(m, seen)], 0)} :
                  seen \in {LastLine(m, w.q.read)}}

HTTP_Receive(r) ==
    IF r.st = -2 THEN {Outcome(r.w, -1)}
    ELSE IF r.st # 0 /\ r.w.q.chunked /\ r.w.q.head > 0
    THEN HTTP_ProcessChunkedEncoding(r.w, r.st < 0)
    ELSE IF r.st = -1 THEN {Outcome(r.w, -1)}
    ELSE IF r.w.q.finallen = -1 THEN HTTP_ParseHead(r.w)
    ELSE HTTP_Body(r.w, FALSE)

HTTP_SendReceiveData(w) ==
    IF w.q.toSend # <<>>
    THEN {Outcome(Close(w), -1), Outcome(w, 0), Outcome([w EXCEPT !.q.toSend = <<>>], 0)}
    ELSE UNION {HTTP_Receive(r) : r \in FT_ReceiveData(w)}

-----------------------------------------------------------------------------
(* FTP.  The stages are those of the code. *)

\* A stage, a reply and the stage after it; reachable says that the connection for the
\* file can be made.
NextStage(s, code, reachable) ==
    CASE s < 0 -> s
      [] s >= 0 /\ code = 220 -> IF s = 0 THEN 1 ELSE s
      [] s >= 0 /\ code = 202 -> IF s \in 11 .. 20 THEN 21 ELSE -20
      [] s >= 0 /\ code = 331 -> IF s = 10 THEN 11 ELSE IF s = 16 THEN 17 ELSE -20
      [] s >= 0 /\ code = 332 -> IF s \in {10, 12} THEN 15 ELSE -20
      [] s >= 0 /\ code = 230 -> IF s <= 20 THEN 21 ELSE -20
      [] s >= 0 /\ code = 227 -> IF s # 36 THEN -20 ELSE IF reachable THEN 41 ELSE -1
      [] s >= 0 /\ code = 229 -> IF s # 32 THEN -20 ELSE IF reachable THEN 41 ELSE -1
      [] s >= 0 /\ code = 213 -> IF s = 50 THEN 51 ELSE s
      [] s >= 0 /\ code \in {125, 150} -> IF s = 60 THEN 61 ELSE s
      [] s >= 0 /\ code = 226 -> Max({s, 9999})
      [] s >= 0 /\ code = 221 -> IF s < 10000 THEN -1 ELSE s
      [] s >= 0 /\ code = 120 -> -20
      [] s >= 0 /\ code = 421 -> -1
      [] s >= 0 /\ code \in 500 .. 503 /\ s = 32 -> 35
      [] s >= 0 /\ code >= 400 /\ code # 421 /\ ~(code \in 500 .. 503 /\ s = 32) -> -20
      [] OTHER -> IF code \in 200 .. 299 /\ s >= 30 THEN s + 1 ELSE s

\* One line of the control connection.  The answer to SIZE brings the buffer, and the
\* number that was read in it is taken for the length of the file.
FTP_Reply(q, code, reachable, bytes) ==
    LET s == NextStage(q.stage, code, reachable)
        staged == [q EXCEPT !.stage = s, !.code = code]
    IN  IF s = 41 THEN [staged EXCEPT !.transferOpen = TRUE]
        ELSE IF s = 51 /\ q.stage = 50
        THEN [staged EXCEPT !.finallen = bytes, !.content = bytes, !.max = InitialBuffer,
                            !.transferTotal = 0]
        ELSE staged

\* What follows in a line that was cut: nothing that is understood, or digits of the
\* length of the file, which are taken for a code.
LengthAsCode == {150, 200, 226, 400}
Remainders == {<<>>} \cup {<<c>> : c \in LengthAsCode}

\* FT_ReceiveData on the control connection, with the replies it brings.  What has come of
\* a line is a line: one that is cut in its code is not understood, and of the answer to
\* SIZE it is the number (bytes) that may be cut.  Cut right after the code, it is read
\* from what the line's buffer held before: any number, Units + 1 for all with which no
\* transfer ends.
FTP_Control(w) ==
    LET read(n, kept, rest, b) ==
            [w |-> [w EXCEPT !.wire = rest \o SubSeq(@, n + 1, Len(@))], st |-> 1,
             replies |-> SubSeq(w.wire, 1, kept), bytes |-> b]
        without(v, r) == [w |-> v, st |-> r, replies |-> <<>>, bytes |-> Units]
    IN  IF ~w.q.open THEN {without(w, -2)}
        ELSE IF w.line = "broken" THEN {without(Close(w), -2)}
        ELSE {without(w, 0)}
             \cup UNION {{read(n, n, <<>>, Units), read(n, n - 1, <<>>, Units)} :
                            n \in 1 .. Len(w.wire)}
             \cup {read(n, n, rest, b) :
                      n \in {k \in 1 .. Len(w.wire) : w.wire[k] = 213},
                      rest \in Remainders, b \in 0 .. Units + 1}
             \cup IF w.wire = <<>> /\ w.line = "closed" THEN {without(Close(w), -1)} ELSE {}

FT_SendData(w) ==
    {Outcome(w, 0)}
    \cup IF w.q.toSend = <<>> THEN {}
         ELSE {Outcome(Close(w), -1),
               Outcome([w EXCEPT !.q.toSend = <<>>, !.ftp.commands = @ \o w.q.toSend], 1)}

\* More than the length that was told fills the buffer.
Overfull(q) == Len(q.recv) = q.max /\ q.finallen > 0 /\ q.finallen < Len(q.recv)

FTP_ReceiveData(w) ==
    LET g == [w EXCEPT !.q = Grown(@)]
        take(n) == [g EXCEPT !.q.recv = @ \o SubSeq(w.ftp.data, 1, n),
                             !.q.transferTotal = @ + n,
                             !.ftp.data = SubSeq(@, n + 1, Len(@))]
    IN  IF Overfull(w.q) THEN {w}
        ELSE {[g EXCEPT !.q.transferOpen = FALSE]}
             \cup (IF Space(g.q) = 0 THEN {} ELSE {g})
             \cup {take(n) : n \in 1 .. Min({Space(g.q), Len(w.ftp.data)})}

\* The command of a stage and the stage that waits for its reply.
Command ==
    LET to(c, s) == [cmd |-> c, stage |-> s]
    IN  1 :> to("USER", 10) @@ 11 :> to("PASS", 12) @@ 15 :> to("ACCT", 16)
        @@ 17 :> to("PASS", 20) @@ 21 :> to("TYPE", 30) @@ 31 :> to("EPSV", 32)
        @@ 35 :> to("PASV", 36) @@ 41 :> to("SIZE", 50) @@ 51 :> to("RETR", 60)

Complete(w) == w.q.transferTotal = w.q.finallen

\* Mutant: the reply 226 ends the transfer, whatever has come.
FTP_TakeTheWordOfTheServer(w) ==
    {Outcome([v EXCEPT !.q.active = FALSE, !.q.toSend = Append(@, "QUIT"), !.q.stage = 10000], 0) :
        v \in IF w.q.transferOpen THEN FTP_ReceiveData(w) ELSE {w}}

\* The server says that it has sent everything: the file is received once more.
FTP_Finish(w) ==
    {Outcome(IF Complete(v)
             THEN [v EXCEPT !.q.active = FALSE, !.q.toSend = Append(@, "QUIT"), !.q.stage = 10000]
             ELSE [v EXCEPT !.q.active = FALSE, !.q.stage = -20],
             0) :
        v \in IF w.q.transferOpen THEN FTP_ReceiveData(w) ELSE {w}}

FTP_Transfer(w) ==
    {Outcome([v EXCEPT !.q.stage = IF Complete(v) /\ v.q.finallen # 0 THEN 9999
                                   ELSE IF ~v.q.transferOpen THEN -20 ELSE 61],
             0) :
        v \in FTP_ReceiveData([w EXCEPT !.q.active = TRUE, !.q.began = TRUE])}

\* What the stage asks for, once the replies are read.
FTP_Continue(w) ==
    LET s == w.q.stage
    IN  CASE s \in DOMAIN Command ->
                 {Outcome([w EXCEPT !.q.toSend = Append(@, Command[s].cmd),
                                    !.q.stage = Command[s].stage], 0)}
          [] s = 61 -> FTP_Transfer(w)
          [] s = 9999 -> FTP_Finish(w)
          [] s = -20 ->
                 {Outcome([w EXCEPT !.q.active = FALSE, !.q.stage = -1,
                                    !.q.toSend = IF w.q.open THEN Append(@, "QUIT") ELSE @], 0)}
          [] s = -1 -> {Outcome(w, -1)}
          [] s = 10000 ->
                 {Outcome([w EXCEPT !.q.active = FALSE, !.q.stage = 10001, !.q.code = 200,
                                    !.q.open = FALSE, !.q.transferOpen = FALSE], 1)}
          [] OTHER -> {Outcome(w, 0)}

\* All the replies that came, in turn.
FTP_Replies(w, replies, bytes) ==
    {[w EXCEPT !.q = q] :
        q \in FoldLeft(LAMBDA qs, code : {FTP_Reply(q, code, reachable, bytes) :
                                            q \in qs, reachable \in BOOLEAN},
                       {w.q}, replies)}

FTP_SendReceiveData(w) ==
    UNION {LET sent == IF c.st = 0 /\ c.w.q.stage < 9999 THEN FT_SendData(c.w)
                       ELSE {Outcome(c.w, c.st)}
           IN  UNION {IF o.st = -2 \/ (o.st = -1 /\ o.w.q.stage < 9999)
                      THEN {Outcome(o.w, -1)}
                      ELSE UNION {FTP_Continue(v) : v \in FTP_Replies(o.w, c.replies, c.bytes)} :
                         o \in sent} :
              c \in FTP_Control(w)}

-----------------------------------------------------------------------------
(* The caller. *)

SendReceive(w) ==
    IF w.q.protocol = "http" THEN HTTP_SendReceiveData(w) ELSE FTP_SendReceiveData(w)

AfterHead(q) == IF Len(q.recv) >= q.head THEN SubSeq(q.recv, q.head + 1, Len(q.recv)) ELSE q.recv

Good(q) == q.code \in {200, 206}
Takes(q) == q.active /\ q.max >= LargeBuffer

\* CL_WWWDownloadLoop, which writes what has come when the buffer is large, or at the end.
Call ==
    /\ st = 0
    /\ \E o \in SendReceive(World) :
           LET q     == o.w.q
               takes == o.st = 0 /\ Takes(q)
           IN  /\ st' = o.st
               /\ request' = IF takes THEN [q EXCEPT !.recv = <<>>, !.head = 0] ELSE q
               /\ handed' = IF takes \/ (o.st = 1 /\ Good(q)) THEN handed \o AfterHead(q)
                            ELSE handed
               /\ answer' = o.w.answer
               /\ wire' = o.w.wire
               /\ line' = o.w.line
               /\ ftp' = o.w.ftp
    /\ UNCHANGED asked

-----------------------------------------------------------------------------
(* The servers. *)

ServerAnswers ==
    /\ request.protocol = "http" /\ request.toSend = <<>>
    /\ answer = NoAnswer /\ line = "up"
    /\ \E a \in Answers(request.range) :
           /\ a.framing = "moved" => request.moved < MaxRedirects
           /\ answer' = a
           /\ wire' = a.stream
    /\ UNCHANGED <<request, st, handed, asked, line, ftp>>

Replies ==
    [c \in {"USER", "PASS", "ACCT", "TYPE", "EPSV", "PASV", "SIZE", "RETR", "QUIT"} |->
        CASE c = "USER" -> {331, 230, 332, 530}
          [] c = "PASS" -> {230, 332, 202, 530}
          [] c = "ACCT" -> {230, 331, 202, 530}
          [] c = "TYPE" -> {200, 500}
          [] c = "EPSV" -> {229, 500}
          [] c = "PASV" -> {227, 502}
          [] c = "SIZE" -> {213, 550}
          [] c = "RETR" -> {125, 150, 550}
          [] c = "QUIT" -> {221}]

ServerExecutes ==
    /\ ftp.commands # <<>> /\ line = "up"
    /\ \E code \in Replies[ftp.commands[1]] :
           /\ wire' = Append(wire, code)
           /\ ftp' = [ftp EXCEPT !.commands = Tail(@),
                                 !.data = IF code \in {125, 150} THEN Body ELSE @,
                                 !.sending = @ \/ code \in {125, 150}]
    /\ UNCHANGED <<request, st, handed, asked, answer, line>>

\* The file is on its way, or what has been sent of it: 226, or the transfer is aborted.
ServerHasSent ==
    /\ ftp.sending /\ line = "up"
    /\ \/ /\ wire' = Append(wire, 226)
          /\ ftp' = [ftp EXCEPT !.sending = FALSE]
       \/ /\ wire' = Append(wire, 426)
          /\ \E n \in 0 .. Len(ftp.data) :
                 ftp' = [ftp EXCEPT !.sending = FALSE, !.data = SubSeq(@, 1, n)]
    /\ UNCHANGED <<request, st, handed, asked, answer, line>>

\* A server that waits too long closes the connection.
ServerCloses ==
    /\ line = "up"
    /\ line' = "closed"
    /\ wire' = IF request.protocol = "ftp" THEN Append(wire, 421) ELSE wire
    /\ UNCHANGED <<request, st, handed, asked, answer, ftp>>

Server == ServerAnswers \/ ServerExecutes \/ ServerHasSent \/ ServerCloses

ConnectionBreaks ==
    /\ line # "broken"
    /\ line' = "broken"
    /\ UNCHANGED <<request, st, handed, asked, answer, wire, ftp>>

-----------------------------------------------------------------------------

Init ==
    /\ st = 0 /\ handed = <<>> /\ answer = NoAnswer /\ line = "up"
    /\ ftp = [commands |-> <<>>, data |-> <<>>, sending |-> FALSE]
    /\ \/ /\ asked \in 0 .. Units - 1
          /\ request = HTTP_BuildNewRequest(asked, 0)
          /\ wire = <<>>
       \/ /\ request = FTP_DLRequest
          /\ asked = 0
          /\ \E code \in {120, 220} : wire = <<code>>

Next == Call \/ Server \/ ConnectionBreaks

Spec == Init /\ [][Next]_vars

\* CL_Frame makes a call in every frame, and what was sent arrives in the end.  A server
\* answers, or closes the connection: the code has no timeout of its own.
FairSpec == Spec /\ WF_vars(Call) /\ WF_vars(Server)

-----------------------------------------------------------------------------
(* Properties *)

(* A transfer that has finished has handed over the file, from the unit that was asked  *)
(* for, and over FTP as much of it as was read in the answer to SIZE, which is the file *)
(* unless that answer was cut: however often the caller took what had come, chunk by    *)
(* chunk, and however the reply 226 and the file passed each other.  An answer that     *)
(* tells no length is taken to end where its first piece does, and one whose last       *)
(* empty line came in two pieces is read from the LF on.                                *)
WholeFile ==
    st = 1 /\ Good(request) =>
        \/ handed = SubSeq(Body, IF request.code = 206 THEN request.range + 1 ELSE 1,
                           IF request.protocol = "ftp" THEN request.finallen ELSE Units)
        \/ answer.framing = "none"
        \/ answer.framing = "told" /\ request.headCut

\* What the caller can tell of the transfer.
Rest(s, n) == SubSeq(s, n + 1, Len(s))
Seen ==
    LET q    == request
        ft   == Transfer("file", asked)
        body == IF q.protocol = "ftp" THEN Body
                ELSE (IF q.headCut THEN <<LF>> ELSE <<>>) \o answer.body
        got  == IF q.protocol = "ftp" THEN q.transferTotal
                ELSE q.total - Len(Header) + IF q.headCut THEN 1 ELSE 0
        long == IF q.protocol = "ftp" THEN q.finallen ELSE Units
        here(n) == [ft EXCEPT !.code = IF q.protocol = "ftp" THEN 200 ELSE q.code,
                              !.buf = AfterHead(q), !.left = Rest(body, n)]
    IN  CASE q.code = 404 /\ (q.began \/ st = 1) -> [ft EXCEPT !.active = q.began, !.code = 404]
          [] q.code # 404 /\ q.began ->
                 [here(got) EXCEPT !.active = TRUE, !.total = long,
                                   !.extra = Units - long + IF q.headCut THEN 1 ELSE 0]
          [] q.code # 404 /\ ~q.began /\ st = 1 -> here(Len(AfterHead(q)))
          [] OTHER -> ft

(* All that Downloads assumes of a transfer is what this code does: every call is one *)
(* of the contract's, of the file, of the file with another length told, or of the    *)
(* file shifted by the LF of a head that was cut.                                     *)
Copies ==
    {[size |-> Units, body |-> InsertAt(Body, n + 1, LF)] : n \in {0, asked}}
    \cup {[size |-> n, body |-> Body] : n \in 0 .. Units + 1}
ImplementsTransfer ==
    /\ Seen = Transfer("file", asked) /\ st = 0
    /\ [][\E step \in FileDownloadSendReceive(Seen, Copies) :
              /\ st' = step.st
              /\ Seen' \in {step.ft, [step.ft EXCEPT !.buf = <<>>]}]_<<Seen, st>>

(* Every transfer ends, whatever comes in how many pieces, when the server answers or *)
(* closes the connection.                                                            *)
TransferEnds == <>(st # 0)
=============================================================================
