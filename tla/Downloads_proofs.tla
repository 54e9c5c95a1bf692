--------------------------- MODULE Downloads_proofs ---------------------------
(***************************************************************************)
(* What a server of the x-protocol has installed on the client is genuine, *)
(* and the files that are counted as downloaded are installed, for all     *)
(* files, sizes, stale temporary files and numbers of faults.              *)
(*                                                                         *)
(* Each rename stands behind CL_VerifyFinal, but that compares the         *)
(* temporary file with the check sum of the last "fileinit" while the new  *)
(* name is that of the download under way (or its copy in wwwName): the    *)
(* proof is that the two are of the same file.  They differ from           *)
(* CL_BeginDownload to the "fileinit" that answers it, so it must be shown *)
(* that nothing that leads to a rename is on its way then.  The messages   *)
(* of both directions are one pipe for that: what lies in toClient, then   *)
(* what lies in toServer, which the server turns into messages to the      *)
(* client, one for one.  A mark says what matters of a message:            *)
(*   hot    a request for segments, a redirect, the end of the segments,   *)
(*          whose handling may lead to a rename;                           *)
(*   file   a download that begins, or its check sum;                      *)
(*   call   something the server answers with the game state.              *)
(***************************************************************************)
EXTENDS Downloads, WellFoundedInduction, TLAPS

IsSeq(q) == Len(q) \in Nat /\ q = [i \in 1 .. Len(q) |-> q[i]]

Mark == [kind : {"hot", "file", "call", "other"}, file : File \cup {None}]
Hot == [kind |-> "hot", file |-> None]
Call == [kind |-> "call", file |-> None]
Other == [kind |-> "other", file |-> None]
FileMark(f) == [kind |-> "file", file |-> f]

MarkIn(m) ==
    IF m.type = "redirect" \/ (m.type = "serverdl" /\ m.units = <<>>) THEN Hot
    ELSE IF m.type = "fileinit" THEN FileMark(m.file)
    ELSE IF m.type = "gamestate" /\ ~ m.fresh THEN Call
    ELSE Other
MarkOut(m) ==
    IF m.cmd = "request" THEN Hot
    ELSE IF m.cmd = "begin" /\ m.file \in File THEN FileMark(m.file)
    ELSE IF m.cmd \in {"done", "wwwfail"} THEN Call
    ELSE Other

FreshIn(q) == \E i \in 1 .. Len(q) : q[i].type = "gamestate" /\ q[i].fresh

MarksIn(q) == [i \in 1 .. Len(q) |-> MarkIn(q[i])]
MarksOut(q) == [i \in 1 .. Len(q) |-> MarkOut(q[i])]
Pipe(in, out) == IF FreshIn(in) THEN MarksIn(in) ELSE MarksIn(in) \o MarksOut(out)

ReceivedOK(m) ==
    /\ m.type \in {"gamestate", "fileinit", "serverdl", "redirect", "fail", "disconnect"}
    /\ m.type = "gamestate" => m.fresh \in BOOLEAN
    /\ m.type = "fileinit" => m.file \in File
QueuesOK(in, out) ==
    /\ IsSeq(in) /\ IsSeq(out)
    /\ \A i \in 1 .. Len(in) : ReceivedOK(in[i])
    /\ \A i \in 1 .. Len(in) : in[i].type = "gamestate" /\ in[i].fresh => i = Len(in)

Shape(c, d) ==
    /\ DOMAIN c = {"state", "restart", "completed", "list", "name", "temp", "wwwName", "remote",
                   "www", "bbl8r", "reconnect", "inProgress", "head", "ft", "handle", "chksum",
                   "cacheEOF", "block", "count", "size"}
    /\ DOMAIN d = {"disk", "loaded", "tmp", "cache"}
    /\ DOMAIN d.disk = File
    /\ \A f \in File : d.disk[f] \in {<<>>, Genuine(f)}

Names(c) ==
    /\ c.name \in File => c.temp # None
    /\ c.name \in File /\ c.remote \in File => c.remote = c.name

HotAlone(p) == \A i, j \in DOMAIN p : p[i].kind = "hot" /\ p[j].kind = "hot" => i = j
HotNamed(p, c) ==
    \A i \in DOMAIN p : p[i].kind = "hot" => ~ c.inProgress /\ c.name \in File /\ c.name = c.chksum
HotAndFile(p, c) ==
    \A i, j \in DOMAIN p : p[i].kind = "hot" /\ p[j].kind = "file" =>
        IF i < j THEN c.handle = None /\ p[j].file = c.chksum ELSE c.handle # None
CallAlone(p, c) ==
    \A i \in DOMAIN p : p[i].kind = "call" =>
        /\ ~ c.inProgress /\ c.name \notin File
        /\ \A j \in DOMAIN p : p[j].kind \in {"hot", "call"} => i = j
WebNamed(p, c) ==
    c.inProgress => /\ c.name \notin File
                    /\ c.wwwName \in File => c.wwwName = c.chksum
                    /\ \A i \in DOMAIN p : p[i].kind = "file" => p[i].file = c.chksum
Talk(p, c) ==
    /\ HotAlone(p) /\ HotNamed(p, c) /\ HotAndFile(p, c) /\ CallAlone(p, c) /\ WebNamed(p, c)

DownloadInv ==
    ~ legacy => /\ QueuesOK(toClient, toServer) /\ Shape(cl, fs)
                /\ Names(cl) /\ Talk(Pipe(toClient, toServer), cl)

-----------------------------------------------------------------------------
(* Sequences whose elements are of no set. *)

LEMMA OwnElements ==
    ASSUME NEW q, IsSeq(q)
    PROVE  q \in Seq({q[i] : i \in 1 .. Len(q)})
<1>1. q \in [1 .. Len(q) -> {q[i] : i \in 1 .. Len(q)}]
  BY DEF IsSeq
<1> QED BY <1>1 DEF IsSeq

LEMMA SeqIsSeq ==
    ASSUME NEW S, NEW q \in Seq(S)
    PROVE  IsSeq(q)
<1>1. Len(q) \in Nat /\ q \in [1 .. Len(q) -> S]
  OBVIOUS
<1> QED BY <1>1 DEF IsSeq

LEMMA AppendSeq ==
    ASSUME NEW q, IsSeq(q), NEW x
    PROVE  /\ IsSeq(Append(q, x))
           /\ Len(Append(q, x)) = Len(q) + 1
           /\ \A i \in 1 .. Len(q) : Append(q, x)[i] = q[i]
           /\ Append(q, x)[Len(q) + 1] = x
<1> DEFINE S == {q[i] : i \in 1 .. Len(q)} \cup {x}
<1>1. {q[i] : i \in 1 .. Len(q)} \subseteq S
  OBVIOUS
<1>2. q \in Seq({q[i] : i \in 1 .. Len(q)})
  BY OwnElements
<1>3. q \in Seq(S) /\ x \in S
  <2>1. q \in Seq(S)
    BY <1>1, <1>2
  <2> QED BY <2>1
<1> HIDE DEF S
<1>4. Append(q, x) \in Seq(S)
  BY <1>3
<1>5. IsSeq(Append(q, x))
  BY <1>4, SeqIsSeq, Zenon
<1> QED BY <1>3, <1>5

LEMMA TailSeq ==
    ASSUME NEW q, IsSeq(q), q # <<>>
    PROVE  /\ IsSeq(Tail(q))
           /\ Len(q) >= 1
           /\ Len(Tail(q)) = Len(q) - 1
           /\ Head(q) = q[1]
           /\ \A i \in 1 .. Len(q) - 1 : Tail(q)[i] = q[i + 1]
<1>1. PICK S : q \in Seq(S)
  BY OwnElements
<1>2. Tail(q) \in Seq(S)
  BY <1>1
<1>3. IsSeq(Tail(q))
  BY <1>2, SeqIsSeq, Zenon
<1>4. Len(q) >= 1
  BY <1>1
<1> QED BY <1>1, <1>3, <1>4

LEMMA ConcatSeq ==
    ASSUME NEW q, IsSeq(q), NEW r, IsSeq(r)
    PROVE  /\ IsSeq(q \o r)
           /\ Len(q \o r) = Len(q) + Len(r)
           /\ \A i \in 1 .. Len(q) : (q \o r)[i] = q[i]
           /\ \A i \in Len(q) + 1 .. Len(q) + Len(r) : (q \o r)[i] = r[i - Len(q)]
<1> DEFINE Sq == {q[i] : i \in 1 .. Len(q)}
           Sr == {r[i] : i \in 1 .. Len(r)}
           S == Sq \cup Sr
<1>1. q \in Seq(Sq) /\ r \in Seq(Sr)
  BY OwnElements
<1>2. Sq \subseteq S /\ Sr \subseteq S
  OBVIOUS
<1> HIDE DEF S, Sq, Sr
<1>3. q \in Seq(S) /\ r \in Seq(S)
  BY <1>1, <1>2
<1>4. q \o r \in Seq(S)
  BY <1>3
<1>5. IsSeq(q \o r)
  BY <1>4, SeqIsSeq, Zenon
<1> QED BY <1>3, <1>5

-----------------------------------------------------------------------------
(* The pipe, as messages are sent, answered and received. *)

LEMMA MarkOutIsMark == \A m : MarkOut(m) \in Mark
BY DEF MarkOut, Mark, Hot, Call, Other, FileMark

LEMMA MarkInIsMark == \A m : ReceivedOK(m) => MarkIn(m) \in Mark
BY DEF MarkIn, Mark, Hot, Call, Other, FileMark, ReceivedOK

LEMMA PipeType ==
    ASSUME NEW in, NEW out, QueuesOK(in, out)
    PROVE  /\ MarksIn(in) \in Seq(Mark) /\ Len(MarksIn(in)) = Len(in)
           /\ MarksOut(out) \in Seq(Mark) /\ Len(MarksOut(out)) = Len(out)
           /\ Pipe(in, out) \in Seq(Mark)
<1>1. MarksIn(in) \in Seq(Mark) /\ Len(MarksIn(in)) = Len(in)
  <2>1. \A i \in 1 .. Len(in) : MarkIn(in[i]) \in Mark
    BY MarkInIsMark DEF QueuesOK
  <2> QED BY <2>1 DEF MarksIn, QueuesOK, IsSeq
<1>2. MarksOut(out) \in Seq(Mark) /\ Len(MarksOut(out)) = Len(out)
  BY MarkOutIsMark DEF MarksOut, QueuesOK, IsSeq
<1>3. Pipe(in, out) \in Seq(Mark)
  BY <1>1, <1>2 DEF Pipe
<1> QED BY <1>1, <1>2, <1>3

LEMMA PipeSend ==
    ASSUME NEW in, NEW out, NEW m, QueuesOK(in, out)
    PROVE  /\ QueuesOK(in, Append(out, m))
           /\ Pipe(in, Append(out, m)) \in {Pipe(in, out), Append(Pipe(in, out), MarkOut(m))}
<1>1. QueuesOK(in, Append(out, m))
  BY AppendSeq DEF QueuesOK
<1>2. MarksOut(Append(out, m)) = Append(MarksOut(out), MarkOut(m))
  <2> DEFINE q == Append(out, m)
  <2>1. Len(q) = Len(out) + 1 /\ Len(out) \in Nat
    BY AppendSeq DEF QueuesOK, IsSeq
  <2>2. \A i \in 1 .. Len(q) : MarkOut(q[i]) = IF i = Len(q) THEN MarkOut(m) ELSE MarkOut(out[i])
    BY AppendSeq, <2>1 DEF QueuesOK
  <2>3. MarksOut(q) \in Seq(Mark) /\ Len(MarksOut(q)) = Len(q)
    BY <1>1, PipeType
  <2>4. MarksOut(out) \in Seq(Mark) /\ Len(MarksOut(out)) = Len(out)
    BY PipeType
  <2>5. Append(MarksOut(out), MarkOut(m)) \in Seq(Mark)
    BY <2>4, MarkOutIsMark
  <2>6. \A i \in 1 .. Len(q) : MarksOut(q)[i] = Append(MarksOut(out), MarkOut(m))[i]
    BY <2>1, <2>2, <2>4 DEF MarksOut
  <2>7. Len(Append(MarksOut(out), MarkOut(m))) = Len(q)
    BY <2>1, <2>4
  <2> HIDE DEF q
  <2>8. MarksOut(q) = Append(MarksOut(out), MarkOut(m))
    BY <2>3, <2>5, <2>6, <2>7
  <2> QED BY <2>8 DEF q
<1>3. MarksIn(in) \o Append(MarksOut(out), MarkOut(m)) = Append(MarksIn(in) \o MarksOut(out), MarkOut(m))
  BY PipeType, MarkOutIsMark
<1> QED BY <1>1, <1>2, <1>3 DEF Pipe

LEMMA PipeReceive ==
    ASSUME NEW in, NEW out, QueuesOK(in, out), in # <<>>
    PROVE  /\ QueuesOK(Tail(in), out)
           /\ ReceivedOK(Head(in))
           /\ Head(in).type = "gamestate" /\ Head(in).fresh => Tail(in) = <<>>
           /\ ~ (Head(in).type = "gamestate" /\ Head(in).fresh) =>
                  /\ Pipe(in, out) # <<>>
                  /\ Pipe(in, out)[1] = MarkIn(Head(in))
                  /\ Pipe(Tail(in), out) = Tail(Pipe(in, out))
<1> DEFINE fresh == Head(in).type = "gamestate" /\ Head(in).fresh
<1>1. /\ IsSeq(Tail(in)) /\ Len(in) >= 1 /\ Len(Tail(in)) = Len(in) - 1
      /\ Head(in) = in[1]
      /\ \A i \in 1 .. Len(in) - 1 : Tail(in)[i] = in[i + 1]
  BY TailSeq DEF QueuesOK
<1> Len(in) \in Nat
  BY DEF QueuesOK, IsSeq
<1>a. /\ IsSeq(in) /\ IsSeq(out)
      /\ \A i \in 1 .. Len(in) : ReceivedOK(in[i])
      /\ \A i \in 1 .. Len(in) : in[i].type = "gamestate" /\ in[i].fresh => i = Len(in)
  BY Zenon DEF QueuesOK
<1>b. 1 \in 1 .. Len(in)
  BY <1>1
<1>2. ReceivedOK(Head(in))
  BY <1>1, <1>a, <1>b, Zenon
<1>3. QueuesOK(Tail(in), out)
  <2>1. \A i \in 1 .. Len(in) - 1 :
            i + 1 \in 1 .. Len(in) /\ (i + 1 = Len(in) => i = Len(in) - 1)
    OBVIOUS
  <2> QED BY <1>1, <1>a, <2>1, Zenon DEF QueuesOK
<1>4. fresh => Tail(in) = <<>>
  <2>1. fresh => Len(in) = 1
    BY <1>1, <1>a, <1>b, Zenon
  <2>2. fresh => Tail(in) = [i \in 1 .. 0 |-> Tail(in)[i]]
    BY <2>1, <1>1 DEF IsSeq
  <2> QED BY <2>2
<1>5. ASSUME ~ fresh
      PROVE  /\ Pipe(in, out) # <<>>
             /\ Pipe(in, out)[1] = MarkIn(Head(in))
             /\ Pipe(Tail(in), out) = Tail(Pipe(in, out))
  <2>1. /\ MarksIn(in) \in Seq(Mark) /\ Len(MarksIn(in)) = Len(in)
        /\ MarksOut(out) \in Seq(Mark)
        /\ MarksIn(Tail(in)) \in Seq(Mark) /\ Len(MarksIn(Tail(in))) = Len(in) - 1
    BY PipeType, <1>1, <1>3
  <2>2. \A i \in 1 .. Len(in) : MarksIn(in)[i] = MarkIn(in[i])
    BY DEF MarksIn
  <2>3. \A i \in 1 .. Len(in) - 1 : MarksIn(Tail(in))[i] = MarkIn(in[i + 1])
    BY <1>1 DEF MarksIn
  <2>4. MarksIn(Tail(in)) = Tail(MarksIn(in))
    <3>1. Tail(MarksIn(in)) \in Seq(Mark) /\ Len(Tail(MarksIn(in))) = Len(in) - 1
      BY <2>1, <1>1
    <3>2. \A i \in 1 .. Len(in) - 1 : MarksIn(Tail(in))[i] = Tail(MarksIn(in))[i]
      BY <2>1, <2>2, <2>3, <1>1
    <3> QED BY <2>1, <3>1, <3>2
  <2>5. FreshIn(Tail(in)) <=> FreshIn(in)
    <3>1. ASSUME FreshIn(in) PROVE FreshIn(Tail(in))
      <4>1. PICK i \in 1 .. Len(in) : in[i].type = "gamestate" /\ in[i].fresh
        BY <3>1 DEF FreshIn
      <4>2. i # 1
        BY <4>1, <1>1, <1>5
      <4>3. i - 1 \in 1 .. Len(in) - 1 /\ Tail(in)[i - 1] = in[i]
        BY <4>2, <1>1
      <4> QED BY <4>1, <4>3, <1>1 DEF FreshIn
    <3>2. ASSUME FreshIn(Tail(in)) PROVE FreshIn(in)
      <4>1. PICK i \in 1 .. Len(in) - 1 : in[i + 1].type = "gamestate" /\ in[i + 1].fresh
        BY <3>2, <1>1 DEF FreshIn
      <4> QED BY <4>1, <1>1 DEF FreshIn
    <3> QED BY <3>1, <3>2
  <2>6. MarksIn(in) # <<>> /\ MarksIn(in)[1] = MarkIn(Head(in))
    BY <2>1, <2>2, <1>1
  <2>7. /\ MarksIn(in) \o MarksOut(out) # <<>>
        /\ (MarksIn(in) \o MarksOut(out))[1] = MarksIn(in)[1]
        /\ Tail(MarksIn(in)) \o MarksOut(out) = Tail(MarksIn(in) \o MarksOut(out))
    BY <2>1, <2>6
  <2> QED BY <2>4, <2>5, <2>6, <2>7 DEF Pipe
<1> QED BY <1>2, <1>3, <1>4, <1>5

\* What is left when some marks have gone, others have come that do not matter, and
\* those that do are in their order: still a proper talk.
LEMMA TalkEmbeds ==
    ASSUME NEW p, NEW q, NEW c, Talk(p, c), IsSeq(p), IsSeq(q), NEW h \in [1 .. Len(q) -> Int],
           \A i \in 1 .. Len(q) : q[i].kind # "other" =>
               h[i] \in 1 .. Len(p) /\ p[h[i]] = q[i],
           \A i, j \in 1 .. Len(q) : i < j /\ q[i].kind # "other" /\ q[j].kind # "other" =>
               h[i] < h[j]
    PROVE  Talk(q, c)
<1>1. DOMAIN p = 1 .. Len(p) /\ DOMAIN q = 1 .. Len(q) /\ Len(p) \in Nat /\ Len(q) \in Nat
  BY DEF IsSeq
<1>2. \A i, j \in 1 .. Len(q) : q[i].kind # "other" /\ q[j].kind # "other" /\ h[i] = h[j] => i = j
  BY <1>1
<1>3. HotAlone(q)
  BY <1>1, <1>2 DEF Talk, HotAlone
<1>4. HotNamed(q, c)
  BY <1>1 DEF Talk, HotNamed
<1>5. HotAndFile(q, c)
  <2>1. ASSUME NEW i \in 1 .. Len(q), NEW j \in 1 .. Len(q), q[i].kind = "hot", q[j].kind = "file"
        PROVE  IF i < j THEN c.handle = None /\ q[j].file = c.chksum ELSE c.handle # None
    <3>1. (i < j => h[i] < h[j]) /\ (j < i => h[j] < h[i]) /\ i # j
      BY <2>1
    <3>2. IF h[i] < h[j] THEN c.handle = None /\ q[j].file = c.chksum ELSE c.handle # None
      BY <2>1, <1>1 DEF Talk, HotAndFile
    <3> QED BY <3>1, <3>2, <1>1
  <2> QED BY <2>1, <1>1 DEF HotAndFile
<1>6. CallAlone(q, c)
  BY <1>1, <1>2 DEF Talk, CallAlone
<1>7. WebNamed(q, c)
  BY <1>1 DEF Talk, WebNamed
<1> QED BY <1>3, <1>4, <1>5, <1>6, <1>7 DEF Talk

\* The server turns the first of the client's messages into its answer, whose last
\* message has at most the mark of what is answered.
LEMMA PipeAnswer ==
    ASSUME NEW in, NEW out, NEW ans, NEW c, QueuesOK(in, out), out # <<>>, ~ FreshIn(in),
           Talk(Pipe(in, out), c), IsSeq(ans),
           \A i \in 1 .. Len(ans) :
               /\ ReceivedOK(ans[i])
               /\ ~ (ans[i].type = "gamestate" /\ ans[i].fresh)
               /\ MarkIn(ans[i]) = Other \/ (i = Len(ans) /\ MarkIn(ans[i]) = MarkOut(Head(out)))
    PROVE  /\ QueuesOK(in \o ans, Tail(out))
           /\ Talk(Pipe(in \o ans, Tail(out)), c)
<1> DEFINE n == Len(in)
           k == Len(ans)
           l == Len(out)
<1>1. IsSeq(in) /\ IsSeq(out) /\ n \in Nat /\ k \in Nat /\ l \in Nat
  BY DEF QueuesOK, IsSeq
<1>2. /\ IsSeq(in \o ans) /\ Len(in \o ans) = n + k
      /\ \A i \in 1 .. n : (in \o ans)[i] = in[i]
      /\ \A i \in n + 1 .. n + k : (in \o ans)[i] = ans[i - n]
  BY <1>1, ConcatSeq
<1>3. /\ IsSeq(Tail(out)) /\ l >= 1 /\ Len(Tail(out)) = l - 1 /\ Head(out) = out[1]
      /\ \A i \in 1 .. l - 1 : Tail(out)[i] = out[i + 1]
  BY <1>1, TailSeq
<1> HIDE DEF n, k, l
<1>4. \A i \in 1 .. n + k : ReceivedOK((in \o ans)[i])
                            /\ ~ ((in \o ans)[i].type = "gamestate" /\ (in \o ans)[i].fresh)
  <2>1. \A i \in 1 .. n : ReceivedOK(in[i]) /\ ~ (in[i].type = "gamestate" /\ in[i].fresh)
    BY Zenon DEF QueuesOK, FreshIn, n
  <2>2. \A i \in 1 .. k : ReceivedOK(ans[i]) /\ ~ (ans[i].type = "gamestate" /\ ans[i].fresh)
    BY Zenon DEF k
  <2>3. \A i \in 1 .. n + k : i \in 1 .. n \/ (i \in n + 1 .. n + k /\ i - n \in 1 .. k)
    BY <1>1
  <2> QED BY <2>1, <2>2, <2>3, <1>2, Zenon
<1>5. QueuesOK(in \o ans, Tail(out)) /\ ~ FreshIn(in \o ans)
  BY <1>2, <1>3, <1>4, Zenon DEF QueuesOK, FreshIn
<1> DEFINE p == MarksIn(in) \o MarksOut(out)
           q == MarksIn(in \o ans) \o MarksOut(Tail(out))
           h == [i \in 1 .. n + k + l - 1 |-> IF i <= n THEN i ELSE i - k + 1]
<1>6. /\ p \in Seq(Mark) /\ Len(p) = n + l
      /\ \A i \in 1 .. n : p[i] = MarkIn(in[i])
      /\ \A i \in n + 1 .. n + l : p[i] = MarkOut(out[i - n])
  <2>1. MarksIn(in) \in Seq(Mark) /\ Len(MarksIn(in)) = n
        /\ MarksOut(out) \in Seq(Mark) /\ Len(MarksOut(out)) = l
    BY PipeType DEF n, l
  <2>2. \A i \in 1 .. n : MarksIn(in)[i] = MarkIn(in[i])
    BY DEF MarksIn, n
  <2>3. \A i \in 1 .. l : MarksOut(out)[i] = MarkOut(out[i])
    BY DEF MarksOut, l
  <2> QED BY <2>1, <2>2, <2>3, <1>1
<1>7. /\ q \in Seq(Mark) /\ Len(q) = n + k + l - 1
      /\ \A i \in 1 .. n : q[i] = MarkIn(in[i])
      /\ \A i \in n + 1 .. n + k : q[i] = MarkIn(ans[i - n])
      /\ \A i \in n + k + 1 .. n + k + l - 1 : q[i] = MarkOut(out[i - n - k + 1])
  <2>1. MarksIn(in \o ans) \in Seq(Mark) /\ Len(MarksIn(in \o ans)) = n + k
        /\ MarksOut(Tail(out)) \in Seq(Mark) /\ Len(MarksOut(Tail(out))) = l - 1
    BY PipeType, <1>2, <1>3, <1>5, Zenon
  <2>2. \A i \in 1 .. n + k : MarksIn(in \o ans)[i] = MarkIn((in \o ans)[i])
    BY <1>2, Zenon DEF MarksIn
  <2>3. \A i \in 1 .. l - 1 : MarksOut(Tail(out))[i] = MarkOut(Tail(out)[i])
    BY <1>3, Zenon DEF MarksOut
  <2>4. \A i \in 1 .. l - 1 : MarksOut(Tail(out))[i] = MarkOut(out[i + 1])
    BY <2>3, <1>3, Zenon
  <2>5. \A i \in 1 .. n : MarksIn(in \o ans)[i] = MarkIn(in[i])
    <3>1. \A i \in 1 .. n : i \in 1 .. n + k
      BY <1>1
    <3> QED BY <2>2, <1>2, <3>1, Zenon
  <2>6. \A i \in n + 1 .. n + k : MarksIn(in \o ans)[i] = MarkIn(ans[i - n])
    <3>1. \A i \in n + 1 .. n + k : i \in 1 .. n + k
      BY <1>1
    <3> QED BY <2>2, <1>2, <3>1, Zenon
  <2> HIDE DEF q
  <2>7. q = MarksIn(in \o ans) \o MarksOut(Tail(out))
    BY DEF q
  <2> DEFINE a == MarksIn(in \o ans)
             b == MarksOut(Tail(out))
  <2>8. a \in Seq(Mark) /\ b \in Seq(Mark) /\ Len(a) = n + k /\ Len(b) = l - 1 /\ q = a \o b
        /\ (\A i \in 1 .. l - 1 : b[i] = MarkOut(out[i + 1]))
        /\ (\A i \in 1 .. n : a[i] = MarkIn(in[i]))
        /\ (\A i \in n + 1 .. n + k : a[i] = MarkIn(ans[i - n]))
    BY <2>1, <2>4, <2>5, <2>6, <2>7
  <2> HIDE DEF a, b
  <2>9. q \in Seq(Mark) /\ Len(q) = n + k + l - 1
        /\ (\A i \in 1 .. n + k : q[i] = a[i])
        /\ (\A i \in n + k + 1 .. n + k + l - 1 : q[i] = b[i - (n + k)])
    <3>1. /\ IsSeq(a) /\ IsSeq(b) /\ q = a \o b /\ q \in Seq(Mark)
      BY <2>8, SeqIsSeq
    <3>2. /\ Len(q) = (n + k) + (l - 1)
          /\ \A i \in 1 .. n + k : q[i] = a[i]
          /\ \A i \in (n + k) + 1 .. (n + k) + (l - 1) : q[i] = b[i - (n + k)]
      <4>1. /\ Len(a \o b) = Len(a) + Len(b)
            /\ \A i \in 1 .. Len(a) : (a \o b)[i] = a[i]
            /\ \A i \in Len(a) + 1 .. Len(a) + Len(b) : (a \o b)[i] = b[i - Len(a)]
        BY <3>1, ConcatSeq, Zenon
      <4>2. Len(a) = n + k /\ Len(b) = l - 1 /\ q = a \o b
        BY <2>8
      <4> QED BY <4>1, <4>2
    <3>3. (n + k) + (l - 1) = n + k + l - 1
      BY <1>1
    <3> QED BY <3>1, <3>2, <3>3
  <2>10. ASSUME NEW i \in n + k + 1 .. n + k + l - 1 PROVE q[i] = MarkOut(out[i - n - k + 1])
    <3>1. i - (n + k) \in 1 .. l - 1 /\ i - (n + k) + 1 = i - n - k + 1
      BY <1>1
    <3> QED BY <3>1, <2>8, <2>9
  <2>11. (\A i \in 1 .. n : q[i] = a[i]) /\ (\A i \in n + 1 .. n + k : q[i] = a[i])
    BY <2>9, <1>1
  <2> QED BY <2>8, <2>9, <2>10, <2>11
<1> HIDE DEF p, q
<1>8. h \in [1 .. Len(q) -> Int]
  BY <1>1, <1>7
<1>9. ASSUME NEW i \in 1 .. Len(q), q[i].kind # "other"
      PROVE  /\ h[i] \in 1 .. Len(p) /\ p[h[i]] = q[i]
             /\ i <= n \/ i >= n + k
  <2>0. h[i] = IF i <= n THEN i ELSE i - k + 1
    BY <1>7
  <2>1. CASE i <= n
    BY <2>0, <2>1, <1>1, <1>3, <1>6, <1>7
  <2>2. CASE i \in n + 1 .. n + k
    <3>1. i - n \in 1 .. k /\ q[i] = MarkIn(ans[i - n])
      BY <2>2, <1>1, <1>7
    <3>2. MarkIn(ans[i - n]) # Other
      BY <3>1, <1>9 DEF Other
    <3>3. i - n = k /\ q[i] = MarkOut(out[1])
      BY <3>1, <3>2, <1>3, Zenon DEF k
    <3>4. h[i] = n + 1 /\ p[n + 1] = MarkOut(out[1])
      BY <3>3, <2>0, <2>2, <1>1, <1>3, <1>6
    <3>5. n + 1 \in 1 .. Len(p) /\ i >= n + k
      BY <3>3, <2>2, <1>1, <1>3, <1>6
    <3> QED BY <3>3, <3>4, <3>5
  <2>3. CASE i \in n + k + 1 .. n + k + l - 1
    <3>1. h[i] = i - k + 1 /\ h[i] \in n + 1 .. n + l /\ h[i] - n = i - n - k + 1
      BY <2>3, <2>0, <1>1
    <3> QED BY <3>1, <2>3, <1>1, <1>6, <1>7
  <2> QED BY <2>1, <2>2, <2>3, <1>1, <1>7
<1>10. ASSUME NEW i \in 1 .. Len(q), NEW j \in 1 .. Len(q), i < j,
              q[i].kind # "other", q[j].kind # "other"
       PROVE  h[i] < h[j]
  <2>1. h[i] = (IF i <= n THEN i ELSE i - k + 1) /\ h[j] = (IF j <= n THEN j ELSE j - k + 1)
    BY <1>7
  <2>2. (i <= n \/ i >= n + k) /\ (j <= n \/ j >= n + k)
    BY <1>9, <1>10
  <2> QED BY <2>1, <2>2, <1>1, <1>7, <1>10
<1>11. IsSeq(p) /\ IsSeq(q)
  BY <1>6, <1>7, SeqIsSeq, Zenon
<1>12. Pipe(in, out) = p /\ Pipe(in \o ans, Tail(out)) = q
  BY <1>5 DEF Pipe, p, q
<1> HIDE DEF h
<1>13. Talk(q, c)
  <2>1. Talk(p, c)
    BY <1>5, <1>12
  <2>2. \A i \in 1 .. Len(q) : q[i].kind # "other" => h[i] \in 1 .. Len(p) /\ p[h[i]] = q[i]
    BY <1>9
  <2>3. \A i, j \in 1 .. Len(q) : i < j /\ q[i].kind # "other" /\ q[j].kind # "other" => h[i] < h[j]
    BY <1>10
  <2> QED BY <2>1, <2>2, <2>3, <1>8, <1>11, TalkEmbeds
<1> QED BY <1>5, <1>12, <1>13

-----------------------------------------------------------------------------
(* Talks that begin. *)

Quiet(p) == \A i \in DOMAIN p : p[i].kind \in {"file", "other"}

\* With nothing hot and no call on the way, any one mark may follow.
LEMMA QuietTalk ==
    ASSUME NEW p \in Seq(Mark), NEW c, Quiet(p), ~ c.inProgress, NEW q, NEW m \in Mark,
           q \in {p, Append(p, m)},
           m.kind = "hot" => c.name \in File /\ c.name = c.chksum /\ c.handle # None,
           m.kind = "call" => c.name \notin File
    PROVE  Talk(q, c)
<1>1. CASE q = p
  BY <1>1 DEF Quiet, Talk, HotAlone, HotNamed, HotAndFile, CallAlone, WebNamed
<1>2. CASE q = Append(p, m)
  <2>1. q \in Seq(Mark) /\ DOMAIN q = 1 .. Len(p) + 1 /\ DOMAIN p = 1 .. Len(p) /\ Len(p) \in Nat
    BY <1>2
  <2>2. \A i \in 1 .. Len(p) + 1 : q[i] = IF i = Len(p) + 1 THEN m ELSE p[i]
    BY <1>2
  <2>3. \A i \in 1 .. Len(p) + 1 : q[i].kind \in {"hot", "call"} => i = Len(p) + 1
    BY <2>1, <2>2 DEF Quiet
  <2>4. HotAlone(q)
    BY <2>1, <2>3 DEF HotAlone
  <2>5. HotNamed(q, c)
    BY <2>1, <2>2, <2>3 DEF HotNamed
  <2>6. HotAndFile(q, c)
    BY <2>1, <2>2, <2>3 DEF HotAndFile
  <2>7. CallAlone(q, c)
    <3>1. ASSUME NEW i \in DOMAIN q, q[i].kind = "call"
          PROVE  c.name \notin File /\ \A j \in DOMAIN q : q[j].kind \in {"hot", "call"} => i = j
      BY <3>1, <2>1, <2>2, <2>3
    <3> QED BY <3>1 DEF CallAlone
  <2> QED BY <2>4, <2>5, <2>6, <2>7 DEF Talk, WebNamed
<1> QED BY <1>1, <1>2

LEMMA QuietAppend ==
    ASSUME NEW p \in Seq(Mark), Quiet(p), NEW m \in Mark, m.kind \in {"file", "other"},
           NEW q, q \in {p, Append(p, m)}
    PROVE  Quiet(q)
<1>1. CASE q = p
  BY <1>1
<1>2. CASE q = Append(p, m)
  <2>1. DOMAIN q = 1 .. Len(p) + 1 /\ DOMAIN p = 1 .. Len(p) /\ Len(p) \in Nat
    BY <1>2
  <2>2. \A i \in 1 .. Len(p) + 1 : q[i] = IF i = Len(p) + 1 THEN m ELSE p[i]
    BY <1>2
  <2> QED BY <2>1, <2>2 DEF Quiet
<1> QED BY <1>1, <1>2

\* What Talk knows of the client.
LEMMA TalkSame ==
    ASSUME NEW p, NEW c, NEW d, Talk(p, c),
           d.inProgress = c.inProgress, d.name = c.name, d.wwwName = c.wwwName,
           d.chksum = c.chksum, d.handle = c.handle
    PROVE  Talk(p, d)
BY DEF Talk, HotAlone, HotNamed, HotAndFile, CallAlone, WebNamed

\* Other messages do not matter.
LEMMA TalkOther ==
    ASSUME NEW p \in Seq(Mark), NEW c, Talk(p, c), NEW q, q \in {p, Append(p, Other)}
    PROVE  Talk(q, c)
<1> DEFINE r == Append(p, Other)
           h == [i \in 1 .. Len(r) |-> i]
<1>1. r \in Seq(Mark) /\ Len(r) = Len(p) + 1 /\ Len(p) \in Nat
      /\ (\A i \in 1 .. Len(p) : r[i] = p[i]) /\ r[Len(p) + 1] = Other
  BY DEF Mark, Other
<1> HIDE DEF r
<1>2. IsSeq(p) /\ IsSeq(r)
  BY <1>1, SeqIsSeq
<1>3. h \in [1 .. Len(r) -> Int]
  BY <1>1
<1>4. \A i \in 1 .. Len(r) : r[i].kind # "other" => h[i] \in 1 .. Len(p) /\ p[h[i]] = r[i]
  BY <1>1 DEF Other
<1>5. \A i, j \in 1 .. Len(r) : i < j /\ r[i].kind # "other" /\ r[j].kind # "other" => h[i] < h[j]
  BY <1>1
<1> HIDE DEF h
<1>6. Talk(r, c)
  BY <1>2, <1>3, <1>4, <1>5, TalkEmbeds
<1> QED BY <1>6 DEF r

\* The first mark is taken from the pipe.
LEMMA TalkTail ==
    ASSUME NEW p \in Seq(Mark), NEW c, p # <<>>, Talk(p, c)
    PROVE  Talk(Tail(p), c)
<1> DEFINE q == Tail(p)
           h == [i \in 1 .. Len(q) |-> i + 1]
<1>1. q \in Seq(Mark) /\ Len(q) = Len(p) - 1 /\ Len(p) \in Nat \ {0}
      /\ (\A i \in 1 .. Len(q) : q[i] = p[i + 1])
  OBVIOUS
<1> HIDE DEF q
<1>2. IsSeq(p) /\ IsSeq(q)
  BY <1>1, SeqIsSeq
<1>3. h \in [1 .. Len(q) -> Int]
  BY <1>1
<1>4. \A i \in 1 .. Len(q) : q[i].kind # "other" => h[i] \in 1 .. Len(p) /\ p[h[i]] = q[i]
  BY <1>1
<1>5. \A i, j \in 1 .. Len(q) : i < j /\ q[i].kind # "other" /\ q[j].kind # "other" => h[i] < h[j]
  BY <1>1
<1> HIDE DEF h
<1>6. Talk(q, c)
  BY <1>2, <1>3, <1>4, <1>5, TalkEmbeds
<1> QED BY <1>6 DEF q

-----------------------------------------------------------------------------
(* Worlds. *)

Base(w) ==
    /\ DOMAIN w = {"cl", "fs", "out", "in"}
    /\ Shape(w.cl, w.fs)
    /\ QueuesOK(w.in, w.out)
Marks(w) == Pipe(w.in, w.out)
Proper(w) == Base(w) /\ Names(w.cl) /\ Talk(Marks(w), w.cl)

\* No download is being waited for, another may begin.
Free(w) == Base(w) /\ Names(w.cl) /\ ~ w.cl.inProgress /\ Quiet(Marks(w))

LEMMA MarksType == \A w : Base(w) => Marks(w) \in Seq(Mark)
BY PipeType DEF Base, Marks

LEMMA FreeIsProper ==
    ASSUME NEW w, Free(w)
    PROVE  Proper(w)
BY DEF Free, Proper, Quiet, Talk, HotAlone, HotNamed, HotAndFile, CallAlone, WebNamed

LEMMA Send_ ==
    ASSUME NEW w, NEW m, Base(w)
    PROVE  LET v == Send(w, m)
           IN  /\ Base(v) /\ v.cl = w.cl /\ v.fs = w.fs /\ v.in = w.in
               /\ Marks(v) \in {Marks(w), Append(Marks(w), MarkOut(m))}
<1>1. CASE w.cl.state = "idle"
  BY <1>1 DEF Send
<1>2. CASE w.cl.state # "idle"
  <2> DEFINE v == Send(w, m)
  <2>1. /\ v.cl = w.cl /\ v.fs = w.fs /\ v.in = w.in /\ v.out = Append(w.out, m)
        /\ DOMAIN v = {"cl", "fs", "out", "in"}
    BY <1>2 DEF Send, Base
  <2> HIDE DEF v
  <2>2. Base(v) /\ Marks(v) \in {Marks(w), Append(Marks(w), MarkOut(m))}
    BY <2>1, PipeSend DEF Base, Marks
  <2> QED BY <2>1, <2>2 DEF v
<1> QED BY <1>1, <1>2

LEMMA Clear_ ==
    ASSUME NEW w, Base(w)
    PROVE  LET v == CL_ClearStaticDownload(w)
           IN  /\ Base(v) /\ v.fs = w.fs /\ v.in = w.in /\ v.out = w.out
               /\ v.cl.name = None /\ v.cl.temp = None /\ v.cl.wwwName = None
               /\ v.cl.inProgress = FALSE /\ v.cl.remote = w.cl.remote
               /\ v.cl.handle = w.cl.handle /\ v.cl.chksum = w.cl.chksum
               /\ v.cl.state = w.cl.state
               /\ v.cl.list = w.cl.list /\ v.cl.completed = w.cl.completed
BY DEF CL_ClearStaticDownload, CL_WWWDownloadStop, Base, Shape

LEMMA Disconnect_ ==
    ASSUME NEW w, Base(w), Names(w.cl),
           w.cl.inProgress => w.cl.name \notin File /\ (w.cl.wwwName \in File => w.cl.wwwName = w.cl.chksum)
    PROVE  Proper(CL_Disconnect(w))
<1> DEFINE v == CL_Disconnect(w)
<1>1. None \notin File
  BY DownloadAssumption
<1>2. /\ DOMAIN v = {"cl", "fs", "out", "in"} /\ Shape(v.cl, v.fs)
      /\ v.in = <<>> /\ v.out = <<>>
      /\ v.cl.remote = None
      /\ v.cl.name \in File => v.cl.name = w.cl.name /\ v.cl.temp = w.cl.temp
      /\ v.cl.inProgress => w.cl.inProgress /\ v.cl.name = w.cl.name
                            /\ v.cl.wwwName = w.cl.wwwName /\ v.cl.chksum = w.cl.chksum
  <2>1. CASE w.cl.bbl8r
    BY <2>1 DEF CL_Disconnect, Base, Shape
  <2>2. CASE ~ w.cl.bbl8r
    <3> DEFINE u == CL_ClearStaticDownload(CloseDownload(w))
    <3>1. Base(u) /\ u.cl.name = None /\ u.cl.inProgress = FALSE
      <4>1. Base(CloseDownload(w))
        BY DEF CloseDownload, Base, Shape
      <4> QED BY <4>1, Clear_
    <3>2. v = [u EXCEPT !.cl.remote = None, !.cl.completed = 0, !.cl.state = "idle",
                        !.out = <<>>, !.in = <<>>]
      BY <2>2 DEF CL_Disconnect
    <3> HIDE DEF u, v
    <3> QED BY <3>1, <3>2, <1>1 DEF Base, Shape
  <2> QED BY <2>1, <2>2
<1> HIDE DEF v
<1>3. QueuesOK(v.in, v.out) /\ Marks(v) = <<>>
  <2>1. QueuesOK(<<>>, <<>>) /\ Pipe(<<>>, <<>>) = <<>>
    BY DEF QueuesOK, IsSeq, Pipe, FreshIn, MarksIn, MarksOut
  <2> QED BY <1>2, <2>1 DEF Marks
<1>4. Talk(<<>>, v.cl)
  BY <1>2 DEF Talk, HotAlone, HotNamed, HotAndFile, CallAlone, WebNamed
<1>5. Names(v.cl)
  BY <1>1, <1>2 DEF Names
<1> QED BY <1>2, <1>3, <1>4, <1>5 DEF Proper, Base, v

-----------------------------------------------------------------------------
(* Which file comes next. *)

LEMMA Drop_ ==
    ASSUME NEW w, Proper(w)
    PROVE  Proper(Drop(w))
BY Disconnect_ DEF Proper, Talk, WebNamed, Drop

LEMMA Begin_ ==
    ASSUME NEW w, NEW local, NEW remote, Base(w)
    PROVE  LET v == CL_BeginDownload(w, local, remote)
           IN  /\ Base(v) /\ v.fs = w.fs /\ v.in = w.in
               /\ v.cl.name = local /\ v.cl.remote = remote
               /\ v.cl.temp = IF local = None THEN Nameless ELSE local
               /\ v.cl.completed = w.cl.completed
               /\ v.cl.wwwName = w.cl.wwwName /\ v.cl.inProgress = w.cl.inProgress
               /\ v.cl.handle = w.cl.handle /\ v.cl.chksum = w.cl.chksum
               /\ v.cl.list = w.cl.list
               /\ Marks(v) \in {Marks(w), Append(Marks(w), IF remote \in File THEN FileMark(remote) ELSE Other)}
<1> DEFINE u == [w EXCEPT !.cl = [@ EXCEPT !.name = local, !.remote = remote,
                                    !.temp = IF local = None THEN Nameless ELSE local,
                                    !.block = 0, !.count = 0]]
           m == [cmd |-> "begin", file |-> remote]
<1>1. /\ Base(u) /\ u.fs = w.fs /\ u.in = w.in /\ u.out = w.out
      /\ u.cl.name = local /\ u.cl.remote = remote
      /\ u.cl.temp = (IF local = None THEN Nameless ELSE local)
      /\ u.cl.completed = w.cl.completed
      /\ u.cl.wwwName = w.cl.wwwName /\ u.cl.inProgress = w.cl.inProgress
      /\ u.cl.handle = w.cl.handle /\ u.cl.chksum = w.cl.chksum /\ u.cl.list = w.cl.list
  BY DEF Base, Shape
<1>2. MarkOut(m) = IF remote \in File THEN FileMark(remote) ELSE Other
  BY DEF MarkOut
<1>3. CL_BeginDownload(w, local, remote) = Send(u, m)
  BY DEF CL_BeginDownload
<1>4. Marks(u) = Marks(w)
  BY <1>1 DEF Marks
<1> HIDE DEF u, m
<1> QED BY <1>1, <1>2, <1>3, <1>4, Send_

LEMMA Complete_ ==
    ASSUME NEW w, Free(w)
    PROVE  Proper(CL_DownloadsComplete(w))
<1>1. CASE ~ w.cl.restart
  <2> DEFINE v == [w EXCEPT !.cl.state = "loading"]
  <2>1. v = CL_DownloadsComplete(w)
    BY <1>1 DEF CL_DownloadsComplete
  <2>2. Free(v)
    BY DEF Free, Base, Shape, Names, Marks
  <2> QED BY <2>1, <2>2, FreeIsProper
<1>2. CASE w.cl.restart
  <2> DEFINE r == FS_Restart([w EXCEPT !.cl.restart = FALSE, !.cl.completed = 0])
             m == [cmd |-> "done"]
             s == IF w.cl.bbl8r THEN r ELSE Send(r, m)
             v == CL_ClearStaticDownload(s)
  <2>1. CL_DownloadsComplete(w) = v
    BY <1>2 DEF CL_DownloadsComplete
  <2>2. Base(r) /\ Marks(r) = Marks(w)
    BY DEF FS_Restart, Free, Base, Shape, Marks
  <2>3. MarkOut(m) = Call
    BY DEF MarkOut
  <2> HIDE DEF r, m
  <2>4. Base(s) /\ Marks(s) \in {Marks(w), Append(Marks(w), Call)}
    BY <2>2, <2>3, Send_
  <2> HIDE DEF s
  <2>5. Base(v) /\ Marks(v) = Marks(s) /\ v.cl.name = None /\ ~ v.cl.inProgress
    BY <2>4, Clear_ DEF Marks
  <2> HIDE DEF v
  <2>6. Talk(Marks(v), v.cl)
    <3>1. Marks(w) \in Seq(Mark) /\ Quiet(Marks(w)) /\ Call \in Mark /\ Call.kind = "call"
      BY MarksType DEF Free, Call, Mark
    <3>2. v.cl.name \notin File
      BY <2>5, DownloadAssumption
    <3> QED BY <2>4, <2>5, <3>1, <3>2, QuietTalk
  <2>7. Names(v.cl)
    BY <2>5, DownloadAssumption DEF Names
  <2> QED BY <2>1, <2>5, <2>6, <2>7 DEF Proper
<1> QED BY <1>1, <1>2

LEMMA BeginFree ==
    ASSUME NEW w, Base(w), ~ w.cl.inProgress, Quiet(Marks(w)), NEW local, NEW remote,
           local \in File /\ remote \in File => remote = local
    PROVE  Free(CL_BeginDownload(w, local, remote))
<1> DEFINE v == CL_BeginDownload(w, local, remote)
           m == IF remote \in File THEN FileMark(remote) ELSE Other
<1>1. /\ Base(v) /\ v.cl.name = local /\ v.cl.remote = remote
      /\ local # None => v.cl.temp = local
      /\ v.cl.inProgress = w.cl.inProgress
      /\ Marks(v) \in {Marks(w), Append(Marks(w), m)}
  BY Begin_
<1> HIDE DEF v
<1>2. Marks(w) \in Seq(Mark) /\ m \in Mark /\ m.kind \in {"file", "other"}
  BY MarksType DEF Mark, Other, FileMark
<1> HIDE DEF m
<1>3. Quiet(Marks(v))
  BY <1>1, <1>2, QuietAppend
<1>4. Names(v.cl)
  BY <1>1, DownloadAssumption DEF Names
<1> QED BY <1>1, <1>3, <1>4 DEF Free, v

LEMMA Next_ ==
    ASSUME NEW w, Free(w)
    PROVE  Proper(CL_NextDownload(w))
<1>1. CASE w.cl.list = <<>>
  BY <1>1, Complete_ DEF CL_NextDownload
<1>2. CASE w.cl.list # <<>>
  <2> DEFINE f == Head(w.cl.list)
             u == CL_BeginDownload(w, f, f)
             v == [u EXCEPT !.cl.restart = TRUE, !.cl.list = Tail(@)]
  <2>1. CL_NextDownload(w) = v
    BY <1>2 DEF CL_NextDownload
  <2>2. Free(u)
    BY BeginFree DEF Free
  <2> HIDE DEF u, f
  <2>3. Free(v)
    BY <2>2 DEF Free, Base, Shape, Names, Marks
  <2> HIDE DEF v
  <2> QED BY <2>1, <2>3, FreeIsProper
<1> QED BY <1>1, <1>2

\* CL_InitDownloads clears the download and begins the first missing file.
LEMMA Init_ ==
    ASSUME NEW w, NEW allow, ~ legacy, Base(w), Quiet(Marks(w))
    PROVE  Proper(CL_InitDownloads(w, allow))
<1> DEFINE clear  == CL_ClearStaticDownload(w)
           needed == FS_CompareFiles(w.fs)
<1>1. Free(clear)
  <2>1. Base(clear) /\ clear.cl.name = None /\ clear.cl.inProgress = FALSE /\ Marks(clear) = Marks(w)
    BY Clear_ DEF Marks
  <2> HIDE DEF clear
  <2> QED BY <2>1, DownloadAssumption DEF Free, Names
<1> HIDE DEF clear
<1>2. Proper(CL_DownloadsComplete([clear EXCEPT !.cl.list = <<>>]))
  <2> DEFINE u == [clear EXCEPT !.cl.list = <<>>]
  <2>1. Free(u)
    BY <1>1 DEF Free, Base, Shape, Names, Marks
  <2> HIDE DEF u
  <2>2. Proper(CL_DownloadsComplete(u))
    BY <2>1, Complete_
  <2> QED BY <2>2 DEF u
<1>3. Proper(CL_NextDownload(CL_SkipAlreadyDownloadedFiles(
          [clear EXCEPT !.cl.list = needed, !.cl.state = "connected"])))
  <2> HIDE DEF needed
  <2> DEFINE u == CL_SkipAlreadyDownloadedFiles([clear EXCEPT !.cl.list = needed, !.cl.state = "connected"])
  <2>1. Free(u)
    BY <1>1 DEF CL_SkipAlreadyDownloadedFiles, Free, Base, Shape, Names, Marks
  <2> HIDE DEF u
  <2>2. Proper(CL_NextDownload(u))
    BY <2>1, Next_
  <2> QED BY <2>2 DEF u
<1>4. Proper(Drop(clear))
  BY <1>1, FreeIsProper, Drop_
<1>5. CL_InitDownloads(w, allow) \in
          {CL_DownloadsComplete([clear EXCEPT !.cl.list = <<>>]),
           CL_NextDownload(CL_SkipAlreadyDownloadedFiles(
               [clear EXCEPT !.cl.list = needed, !.cl.state = "connected"])),
           Drop(clear)}
  BY DEF CL_InitDownloads, clear
<1> HIDE DEF needed
<1> QED BY <1>2, <1>3, <1>4, <1>5

LEMMA Gamestate_ ==
    ASSUME NEW w, NEW fresh, NEW allow, ~ legacy, Base(w), Quiet(Marks(w))
    PROVE  Proper(CL_ParseGamestate(w, fresh, allow))
<1> DEFINE u == IF fresh
                THEN [FS_Restart(w) EXCEPT !.cl.completed = IF legacy THEN @ ELSE 0]
                ELSE w
<1>1. Base(u) /\ Marks(u) = Marks(w)
  BY DEF FS_Restart, Base, Shape, Marks
<1>2. CL_ParseGamestate(w, fresh, allow) = CL_InitDownloads(u, allow)
  BY DEF CL_ParseGamestate
<1> HIDE DEF u
<1> QED BY <1>1, <1>2, Init_

-----------------------------------------------------------------------------
(* Segments. *)

\* What reading leaves: only the files and counters have changed, and maybe segments
\* were asked for, not so when the download is finished.
Reads(w, v, r) ==
    /\ Base(v) /\ v.in = w.in
    /\ v.fs.disk = w.fs.disk /\ v.fs.loaded = w.fs.loaded
    /\ v.cl.name = w.cl.name /\ v.cl.temp = w.cl.temp /\ v.cl.remote = w.cl.remote
    /\ v.cl.wwwName = w.cl.wwwName /\ v.cl.inProgress = w.cl.inProgress
    /\ v.cl.list = w.cl.list /\ v.cl.completed = w.cl.completed
    /\ v.cl.handle = w.cl.handle /\ v.cl.chksum = w.cl.chksum
    /\ Marks(v) \in {Marks(w), Append(Marks(w), Hot)}
    /\ r = 1 => Marks(v) = Marks(w)

LEMMA Write_ ==
    ASSUME NEW w, Base(w), NEW units, NEW n, NEW eof
    PROVE  LET v == [Write(w, units) EXCEPT !.cl.count = n]
               u == [v EXCEPT !.cl.cacheEOF = eof]
           IN  Reads(w, v, 1) /\ Reads(w, u, 1)
BY DEF Write, Reads, Base, Shape, Marks

LEMMA Request_ ==
    ASSUME NEW w, NEW v, Reads(w, v, 1), NEW n
    PROVE  Reads(w, CL_DownloadRequestSegments(v, n), 0)
<1> DEFINE m == [cmd |-> "request", from |-> v.cl.count, n |-> n]
           u == CL_DownloadRequestSegments(v, n)
<1>1. u = Send(v, m)
  BY DEF CL_DownloadRequestSegments
<1>2. MarkOut(m) = Hot
  BY DEF MarkOut
<1> HIDE DEF u, m
<1>3. Base(u) /\ u.cl = v.cl /\ u.fs = v.fs /\ u.in = v.in
      /\ Marks(u) \in {Marks(v), Append(Marks(v), Hot)}
  BY <1>1, <1>2, Send_ DEF Reads
<1> QED BY <1>3 DEF Reads, u

LEMMA GetNextSegment_ ==
    ASSUME NEW w, Base(w)
    PROVE  LET next == CL_DownloadGetNextSegment(w)
           IN  /\ Reads(w, next.w, 0)
               /\ next.done \in BOOLEAN
               /\ next.done => Reads(w, next.w, 1)
<1> DEFINE k      == FromCache(w)
           n      == w.cl.count + k * SegSize
           units  == SubSeq(w.fs.cache[w.cl.temp], w.cl.count + 1, n)
           copied == [Write(w, units) EXCEPT !.cl.count = n]
           bad    == ~w.cl.cacheEOF /\ CacheHas(w, k + 1)
           rest   == w.cl.size - copied.cl.count
           atEOF  == [copied EXCEPT !.cl.cacheEOF = TRUE]
           next   == CL_DownloadGetNextSegment(w)
<1>1. Reads(w, w, 1) /\ Reads(w, w, 0)
  BY DEF Reads
<1>2. Reads(w, copied, 1) /\ Reads(w, atEOF, 1)
  <2> HIDE DEF n, units
  <2> QED BY Write_
<1>3. next \in {[w |-> w, done |-> TRUE],
                [w |-> CL_DownloadRequestSegments(copied, SegSize), done |-> FALSE],
                [w |-> CL_DownloadRequestSegments(atEOF, rest), done |-> FALSE],
                [w |-> atEOF, done |-> TRUE]}
  <2>1. copied = [Write(w, SubSeq(w.fs.cache[w.cl.temp], w.cl.count + 1, w.cl.count + k * SegSize))
                      EXCEPT !.cl.count = @ + k * SegSize]
    <3>1. Write(w, units).cl.count = w.cl.count
      BY DEF Write, Base, Shape
    <3> QED BY <3>1
  <2> HIDE DEF copied, atEOF, bad, rest, k
  <2> QED BY <2>1 DEF CL_DownloadGetNextSegment, atEOF, bad, rest, k
<1> HIDE DEF copied, atEOF, rest, next
<1>4. /\ Reads(w, CL_DownloadRequestSegments(copied, SegSize), 0)
      /\ Reads(w, CL_DownloadRequestSegments(atEOF, rest), 0)
  BY <1>2, Request_
<1>5. Reads(w, atEOF, 0)
  BY <1>2 DEF Reads
<1>6. Reads(w, next.w, 0) /\ next.done \in BOOLEAN /\ (next.done => Reads(w, next.w, 1))
  <2>1. CASE next = [w |-> w, done |-> TRUE]
    BY <2>1, <1>1
  <2>2. CASE next = [w |-> CL_DownloadRequestSegments(copied, SegSize), done |-> FALSE]
    BY <2>2, <1>4
  <2>3. CASE next = [w |-> CL_DownloadRequestSegments(atEOF, rest), done |-> FALSE]
    BY <2>3, <1>4
  <2>4. CASE next = [w |-> atEOF, done |-> TRUE]
    BY <2>4, <1>2, <1>5
  <2> QED BY <1>3, <2>1, <2>2, <2>3, <2>4
<1> QED BY <1>6 DEF next

LEMMA Read_ ==
    ASSUME NEW w, Base(w)
    PROVE  LET step == CL_RequestAndReadDownload(w)
           IN  step.r \in {0, 1, -1} /\ Reads(w, step.w, step.r)
<1> DEFINE next == CL_DownloadGetNextSegment(w)
           step == CL_RequestAndReadDownload(w)
<1>1. Reads(w, next.w, 0) /\ (next.done => Reads(w, next.w, 1)) /\ next.done \in BOOLEAN
  BY GetNextSegment_
<1>2. step = [w |-> next.w, r |-> IF next.w.cl.count # w.cl.size THEN 0
                                  ELSE IF next.done THEN 1 ELSE -1]
  BY DEF CL_RequestAndReadDownload
<1> HIDE DEF next, step
<1>3. step.w = next.w /\ step.r \in {0, 1, -1} /\ (step.r = 1 => next.done)
  BY <1>1, <1>2
<1>4. Reads(w, step.w, step.r)
  BY <1>1, <1>3 DEF Reads
<1> QED BY <1>3, <1>4 DEF step

LEMMA Rename_ ==
    ASSUME NEW w, Base(w), NEW t, NEW f, f \in File => w.fs.tmp[t] = Genuine(f)
    PROVE  LET v == RenameTemp(w, t, f)
           IN  Base(v) /\ v.cl = w.cl /\ v.in = w.in /\ v.out = w.out
<1> DEFINE v == [w EXCEPT !.fs.disk[f] = w.fs.tmp[t], !.fs.tmp[t] = <<>>]
<1>1. CASE f \in File /\ t \in Temp /\ w.fs.tmp[t] # <<>>
  <2>1. /\ DOMAIN v = DOMAIN w /\ v.cl = w.cl /\ v.in = w.in /\ v.out = w.out
        /\ DOMAIN v.fs = DOMAIN w.fs
        /\ v.fs.disk = [w.fs.disk EXCEPT ![f] = w.fs.tmp[t]]
    BY DEF Base, Shape
  <2>2. RenameTemp(w, t, f) = v
    BY <1>1 DEF RenameTemp
  <2> HIDE DEF v
  <2>3. \A g \in File : v.fs.disk[g] \in {<<>>, Genuine(g)}
    BY <2>1, <1>1 DEF Base, Shape
  <2> QED BY <2>1, <2>2, <2>3 DEF Base, Shape
<1>2. CASE ~ (f \in File /\ t \in Temp /\ w.fs.tmp[t] # <<>>)
  <2>1. RenameTemp(w, t, f) = w
    BY <1>2 DEF RenameTemp
  <2> QED BY <2>1
<1> QED BY <1>1, <1>2

LEMMA Close_ ==
    ASSUME NEW w, Base(w)
    PROVE  LET v == CloseDownload(w)
           IN  /\ Base(v) /\ v.fs = w.fs /\ v.in = w.in /\ v.out = w.out
               /\ v.cl.handle = None /\ v.cl.name = w.cl.name /\ v.cl.temp = w.cl.temp
               /\ v.cl.remote = w.cl.remote /\ v.cl.wwwName = w.cl.wwwName
               /\ v.cl.inProgress = w.cl.inProgress /\ v.cl.chksum = w.cl.chksum
               /\ v.cl.ft = w.cl.ft /\ v.cl.bbl8r = w.cl.bbl8r
               /\ v.cl.list = w.cl.list /\ v.cl.completed = w.cl.completed
BY DEF CloseDownload, Base, Shape

\* A download that is begun again while its segments are asked for: the answer finds the
\* file closed.
LEMMA AgainTalk ==
    ASSUME NEW p \in Seq(Mark), NEW c, \A i \in DOMAIN p : p[i].kind = "other",
           ~ c.inProgress, c.handle = None, c.name \in File, c.name = c.chksum,
           NEW q, q \in {p, Append(p, Hot)},
           NEW m, m \in {FileMark(c.name), Other}, NEW s, s \in {q, Append(q, m)}
    PROVE  Talk(s, c)
<1>1. Hot \in Mark /\ m \in Mark
  BY DEF Mark, Hot, FileMark, Other
<1>2. q \in Seq(Mark) /\ Len(p) \in Nat /\ DOMAIN p = 1 .. Len(p)
      /\ Len(q) \in {Len(p), Len(p) + 1}
      /\ \A i \in 1 .. Len(q) : q[i] = IF i <= Len(p) THEN p[i] ELSE Hot
  <2>1. CASE q = p
    BY <2>1
  <2>2. CASE q = Append(p, Hot)
    BY <2>2, <1>1
  <2> QED BY <2>1, <2>2
<1>3. s \in Seq(Mark) /\ Len(s) \in {Len(q), Len(q) + 1}
      /\ \A i \in 1 .. Len(s) : s[i] = IF i <= Len(q) THEN q[i] ELSE m
  <2>1. CASE s = q
    BY <2>1, <1>2
  <2>2. CASE s = Append(q, m)
    BY <2>2, <1>1, <1>2
  <2> QED BY <2>1, <2>2
<1>4. \A i \in DOMAIN s : /\ s[i].kind = "hot" => i = Len(p) + 1
                          /\ s[i].kind = "file" => i > Len(q) /\ s[i].file = c.chksum
                          /\ s[i].kind # "call"
  <2>1. \A i \in 1 .. Len(s) : s[i] = IF i <= Len(p) THEN p[i] ELSE IF i <= Len(q) THEN Hot ELSE m
    BY <1>2, <1>3
  <2>2. Hot.kind = "hot" /\ m.kind \in {"file", "other"} /\ (m.kind = "file" => m.file = c.chksum)
    BY DEF Hot, FileMark, Other
  <2>3. \A i \in 1 .. Len(s) : s[i].kind = "hot" => i = Len(p) + 1
    BY <2>1, <2>2, <1>2, <1>3
  <2>4. \A i \in 1 .. Len(s) : s[i].kind = "file" => i > Len(q) /\ s[i].file = c.chksum
    BY <2>1, <2>2, <1>2, <1>3
  <2>5. \A i \in 1 .. Len(s) : s[i].kind # "call"
    BY <2>1, <2>2, <1>2, <1>3
  <2> QED BY <2>3, <2>4, <2>5, <1>3
<1>5. \A i, j \in DOMAIN s : s[i].kind = "hot" /\ s[j].kind = "file" => i < j
  <2>1. \A i \in 1 .. Len(s) : s[i].kind = "hot" => i <= Len(q)
    BY <1>2, <1>3 DEF FileMark, Other
  <2> QED BY <2>1, <1>2, <1>3, <1>4
<1> QED BY <1>4, <1>5 DEF Talk, HotAlone, HotNamed, HotAndFile, CallAlone, WebNamed

\* What becomes of a file that has arrived (CL_RequestAndReadDownload returns 1).
LEMMA FileEnds ==
    ASSUME NEW step, NEW again, step.r = 1,
           NEW whole, whole = [CloseDownload(step.w) EXCEPT !.fs.cache[step.w.cl.temp] = <<>>]
    PROVE  Proceed(step, again) =
             IF Unreadable(whole) THEN Drop(whole)
             ELSE IF CL_VerifyFinal(whole)
             THEN CL_NextDownload([RenameTemp(whole, whole.cl.temp, whole.cl.name) EXCEPT !.cl.completed = @ + 1])
             ELSE Corrupted(whole, again)
<1>1. CASE Unreadable(whole)
  BY <1>1 DEF Proceed
<1>2. CASE ~ Unreadable(whole) /\ CL_VerifyFinal(whole)
  BY <1>2 DEF Proceed
<1>3. CASE ~ Unreadable(whole) /\ ~ CL_VerifyFinal(whole)
  BY <1>3 DEF Proceed
<1> QED BY <1>1, <1>2, <1>3

LEMMA Proceed_ ==
    ASSUME NEW w, NEW step, NEW again, again \in BOOLEAN, Free(w), w.cl.handle # None,
           w.cl.name \in File, w.cl.name = w.cl.chksum,
           step.r \in {0, 1, -1}, Reads(w, step.w, step.r),
           again => \A i \in DOMAIN Marks(w) : Marks(w)[i].kind = "other"
    PROVE  Proper(Proceed(step, again))
<1> DEFINE closed == CloseDownload(step.w)
           whole  == [closed EXCEPT !.fs.cache[step.w.cl.temp] = <<>>]
           p == Marks(w)
<1>1. p \in Seq(Mark) /\ Quiet(p)
  BY MarksType DEF Free
<1>2. /\ Base(closed) /\ closed.fs = step.w.fs /\ Marks(closed) = Marks(step.w)
      /\ closed.cl.handle = None /\ closed.cl.name = w.cl.name /\ closed.cl.temp = w.cl.temp
      /\ closed.cl.remote = w.cl.remote /\ closed.cl.inProgress = FALSE
      /\ closed.cl.chksum = w.cl.chksum
  BY Close_ DEF Reads, Free, Marks
<1>3. Names(closed.cl) /\ Names(step.w.cl)
  BY <1>2 DEF Names, Free, Reads
<1>4. /\ Base(whole) /\ whole.cl = closed.cl /\ Marks(whole) = Marks(step.w)
      /\ whole.fs.tmp = closed.fs.tmp
  <2> HIDE DEF closed
  <2> QED BY <1>2 DEF Base, Shape, Marks
<1> HIDE DEF closed, whole, p
<1>5. CASE step.r = 0
  <2>1. Talk(Marks(step.w), step.w.cl)
    <3>1. Hot \in Mark /\ Hot.kind = "hot"
      BY DEF Hot, Mark
    <3> QED BY <1>1, <3>1, QuietTalk DEF Reads, p, Free
  <2>2. Proceed(step, again) = step.w
    BY <1>5 DEF Proceed
  <2> QED BY <2>1, <2>2, <1>3 DEF Proper, Reads
<1>6. ASSUME again
      PROVE  Proper(BeginAgain(closed)) /\ (step.r = 1 => Proper(BeginAgain(whole)))
  <2>1. ASSUME NEW u, Base(u), u.cl = closed.cl, Marks(u) = Marks(step.w)
        PROVE  Proper(BeginAgain(u))
    <3> DEFINE v == BeginAgain(u)
               m == IF u.cl.remote \in File THEN FileMark(u.cl.remote) ELSE Other
    <3>1. /\ Base(v) /\ v.cl.name = u.cl.name /\ v.cl.remote = u.cl.remote
          /\ u.cl.name # None => v.cl.temp = u.cl.name
          /\ v.cl.inProgress = u.cl.inProgress /\ v.cl.handle = u.cl.handle
          /\ v.cl.chksum = u.cl.chksum /\ Marks(v) \in {Marks(u), Append(Marks(u), m)}
      BY <2>1, Begin_ DEF BeginAgain
    <3>2. m \in {FileMark(v.cl.name), Other}
      BY <3>1, <1>3, <2>1, <1>2 DEF Names
    <3> HIDE DEF v, m
    <3>3. Talk(Marks(v), v.cl)
      <4>1. Marks(u) \in {p, Append(p, Hot)}
        BY <2>1 DEF Reads, p
      <4>2. \A i \in DOMAIN p : p[i].kind = "other"
        BY <1>6 DEF p
      <4>3. p \in Seq(Mark) /\ Marks(v) \in {Marks(u), Append(Marks(u), m)}
        BY <1>1, <3>1
      <4>4. ~ v.cl.inProgress /\ v.cl.handle = None /\ v.cl.name \in File /\ v.cl.name = v.cl.chksum
        BY <1>2, <2>1, <3>1
      <4> QED BY <3>2, <4>1, <4>2, <4>3, <4>4, AgainTalk
    <3>4. Names(v.cl)
      BY <3>1, <2>1, <1>2, DownloadAssumption, <1>3 DEF Names
    <3> QED BY <3>1, <3>3, <3>4 DEF Proper, v
  <2> QED BY <2>1, <1>2, <1>4
<1>7. ASSUME NEW u, Base(u), u.cl = closed.cl
      PROVE  Proper(Drop(u))
  BY <1>7, <1>2, <1>3, Disconnect_ DEF Drop
<1>8. CASE step.r = -1
  <2>1. Proceed(step, again) = Corrupted(closed, again)
    BY <1>8 DEF Proceed, closed
  <2> QED BY <2>1, <1>6, <1>7, <1>2 DEF Corrupted
<1>9. CASE step.r = 1 /\ CL_VerifyFinal(whole)
  <2> DEFINE u == RenameTemp(whole, whole.cl.temp, whole.cl.name)
             v == [u EXCEPT !.cl.completed = @ + 1]
  <2>1. Base(u) /\ u.cl = whole.cl /\ Marks(u) = Marks(w)
    <3>1. Base(u) /\ u.cl = whole.cl /\ u.in = whole.in /\ u.out = whole.out
      <4>1. whole.fs.tmp[whole.cl.temp] = Genuine(whole.cl.name)
        BY <1>9, <1>2, <1>4 DEF CL_VerifyFinal
      <4> QED BY <4>1, <1>4, Rename_
    <3>2. Marks(step.w) = Marks(w)
      BY <1>9 DEF Reads
    <3> QED BY <3>1, <3>2, <1>4 DEF Marks
  <2> HIDE DEF u
  <2>2. Free(v)
    BY <2>1, <1>1, <1>2, <1>3, <1>4 DEF Free, Base, Shape, Names, Marks, p
  <2> HIDE DEF v
  <2>3. Proper(CL_NextDownload(v)) /\ Proper(Drop(whole))
    BY <2>2, Next_, <1>4, <1>7
  <2>4. Proceed(step, again) \in {CL_NextDownload(v), Drop(whole)}
    BY <1>9, FileEnds DEF closed, whole, u, v
  <2> QED BY <2>3, <2>4
<1>10. CASE step.r = 1 /\ ~ CL_VerifyFinal(whole)
  <2>1. Proceed(step, again) \in {Corrupted(whole, again), Drop(whole)}
    BY <1>10, FileEnds DEF closed, whole
  <2> QED BY <2>1, <1>6, <1>7, <1>4, <1>10 DEF Corrupted
<1> QED BY <1>5, <1>8, <1>9, <1>10

-----------------------------------------------------------------------------
(* What the client does with the messages of a download.  p is the pipe with the *)
(* message that was taken from it.                                                *)

LEMMA TailMarks ==
    ASSUME NEW p \in Seq(Mark), p # <<>>
    PROVE  /\ 1 \in DOMAIN p /\ Tail(p) \in Seq(Mark)
           /\ \A i \in DOMAIN Tail(p) : i + 1 \in DOMAIN p /\ 1 < i + 1 /\ Tail(p)[i] = p[i + 1]
           /\ \A i \in DOMAIN p : 1 < i => i # 1
           /\ \A i \in DOMAIN p : p[i].kind \in {"hot", "file", "call", "other"}
<1>1. \A i \in DOMAIN p : p[i] \in Mark
  OBVIOUS
<1>2. \A i \in DOMAIN p : p[i].kind \in {"hot", "file", "call", "other"}
  BY <1>1, Zenon DEF Mark
<1> QED BY <1>2

LEMMA FileInit_ ==
    ASSUME NEW w, Base(w), Names(w.cl), NEW f \in File,
           NEW p \in Seq(Mark), p # <<>>, p[1] = FileMark(f), Marks(w) = Tail(p), Talk(p, w.cl)
    PROVE  Proper(FileInit(w, f))
<1> DEFINE u == [w EXCEPT !.cl.chksum = f]
           t == w.cl.temp
           cached == Open([w EXCEPT !.cl.chksum = f, !.fs.cache[t] = w.fs.tmp[t]])
           v == [cached EXCEPT !.cl.size = Size[f], !.cl.cacheEOF = FALSE]
<1>0. 1 \in DOMAIN p /\ p[1].kind = "file" /\ p[1].file = f
  BY TailMarks DEF FileMark
<1>1. /\ Base(u) /\ u.cl.name = w.cl.name /\ u.cl.chksum = f /\ u.cl.inProgress = w.cl.inProgress
      /\ u.cl.wwwName = w.cl.wwwName /\ u.cl.temp = w.cl.temp /\ u.cl.remote = w.cl.remote
  BY DEF Base, Shape
<1> HIDE DEF u
<1>2. CASE w.cl.name # f
  <2>1. u.cl.inProgress => u.cl.name \notin File /\ (u.cl.wwwName \in File => u.cl.wwwName = u.cl.chksum)
    BY <1>0, <1>1 DEF Talk, WebNamed
  <2>2. Names(u.cl)
    BY <1>1 DEF Names
  <2> QED BY <2>1, <2>2, <1>1, <1>2, Disconnect_ DEF FileInit, Drop, u
<1>3. CASE w.cl.name = f /\ w.cl.handle # None
  <2> DEFINE x == CloseDownload(u)
  <2>1. Base(x) /\ Names(x.cl) /\ ~ x.cl.inProgress
    BY <1>1, <1>3, Close_ DEF Names, Talk, WebNamed
  <2>2. FileInit(w, f) = Drop(x)
    BY <1>3 DEF FileInit, u
  <2> HIDE DEF x
  <2> QED BY <2>1, <2>2, Disconnect_ DEF Drop
<1>4. CASE w.cl.name = f /\ w.cl.handle = None
  <2>1. Quiet(Tail(p)) /\ ~ w.cl.inProgress
    <3>1. \A i \in DOMAIN p : p[i].kind # "hot"
      BY <1>0, <1>4 DEF Talk, HotAndFile
    <3>2. \A i \in DOMAIN p : p[i].kind # "call"
      BY <1>4 DEF Talk, CallAlone
    <3>3. \A i \in DOMAIN p : p[i].kind \in {"file", "other"}
      BY <3>1, <3>2, TailMarks
    <3>4. Quiet(Tail(p))
      BY <3>3, TailMarks DEF Quiet
    <3> QED BY <3>4, <1>4 DEF Talk, WebNamed
  <2>2. /\ Base(v) /\ Marks(v) = Marks(w) /\ v.cl.handle = w.cl.temp
        /\ v.cl.name = w.cl.name /\ v.cl.temp = w.cl.temp /\ v.cl.remote = w.cl.remote
        /\ v.cl.chksum = f /\ v.cl.inProgress = w.cl.inProgress
    <3> DEFINE a == [w EXCEPT !.cl.chksum = f, !.fs.cache[t] = w.fs.tmp[t]]
               b == Open(a)
    <3>1. /\ Base(a) /\ a.cl = u.cl /\ a.in = w.in /\ a.out = w.out
      BY DEF Base, Shape, u
    <3>2. /\ Base(b) /\ b.in = a.in /\ b.out = a.out /\ b.cl = [a.cl EXCEPT !.handle = a.cl.temp]
      <4> HIDE DEF a
      <4> QED BY <3>1 DEF Open, Base, Shape
    <3>3. v = [b EXCEPT !.cl.size = Size[f], !.cl.cacheEOF = FALSE]
      OBVIOUS
    <3> HIDE DEF a, b, v
    <3>4. Base(v) /\ v.in = b.in /\ v.out = b.out
          /\ v.cl = [b.cl EXCEPT !.size = Size[f], !.cacheEOF = FALSE]
      BY <3>2, <3>3 DEF Base, Shape
    <3> QED BY <1>1, <3>1, <3>2, <3>4 DEF Base, Shape, Marks
  <2>3. FileInit(w, f) = Proceed(CL_RequestAndReadDownload(v), FALSE)
    BY <1>4 DEF FileInit
  <2> HIDE DEF v
  <2>4. Free(v) /\ v.cl.handle # None
    BY <2>1, <2>2, <1>4 DEF Free, Names
  <2> DEFINE step == CL_RequestAndReadDownload(v)
  <2>5. step.r \in {0, 1, -1} /\ Reads(v, step.w, step.r)
    BY <2>2, Read_
  <2> HIDE DEF step
  <2>6. Proper(Proceed(step, FALSE))
    BY <2>2, <2>4, <2>5, <1>4, Proceed_
  <2> QED BY <2>3, <2>6 DEF step
<1> QED BY <1>2, <1>3, <1>4

LEMMA ServerDl_ ==
    ASSUME NEW w, NEW m, Base(w), Names(w.cl), m.type = "serverdl",
           NEW p \in Seq(Mark), p # <<>>, p[1] = MarkIn(m), Marks(w) = Tail(p), Talk(p, w.cl)
    PROVE  Proper(ServerDl(w, m))
<1>1. Proper(w)
  BY TalkTail DEF Proper
<1>2. CASE w.cl.handle = None
  BY <1>1, <1>2, Drop_ DEF ServerDl
<1>3. CASE w.cl.handle # None /\ (m.from # w.cl.count \/ m.from + Len(m.units) > w.cl.size)
  <2> DEFINE x == CloseDownload(w)
  <2>1. /\ Base(x) /\ Names(x.cl)
        /\ x.cl.inProgress => x.cl.name \notin File /\ (x.cl.wwwName \in File => x.cl.wwwName = x.cl.chksum)
    BY Close_ DEF Names, Talk, WebNamed
  <2>2. ServerDl(w, m) = Drop(x)
    BY <1>3 DEF ServerDl
  <2> HIDE DEF x
  <2> QED BY <2>1, <2>2, Disconnect_ DEF Drop
<1> DEFINE taken == w.cl.handle # None /\ ~ (m.from # w.cl.count \/ m.from + Len(m.units) > w.cl.size)
<1>4. CASE taken /\ m.units # <<>>
  <2> DEFINE v == [Write(w, m.units) EXCEPT !.cl.count = w.cl.count + Len(m.units)]
  <2>1. Reads(w, v, 1)
    BY Write_
  <2>2. ServerDl(w, m) = v
    <3>1. Write(w, m.units).cl.count = w.cl.count
      BY DEF Write, Base, Shape
    <3> QED BY <1>4, <3>1 DEF ServerDl
  <2> HIDE DEF v
  <2>3. Talk(Marks(v), v.cl)
    BY <1>1, <2>1, TalkSame DEF Proper, Reads
  <2>4. Names(v.cl)
    BY <1>1, <2>1 DEF Proper, Reads, Names
  <2> QED BY <2>1, <2>2, <2>3, <2>4 DEF Proper, Reads
<1>5. CASE taken /\ m.units = <<>>
  <2>1. p[1].kind = "hot" /\ 1 \in DOMAIN p
    BY <1>5, TailMarks DEF MarkIn, Hot
  <2>2. \A i \in DOMAIN p : 1 < i => p[i].kind = "other"
    <3>1. \A i \in DOMAIN p : i # 1 => p[i].kind # "hot"
      BY <2>1 DEF Talk, HotAlone
    <3>2. \A i \in DOMAIN p : i # 1 => p[i].kind # "call"
      BY <2>1 DEF Talk, CallAlone
    <3>3. \A i \in DOMAIN p : 1 < i => p[i].kind # "file"
      BY <2>1, <1>5 DEF Talk, HotAndFile
    <3> QED BY <3>1, <3>2, <3>3, TailMarks
  <2>3. \A i \in DOMAIN Tail(p) : Tail(p)[i].kind = "other"
    BY <2>2, TailMarks
  <2>4. ~ w.cl.inProgress /\ w.cl.name \in File /\ w.cl.name = w.cl.chksum
    BY <2>1 DEF Talk, HotNamed
  <2>5. Free(w)
    BY <2>3, <2>4 DEF Free, Quiet
  <2> DEFINE step == CL_RequestAndReadDownload(w)
  <2>6. step.r \in {0, 1, -1} /\ Reads(w, step.w, step.r)
    BY Read_
  <2>7. ServerDl(w, m) = Proceed(step, TRUE)
    BY <1>5 DEF ServerDl
  <2> HIDE DEF step
  <2> QED BY <2>3, <2>4, <2>5, <2>6, <2>7, <1>5, Proceed_
<1> QED BY <1>2, <1>3, <1>4, <1>5

-----------------------------------------------------------------------------
(* Redirected downloads. *)

\* While the web server is asked, nothing hot and no call is on the way.
LEMMA WebTalk ==
    ASSUME NEW p, NEW c, Quiet(p), c.name \notin File, c.wwwName \in File => c.wwwName = c.chksum,
           \A i \in DOMAIN p : p[i].kind = "file" => p[i].file = c.chksum
    PROVE  Talk(p, c)
BY DEF Quiet, Talk, HotAlone, HotNamed, HotAndFile, CallAlone, WebNamed

LEMMA ParseWWW_ ==
    ASSUME NEW w, NEW m, NEW reachable, ~ legacy, Base(w), Names(w.cl), m.type = "redirect",
           NEW p \in Seq(Mark), p # <<>>, p[1] = MarkIn(m), Marks(w) = Tail(p), Talk(p, w.cl)
    PROVE  Proper(CL_ParseWWWDownload(w, m, reachable))
<1> DEFINE named == [w EXCEPT !.cl.wwwName = w.cl.name, !.cl.name = Url,
                              !.cl.size = m.size, !.cl.www = TRUE]
           begun == [named EXCEPT !.cl.ft = Transfer(m.file, w.cl.count),
                                  !.cl.remote = Url, !.cl.head = FALSE, !.cl.inProgress = TRUE]
           fail  == [cmd |-> "wwwfail"]
           later == [cmd |-> "wwwbbl8r"]
<1>0. Url \notin File
  BY DownloadAssumption
<1>1. p[1].kind = "hot" /\ 1 \in DOMAIN p
  BY TailMarks DEF MarkIn, Hot
<1>2. Quiet(Tail(p)) /\ \A i \in DOMAIN Tail(p) : Tail(p)[i].kind = "file" => Tail(p)[i].file = w.cl.chksum
  <2>1. \A i \in DOMAIN p : i # 1 => p[i].kind # "hot"
    BY <1>1 DEF Talk, HotAlone
  <2>2. \A i \in DOMAIN p : i # 1 => p[i].kind # "call"
    BY <1>1 DEF Talk, CallAlone
  <2>3. \A i \in DOMAIN p : 1 < i /\ p[i].kind = "file" => p[i].file = w.cl.chksum
    BY <1>1 DEF Talk, HotAndFile
  <2> QED BY <2>1, <2>2, <2>3, TailMarks DEF Quiet
<1>3. ~ w.cl.inProgress /\ w.cl.name = w.cl.chksum
  BY <1>1 DEF Talk, HotNamed
<1>4. Tail(p) \in Seq(Mark)
  BY TailMarks
<1>5. /\ Base(named) /\ Marks(named) = Tail(p) /\ named.cl.name = Url /\ ~ named.cl.inProgress
      /\ named.cl.wwwName = w.cl.name /\ named.cl.chksum = w.cl.chksum
  BY <1>3 DEF Base, Shape, Marks
<1>6. CASE ~ reachable
  <2> DEFINE s == Send(named, fail)
             v == CloseDownload([CL_WWWDownloadStop(s) EXCEPT !.cl.www = FALSE])
  <2>1. v = CL_ParseWWWDownload(w, m, reachable)
    BY <1>6 DEF CL_ParseWWWDownload, CL_ReportWWWDLFail
  <2>2. MarkOut(fail) = Call
    BY DEF MarkOut
  <2> HIDE DEF named, fail
  <2>3. Base(s) /\ s.cl = named.cl /\ Marks(s) \in {Tail(p), Append(Tail(p), Call)}
    BY <1>5, <2>2, Send_
  <2> HIDE DEF s
  <2>4. Base(v) /\ v.cl.name = Url /\ ~ v.cl.inProgress /\ Marks(v) = Marks(s)
    BY <2>3, <1>5 DEF CloseDownload, CL_WWWDownloadStop, Base, Shape, Marks
  <2> HIDE DEF v
  <2>5. Call \in Mark /\ Call.kind = "call"
    BY DEF Mark, Call
  <2>6. Talk(Marks(v), v.cl)
    BY <2>3, <2>4, <2>5, <1>0, <1>2, <1>4, QuietTalk
  <2> QED BY <2>1, <2>4, <2>6, <1>0 DEF Proper, Names
<1>7. CASE reachable
  <2>1. /\ Base(begun) /\ Marks(begun) = Tail(p) /\ begun.cl.name = Url
        /\ begun.cl.wwwName = w.cl.name /\ begun.cl.chksum = w.cl.chksum
    <3> HIDE DEF named
    <3> QED BY <1>5 DEF Base, Shape, Marks
  <2> DEFINE s == Send(begun, later)
             v == [s EXCEPT !.cl.bbl8r = TRUE]
  <2>2. CL_ParseWWWDownload(w, m, reachable) \in {begun, v}
    BY <1>7 DEF CL_ParseWWWDownload
  <2>3. MarkOut(later) = Other
    BY DEF MarkOut
  <2> HIDE DEF begun, later
  <2>4. Talk(Tail(p), begun.cl)
    BY <2>1, <1>0, <1>2, <1>3, WebTalk
  <2>5. Base(s) /\ s.cl = begun.cl /\ Marks(s) \in {Tail(p), Append(Tail(p), Other)}
    BY <2>1, <2>3, Send_
  <2>6. Talk(Marks(s), s.cl)
    BY <2>4, <2>5, <1>4, TalkOther
  <2> HIDE DEF s
  <2>7. /\ Base(v) /\ Marks(v) = Marks(s) /\ v.cl = [s.cl EXCEPT !.bbl8r = TRUE]
    BY <2>5 DEF Base, Shape, Marks
  <2> HIDE DEF v
  <2>8. v.cl.name = Url /\ Talk(Marks(v), v.cl)
    <3>1. /\ v.cl.inProgress = s.cl.inProgress /\ v.cl.name = s.cl.name
          /\ v.cl.wwwName = s.cl.wwwName /\ v.cl.chksum = s.cl.chksum /\ v.cl.handle = s.cl.handle
      BY <2>7, <2>5 DEF Base, Shape
    <3> QED BY <3>1, <2>1, <2>5, <2>6, <2>7, TalkSame
  <2>9. Proper(begun) /\ Proper(v)
    BY <2>1, <2>4, <2>7, <2>8, <1>0 DEF Proper, Names
  <2> QED BY <2>2, <2>9
<1> QED BY <1>6, <1>7

\* A step of the transfer: the file on the disk and the names stay.
Web(w, v) ==
    /\ Base(v) /\ v.in = w.in /\ v.out = w.out
    /\ v.fs.disk = w.fs.disk /\ v.fs.loaded = w.fs.loaded
    /\ v.cl.list = w.cl.list /\ v.cl.completed = w.cl.completed
    /\ v.cl.name = w.cl.name /\ v.cl.temp = w.cl.temp /\ v.cl.remote = w.cl.remote
    /\ v.cl.wwwName = w.cl.wwwName /\ v.cl.inProgress = w.cl.inProgress
    /\ v.cl.chksum = w.cl.chksum
WebProper(w) == Proper(w) /\ w.cl.inProgress

LEMMA WebProperIs ==
    ASSUME NEW w, WebProper(w)
    PROVE  /\ Base(w) /\ Marks(w) \in Seq(Mark) /\ Quiet(Marks(w))
           /\ w.cl.name \notin File /\ (w.cl.wwwName \in File => w.cl.wwwName = w.cl.chksum)
           /\ \A i \in DOMAIN Marks(w) : Marks(w)[i].kind = "file" => Marks(w)[i].file = w.cl.chksum
<1>1. Base(w) /\ Talk(Marks(w), w.cl) /\ w.cl.inProgress
  BY DEF WebProper, Proper
<1>2. Marks(w) \in Seq(Mark)
  BY <1>1, MarksType
<1>3. \A i \in DOMAIN Marks(w) : Marks(w)[i].kind \notin {"hot", "call"}
  BY <1>1 DEF Talk, HotNamed, CallAlone
<1>4. \A i \in DOMAIN Marks(w) : Marks(w)[i].kind \in {"hot", "file", "call", "other"}
  <2>1. \A i \in DOMAIN Marks(w) : Marks(w)[i] \in Mark
    BY <1>2
  <2> QED BY <2>1, Zenon DEF Mark
<1>5. Quiet(Marks(w))
  BY <1>3, <1>4 DEF Quiet
<1> QED BY <1>1, <1>2, <1>5 DEF Talk, WebNamed

LEMMA WebSame ==
    ASSUME NEW w, NEW v, WebProper(w), Web(w, v)
    PROVE  WebProper(v)
<1>1. Marks(v) = Marks(w)
  BY DEF Web, Marks
<1>2. Talk(Marks(v), v.cl)
  BY <1>1, WebProperIs, WebTalk DEF Web
<1> QED BY <1>2, WebProperIs DEF WebProper, Proper, Web, Names

LEMMA Loop_ ==
    ASSUME NEW w, NEW st, NEW large, WebProper(w)
    PROVE  LET loop == CL_WWWDownloadLoop(w, st, large)
           IN  WebProper(loop.w) /\ Web(w, loop.w) /\ loop.status \in {0, 1, -1}
<1> DEFINE seen == CheckHead(w)
           shut == [CloseDownload(Flush(seen)) EXCEPT !.cl.ft = NoTransfer]
           loop == CL_WWWDownloadLoop(w, st, large)
<1>1. Base(w)
  BY WebProperIs
<1>2. ASSUME NEW v, Web(w, v) PROVE Web(w, Open(v)) /\ Web(w, CloseDownload(v))
  BY <1>2 DEF Web, Open, CloseDownload, Base, Shape
<1>3. Web(w, seen)
  <2> DEFINE kept == IF w.cl.ft.code # 206 THEN CloseDownload(w) ELSE w
             opened == IF kept.cl.handle = None THEN Open(kept) ELSE kept
  <2>1. Web(w, w)
    BY <1>1 DEF Web
  <2>2. Web(w, kept)
    BY <2>1, <1>2
  <2> HIDE DEF kept
  <2>3. Web(w, opened)
    BY <2>2, <1>2
  <2>4. seen \in {w, [opened EXCEPT !.cl.head = TRUE]}
    BY DEF CheckHead, kept
  <2> HIDE DEF opened
  <2>5. Web(w, [opened EXCEPT !.cl.head = TRUE])
    BY <2>3 DEF Web, Base, Shape
  <2> QED BY <2>1, <2>4, <2>5
<1>4. Web(w, Flush(seen))
  <2> HIDE DEF seen
  <2> DEFINE x == Write(seen, seen.cl.ft.buf)
  <2>1. Web(w, x)
    BY <1>3 DEF Write, Web, Base, Shape
  <2>2. Flush(seen) = [x EXCEPT !.cl.ft.buf = <<>>]
    BY DEF Flush
  <2> HIDE DEF x
  <2> QED BY <2>1, <2>2 DEF Web, Base, Shape
<1>5. Web(w, shut)
  <2> DEFINE x == CloseDownload(Flush(seen))
  <2>1. Web(w, x)
    BY <1>4, <1>2
  <2> HIDE DEF x
  <2>2. Web(w, [x EXCEPT !.cl.ft = NoTransfer])
    BY <2>1 DEF Web, Base, Shape
  <2> QED BY <2>2 DEF x
<1>6. loop \in {[w |-> w, status |-> -1], [w |-> seen, status |-> 0], [w |-> seen, status |-> -1],
                [w |-> Flush(seen), status |-> 0], [w |-> shut, status |-> 1]}
  <2> HIDE DEF seen, shut
  <2> QED BY DEF CL_WWWDownloadLoop, seen, shut
<1>7. WebProper(seen) /\ WebProper(Flush(seen)) /\ WebProper(shut)
  BY <1>3, <1>4, <1>5, WebSame
<1> HIDE DEF seen, shut, loop
<1>8. Web(w, w)
  BY <1>1 DEF Web
<1>9. WebProper(loop.w) /\ Web(w, loop.w) /\ loop.status \in {0, 1, -1}
  BY <1>3, <1>4, <1>5, <1>6, <1>7, <1>8
<1> QED BY <1>9 DEF loop

LEMMA WWWFailed_ ==
    ASSUME NEW w, WebProper(w)
    PROVE  Proper(WWWFailed(w))
<1>0. Base(w) /\ Names(w.cl) /\ Marks(w) \in Seq(Mark) /\ Quiet(Marks(w)) /\ w.cl.name \notin File
  BY WebProperIs DEF WebProper, Proper
<1>1. CASE w.cl.bbl8r
  <2> DEFINE u == CL_ClearStaticDownload(w)
  <2>1. Base(u) /\ u.cl.name = None /\ u.cl.inProgress = FALSE
    BY <1>0, Clear_
  <2>2. WWWFailed(w) = CL_Disconnect(u)
    BY <1>1 DEF WWWFailed, Drop
  <2> HIDE DEF u
  <2>3. Names(u.cl)
    BY <2>1, DownloadAssumption DEF Names
  <2> QED BY <2>1, <2>2, <2>3, Disconnect_
<1>2. CASE ~ w.cl.bbl8r
  <2> DEFINE m == [cmd |-> "wwwfail"]
             s == Send(w, m)
             v == [CL_WWWDownloadStop(s) EXCEPT !.cl.www = FALSE]
  <2>1. v = WWWFailed(w)
    BY <1>2 DEF WWWFailed, CL_ReportWWWDLFail
  <2>2. MarkOut(m) = Call /\ Call \in Mark /\ Call.kind = "call"
    BY DEF MarkOut, Mark, Call
  <2> HIDE DEF m
  <2>3. Base(s) /\ s.cl = w.cl /\ Marks(s) \in {Marks(w), Append(Marks(w), Call)}
    BY <1>0, <2>2, Send_
  <2> HIDE DEF s
  <2>4. Base(v) /\ v.cl.name = w.cl.name /\ ~ v.cl.inProgress /\ Marks(v) = Marks(s)
    BY <2>3 DEF CL_WWWDownloadStop, Base, Shape, Marks
  <2> HIDE DEF v
  <2>5. Talk(Marks(v), v.cl)
    BY <2>2, <2>3, <2>4, <1>0, QuietTalk
  <2> QED BY <2>1, <2>4, <2>5, <1>0 DEF Proper, Names
<1> QED BY <1>1, <1>2

LEMMA WWWFinished_ ==
    ASSUME NEW w, WebProper(w), CL_VerifyFinal(w)
    PROVE  Proper(WWWFinished(w))
<1> DEFINE r == RenameTemp(w, w.cl.temp, w.cl.wwwName)
           named == ClearNames(r)
           m == [cmd |-> "wwwdone"]
           told == IF w.cl.bbl8r THEN [named EXCEPT !.cl.reconnect = TRUE] ELSE Send(named, m)
           u == CL_WWWDownloadStop(told)
           v == [u EXCEPT !.cl.www = FALSE, !.cl.completed = @ + 1]
<1>0. Base(w) /\ Marks(w) \in Seq(Mark) /\ Quiet(Marks(w))
  BY WebProperIs
<1>1. Base(r) /\ r.cl = w.cl /\ Marks(r) = Marks(w)
  <2>1. w.cl.wwwName \in File => w.fs.tmp[w.cl.temp] = Genuine(w.cl.wwwName)
    BY WebProperIs DEF CL_VerifyFinal
  <2> QED BY <1>0, <2>1, Rename_ DEF Marks
<1>2. WWWFinished(w) = CL_NextDownload(v)
  BY DEF WWWFinished
<1> HIDE DEF r
<1>3. Base(named) /\ Marks(named) = Marks(w) /\ named.cl.name = None
  BY <1>1 DEF ClearNames, Base, Shape, Marks
<1>4. MarkOut(m) = Other /\ Other \in Mark /\ Other.kind = "other"
  BY DEF MarkOut, Mark, Other
<1> HIDE DEF named, m
<1>5. Base(told) /\ told.cl.name = None /\ Marks(told) \in {Marks(w), Append(Marks(w), Other)}
  <2>1. CASE w.cl.bbl8r
    BY <2>1, <1>3 DEF Base, Shape, Marks
  <2>2. CASE ~ w.cl.bbl8r
    BY <2>2, <1>3, <1>4, Send_
  <2> QED BY <2>1, <2>2
<1> HIDE DEF told
<1>6. Base(u) /\ u.cl.name = None /\ ~ u.cl.inProgress /\ Marks(u) = Marks(told)
  BY <1>5 DEF CL_WWWDownloadStop, Base, Shape, Marks
<1> HIDE DEF u
<1>7. Base(v) /\ v.cl.name = None /\ ~ v.cl.inProgress /\ Marks(v) = Marks(told)
  BY <1>6 DEF Base, Shape, Marks
<1> HIDE DEF v
<1>8. Quiet(Marks(v))
  BY <1>0, <1>4, <1>5, <1>7, QuietAppend
<1>9. Free(v)
  BY <1>7, <1>8, DownloadAssumption DEF Free, Names
<1> QED BY <1>2, <1>9, Next_

\* The names are cleared first: nothing is asked for, nothing will be renamed.
LEMMA WWWCorrupted_ ==
    ASSUME NEW w, WebProper(w)
    PROVE  Proper(WWWCorrupted(w))
<1> DEFINE named == ClearNames(w)
           v == CL_BeginDownload(named, None, None)
<1>0. None \notin File
  BY DownloadAssumption
<1>1. /\ Base(named) /\ Marks(named) = Marks(w) /\ named.cl.name = None /\ named.cl.remote = None
      /\ named.cl.wwwName = w.cl.wwwName /\ named.cl.chksum = w.cl.chksum
  <2>1. Base(w)
    BY WebProperIs
  <2> QED BY <2>1 DEF ClearNames, Base, Shape, Marks
<1>2. WWWCorrupted(w) = v
  BY <1>1 DEF WWWCorrupted, BeginAgain
<1> HIDE DEF named
<1>3. Talk(Marks(named), v.cl)
  <2>1. v.cl.name = None /\ v.cl.wwwName = w.cl.wwwName /\ v.cl.chksum = w.cl.chksum
    BY <1>1, Begin_
  <2> HIDE DEF v
  <2> QED BY <2>1, <1>0, <1>1, WebProperIs, WebTalk
<1>4. Base(v) /\ v.cl.name = None /\ Marks(v) \in {Marks(named), Append(Marks(named), Other)}
  BY <1>0, <1>1, Begin_
<1> HIDE DEF v
<1>5. Talk(Marks(v), v.cl)
  BY <1>1, <1>3, <1>4, WebProperIs, TalkOther
<1> QED BY <1>0, <1>2, <1>4, <1>5 DEF Proper, Names

LEMMA WWWDownload_ ==
    ASSUME NEW w, NEW st, NEW large, ~ legacy, WebProper(w)
    PROVE  Proper(CL_WWWDownload(w, st, large))
<1> DEFINE loop   == CL_WWWDownloadLoop(w, st, large)
           closed == CloseDownload(loop.w)
<1>1. WebProper(loop.w) /\ loop.status \in {0, 1, -1}
  BY Loop_
<1> HIDE DEF loop
<1>2. WebProper(closed)
  <2>1. Web(loop.w, closed)
    BY <1>1, WebProperIs, Close_ DEF Web
  <2> QED BY <1>1, <2>1, WebSame
<1> HIDE DEF closed
<1>3. Proper(loop.w) /\ Proper(WWWFailed(closed)) /\ Proper(Drop(closed)) /\ Proper(WWWCorrupted(closed))
  BY <1>1, <1>2, WWWFailed_, WWWCorrupted_, Drop_ DEF WebProper
<1>4. CL_VerifyFinal(closed) => Proper(WWWFinished(closed))
  BY <1>2, WWWFinished_
<1>5. \/ CL_WWWDownload(w, st, large) \in {loop.w, WWWFailed(closed), Drop(closed), WWWCorrupted(closed)}
      \/ CL_VerifyFinal(closed) /\ CL_WWWDownload(w, st, large) = WWWFinished(closed)
  BY <1>1 DEF CL_WWWDownload, loop, closed
<1> QED BY <1>3, <1>4, <1>5

-----------------------------------------------------------------------------
(* The steps.  World is what the variables say. *)

LEMMA WorldIs ==
    ASSUME DownloadInv, ~ legacy
    PROVE  /\ Proper(World) /\ Marks(World) = Pipe(toClient, toServer)
           /\ World.cl = cl /\ World.fs = fs /\ World.in = toClient /\ World.out = toServer
           /\ DOMAIN World = {"cl", "fs", "out", "in"}
BY DEF DownloadInv, World, Proper, Base, Marks

LEMMA BecomesProper ==
    ASSUME NEW w, Proper(w), Becomes(w)
    PROVE  DownloadInv'
BY DEF Becomes, DownloadInv, Proper, Base, Marks

LEMMA FrameStep ==
    ASSUME DownloadInv, ~ legacy, Frame
    PROVE  DownloadInv'
<1>1. PICK step \in TransferSteps(cl.ft), large \in BOOLEAN :
          Becomes(CL_WWWDownload([World EXCEPT !.cl.ft = step.ft], step.st, large))
  BY DEF Frame
<1> DEFINE w == [World EXCEPT !.cl.ft = step.ft]
<1>2. WebProper(World)
  BY WorldIs DEF WebProper, Frame
<1>3. Web(World, w)
  BY <1>2, WebProperIs DEF Web, Base, Shape
<1>4. WebProper(w)
  BY <1>2, <1>3, WebSame
<1>5. Becomes(CL_WWWDownload(w, step.st, large))
  BY <1>1
<1> HIDE DEF w
<1>6. Proper(CL_WWWDownload(w, step.st, large))
  BY <1>4, WWWDownload_
<1> QED BY <1>5, <1>6, BecomesProper

LEMMA ReceiveStep ==
    ASSUME DownloadInv, ~ legacy, ReceiveMessage
    PROVE  DownloadInv'
<1> DEFINE m == Head(toClient)
           w == [World EXCEPT !.in = Tail(@)]
           p == Pipe(toClient, toServer)
           fresh == m.type = "gamestate" /\ m.fresh
<1>1. /\ toClient # <<>> /\ QueuesOK(toClient, toServer) /\ Shape(cl, fs)
      /\ Names(cl) /\ Talk(p, cl) /\ p \in Seq(Mark)
  BY PipeType DEF ReceiveMessage, DownloadInv
<1>2. /\ QueuesOK(Tail(toClient), toServer) /\ ReceivedOK(m)
      /\ fresh => Tail(toClient) = <<>>
      /\ ~ fresh => p # <<>> /\ p[1] = MarkIn(m) /\ Pipe(Tail(toClient), toServer) = Tail(p)
  BY <1>1, PipeReceive
<1>3. /\ w.cl = cl /\ w.fs = fs /\ w.in = Tail(toClient) /\ w.out = toServer
      /\ DOMAIN w = {"cl", "fs", "out", "in"}
  BY DEF World
<1>4. CASE fresh
  <2>1. PICK allow \in BOOLEAN :
            Becomes(CL_ParseGamestate([w EXCEPT !.out = IF m.fresh THEN <<>> ELSE @], m.fresh, allow))
    BY <1>2, <1>4 DEF ReceiveMessage
  <2> DEFINE u == [w EXCEPT !.out = IF m.fresh THEN <<>> ELSE @]
  <2>2. /\ u.cl = cl /\ u.fs = fs /\ u.in = <<>> /\ u.out = <<>> /\ DOMAIN u = {"cl", "fs", "out", "in"}
    BY <1>2, <1>3, <1>4
  <2>3. Becomes(CL_ParseGamestate(u, m.fresh, allow))
    BY <2>1
  <2> HIDE DEF u, w
  <2>4. Base(u) /\ Quiet(Marks(u))
    <3>1. QueuesOK(<<>>, <<>>) /\ Pipe(<<>>, <<>>) = <<>>
      BY DEF QueuesOK, IsSeq, Pipe, FreshIn, MarksIn, MarksOut
    <3> QED BY <1>1, <2>2, <3>1 DEF Base, Marks, Quiet
  <2>5. Proper(CL_ParseGamestate(u, m.fresh, allow))
    BY <2>4, Gamestate_
  <2> QED BY <2>3, <2>5, BecomesProper
<1>5. CASE ~ fresh
  <2>1. p # <<>> /\ p[1] = MarkIn(m) /\ Base(w) /\ Marks(w) = Tail(p) /\ Names(w.cl) /\ Talk(p, w.cl)
    BY <1>1, <1>2, <1>3, <1>5 DEF Base, Marks
  <2>a. p \in Seq(Mark)
    BY <1>1
  <2>2. CASE m.type = "gamestate"
    <3>1. PICK allow \in BOOLEAN :
              Becomes(CL_ParseGamestate([w EXCEPT !.out = IF m.fresh THEN <<>> ELSE @], m.fresh, allow))
      BY <2>2 DEF ReceiveMessage
    <3>2. m.fresh = FALSE
      BY <1>2, <1>5, <2>2 DEF ReceivedOK
    <3>3. [w EXCEPT !.out = IF m.fresh THEN <<>> ELSE @] = w
      BY <1>3, <3>2
    <3>4. p[1].kind = "call" /\ 1 \in DOMAIN p
      BY <2>a, <2>1, <2>2, <3>2, TailMarks DEF MarkIn, Call
    <3> HIDE DEF p, w
    <3>5. Quiet(Tail(p))
      <4>1. \A i \in DOMAIN p : i # 1 => p[i].kind \notin {"hot", "call"}
        BY <2>1, <3>4 DEF Talk, CallAlone
      <4> QED BY <4>1, <2>1, <2>a, TailMarks DEF Quiet
    <3>6. Proper(CL_ParseGamestate(w, m.fresh, allow))
      BY <2>1, <3>5, Gamestate_
    <3> QED BY <3>1, <3>3, <3>6, BecomesProper
  <2>3. CASE m.type = "fileinit"
    <3>1. Becomes(FileInit(w, m.file))
      BY <2>3 DEF ReceiveMessage
    <3>2. m.file \in File /\ MarkIn(m) = FileMark(m.file)
      BY <1>2, <2>3 DEF ReceivedOK, MarkIn
    <3> HIDE DEF p, w, m
    <3>3. Proper(FileInit(w, m.file))
      BY <2>1, <2>a, <3>2, FileInit_
    <3> QED BY <3>1, <3>3, BecomesProper
  <2>4. CASE m.type = "serverdl"
    <3>1. Becomes(ServerDl(w, m))
      BY <2>4 DEF ReceiveMessage
    <3> HIDE DEF p, w, m
    <3>2. Proper(ServerDl(w, m))
      BY <2>1, <2>a, <2>4, ServerDl_
    <3> QED BY <3>1, <3>2, BecomesProper
  <2>5. Proper(w) /\ Proper(Drop(w))
    <3> HIDE DEF p, w
    <3> QED BY <2>1, <2>a, TalkTail, Drop_ DEF Proper
  <2>6. CASE m.type = "redirect"
    <3>1. Becomes(w) \/ \E reachable \in BOOLEAN : Becomes(CL_ParseWWWDownload(w, m, reachable))
      BY <2>6 DEF ReceiveMessage
    <3> HIDE DEF p, w, m
    <3>2. \A reachable : Proper(CL_ParseWWWDownload(w, m, reachable))
      BY <2>1, <2>a, <2>6, ParseWWW_
    <3> QED BY <3>1, <3>2, <2>5, BecomesProper
  <2>7. CASE m.type \in {"fail", "disconnect"}
    <3>1. Becomes(Drop(w))
      BY <2>7 DEF ReceiveMessage
    <3> HIDE DEF w
    <3> QED BY <3>1, <2>5, BecomesProper
  <2> QED BY <1>2, <2>2, <2>3, <2>4, <2>6, <2>7 DEF ReceivedOK
<1> QED BY <1>4, <1>5

\* Connecting, the client waits for a new game state and has nothing else to hear.
LEMMA FreshPipe ==
    LET fresh == [type |-> "gamestate", fresh |-> TRUE]
    IN  QueuesOK(<<fresh>>, <<>>) /\ Pipe(<<fresh>>, <<>>) = <<Other>> /\ Pipe(<<>>, <<>>) = <<>>
<1> DEFINE fresh == [type |-> "gamestate", fresh |-> TRUE]
<1>1. Pipe(<<>>, <<>>) = <<>>
  BY DEF Pipe, FreshIn, MarksIn, MarksOut
<1>2. ReceivedOK(fresh) /\ MarkIn(fresh) = Other /\ fresh.type = "gamestate" /\ fresh.fresh = TRUE
  BY DEF ReceivedOK, MarkIn
<1> HIDE DEF fresh
<1>3. QueuesOK(<<fresh>>, <<>>) /\ FreshIn(<<fresh>>)
  BY <1>2 DEF QueuesOK, IsSeq, FreshIn
<1>4. MarksIn(<<fresh>>) = <<Other>>
  BY <1>2 DEF MarksIn
<1> QED BY <1>1, <1>3, <1>4 DEF Pipe, fresh

LEMMA LeaveStep ==
    ASSUME DownloadInv, ~ legacy
    PROVE  /\ Becomes(CL_Disconnect(World)) => DownloadInv'
           /\ Becomes(Connect(World)) => DownloadInv'
<1> DEFINE d == CL_Disconnect(World)
           fresh == [type |-> "gamestate", fresh |-> TRUE]
           c == Connect(World)
<1>1. Proper(d) /\ d.in = <<>> /\ d.out = <<>>
  <2>1. Proper(d)
    BY WorldIs, Drop_ DEF Drop
  <2>2. d.in = <<>> /\ d.out = <<>>
    <3>1. DOMAIN (IF World.cl.bbl8r THEN World ELSE CL_ClearStaticDownload(CloseDownload(World)))
              = {"cl", "fs", "out", "in"}
      BY WorldIs, Close_, Clear_ DEF Proper, Base
    <3> QED BY <3>1 DEF CL_Disconnect
  <2> QED BY <2>1, <2>2
<1>2. c = [d EXCEPT !.cl.state = "waiting", !.cl.reconnect = FALSE, !.in = <<fresh>>]
  BY DEF Connect
<1> HIDE DEF d, c
<1>3. /\ DOMAIN c = {"cl", "fs", "out", "in"} /\ Shape(c.cl, c.fs) /\ c.in = <<fresh>> /\ c.out = <<>>
      /\ c.cl = [d.cl EXCEPT !.state = "waiting", !.reconnect = FALSE]
  BY <1>1, <1>2 DEF Proper, Base, Shape
<1>4. /\ c.cl.inProgress = d.cl.inProgress /\ c.cl.name = d.cl.name /\ c.cl.temp = d.cl.temp
      /\ c.cl.wwwName = d.cl.wwwName /\ c.cl.chksum = d.cl.chksum /\ c.cl.handle = d.cl.handle
      /\ c.cl.remote = d.cl.remote
  BY <1>1, <1>3 DEF Proper, Base, Shape
<1>5. QueuesOK(<<fresh>>, <<>>) /\ Pipe(<<fresh>>, <<>>) = <<Other>> /\ Pipe(<<>>, <<>>) = <<>>
  BY FreshPipe
<1>6. Base(c) /\ Marks(c) = <<Other>> /\ Marks(d) = <<>>
  BY <1>1, <1>3, <1>5 DEF Base, Marks
<1>7. Talk(Marks(c), c.cl)
  <2>1. Talk(<<>>, c.cl)
    BY <1>1, <1>4, <1>6, TalkSame DEF Proper
  <2>2. <<Other>> = Append(<<>>, Other) /\ <<>> \in Seq(Mark)
    OBVIOUS
  <2> QED BY <2>1, <2>2, <1>6, TalkOther
<1>8. Proper(c)
  BY <1>1, <1>4, <1>6, <1>7 DEF Proper, Names
<1> QED BY <1>1, <1>8, BecomesProper DEF c, d

LEMMA MapChangeStep ==
    ASSUME DownloadInv, ~ legacy, MapChange
    PROVE  DownloadInv'
<1> DEFINE fresh == [type |-> "gamestate", fresh |-> TRUE]
           in == toClient \o <<fresh>>
           n == Len(toClient)
           p == Pipe(toClient, toServer)
           q == Pipe(in, toServer)
           h == [i \in 1 .. Len(q) |-> i]
<1>1. /\ QueuesOK(toClient, toServer) /\ IsSeq(toClient) /\ IsSeq(toServer) /\ n \in Nat
      /\ Talk(p, cl) /\ Shape(cl, fs) /\ Names(cl)
      /\ \A i \in 1 .. n : toClient[i].type # "gamestate"
      /\ toClient' = in /\ legacy' = legacy /\ cl' = cl /\ fs' = fs /\ toServer' = toServer
  BY DEF DownloadInv, QueuesOK, IsSeq, MapChange, Answer
<1>2. IsSeq(<<fresh>>) /\ Len(<<fresh>>) = 1 /\ <<fresh>>[1] = fresh
  BY DEF IsSeq
<1>3. /\ IsSeq(in) /\ Len(in) = n + 1 /\ (\A i \in 1 .. n : in[i] = toClient[i])
      /\ in[n + 1] = fresh
  <2>1. /\ IsSeq(in) /\ Len(in) = n + 1 /\ (\A i \in 1 .. n : in[i] = toClient[i])
        /\ \A i \in n + 1 .. n + 1 : in[i] = <<fresh>>[i - n]
    BY <1>1, <1>2, ConcatSeq
  <2> QED BY <2>1, <1>1, <1>2
<1> HIDE DEF in, n
<1>4. QueuesOK(in, toServer) /\ FreshIn(in) /\ ~ FreshIn(toClient)
  <2>1. \A i \in 1 .. n + 1 : i \in 1 .. n \/ i = n + 1
    BY <1>1
  <2>2. n + 1 \in 1 .. n + 1 /\ fresh.type = "gamestate" /\ fresh.fresh = TRUE /\ ReceivedOK(fresh)
    BY <1>1 DEF ReceivedOK
  <2>3. (\A i \in 1 .. n : ReceivedOK(toClient[i]))
    BY <1>1, Zenon DEF QueuesOK, n
  <2> HIDE DEF fresh
  <2>4. FreshIn(in) /\ ~ FreshIn(toClient)
    BY <1>1, <1>3, <2>2, Zenon DEF FreshIn, n
  <2>5. \A i \in 1 .. n + 1 : ReceivedOK(in[i])
    BY <1>3, <2>1, <2>2, <2>3, Zenon
  <2>6. \A i \in 1 .. n + 1 : in[i].type = "gamestate" => i = n + 1
    BY <1>1, <1>3, <2>1, Zenon
  <2> QED BY <1>1, <1>3, <2>4, <2>5, <2>6, Zenon DEF QueuesOK
<1>5. /\ q \in Seq(Mark) /\ Len(q) = n + 1
      /\ p \in Seq(Mark) /\ Len(p) >= n
      /\ \A i \in 1 .. n : q[i] = p[i]
      /\ q[n + 1] = Other
  <2>1. /\ MarksIn(in) \in Seq(Mark) /\ Len(MarksIn(in)) = n + 1
        /\ MarksIn(toClient) \in Seq(Mark) /\ Len(MarksIn(toClient)) = n
        /\ MarksOut(toServer) \in Seq(Mark)
    BY <1>1, <1>3, <1>4, PipeType DEF n
  <2>2. q = MarksIn(in) /\ p = MarksIn(toClient) \o MarksOut(toServer)
    BY <1>4 DEF Pipe
  <2>3. \A i \in 1 .. n + 1 : MarksIn(in)[i] = MarkIn(in[i])
    BY <1>3, Zenon DEF MarksIn
  <2>4. \A i \in 1 .. n : MarksIn(toClient)[i] = MarkIn(toClient[i])
    BY Zenon DEF MarksIn, n
  <2>5. MarkIn(fresh) = Other
    BY DEF MarkIn
  <2> HIDE DEF p, q, fresh
  <2>6. \A i \in 1 .. n : i \in 1 .. n + 1 /\ MarksIn(in)[i] = MarksIn(toClient)[i]
    <3>1. \A i \in 1 .. n : i \in 1 .. n + 1
      BY <1>1
    <3> QED BY <3>1, <2>3, <2>4, <1>3, Zenon
  <2>7. n + 1 \in 1 .. n + 1
    BY <1>1
  <2>8. MarksIn(in)[n + 1] = Other
    BY <2>3, <2>5, <2>7, <1>3, Zenon
  <2>9. p \in Seq(Mark) /\ Len(p) >= n /\ \A i \in 1 .. n : p[i] = MarksIn(toClient)[i]
    BY <2>1, <2>2, <1>1
  <2> QED BY <2>1, <2>2, <2>6, <2>8, <2>9
<1> HIDE DEF p, q
<1>6. Talk(q, cl)
  <2>1. IsSeq(p) /\ IsSeq(q)
    BY <1>5, SeqIsSeq, Zenon
  <2>2. h \in [1 .. Len(q) -> Int] /\ \A i \in 1 .. Len(q) : h[i] = i
    BY <1>5, <1>1
  <2>3. \A i \in 1 .. Len(q) : q[i].kind # "other" => h[i] \in 1 .. Len(p) /\ p[h[i]] = q[i]
    BY <1>1, <1>5, <2>2 DEF Other
  <2>4. \A i, j \in 1 .. Len(q) : i < j /\ q[i].kind # "other" /\ q[j].kind # "other" => h[i] < h[j]
    BY <2>2
  <2> HIDE DEF h
  <2> QED BY <1>1, <2>1, <2>2, <2>3, <2>4, TalkEmbeds
<1> QED BY <1>1, <1>4, <1>6 DEF DownloadInv, q

\* What the server answers carries the mark of the command at the end at most.
Answers(ans, m) ==
    /\ IsSeq(ans)
    /\ \A i \in 1 .. Len(ans) :
           /\ ReceivedOK(ans[i])
           /\ ~ (ans[i].type = "gamestate" /\ ans[i].fresh)
           /\ MarkIn(ans[i]) = Other \/ (i = Len(ans) /\ MarkIn(ans[i]) = MarkOut(m))

LEMMA AnswerOne ==
    ASSUME NEW a, NEW m, ReceivedOK(a), ~ (a.type = "gamestate" /\ a.fresh),
           MarkIn(a) \in {Other, MarkOut(m)}
    PROVE  Answers(<<a>>, m)
BY DEF Answers, IsSeq

LEMMA SegmentAnswers ==
    ASSUME NEW f \in File, NEW from \in 0 .. Size[f], NEW n \in Nat, NEW m, m.cmd = "request"
    PROVE  Answers(Segment(f, from, n), m)
<1> DEFINE last == IF from + n < Size[f] THEN from + n ELSE Size[f]
           data == [i \in 1 .. last - from |->
                       [type |-> "serverdl", from |-> from + i - 1, units |-> <<<<f, from + i>>>>]]
           end == [type |-> "serverdl", from |-> last, units |-> <<>>]
           l == last - from
<1>1. Size[f] \in Nat
  BY DownloadAssumption
<1>2. last \in Nat /\ l \in Nat
  BY <1>1
<1>3. Segment(f, from, n) = data \o <<end>>
  BY DEF Segment
<1> HIDE DEF last
<1>4. IsSeq(data) /\ Len(data) = l
  <2> DEFINE S == {data[i] : i \in 1 .. l}
  <2>1. data \in [1 .. l -> S]
    OBVIOUS
  <2> HIDE DEF data, S, l
  <2>2. data \in Seq(S) /\ Len(data) = l
    BY <2>1, <1>2
  <2> QED BY <2>2, SeqIsSeq
<1>5. \A i \in 1 .. l : data[i].type = "serverdl" /\ data[i].units # <<>>
  <2>1. ASSUME NEW i \in 1 .. l
        PROVE  data[i].type = "serverdl" /\ data[i].units # <<>>
    <3>1. data[i].type = "serverdl" /\ data[i].units = <<<<f, from + i>>>>
      OBVIOUS
    <3> QED BY <3>1
  <2> QED BY <2>1
<1>6. end.type = "serverdl" /\ end.units = <<>>
  OBVIOUS
<1> HIDE DEF data, end, l
<1>7. IsSeq(<<end>>) /\ Len(<<end>>) = 1 /\ <<end>>[1] = end
  BY DEF IsSeq
<1> DEFINE ans == data \o <<end>>
<1>8. /\ IsSeq(ans) /\ Len(ans) = l + 1 /\ (\A i \in 1 .. l : ans[i] = data[i])
      /\ ans[l + 1] = end
  <2>1. /\ IsSeq(ans) /\ Len(ans) = l + 1 /\ (\A i \in 1 .. l : ans[i] = data[i])
        /\ \A i \in l + 1 .. l + 1 : ans[i] = <<end>>[i - l]
    BY <1>4, <1>7, ConcatSeq
  <2> QED BY <2>1, <1>2, <1>7
<1> HIDE DEF ans
<1>9. \A i \in 1 .. l + 1 : ans[i].type = "serverdl" /\ (i # l + 1 => ans[i].units # <<>>)
  BY <1>2, <1>5, <1>6, <1>8
<1>10. MarkIn(end) = MarkOut(m)
  BY <1>6 DEF MarkIn, MarkOut
<1>11. \A i \in 1 .. l + 1 :
           /\ ReceivedOK(ans[i])
           /\ ~ (ans[i].type = "gamestate" /\ ans[i].fresh)
           /\ MarkIn(ans[i]) = Other \/ (i = l + 1 /\ MarkIn(ans[i]) = MarkOut(m))
  BY <1>8, <1>9, <1>10 DEF ReceivedOK, MarkIn
<1> QED BY <1>3, <1>8, <1>11 DEF Answers, ans

LEMMA ExecuteStep ==
    ASSUME DownloadInv, ~ legacy, ServerExecute
    PROVE  DownloadInv'
<1> DEFINE m == Head(toServer)
<1>1. /\ QueuesOK(toClient, toServer) /\ toServer # <<>> /\ ~ FreshIn(toClient)
      /\ Talk(Pipe(toClient, toServer), cl) /\ Shape(cl, fs) /\ Names(cl)
      /\ legacy' = legacy /\ cl' = cl /\ fs' = fs /\ toServer' = Tail(toServer)
  <2>1. QueuesOK(toClient, toServer)
    BY DEF DownloadInv
  <2>2. DOMAIN toClient = 1 .. Len(toClient)
    BY <2>1 DEF QueuesOK, IsSeq
  <2> QED BY <2>1, <2>2 DEF DownloadInv, ServerExecute, FreshIn
<1>2. ExecuteX(m)
  BY DEF ServerExecute
<1> HIDE DEF m
<1>3. PICK ans : toClient' = toClient \o ans /\ Answers(ans, m)
  <2> DEFINE f == server.file
  <2>0. Answers(<<>>, m)
    BY DEF Answers, IsSeq
  <2>1. CASE m.cmd = "begin" /\ m.file \in File /\ Answer(<<[type |-> "fileinit", file |-> m.file]>>)
    <3> DEFINE a == [type |-> "fileinit", file |-> m.file]
    <3>1. ReceivedOK(a) /\ a.type # "gamestate" /\ MarkIn(a) = MarkOut(m)
      BY <2>1 DEF ReceivedOK, MarkIn, MarkOut
    <3>2. Answers(<<a>>, m)
      <4> HIDE DEF a
      <4> QED BY <3>1, AnswerOne
    <3> QED BY <2>1, <3>2 DEF Answer
  <2>2. CASE Answer(<<>>)
    BY <2>0, <2>2 DEF Answer
  <2>3. CASE \E a \in {[type |-> "fail"], [type |-> "disconnect"]} : Answer(<<a>>)
    <3>1. PICK a \in {[type |-> "fail"], [type |-> "disconnect"]} : Answer(<<a>>)
      BY <2>3
    <3>2. ReceivedOK(a) /\ a.type # "gamestate" /\ MarkIn(a) = Other
      BY <3>1 DEF ReceivedOK, MarkIn
    <3>3. Answers(<<a>>, m)
      BY <3>2, AnswerOne
    <3> QED BY <3>1, <3>3 DEF Answer
  <2>4. CASE m.cmd = "request" /\ f \in File /\ m.from \in 0 .. Size[f] /\ m.n \in Nat
             /\ Answer(Segment(f, m.from, m.n))
    BY <2>4, SegmentAnswers DEF Answer
  <2>5. CASE m.cmd = "request" /\ \E later \in BOOLEAN : Answer(<<Redirect(f, later)>>)
    <3>1. PICK later \in BOOLEAN : Answer(<<Redirect(f, later)>>)
      BY <2>5
    <3> DEFINE a == Redirect(f, later)
    <3>2. ReceivedOK(a) /\ a.type # "gamestate" /\ MarkIn(a) = MarkOut(m)
      BY <2>5 DEF Redirect, ReceivedOK, MarkIn, MarkOut
    <3>3. Answers(<<a>>, m)
      <4> HIDE DEF a
      <4> QED BY <3>2, AnswerOne
    <3> QED BY <3>1, <3>3 DEF Answer
  <2>6. CASE m.cmd \in {"done", "wwwfail"} /\ Answer(<<Resend>>)
    <3>1. ReceivedOK(Resend) /\ ~ Resend.fresh /\ MarkIn(Resend) = MarkOut(m)
      BY <2>6 DEF Resend, ReceivedOK, MarkIn, MarkOut
    <3> QED BY <2>6, <3>1, AnswerOne DEF Answer
  <2> QED BY <1>2, <2>1, <2>2, <2>3, <2>4, <2>5, <2>6 DEF ExecuteX
<1>4. /\ QueuesOK(toClient \o ans, Tail(toServer))
      /\ Talk(Pipe(toClient \o ans, Tail(toServer)), cl)
  BY <1>1, <1>3, PipeAnswer DEF Answers, m
<1> QED BY <1>1, <1>3, <1>4 DEF DownloadInv

LEMMA LegacyStays == [Next]_vars => legacy' = legacy
BY DEF Next, vars, ServerExecute, ServerSendBlock, LoseBlock, MapChange, LoseConnection,
       UserConnect, Reconnect, ReceiveMessage, Frame

-----------------------------------------------------------------------------

LEMMA InvInit == Init => DownloadInv
<1> SUFFICES ASSUME Init PROVE DownloadInv
  OBVIOUS
<1> DEFINE fresh == [type |-> "gamestate", fresh |-> TRUE]
<1>1. None \notin File
  BY DownloadAssumption
<1>2. Shape(cl, fs) /\ cl.name = None /\ cl.inProgress = FALSE
  BY DEF Init, Shape
<1>3. QueuesOK(<<fresh>>, <<>>) /\ Pipe(<<fresh>>, <<>>) = <<Other>>
  BY FreshPipe
<1>4. Quiet(<<Other>>) /\ <<Other>> \in Seq(Mark) /\ Other \in Mark /\ Other.kind = "other"
  BY DEF Quiet, Other, Mark
<1>5. Talk(<<Other>>, cl)
  BY <1>2, <1>4, QuietTalk
<1> QED BY <1>1, <1>2, <1>3, <1>5 DEF Init, DownloadInv, Names

LEMMA InvNext == DownloadInv /\ [Next]_vars => DownloadInv'
<1> SUFFICES ASSUME DownloadInv, [Next]_vars PROVE DownloadInv'
  OBVIOUS
<1>1. CASE legacy
  BY <1>1, LegacyStays DEF DownloadInv
<1>2. CASE ~ legacy
  <2>1. CASE ServerExecute
    BY <1>2, <2>1, ExecuteStep
  <2>2. CASE ServerSendBlock
    BY <1>2, <2>2 DEF ServerSendBlock
  <2>3. CASE LoseBlock
    <3>1. ReceivedOK(Head(toClient))
      BY <1>2, <2>3, PipeReceive DEF DownloadInv, LoseBlock
    <3> QED BY <2>3, <3>1 DEF LoseBlock, ReceivedOK
  <2>4. CASE MapChange
    BY <1>2, <2>4, MapChangeStep
  <2>5. CASE LoseConnection
    BY <1>2, <2>5, LeaveStep DEF LoseConnection
  <2>6. CASE UserConnect
    BY <1>2, <2>6, LeaveStep DEF UserConnect
  <2>7. CASE Reconnect
    BY <1>2, <2>7, LeaveStep DEF Reconnect
  <2>8. CASE ReceiveMessage
    BY <1>2, <2>8, ReceiveStep
  <2>9. CASE Frame
    BY <1>2, <2>9, FrameStep
  <2>10. CASE UNCHANGED vars
    <3>1. /\ legacy' = legacy /\ cl' = cl /\ fs' = fs /\ toServer' = toServer
          /\ toClient' = toClient
      BY <2>10 DEF vars
    <3> QED BY <3>1, Zenon DEF DownloadInv
  <2> QED BY <2>1, <2>2, <2>3, <2>4, <2>5, <2>6, <2>7, <2>8, <2>9, <2>10 DEF Next
<1> QED BY <1>1, <1>2

\* What a server of the x-protocol, or a web server it redirects to, installs under a
\* file's name is the file itself: whenever CL_VerifyFinal stands before a rename, the
\* check sum it compares with is of the file that is renamed.
THEOREM InstalledAlways == Spec => []InstalledIsGenuine
<1>1. Init => DownloadInv
  BY InvInit
<1>2. DownloadInv /\ [Next]_vars => DownloadInv'
  BY InvNext
<1>3. DownloadInv => InstalledIsGenuine
  BY DEF DownloadInv, InstalledIsGenuine, Shape
<1> QED BY <1>1, <1>2, <1>3, PTL DEF Spec

-----------------------------------------------------------------------------
(* The files in the server's order.  FS_ComparePaks, with which a repeated game     *)
(* state is answered, changes only with FS_Restart; downloadFilesCompleted counts   *)
(* from its beginning because the files are fetched in its order: all that stand    *)
(* before the one being fetched are on the disk, downloadList goes on with those    *)
(* behind it, and no more are counted than stand before it.                         *)

Has(d, f) == f \in File /\ d.disk[f] = Genuine(f)
Upto(d, n) == \A i \in 1 .. n : Has(d, FS_ComparePaks(d)[i])
Rest(list, d, n) ==
    LET paks == FS_ComparePaks(d)
    IN  Len(list) >= Len(paks) - n /\ \A i \in 1 .. Len(paks) - n : list[i] = paks[n + i]

\* The first n are there, the list goes on with the next one.
Ready(c, d) ==
    \E n \in 0 .. Len(FS_ComparePaks(d)) :
        /\ Upto(d, n)
        /\ n < Len(FS_ComparePaks(d)) => c.completed <= n /\ Rest(c.list, d, n)

\* The first n are there, f is the next one.
Turn(c, d, f) ==
    \E n \in 0 .. Len(FS_ComparePaks(d)) :
        /\ Upto(d, n)
        /\ n < Len(FS_ComparePaks(d)) =>
               /\ c.completed <= n
               /\ f = FS_ComparePaks(d)[n + 1]
               /\ Rest(c.list, d, n + 1)

Counts(c, d) ==
    /\ IsSeq(c.list) /\ c.completed \in Nat
    /\ \A i \in 1 .. Len(FS_ComparePaks(d)) : i <= c.completed => Has(d, FS_ComparePaks(d)[i])
Order(c, d) ==
    /\ Counts(c, d)
    /\ c.name \in File => c.temp \in Temp /\ Turn(c, d, c.name)
    /\ c.inProgress => c.temp \in Temp /\ c.wwwName \in File /\ Turn(c, d, c.wwwName)

OrderInv == ~ legacy => Order(cl, fs)

\* What induction is taken from: every set of numbers that is not empty has a least one.
LEMMA LeastNumber ==
    ASSUME NEW T \in SUBSET Nat, T # {}
    PROVE  \E x \in T : \A y \in T : x <= y
<1> DEFINE Less == {ss \in Nat \X Nat : ss[1] < ss[2]}
<1>1. IsWellFoundedOn(Less, Nat)
  <2>1. OpToRel(<, Nat) = Less
    BY DEF OpToRel
  <2> QED BY <2>1, NatLessThanWellFounded
<1> HIDE DEF Less
<1>2. PICK x \in T : \A y \in T : ~ (<<y, x>> \in Less)
  BY <1>1, WFMin
<1>3. ASSUME NEW y \in T PROVE x <= y
  <2>1. ~ (<<y, x>> \in Less) /\ <<y, x>> \in Nat \X Nat
    BY <1>2
  <2>2. y < x => <<y, x>> \in Less
    BY <2>1 DEF Less
  <2> QED BY <2>1, <2>2
<1> QED BY <1>3

\* Induction over a set of numbers: the prover takes no operator as an argument.
LEMMA Induct ==
    ASSUME NEW S \in SUBSET Nat, 0 \in S, \A n \in S : n + 1 \in S
    PROVE  S = Nat
<1> SUFFICES ASSUME Nat \ S # {} PROVE FALSE
  OBVIOUS
<1>1. PICK x \in Nat \ S : \A y \in Nat \ S : x <= y
  BY LeastNumber
<1>2. x # 0
  OBVIOUS
<1>3. x - 1 \in S
  BY <1>1, <1>2
<1> QED BY <1>1, <1>2, <1>3

\* Among the first n files, those that are missing, when among[n - 1] are those among
\* the files before.
MissingStep(files, present, among, n) ==
    IF n = 0 THEN <<>>
    ELSE IF files[n] \in present THEN among[n - 1]
    ELSE Append(among[n - 1], files[n])

\* There is a function with the equation that defines Missing.
LEMMA MissingExists ==
    ASSUME NEW files, NEW present, Len(files) \in Nat
    PROVE  \E f : f = [n \in 0 .. Len(files) |-> MissingStep(files, present, f, n)]
<1> DEFINE M == Len(files)
           Step(f, n) == MissingStep(files, present, f, n)
           Fills(f, k) == \A n \in 0 .. M : n <= k => f[n] = Step(f, n)
           Turns == {k \in Nat : \E f : f = [n \in 0 .. M |-> f[n]] /\ Fills(f, k)}
<1>0. M \in Nat
  OBVIOUS
<1> HIDE DEF M
<1>1. 0 \in Turns
  <2> DEFINE f == [n \in 0 .. M |-> <<>>]
  <2>1. f = [n \in 0 .. M |-> f[n]] /\ Fills(f, 0)
    BY DEF MissingStep
  <2> HIDE DEF f
  <2> QED BY <2>1
<1>2. ASSUME NEW k \in Turns PROVE k + 1 \in Turns
  <2>1. PICK f : f = [n \in 0 .. M |-> f[n]] /\ Fills(f, k)
    BY <1>2
  <2> DEFINE h == [n \in 0 .. M |-> Step(f, n)]
  <2>2. h = [n \in 0 .. M |-> h[n]] /\ \A n \in 0 .. M : h[n] = Step(f, n)
    OBVIOUS
  <2> HIDE DEF h
  <2>3. \A n \in 0 .. M : n <= k => h[n] = f[n]
    BY <2>1, <2>2
  <2>4. ASSUME NEW n \in 0 .. M, n <= k + 1 PROVE h[n] = Step(h, n)
    <3>1. CASE n = 0
      BY <2>2, <3>1 DEF MissingStep
    <3>2. CASE n # 0
      <4>1. h[n - 1] = f[n - 1]
        <5>1. n - 1 \in 0 .. M /\ n - 1 <= k
          BY <1>0, <2>4, <3>2, k \in Nat
        <5> QED BY <2>3, <5>1
      <4> QED BY <2>2, <2>4, <3>2, <4>1 DEF MissingStep
    <3> QED BY <3>1, <3>2
  <2>5. k + 1 \in Nat /\ Fills(h, k + 1)
    BY <2>4
  <2> QED BY <2>2, <2>5
<1>3. M \in Turns
  <2> HIDE DEF Turns
  <2>1. Turns \in SUBSET Nat
    BY DEF Turns
  <2> QED BY <1>0, <1>1, <1>2, <2>1, Induct
<1>4. PICK f : f = [n \in 0 .. M |-> f[n]] /\ Fills(f, M)
  BY <1>3
<1>5. \A n \in 0 .. M : f[n] = Step(f, n)
  BY <1>0, <1>4
<1> QED BY <1>4, <1>5 DEF M

LEMMA MissingIsSeq ==
    ASSUME NEW S, NEW files \in Seq(S), NEW present
    PROVE  Missing(files, present) \in Seq(S)
<1> DEFINE M == Len(files)
           f == CHOOSE f : f = [n \in 0 .. M |->
                    IF n = 0 THEN <<>>
                    ELSE IF files[n] \in present THEN f[n - 1]
                    ELSE Append(f[n - 1], files[n])]
<1>0. M \in Nat
  OBVIOUS
<1>1. f = [n \in 0 .. M |-> MissingStep(files, present, f, n)]
  <2>1. \E g : g = [n \in 0 .. M |->
                    IF n = 0 THEN <<>>
                    ELSE IF files[n] \in present THEN g[n - 1]
                    ELSE Append(g[n - 1], files[n])]
    <3>1. PICK g : g = [n \in 0 .. M |-> MissingStep(files, present, g, n)]
      BY <1>0, MissingExists, Zenon
    <3>2. g = [n \in 0 .. M |->
                    IF n = 0 THEN <<>>
                    ELSE IF files[n] \in present THEN g[n - 1]
                    ELSE Append(g[n - 1], files[n])]
      BY <3>1 DEF MissingStep
    <3> QED BY <3>2
  <2>2. f = [n \in 0 .. M |->
                    IF n = 0 THEN <<>>
                    ELSE IF files[n] \in present THEN f[n - 1]
                    ELSE Append(f[n - 1], files[n])]
    BY <2>1
  <2> HIDE DEF f
  <2> QED BY <2>2 DEF MissingStep
<1>2. Missing(files, present) = f[M]
  BY DEF Missing
<1> HIDE DEF f
<1> DEFINE T == {n \in Nat : n <= M => f[n] \in Seq(S)}
<1>3. 0 \in T
  BY <1>0, <1>1 DEF MissingStep
<1>4. ASSUME NEW n \in T PROVE n + 1 \in T
  <2> SUFFICES ASSUME n + 1 <= M PROVE f[n + 1] \in Seq(S)
    OBVIOUS
  <2>1. n + 1 \in 0 .. M /\ n + 1 # 0 /\ (n + 1) - 1 = n /\ n + 1 \in 1 .. Len(files)
    BY <1>0
  <2>2. f[n + 1] = MissingStep(files, present, f, n + 1)
    BY <1>1, <2>1
  <2>3. files[n + 1] \in S /\ f[n] \in Seq(S)
    BY <2>1
  <2> QED BY <2>1, <2>2, <2>3 DEF MissingStep
<1>5. M \in T
  <2>1. T \in SUBSET Nat
    OBVIOUS
  <2> HIDE DEF T
  <2> QED BY <1>0, <1>3, <1>4, <2>1, Induct
<1> QED BY <1>2, <1>5

\* The lists are sequences; the one of the .iwd files depends on what is loaded only.
LEMMA ComparedFiles ==
    /\ \A d : FS_ComparePaks(d) \in Seq(File) /\ FS_CompareFFs(d) \in Seq(File)
    /\ \A d, e : d.loaded = e.loaded => FS_ComparePaks(d) = FS_ComparePaks(e)
BY MissingIsSeq, DownloadAssumption DEF FS_ComparePaks, FS_CompareFFs

\* What is on the disk stays, nothing else is loaded, and what there still is of the
\* download is as it was.
LEMMA OrderKeeps ==
    ASSUME NEW c, NEW d, NEW b, NEW e, Order(c, d), e.loaded = d.loaded,
           \A f : Has(d, f) => Has(e, f),
           b.list = c.list, b.completed \in {c.completed, 0},
           b.name \in File => b.name = c.name /\ b.temp \in {c.temp, c.name},
           b.inProgress => c.inProgress /\ b.wwwName = c.wwwName /\ b.temp \in {c.temp, Nameless}
    PROVE  Order(b, e)
<1>1. FS_ComparePaks(e) = FS_ComparePaks(d) /\ FS_ComparePaks(d) \in Seq(File)
  BY ComparedFiles
<1> DEFINE p == FS_ComparePaks(d)
<1>2. Len(p) \in Nat
  BY <1>1
<1>3. \A n : Upto(d, n) => Upto(e, n)
  BY <1>1 DEF Upto
<1>4. \A l, n : Rest(l, d, n) <=> Rest(l, e, n)
  BY <1>1 DEF Rest
<1>5. IsSeq(c.list) /\ c.completed \in Nat
      /\ \A i \in 1 .. Len(p) : i <= c.completed => Has(d, p[i])
  BY DEF Order, Counts
<1>6. Counts(b, e)
  BY <1>1, <1>5 DEF Counts
<1>7. ASSUME NEW f, Turn(c, d, f) PROVE Turn(b, e, f)
  <2>1. PICK n \in 0 .. Len(p) :
            /\ Upto(d, n)
            /\ n < Len(p) => c.completed <= n /\ f = p[n + 1] /\ Rest(c.list, d, n + 1)
    BY <1>7 DEF Turn
  <2>2. Upto(e, n) /\ (n < Len(p) => b.completed <= n /\ Rest(b.list, e, n + 1))
    BY <2>1, <1>2, <1>3, <1>4, <1>5
  <2> QED BY <1>1, <2>1, <2>2 DEF Turn
<1>8. Nameless \in Temp /\ File \subseteq Temp
  BY DEF Temp
<1> QED BY <1>6, <1>7, <1>8 DEF Order

LEMMA DropOrder ==
    ASSUME NEW w, Base(w), Order(w.cl, w.fs)
    PROVE  Order(CL_Disconnect(w).cl, CL_Disconnect(w).fs) /\ Order(Drop(w).cl, Drop(w).fs)
<1> DEFINE v == CL_Disconnect(w)
<1>0. None \notin File
  BY DownloadAssumption
<1>1. /\ v.fs = w.fs /\ v.cl.list = w.cl.list /\ v.cl.completed = 0
      /\ v.cl.name \in File => v.cl.name = w.cl.name /\ v.cl.temp = w.cl.temp
      /\ v.cl.inProgress => w.cl.inProgress /\ v.cl.wwwName = w.cl.wwwName /\ v.cl.temp = w.cl.temp
  <2>1. CASE w.cl.bbl8r
    BY <2>1 DEF CL_Disconnect, Base, Shape
  <2>2. CASE ~ w.cl.bbl8r
    <3> DEFINE x == CloseDownload(w)
               u == CL_ClearStaticDownload(x)
    <3>1. Base(x) /\ x.fs = w.fs /\ x.cl.list = w.cl.list
      BY Close_
    <3> HIDE DEF x
    <3>2. Base(u) /\ u.fs = w.fs /\ u.cl.name = None /\ u.cl.inProgress = FALSE /\ u.cl.list = w.cl.list
      BY <3>1, Clear_
    <3>3. v = [u EXCEPT !.cl.remote = None, !.cl.completed = 0, !.cl.state = "idle",
                        !.out = <<>>, !.in = <<>>]
      BY <2>2 DEF CL_Disconnect, x
    <3> HIDE DEF u, v
    <3> QED BY <3>2, <3>3, <1>0 DEF Base, Shape
  <2> QED BY <2>1, <2>2
<1> HIDE DEF v
<1>2. Order(v.cl, v.fs)
  BY <1>1, OrderKeeps
<1> QED BY <1>2 DEF v, Drop

\* The file whose turn it is, renamed, may be counted: the next one has its turn.
LEMMA RenameOrder ==
    ASSUME NEW w, Base(w), NEW t \in Temp, NEW f \in File, w.fs.tmp[t] = Genuine(f),
           w.fs.tmp[t] # <<>>, Counts(w.cl, w.fs), Turn(w.cl, w.fs, f)
    PROVE  LET v == RenameTemp(w, t, f)
           IN  /\ v.fs.loaded = w.fs.loaded /\ v.cl = w.cl
               /\ \A c : c.list = w.cl.list /\ c.completed = w.cl.completed + 1 =>
                            Counts(c, v.fs) /\ Ready(c, v.fs)
<1> DEFINE v == RenameTemp(w, t, f)
           d == w.fs
           e == v.fs
           p == FS_ComparePaks(d)
<1>1. /\ v.cl = w.cl /\ e.loaded = d.loaded /\ e.disk = [d.disk EXCEPT ![f] = Genuine(f)]
      /\ DOMAIN d.disk = File
  BY DEF RenameTemp, Base, Shape
<1>2. Has(e, f) /\ \A g : Has(d, g) => Has(e, g)
  BY <1>1 DEF Has
<1> HIDE DEF v
<1>3. FS_ComparePaks(e) = p /\ p \in Seq(File) /\ Len(p) \in Nat
  <2>1. FS_ComparePaks(e) = p /\ p \in Seq(File)
    BY <1>1, ComparedFiles
  <2> QED BY <2>1
<1>4. PICK n \in 0 .. Len(p) :
          /\ Upto(d, n)
          /\ n < Len(p) => w.cl.completed <= n /\ f = p[n + 1] /\ Rest(w.cl.list, d, n + 1)
  BY DEF Turn
<1>5. IsSeq(w.cl.list) /\ w.cl.completed \in Nat
      /\ \A i \in 1 .. Len(p) : i <= w.cl.completed => Has(d, p[i])
  BY DEF Counts
<1> HIDE DEF p
<1>6. Upto(e, n)
  BY <1>2, <1>3, <1>4 DEF Upto, p
<1>7. n < Len(p) => Upto(e, n + 1)
  <2>1. \A i \in 1 .. n + 1 : i \in 1 .. n \/ i = n + 1
    BY <1>3
  <2> QED BY <2>1, <1>2, <1>3, <1>4, <1>6 DEF Upto, p
<1>8. ASSUME NEW c, c.list = w.cl.list, c.completed = w.cl.completed + 1
      PROVE  Counts(c, e) /\ Ready(c, e)
  <2>1. ASSUME NEW i \in 1 .. Len(p), i <= c.completed PROVE Has(e, p[i])
    <3>1. CASE n < Len(p)
      <4>1. i \in 1 .. n + 1
        BY <2>1, <3>1, <1>3, <1>4, <1>5, <1>8
      <4> QED BY <4>1, <3>1, <1>3, <1>7 DEF Upto
    <3>2. CASE ~ n < Len(p)
      <4>1. i \in 1 .. n
        BY <2>1, <3>2, <1>3
      <4> QED BY <4>1, <1>3, <1>6 DEF Upto
    <3> QED BY <3>1, <3>2
  <2>2. Counts(c, e)
    BY <2>1, <1>3, <1>5, <1>8 DEF Counts
  <2>3. CASE n < Len(p)
    <3>1. n + 1 \in 0 .. Len(p) /\ c.completed <= n + 1
      BY <2>3, <1>3, <1>4, <1>5, <1>8
    <3>2. Rest(c.list, e, n + 1)
      BY <2>3, <1>3, <1>4, <1>8 DEF Rest, p
    <3> QED BY <2>2, <2>3, <3>1, <3>2, <1>3, <1>7 DEF Ready
  <2>4. CASE ~ n < Len(p)
    BY <2>2, <2>4, <1>3, <1>6 DEF Ready
  <2> QED BY <2>3, <2>4
<1> QED BY <1>1, <1>8 DEF v

LEMMA CompleteOrder ==
    ASSUME NEW w, Base(w), ~ w.cl.inProgress, w.cl.name \in File => w.cl.temp \in Temp,
           Counts(w.cl, w.fs), Upto(w.fs, Len(FS_ComparePaks(w.fs)))
    PROVE  Order(CL_DownloadsComplete(w).cl, CL_DownloadsComplete(w).fs)
<1> DEFINE v == CL_DownloadsComplete(w)
<1>0. FS_ComparePaks(w.fs) \in Seq(File) /\ None \notin File
  BY ComparedFiles, DownloadAssumption
<1>1. CASE ~ w.cl.restart
  <2>1. /\ v.fs = w.fs /\ v.cl.list = w.cl.list /\ v.cl.completed = w.cl.completed
        /\ v.cl.name = w.cl.name /\ v.cl.temp = w.cl.temp /\ v.cl.inProgress = w.cl.inProgress
    BY <1>1 DEF CL_DownloadsComplete, Base, Shape
  <2> HIDE DEF v
  <2>2. Counts(v.cl, v.fs)
    BY <2>1 DEF Counts
  <2>3. Turn(v.cl, v.fs, v.cl.name)
    <3>1. Len(FS_ComparePaks(w.fs)) \in Nat
      BY <1>0
    <3> QED BY <3>1, <2>1 DEF Turn
  <2> QED BY <2>1, <2>2, <2>3 DEF Order, v
<1>2. CASE w.cl.restart
  <2> DEFINE r == FS_Restart([w EXCEPT !.cl.restart = FALSE, !.cl.completed = 0])
             s == IF w.cl.bbl8r THEN r ELSE Send(r, [cmd |-> "done"])
  <2>1. v = CL_ClearStaticDownload(s)
    BY <1>2 DEF CL_DownloadsComplete
  <2>2. Base(r) /\ r.cl.list = w.cl.list /\ r.cl.completed = 0
    BY DEF FS_Restart, Base, Shape
  <2> HIDE DEF r
  <2>3. Base(s) /\ s.cl = r.cl
    BY <2>2, Send_
  <2> HIDE DEF s, v
  <2>4. /\ v.cl.list = w.cl.list /\ v.cl.completed = 0 /\ v.cl.name = None
        /\ v.cl.inProgress = FALSE
    <3>1. /\ v.cl.list = s.cl.list /\ v.cl.completed = s.cl.completed /\ v.cl.name = None
          /\ v.cl.inProgress = FALSE
      BY ONLY <2>1, <2>3, Clear_
    <3> QED BY ONLY <2>2, <2>3, <3>1
  <2>5. Counts(v.cl, v.fs)
    BY <2>4 DEF Counts
  <2> QED BY <1>0, <2>4, <2>5 DEF Order, v
<1> QED BY <1>1, <1>2

LEMMA NextOrder ==
    ASSUME NEW w, Base(w), ~ w.cl.inProgress, w.cl.name \in File => w.cl.temp \in Temp,
           Counts(w.cl, w.fs), Ready(w.cl, w.fs)
    PROVE  Order(CL_NextDownload(w).cl, CL_NextDownload(w).fs)
<1> DEFINE p == FS_ComparePaks(w.fs)
           l == w.cl.list
<1>0. p \in Seq(File) /\ Len(p) \in Nat
  <2>1. p \in Seq(File)
    BY ComparedFiles
  <2> QED BY <2>1
<1>1. PICK n \in 0 .. Len(p) :
          Upto(w.fs, n) /\ (n < Len(p) => w.cl.completed <= n /\ Rest(l, w.fs, n))
  BY DEF Ready
<1>2. IsSeq(l) /\ Len(l) \in Nat /\ w.cl.completed \in Nat
  BY DEF Counts, IsSeq
<1> HIDE DEF p, l
<1>3. CASE l = <<>>
  <2>1. n = Len(p)
    <3>1. Len(l) = 0
      BY <1>3
    <3> QED BY <3>1, <1>0, <1>1 DEF Rest, p
  <2>2. CL_NextDownload(w) = CL_DownloadsComplete(w)
    BY <1>3 DEF CL_NextDownload, l
  <2> QED BY <2>1, <2>2, <1>1, CompleteOrder DEF p
<1>4. CASE l # <<>>
  <2> DEFINE f == Head(l)
             u == CL_BeginDownload(w, f, f)
             v == [u EXCEPT !.cl.restart = TRUE, !.cl.list = Tail(@)]
  <2>1. CL_NextDownload(w) = v
    BY <1>4 DEF CL_NextDownload, l
  <2>2. /\ IsSeq(Tail(l)) /\ Len(l) >= 1 /\ Len(Tail(l)) = Len(l) - 1 /\ f = l[1]
        /\ \A i \in 1 .. Len(l) - 1 : Tail(l)[i] = l[i + 1]
    BY <1>2, <1>4, TailSeq
  <2> HIDE DEF f
  <2>3. /\ Base(u) /\ u.fs = w.fs /\ u.cl.name = f
        /\ u.cl.temp = (IF f = None THEN Nameless ELSE f)
        /\ u.cl.completed = w.cl.completed /\ u.cl.inProgress = w.cl.inProgress /\ u.cl.list = l
    BY Begin_ DEF l
  <2> HIDE DEF u
  <2>4. /\ v.fs = w.fs /\ v.cl.name = f /\ v.cl.list = Tail(l)
        /\ v.cl.temp = (IF f = None THEN Nameless ELSE f)
        /\ v.cl.completed = w.cl.completed /\ v.cl.inProgress = w.cl.inProgress
    BY <2>3 DEF Base, Shape
  <2> HIDE DEF v
  <2>5. Counts(v.cl, v.fs)
    BY <2>2, <2>4 DEF Counts
  <2>6. f \in File => v.cl.temp \in Temp
    BY <2>4, DownloadAssumption DEF Temp
  <2>7. Turn(v.cl, v.fs, f)
    <3>1. ASSUME n < Len(p) PROVE f = p[n + 1] /\ Rest(Tail(l), w.fs, n + 1)
      <4>1. Len(l) >= Len(p) - n /\ \A i \in 1 .. Len(p) - n : l[i] = p[n + i]
        BY <3>1, <1>1 DEF Rest, p
      <4>2. f = p[n + 1]
        BY <4>1, <3>1, <2>2, <1>0
      <4>3. Len(Tail(l)) >= Len(p) - (n + 1)
        BY <4>1, <2>2, <1>0, <1>2
      <4>4. ASSUME NEW i \in 1 .. Len(p) - (n + 1) PROVE Tail(l)[i] = p[(n + 1) + i]
        <5>1. i \in 1 .. Len(l) - 1 /\ i + 1 \in 1 .. Len(p) - n /\ n + (i + 1) = (n + 1) + i
          BY <4>1, <1>0, <1>2
        <5>2. Tail(l)[i] = l[i + 1] /\ l[i + 1] = p[n + (i + 1)]
          BY <5>1, <4>1, <2>2
        <5> QED BY <5>1, <5>2
      <4> QED BY <4>2, <4>3, <4>4 DEF Rest, p
    <3> QED BY <3>1, <1>0, <1>1, <2>4 DEF Turn, p
  <2> QED BY <2>1, <2>4, <2>5, <2>6, <2>7 DEF Order
<1> QED BY <1>3, <1>4

\* The list of a game state begins with the .iwd files that are missing; what is counted
\* is taken from its beginning.
LEMMA InitOrder ==
    ASSUME NEW w, NEW allow, ~ legacy, Base(w), Counts(w.cl, w.fs)
    PROVE  Order(CL_InitDownloads(w, allow).cl, CL_InitDownloads(w, allow).fs)
<1> DEFINE clear  == CL_ClearStaticDownload(w)
           needed == FS_CompareFiles(w.fs)
           p == FS_ComparePaks(w.fs)
           q == FS_CompareFFs(w.fs)
           k == w.cl.completed
<1>0. None \notin File
  BY DownloadAssumption
<1>1. /\ Base(clear) /\ clear.fs = w.fs /\ clear.cl.name = None /\ clear.cl.inProgress = FALSE
      /\ clear.cl.list = w.cl.list /\ clear.cl.completed = k
  BY Clear_
<1>2. p \in Seq(File) /\ q \in Seq(File) /\ needed = p \o q
  BY ComparedFiles DEF FS_CompareFiles
<1>3. /\ needed \in Seq(File) /\ Len(p) \in Nat /\ Len(needed) \in Nat /\ Len(needed) >= Len(p)
      /\ \A i \in 1 .. Len(p) : needed[i] = p[i]
  BY <1>2
<1>4. k \in Nat /\ IsSeq(w.cl.list) /\ \A i \in 1 .. Len(p) : i <= k => Has(w.fs, p[i])
  BY DEF Counts
<1>5. CL_InitDownloads(w, allow) =
          IF needed = <<>> THEN CL_DownloadsComplete([clear EXCEPT !.cl.list = <<>>])
          ELSE IF allow
          THEN CL_NextDownload(CL_SkipAlreadyDownloadedFiles(
                   [clear EXCEPT !.cl.list = needed, !.cl.state = "connected"]))
          ELSE Drop(clear)
  BY DEF CL_InitDownloads
<1> HIDE DEF clear, needed, p, q, k
<1>6. CASE needed = <<>>
  <2> DEFINE u == [clear EXCEPT !.cl.list = <<>>]
  <2>1. /\ Base(u) /\ u.fs = w.fs /\ u.cl.list = <<>> /\ u.cl.name = None /\ ~ u.cl.inProgress
        /\ u.cl.completed = k
    BY <1>1 DEF Base, Shape
  <2> HIDE DEF u
  <2>2. Len(p) = 0
    BY <1>3, <1>6
  <2>3. Counts(u.cl, u.fs) /\ Upto(u.fs, Len(FS_ComparePaks(u.fs)))
    <3>1. IsSeq(<<>>)
      BY DEF IsSeq
    <3> QED BY <3>1, <2>1, <2>2, <1>4 DEF Counts, Upto, p
  <2>4. Order(CL_DownloadsComplete(u).cl, CL_DownloadsComplete(u).fs)
    BY <2>1, <2>3, <1>0, CompleteOrder
  <2> QED BY <2>4, <1>5, <1>6 DEF u
<1>7. CASE needed # <<>> /\ allow
  <2> DEFINE a == [clear EXCEPT !.cl.list = needed, !.cl.state = "connected"]
             l == SubSeq(needed, k + 1, Len(needed))
             u == CL_SkipAlreadyDownloadedFiles(a)
  <2>1. /\ Base(a) /\ a.fs = w.fs /\ a.cl.list = needed /\ a.cl.name = None /\ ~ a.cl.inProgress
        /\ a.cl.completed = k
    BY <1>1 DEF Base, Shape
  <2> HIDE DEF a
  <2>2. /\ Base(u) /\ u.fs = w.fs /\ u.cl.list = l /\ u.cl.name = None /\ ~ u.cl.inProgress
        /\ u.cl.completed = k
    BY <2>1 DEF CL_SkipAlreadyDownloadedFiles, Base, Shape
  <2> HIDE DEF u
  <2>3. /\ l \in Seq(File)
        /\ Len(l) = IF k <= Len(needed) THEN Len(needed) - k ELSE 0
        /\ \A i \in 1 .. Len(needed) - k : l[i] = needed[k + i]
    BY <1>3, <1>4
  <2> HIDE DEF l
  <2>4. Counts(u.cl, u.fs)
    BY <2>2, <2>3, <1>4, SeqIsSeq DEF Counts, p
  <2>5. Ready(u.cl, u.fs)
    <3>1. CASE k < Len(p)
      <4>1. Upto(w.fs, k)
        BY <3>1, <1>3, <1>4 DEF Upto, p
      <4>2. Rest(l, w.fs, k)
        BY <3>1, <2>3, <1>3, <1>4 DEF Rest, p
      <4> QED BY <3>1, <4>1, <4>2, <2>2, <1>3, <1>4 DEF Ready, p
    <3>2. CASE ~ k < Len(p)
      <4>1. Upto(w.fs, Len(p))
        BY <3>2, <1>3, <1>4 DEF Upto, p
      <4> QED BY <4>1, <2>2, <1>3 DEF Ready, p
    <3> QED BY <3>1, <3>2
  <2>6. Order(CL_NextDownload(u).cl, CL_NextDownload(u).fs)
    BY <2>2, <2>4, <2>5, <1>0, NextOrder
  <2> QED BY <2>6, <1>5, <1>7 DEF u, a
<1>8. CASE needed # <<>> /\ ~ allow
  <2>1. Order(clear.cl, clear.fs)
    BY <1>0, <1>1, <1>4 DEF Order, Counts, p
  <2> QED BY <2>1, <1>1, <1>5, <1>8, DropOrder
<1> QED BY <1>6, <1>7, <1>8

LEMMA GamestateOrder ==
    ASSUME NEW w, NEW fresh, NEW allow, ~ legacy, Base(w), Counts(w.cl, w.fs)
    PROVE  Order(CL_ParseGamestate(w, fresh, allow).cl, CL_ParseGamestate(w, fresh, allow).fs)
<1> DEFINE u == IF fresh
                THEN [FS_Restart(w) EXCEPT !.cl.completed = IF legacy THEN @ ELSE 0]
                ELSE w
<1>1. Base(u) /\ u.cl.list = w.cl.list
  BY DEF FS_Restart, Base, Shape
<1>2. IF fresh THEN u.cl.completed = 0 ELSE u = w
  BY DEF FS_Restart, Base, Shape
<1>3. CL_ParseGamestate(w, fresh, allow) = CL_InitDownloads(u, allow)
  BY DEF CL_ParseGamestate
<1> HIDE DEF u
<1>4. Counts(u.cl, u.fs)
  BY <1>1, <1>2 DEF Counts
<1> QED BY <1>1, <1>3, <1>4, InitOrder

LEMMA ReadsOrder ==
    ASSUME NEW w, NEW v, NEW r, Reads(w, v, r), Order(w.cl, w.fs)
    PROVE  Order(v.cl, v.fs)
<1>1. \A f : Has(w.fs, f) => Has(v.fs, f)
  BY DEF Has, Reads
<1> QED BY <1>1, OrderKeeps DEF Reads

LEMMA ProceedOrder ==
    ASSUME NEW w, NEW step, NEW again, again \in BOOLEAN, Base(w), ~ w.cl.inProgress,
           w.cl.name \in File, w.cl.name = w.cl.chksum, Order(w.cl, w.fs),
           step.r \in {0, 1, -1}, Reads(w, step.w, step.r)
    PROVE  Order(Proceed(step, again).cl, Proceed(step, again).fs)
<1> DEFINE closed == CloseDownload(step.w)
           whole  == [closed EXCEPT !.fs.cache[step.w.cl.temp] = <<>>]
<1>1. /\ Base(closed) /\ closed.fs = step.w.fs
      /\ closed.cl.name = w.cl.name /\ closed.cl.temp = w.cl.temp
      /\ closed.cl.chksum = w.cl.chksum /\ closed.cl.inProgress = FALSE
      /\ closed.cl.list = w.cl.list /\ closed.cl.completed = w.cl.completed
      /\ closed.fs.disk = w.fs.disk /\ closed.fs.loaded = w.fs.loaded
  BY Close_ DEF Reads
<1>2. /\ Base(whole) /\ whole.cl = closed.cl /\ whole.fs.tmp = closed.fs.tmp
      /\ whole.fs.disk = closed.fs.disk /\ whole.fs.loaded = closed.fs.loaded
  <2> HIDE DEF closed
  <2> QED BY <1>1 DEF Base, Shape
<1> HIDE DEF closed, whole
<1>3. \A u : u.fs.disk = w.fs.disk => \A f : Has(w.fs, f) => Has(u.fs, f)
  BY DEF Has
<1>4. ASSUME NEW u, Base(u), u.cl = closed.cl, u.fs.disk = w.fs.disk, u.fs.loaded = w.fs.loaded
      PROVE  /\ Order(u.cl, u.fs)
             /\ Order(Drop(u).cl, Drop(u).fs)
             /\ Order(BeginAgain(u).cl, BeginAgain(u).fs)
  <2>1. Order(u.cl, u.fs)
    BY <1>1, <1>3, <1>4, OrderKeeps
  <2>2. Order(Drop(u).cl, Drop(u).fs)
    BY <1>4, <2>1, DropOrder
  <2> DEFINE v == BeginAgain(u)
  <2>3. /\ v.fs = u.fs /\ v.cl.name = u.cl.name /\ v.cl.temp = u.cl.name
        /\ v.cl.list = u.cl.list /\ v.cl.completed = u.cl.completed
        /\ v.cl.inProgress = u.cl.inProgress
    <3>1. u.cl.name # None
      BY <1>1, <1>4, DownloadAssumption
    <3> QED BY <3>1, <1>4, Begin_ DEF BeginAgain
  <2> HIDE DEF v
  <2>4. Order(v.cl, v.fs)
    BY <1>1, <1>4, <2>1, <2>3, OrderKeeps
  <2> QED BY <2>1, <2>2, <2>4 DEF v
<1>5. ASSUME NEW u, u \in {closed, whole}
      PROVE  /\ Order(Drop(u).cl, Drop(u).fs)
             /\ Order(Corrupted(u, again).cl, Corrupted(u, again).fs)
  <2>1. Base(u) /\ u.cl = closed.cl /\ u.fs.disk = w.fs.disk /\ u.fs.loaded = w.fs.loaded
    BY <1>1, <1>2, <1>5
  <2> QED BY <2>1, <1>4 DEF Corrupted
<1>6. CASE step.r = 0
  <2>1. Proceed(step, again) = step.w
    BY <1>6 DEF Proceed
  <2> QED BY <2>1, ReadsOrder
<1>7. CASE step.r = -1
  <2>1. Proceed(step, again) = Corrupted(closed, again)
    BY <1>7 DEF Proceed, closed
  <2> QED BY <2>1, <1>5
<1>8. CASE step.r = 1 /\ CL_VerifyFinal(whole) /\ ~ Unreadable(whole)
  <2> DEFINE u == RenameTemp(whole, whole.cl.temp, whole.cl.name)
             v == [u EXCEPT !.cl.completed = @ + 1]
             t == whole.cl.temp
             f == whole.cl.name
  <2>1. /\ f \in File /\ whole.fs.tmp[t] = Genuine(f) /\ whole.fs.tmp[t] # <<>>
    BY <1>1, <1>2, <1>8 DEF CL_VerifyFinal, Unreadable
  <2>2. Order(whole.cl, whole.fs)
    BY <1>1, <1>2, <1>4
  <2>3. t \in Temp /\ Turn(whole.cl, whole.fs, f) /\ Counts(whole.cl, whole.fs)
    BY <2>1, <2>2 DEF Order
  <2>4. /\ Base(u) /\ u.cl = whole.cl
        /\ \A c : c.list = whole.cl.list /\ c.completed = whole.cl.completed + 1 =>
                      Counts(c, u.fs) /\ Ready(c, u.fs)
    <3>1. Base(u)
      BY <1>2, <2>1, Rename_
    <3> QED BY <3>1, <1>2, <2>1, <2>3, RenameOrder
  <2> HIDE DEF u
  <2>5. /\ Base(v) /\ v.fs = u.fs /\ v.cl.name = whole.cl.name /\ v.cl.temp = whole.cl.temp
        /\ ~ v.cl.inProgress
        /\ v.cl.list = whole.cl.list /\ v.cl.completed = whole.cl.completed + 1
    BY <2>4, <1>1, <1>2 DEF Base, Shape
  <2> HIDE DEF v
  <2>6. Counts(v.cl, v.fs) /\ Ready(v.cl, v.fs)
    BY <2>4, <2>5
  <2>7. Order(CL_NextDownload(v).cl, CL_NextDownload(v).fs)
    BY <2>3, <2>5, <2>6, NextOrder
  <2>8. Proceed(step, again) = CL_NextDownload(v)
    BY <1>8, FileEnds DEF closed, whole, u, v
  <2> QED BY <2>7, <2>8
<1>9. CASE step.r = 1 /\ ~ (CL_VerifyFinal(whole) /\ ~ Unreadable(whole))
  <2>1. Proceed(step, again) \in {Corrupted(whole, again), Drop(whole)}
    BY <1>9, FileEnds DEF closed, whole
  <2> QED BY <2>1, <1>5
<1> QED BY <1>6, <1>7, <1>8, <1>9

LEMMA FileInitOrder ==
    ASSUME NEW w, Base(w), NEW f \in File, Order(w.cl, w.fs),
           w.cl.inProgress => w.cl.name \notin File
    PROVE  Order(FileInit(w, f).cl, FileInit(w, f).fs)
<1> DEFINE u == [w EXCEPT !.cl.chksum = f]
           t == w.cl.temp
           cached == Open([w EXCEPT !.cl.chksum = f, !.fs.cache[t] = w.fs.tmp[t]])
           v == [cached EXCEPT !.cl.size = Size[f], !.cl.cacheEOF = FALSE]
<1>1. /\ Base(u) /\ u.fs = w.fs /\ u.cl.name = w.cl.name /\ u.cl.inProgress = w.cl.inProgress
      /\ u.cl.wwwName = w.cl.wwwName /\ u.cl.temp = w.cl.temp
      /\ u.cl.list = w.cl.list /\ u.cl.completed = w.cl.completed
  BY DEF Base, Shape
<1> HIDE DEF u
<1>2. Order(u.cl, u.fs)
  BY <1>1, OrderKeeps
<1>3. CASE w.cl.name # f
  <2>1. FileInit(w, f) = Drop(u)
    BY <1>3 DEF FileInit, u
  <2> QED BY <2>1, <1>1, <1>2, DropOrder
<1>4. CASE w.cl.name = f /\ w.cl.handle # None
  <2> DEFINE x == CloseDownload(u)
  <2>1. FileInit(w, f) = Drop(x)
    BY <1>4 DEF FileInit, u
  <2>2. /\ Base(x) /\ x.fs = u.fs /\ x.cl.name = u.cl.name /\ x.cl.inProgress = u.cl.inProgress
        /\ x.cl.wwwName = u.cl.wwwName /\ x.cl.temp = u.cl.temp
        /\ x.cl.list = u.cl.list /\ x.cl.completed = u.cl.completed
    BY <1>1, Close_
  <2> HIDE DEF x
  <2>3. Order(x.cl, x.fs)
    BY <2>2, <1>2, OrderKeeps
  <2> QED BY <2>1, <2>2, <2>3, DropOrder
<1>5. CASE w.cl.name = f /\ w.cl.handle = None
  <2>1. /\ Base(v) /\ v.fs.disk = w.fs.disk /\ v.fs.loaded = w.fs.loaded
        /\ v.cl.name = w.cl.name /\ v.cl.temp = w.cl.temp /\ v.cl.wwwName = w.cl.wwwName
        /\ v.cl.chksum = f /\ v.cl.inProgress = w.cl.inProgress
        /\ v.cl.list = w.cl.list /\ v.cl.completed = w.cl.completed
    <3> DEFINE a == [w EXCEPT !.cl.chksum = f, !.fs.cache[t] = w.fs.tmp[t]]
               b == Open(a)
    <3>1. /\ Base(a) /\ a.cl = [w.cl EXCEPT !.chksum = f]
          /\ a.fs.disk = w.fs.disk /\ a.fs.loaded = w.fs.loaded
      BY DEF Base, Shape
    <3>2. /\ Base(b) /\ b.cl = [a.cl EXCEPT !.handle = a.cl.temp]
          /\ b.fs.disk = a.fs.disk /\ b.fs.loaded = a.fs.loaded
      <4> HIDE DEF a
      <4> QED BY <3>1 DEF Open, Base, Shape
    <3>3. v = [b EXCEPT !.cl.size = Size[f], !.cl.cacheEOF = FALSE]
      OBVIOUS
    <3> HIDE DEF a, b, v
    <3>4. Base(v) /\ v.fs = b.fs /\ v.cl = [b.cl EXCEPT !.size = Size[f], !.cacheEOF = FALSE]
      BY <3>2, <3>3 DEF Base, Shape
    <3> QED BY <3>1, <3>2, <3>4 DEF Base, Shape
  <2>2. FileInit(w, f) = Proceed(CL_RequestAndReadDownload(v), FALSE)
    BY <1>5 DEF FileInit
  <2> HIDE DEF v
  <2>3. \A g : Has(w.fs, g) => Has(v.fs, g)
    BY <2>1 DEF Has
  <2>4. Order(v.cl, v.fs)
    BY <2>1, <2>3, OrderKeeps
  <2> DEFINE step == CL_RequestAndReadDownload(v)
  <2>5. step.r \in {0, 1, -1} /\ Reads(v, step.w, step.r)
    BY <2>1, Read_
  <2> HIDE DEF step
  <2>6. Order(Proceed(step, FALSE).cl, Proceed(step, FALSE).fs)
    BY <1>5, <2>1, <2>4, <2>5, ProceedOrder
  <2> QED BY <2>2, <2>6 DEF step
<1> QED BY <1>3, <1>4, <1>5

LEMMA ServerDlOrder ==
    ASSUME NEW w, NEW m, Base(w), Order(w.cl, w.fs),
           m.units = <<>> => ~ w.cl.inProgress /\ w.cl.name \in File /\ w.cl.name = w.cl.chksum
    PROVE  Order(ServerDl(w, m).cl, ServerDl(w, m).fs)
<1>1. CASE w.cl.handle = None
  BY <1>1, DropOrder DEF ServerDl
<1>2. CASE w.cl.handle # None /\ (m.from # w.cl.count \/ m.from + Len(m.units) > w.cl.size)
  <2> DEFINE x == CloseDownload(w)
  <2>1. ServerDl(w, m) = Drop(x)
    BY <1>2 DEF ServerDl
  <2>2. /\ Base(x) /\ x.fs = w.fs /\ x.cl.name = w.cl.name /\ x.cl.inProgress = w.cl.inProgress
        /\ x.cl.wwwName = w.cl.wwwName /\ x.cl.temp = w.cl.temp
        /\ x.cl.list = w.cl.list /\ x.cl.completed = w.cl.completed
    BY Close_
  <2> HIDE DEF x
  <2>3. Order(x.cl, x.fs)
    BY <2>2, OrderKeeps
  <2> QED BY <2>1, <2>2, <2>3, DropOrder
<1> DEFINE taken == w.cl.handle # None /\ ~ (m.from # w.cl.count \/ m.from + Len(m.units) > w.cl.size)
<1>3. CASE taken /\ m.units # <<>>
  <2> DEFINE v == [Write(w, m.units) EXCEPT !.cl.count = w.cl.count + Len(m.units)]
  <2>1. Reads(w, v, 1)
    BY Write_
  <2>2. ServerDl(w, m) = v
    <3>1. Write(w, m.units).cl.count = w.cl.count
      BY DEF Write, Base, Shape
    <3> QED BY <1>3, <3>1 DEF ServerDl
  <2> HIDE DEF v
  <2> QED BY <2>1, <2>2, ReadsOrder
<1>4. CASE taken /\ m.units = <<>>
  <2> DEFINE step == CL_RequestAndReadDownload(w)
  <2>1. step.r \in {0, 1, -1} /\ Reads(w, step.w, step.r)
    BY Read_
  <2>2. ServerDl(w, m) = Proceed(step, TRUE)
    BY <1>4 DEF ServerDl
  <2> HIDE DEF step
  <2> QED BY <2>1, <2>2, <1>4, ProceedOrder
<1> QED BY <1>1, <1>2, <1>3, <1>4

LEMMA ParseWWWOrder ==
    ASSUME NEW w, NEW m, NEW reachable, ~ legacy, Base(w), Order(w.cl, w.fs),
           w.cl.name \in File, ~ w.cl.inProgress
    PROVE  LET v == CL_ParseWWWDownload(w, m, reachable) IN Order(v.cl, v.fs)
<1> DEFINE named == [w EXCEPT !.cl.wwwName = w.cl.name, !.cl.name = Url,
                              !.cl.size = m.size, !.cl.www = TRUE]
           begun == [named EXCEPT !.cl.ft = Transfer(m.file, w.cl.count),
                                  !.cl.remote = Url, !.cl.head = FALSE, !.cl.inProgress = TRUE]
           fail  == [cmd |-> "wwwfail"]
           later == [cmd |-> "wwwbbl8r"]
<1>0. Url \notin File
  BY DownloadAssumption
<1>1. /\ Base(named) /\ named.fs = w.fs /\ named.cl.name = Url /\ ~ named.cl.inProgress
      /\ named.cl.wwwName = w.cl.name /\ named.cl.temp = w.cl.temp
      /\ named.cl.list = w.cl.list /\ named.cl.completed = w.cl.completed
  BY DEF Base, Shape
<1>2. CASE ~ reachable
  <2> DEFINE s == Send(named, fail)
             v == CloseDownload([CL_WWWDownloadStop(s) EXCEPT !.cl.www = FALSE])
  <2>1. v = CL_ParseWWWDownload(w, m, reachable)
    BY <1>2 DEF CL_ParseWWWDownload, CL_ReportWWWDLFail
  <2> HIDE DEF named, fail
  <2>2. Base(s) /\ s.cl = named.cl /\ s.fs = named.fs
    BY <1>1, Send_
  <2> HIDE DEF s
  <2>3. /\ v.fs = w.fs /\ v.cl.name = Url /\ ~ v.cl.inProgress
        /\ v.cl.list = w.cl.list /\ v.cl.completed = w.cl.completed
    BY <2>2, <1>1 DEF CloseDownload, CL_WWWDownloadStop, Base, Shape
  <2> HIDE DEF v
  <2>4. Order(v.cl, v.fs)
    BY <1>0, <2>3, OrderKeeps
  <2> QED BY <2>1, <2>4
<1>3. CASE reachable
  <2>1. /\ Base(begun) /\ begun.fs = w.fs /\ begun.cl.name = Url /\ begun.cl.inProgress
        /\ begun.cl.wwwName = w.cl.name /\ begun.cl.temp = w.cl.temp
        /\ begun.cl.list = w.cl.list /\ begun.cl.completed = w.cl.completed
    <3> HIDE DEF named
    <3> QED BY <1>1 DEF Base, Shape
  <2> DEFINE s == Send(begun, later)
             v == [s EXCEPT !.cl.bbl8r = TRUE]
  <2>2. CL_ParseWWWDownload(w, m, reachable) \in {begun, v}
    BY <1>3 DEF CL_ParseWWWDownload
  <2> HIDE DEF begun, later
  <2>3. Base(s) /\ s.cl = begun.cl /\ s.fs = begun.fs
    BY <2>1, Send_
  <2> HIDE DEF s
  <2>4. v.fs = s.fs /\ v.cl = [s.cl EXCEPT !.bbl8r = TRUE]
    BY <2>3 DEF Base
  <2>5. /\ v.fs = w.fs /\ v.cl.name = Url /\ v.cl.inProgress
        /\ v.cl.wwwName = w.cl.name /\ v.cl.temp = w.cl.temp
        /\ v.cl.list = w.cl.list /\ v.cl.completed = w.cl.completed
    BY <2>1, <2>3, <2>4 DEF Base, Shape
  <2> HIDE DEF v
  <2>6. ASSUME NEW x, x.fs = w.fs, x.cl.name = Url, x.cl.wwwName = w.cl.name,
               x.cl.temp = w.cl.temp, x.cl.list = w.cl.list, x.cl.completed = w.cl.completed
        PROVE  Order(x.cl, x.fs)
    <3>1. Counts(x.cl, x.fs)
      BY <2>6 DEF Order, Counts
    <3>2. Turn(x.cl, x.fs, w.cl.name) /\ x.cl.temp \in Temp
      BY <2>6 DEF Order, Turn
    <3> QED BY <1>0, <2>6, <3>1, <3>2 DEF Order
  <2> QED BY <2>1, <2>2, <2>5, <2>6
<1> QED BY <1>2, <1>3

LEMMA WebOrder ==
    ASSUME NEW w, NEW v, Web(w, v), Order(w.cl, w.fs)
    PROVE  Order(v.cl, v.fs)
<1>1. \A f : Has(w.fs, f) => Has(v.fs, f)
  BY DEF Has, Web
<1> QED BY <1>1, OrderKeeps DEF Web

LEMMA WWWFailedOrder ==
    ASSUME NEW w, Base(w), Order(w.cl, w.fs)
    PROVE  Order(WWWFailed(w).cl, WWWFailed(w).fs)
<1>0. None \notin File
  BY DownloadAssumption
<1>1. CASE w.cl.bbl8r
  <2> DEFINE u == CL_ClearStaticDownload(w)
  <2>1. /\ Base(u) /\ u.fs = w.fs /\ u.cl.name = None /\ u.cl.inProgress = FALSE
        /\ u.cl.list = w.cl.list /\ u.cl.completed = w.cl.completed
    BY Clear_
  <2>2. WWWFailed(w) = Drop(u)
    BY <1>1 DEF WWWFailed
  <2> HIDE DEF u
  <2>3. Order(u.cl, u.fs)
    BY <1>0, <2>1, OrderKeeps
  <2> QED BY <2>1, <2>2, <2>3, DropOrder
<1>2. CASE ~ w.cl.bbl8r
  <2> DEFINE m == [cmd |-> "wwwfail"]
             s == Send(w, m)
             v == [CL_WWWDownloadStop(s) EXCEPT !.cl.www = FALSE]
  <2>1. v = WWWFailed(w)
    BY <1>2 DEF WWWFailed, CL_ReportWWWDLFail
  <2> HIDE DEF m
  <2>2. Base(s) /\ s.cl = w.cl /\ s.fs = w.fs
    BY Send_
  <2> HIDE DEF s
  <2>3. /\ v.fs = w.fs /\ v.cl.name = w.cl.name /\ v.cl.temp = w.cl.temp /\ ~ v.cl.inProgress
        /\ v.cl.list = w.cl.list /\ v.cl.completed = w.cl.completed
    BY <2>2 DEF CL_WWWDownloadStop, Base, Shape
  <2> HIDE DEF v
  <2>4. Order(v.cl, v.fs)
    BY <2>3, OrderKeeps
  <2> QED BY <2>1, <2>4
<1> QED BY <1>1, <1>2

LEMMA WWWFinishedOrder ==
    ASSUME NEW w, WebProper(w), CL_VerifyFinal(w), ~ Unreadable(w), Order(w.cl, w.fs)
    PROVE  Order(WWWFinished(w).cl, WWWFinished(w).fs)
<1> DEFINE r == RenameTemp(w, w.cl.temp, w.cl.wwwName)
           named == ClearNames(r)
           m == [cmd |-> "wwwdone"]
           told == IF w.cl.bbl8r THEN [named EXCEPT !.cl.reconnect = TRUE] ELSE Send(named, m)
           u == CL_WWWDownloadStop(told)
           v == [u EXCEPT !.cl.www = FALSE, !.cl.completed = @ + 1]
<1>0. Base(w) /\ w.cl.inProgress /\ None \notin File
  BY WebProperIs, DownloadAssumption DEF WebProper
<1>1. /\ w.cl.temp \in Temp /\ w.cl.wwwName \in File /\ Turn(w.cl, w.fs, w.cl.wwwName)
      /\ Counts(w.cl, w.fs)
  BY <1>0 DEF Order
<1>2. w.fs.tmp[w.cl.temp] = Genuine(w.cl.wwwName) /\ w.fs.tmp[w.cl.temp] # <<>>
  BY <1>1, WebProperIs DEF CL_VerifyFinal, Unreadable
<1>3. /\ Base(r) /\ r.cl = w.cl
      /\ \A c : c.list = w.cl.list /\ c.completed = w.cl.completed + 1 =>
                    Counts(c, r.fs) /\ Ready(c, r.fs)
  <2>1. Base(r)
    BY <1>0, <1>2, Rename_
  <2> QED BY <2>1, <1>0, <1>1, <1>2, RenameOrder
<1>4. WWWFinished(w) = CL_NextDownload(v)
  BY DEF WWWFinished
<1> HIDE DEF r
<1>5. /\ Base(named) /\ named.fs = r.fs /\ named.cl.name = None
      /\ named.cl.list = w.cl.list /\ named.cl.completed = w.cl.completed
  BY <1>3 DEF ClearNames, Base, Shape
<1> HIDE DEF named, m
<1>6. /\ Base(told) /\ told.fs = r.fs /\ told.cl.name = None
      /\ told.cl.list = w.cl.list /\ told.cl.completed = w.cl.completed
  <2>1. CASE w.cl.bbl8r
    BY <2>1, <1>5 DEF Base, Shape
  <2>2. CASE ~ w.cl.bbl8r
    BY <2>2, <1>5, Send_
  <2> QED BY <2>1, <2>2
<1> HIDE DEF told
<1>7. /\ Base(u) /\ u.fs = r.fs /\ u.cl.name = None /\ ~ u.cl.inProgress
      /\ u.cl.list = w.cl.list /\ u.cl.completed = w.cl.completed
  BY <1>6 DEF CL_WWWDownloadStop, Base, Shape
<1> HIDE DEF u
<1>8. /\ Base(v) /\ v.fs = r.fs /\ v.cl.name = None /\ ~ v.cl.inProgress
      /\ v.cl.list = w.cl.list /\ v.cl.completed = w.cl.completed + 1
  BY <1>7 DEF Base, Shape
<1> HIDE DEF v
<1>9. Counts(v.cl, v.fs) /\ Ready(v.cl, v.fs)
  BY <1>3, <1>8
<1> QED BY <1>0, <1>4, <1>8, <1>9, NextOrder

LEMMA WWWCorruptedOrder ==
    ASSUME NEW w, Base(w), Order(w.cl, w.fs)
    PROVE  Order(WWWCorrupted(w).cl, WWWCorrupted(w).fs)
<1> DEFINE named == ClearNames(w)
           v == CL_BeginDownload(named, None, None)
<1>0. None \notin File
  BY DownloadAssumption
<1>1. /\ Base(named) /\ named.fs = w.fs /\ named.cl.name = None /\ named.cl.remote = None
      /\ named.cl.wwwName = w.cl.wwwName /\ named.cl.inProgress = w.cl.inProgress
      /\ named.cl.list = w.cl.list /\ named.cl.completed = w.cl.completed
  BY DEF ClearNames, Base, Shape
<1>2. WWWCorrupted(w) = v
  BY <1>1 DEF WWWCorrupted, BeginAgain
<1> HIDE DEF named
<1>3. /\ v.fs = w.fs /\ v.cl.name = None /\ v.cl.temp = Nameless
      /\ v.cl.wwwName = w.cl.wwwName /\ v.cl.inProgress = w.cl.inProgress
      /\ v.cl.list = w.cl.list /\ v.cl.completed = w.cl.completed
  BY <1>1, Begin_
<1> HIDE DEF v
<1>4. Order(v.cl, v.fs)
  BY <1>0, <1>3, OrderKeeps
<1> QED BY <1>2, <1>4

LEMMA WWWDownloadOrder ==
    ASSUME NEW w, NEW st, NEW large, ~ legacy, WebProper(w), Order(w.cl, w.fs)
    PROVE  LET v == CL_WWWDownload(w, st, large) IN Order(v.cl, v.fs)
<1> DEFINE loop   == CL_WWWDownloadLoop(w, st, large)
           closed == CloseDownload(loop.w)
<1>1. WebProper(loop.w) /\ Web(w, loop.w) /\ loop.status \in {0, 1, -1}
  BY Loop_
<1>2. Order(loop.w.cl, loop.w.fs)
  BY <1>1, WebOrder
<1> HIDE DEF loop
<1>3. WebProper(closed) /\ Base(closed) /\ Order(closed.cl, closed.fs)
  <2>1. Web(loop.w, closed)
    BY <1>1, WebProperIs, Close_ DEF Web
  <2> QED BY <1>1, <1>2, <2>1, WebSame, WebOrder, WebProperIs
<1> HIDE DEF closed
<1>4. /\ Order(WWWFailed(closed).cl, WWWFailed(closed).fs)
      /\ Order(Drop(closed).cl, Drop(closed).fs)
      /\ Order(WWWCorrupted(closed).cl, WWWCorrupted(closed).fs)
  BY <1>3, WWWFailedOrder, WWWCorruptedOrder, DropOrder
<1>5. CL_VerifyFinal(closed) /\ ~ Unreadable(closed) =>
          Order(WWWFinished(closed).cl, WWWFinished(closed).fs)
  BY <1>3, WWWFinishedOrder
<1>6. \/ CL_WWWDownload(w, st, large) \in {loop.w, WWWFailed(closed), Drop(closed), WWWCorrupted(closed)}
      \/ /\ CL_VerifyFinal(closed) /\ ~ Unreadable(closed)
         /\ CL_WWWDownload(w, st, large) = WWWFinished(closed)
  BY <1>1 DEF CL_WWWDownload, loop, closed
<1> QED BY <1>2, <1>4, <1>5, <1>6

LEMMA BecomesOrder ==
    ASSUME NEW w, Order(w.cl, w.fs), Becomes(w)
    PROVE  OrderInv'
<1>1. cl' = w.cl /\ fs' = w.fs
  BY DEF Becomes
<1> QED BY <1>1 DEF OrderInv

LEMMA FrameOrder ==
    ASSUME DownloadInv, OrderInv, ~ legacy, Frame
    PROVE  OrderInv'
<1>1. PICK step \in TransferSteps(cl.ft), large \in BOOLEAN :
          Becomes(CL_WWWDownload([World EXCEPT !.cl.ft = step.ft], step.st, large))
  BY DEF Frame
<1> DEFINE w == [World EXCEPT !.cl.ft = step.ft]
<1>2. WebProper(World) /\ Order(World.cl, World.fs)
  BY WorldIs DEF WebProper, Frame, OrderInv
<1>3. Web(World, w)
  BY <1>2, WebProperIs DEF Web, Base, Shape
<1>4. WebProper(w) /\ Order(w.cl, w.fs)
  BY <1>2, <1>3, WebSame, WebOrder
<1>5. Becomes(CL_WWWDownload(w, step.st, large))
  BY <1>1
<1> HIDE DEF w
<1> QED BY <1>4, <1>5, WWWDownloadOrder, BecomesOrder

LEMMA ReceiveOrder ==
    ASSUME DownloadInv, OrderInv, ~ legacy, ReceiveMessage
    PROVE  OrderInv'
<1> DEFINE m == Head(toClient)
           w == [World EXCEPT !.in = Tail(@)]
           p == Pipe(toClient, toServer)
           fresh == m.type = "gamestate" /\ m.fresh
<1>1. /\ toClient # <<>> /\ QueuesOK(toClient, toServer) /\ Shape(cl, fs)
      /\ Names(cl) /\ Talk(p, cl) /\ p \in Seq(Mark) /\ Order(cl, fs)
  BY PipeType DEF ReceiveMessage, DownloadInv, OrderInv
<1>2. /\ QueuesOK(Tail(toClient), toServer) /\ ReceivedOK(m)
      /\ fresh => Tail(toClient) = <<>>
      /\ ~ fresh => p # <<>> /\ p[1] = MarkIn(m)
  BY <1>1, PipeReceive
<1>3. /\ w.cl = cl /\ w.fs = fs /\ w.in = Tail(toClient) /\ w.out = toServer
      /\ DOMAIN w = {"cl", "fs", "out", "in"}
  BY DEF World
<1>4. Base(w) /\ Order(w.cl, w.fs)
  BY <1>1, <1>2, <1>3 DEF Base
<1>5. p # <<>> /\ p[1].kind = "hot" =>
          ~ w.cl.inProgress /\ w.cl.name \in File /\ w.cl.name = w.cl.chksum
  <2>1. p # <<>> => 1 \in DOMAIN p
    BY <1>1, TailMarks
  <2> HIDE DEF p
  <2> QED BY <1>1, <1>3, <2>1 DEF Talk, HotNamed
<1>6. CASE m.type = "gamestate"
  <2>1. PICK allow \in BOOLEAN :
            Becomes(CL_ParseGamestate([w EXCEPT !.out = IF m.fresh THEN <<>> ELSE @], m.fresh, allow))
    BY <1>6 DEF ReceiveMessage
  <2> DEFINE u == [w EXCEPT !.out = IF m.fresh THEN <<>> ELSE @]
  <2>2. Becomes(CL_ParseGamestate(u, m.fresh, allow))
    BY <2>1
  <2>3. /\ u.cl = w.cl /\ u.fs = w.fs /\ u.in = w.in /\ DOMAIN u = {"cl", "fs", "out", "in"}
        /\ u.out \in {<<>>, w.out}
    BY <1>3
  <2> HIDE DEF u, w
  <2>4. Base(u)
    <3>1. QueuesOK(w.in, <<>>)
      BY <1>4 DEF Base, QueuesOK, IsSeq
    <3> QED BY <3>1, <1>4, <2>3 DEF Base
  <2>5. Counts(u.cl, u.fs)
    BY <1>4, <2>3 DEF Order
  <2> QED BY <2>2, <2>4, <2>5, GamestateOrder, BecomesOrder
<1>7. CASE m.type = "fileinit"
  <2>1. Becomes(FileInit(w, m.file))
    BY <1>7 DEF ReceiveMessage
  <2>2. m.file \in File
    BY <1>2, <1>7 DEF ReceivedOK
  <2>3. w.cl.inProgress => w.cl.name \notin File
    BY <1>1, <1>3 DEF Talk, WebNamed
  <2> HIDE DEF w, m
  <2> QED BY <1>4, <2>1, <2>2, <2>3, FileInitOrder, BecomesOrder
<1>8. CASE m.type = "serverdl"
  <2>1. Becomes(ServerDl(w, m))
    BY <1>8 DEF ReceiveMessage
  <2>2. m.units = <<>> => ~ w.cl.inProgress /\ w.cl.name \in File /\ w.cl.name = w.cl.chksum
    <3>1. ~ fresh /\ (m.units = <<>> => MarkIn(m).kind = "hot")
      BY <1>8 DEF MarkIn, Hot
    <3> QED BY <3>1, <1>2, <1>5
  <2> HIDE DEF w, m
  <2> QED BY <1>4, <2>1, <2>2, ServerDlOrder, BecomesOrder
<1>9. CASE m.type = "redirect"
  <2>1. Becomes(w) \/ \E reachable \in BOOLEAN : Becomes(CL_ParseWWWDownload(w, m, reachable))
    BY <1>9 DEF ReceiveMessage
  <2>2. ~ w.cl.inProgress /\ w.cl.name \in File
    <3>1. ~ fresh /\ MarkIn(m).kind = "hot"
      BY <1>9 DEF MarkIn, Hot
    <3> QED BY <3>1, <1>2, <1>5
  <2> HIDE DEF w, m
  <2> QED BY <1>4, <2>1, <2>2, ParseWWWOrder, BecomesOrder
<1>10. CASE m.type \in {"fail", "disconnect"}
  <2>1. Becomes(Drop(w))
    BY <1>10 DEF ReceiveMessage
  <2> HIDE DEF w
  <2> QED BY <1>4, <2>1, DropOrder, BecomesOrder
<1> QED BY <1>2, <1>6, <1>7, <1>8, <1>9, <1>10 DEF ReceivedOK

LEMMA LeaveOrder ==
    ASSUME DownloadInv, OrderInv, ~ legacy
    PROVE  /\ Becomes(CL_Disconnect(World)) => OrderInv'
           /\ Becomes(Connect(World)) => OrderInv'
<1> DEFINE d == CL_Disconnect(World)
           c == Connect(World)
<1>1. Base(World) /\ Order(World.cl, World.fs)
  BY WorldIs DEF Proper, OrderInv
<1>2. Order(d.cl, d.fs)
  BY <1>1, DropOrder
<1>3. Base(d)
  BY WorldIs, Drop_ DEF Drop, Proper
<1>4. c = [d EXCEPT !.cl.state = "waiting", !.cl.reconnect = FALSE,
                    !.in = <<[type |-> "gamestate", fresh |-> TRUE]>>]
  BY DEF Connect
<1> HIDE DEF c, d
<1>5. /\ c.fs = d.fs /\ c.cl.list = d.cl.list /\ c.cl.completed = d.cl.completed
      /\ c.cl.name = d.cl.name /\ c.cl.temp = d.cl.temp
      /\ c.cl.wwwName = d.cl.wwwName /\ c.cl.inProgress = d.cl.inProgress
  BY <1>3, <1>4 DEF Base, Shape
<1>6. Order(c.cl, c.fs)
  BY <1>2, <1>5, OrderKeeps
<1> QED BY <1>2, <1>6, BecomesOrder DEF c, d

LEMMA OrderInit == Init => OrderInv
<1> SUFFICES ASSUME Init PROVE OrderInv
  OBVIOUS
<1>1. cl.list = <<>> /\ cl.completed = 0 /\ cl.name = None /\ cl.inProgress = FALSE
  BY DEF Init
<1>2. Counts(cl, fs)
  BY <1>1 DEF Counts, IsSeq
<1> QED BY <1>1, <1>2, DownloadAssumption DEF OrderInv, Order

LEMMA OrderNext == DownloadInv /\ OrderInv /\ [Next]_vars => OrderInv'
<1> SUFFICES ASSUME DownloadInv, OrderInv, [Next]_vars PROVE OrderInv'
  OBVIOUS
<1>1. CASE legacy
  BY <1>1, LegacyStays DEF OrderInv
<1>2. CASE ~ legacy
  <2>1. CASE UNCHANGED <<legacy, cl, fs>>
    <3>1. legacy' = legacy /\ cl' = cl /\ fs' = fs
      BY <2>1
    <3> QED BY <3>1 DEF OrderInv
  <2>2. CASE LoseConnection
    BY <1>2, <2>2, LeaveOrder DEF LoseConnection
  <2>3. CASE UserConnect
    BY <1>2, <2>3, LeaveOrder DEF UserConnect
  <2>4. CASE Reconnect
    BY <1>2, <2>4, LeaveOrder DEF Reconnect
  <2>5. CASE ReceiveMessage
    BY <1>2, <2>5, ReceiveOrder
  <2>6. CASE Frame
    BY <1>2, <2>6, FrameOrder
  <2>7. CASE ServerExecute \/ ServerSendBlock \/ LoseBlock \/ MapChange \/ UNCHANGED vars
    <3>1. UNCHANGED <<legacy, cl, fs>>
      BY <2>7 DEF ServerExecute, ServerSendBlock, LoseBlock, MapChange, vars
    <3> QED BY <3>1, <2>1
  <2> QED BY <2>2, <2>3, <2>4, <2>5, <2>6, <2>7 DEF Next
<1> QED BY <1>1, <1>2

\* Connected to a server of the x-protocol, downloadFilesCompleted counts only files
\* that are on the disk and wait for FS_Restart: what CL_SkipAlreadyDownloadedFiles passes
\* over in the list of a repeated game state need not be fetched again, however many
\* downloads failed, were begun again or went on without the server in between.
THEOREM CountedAlways == Spec => []CountedAreInstalled
<1>1. Init => DownloadInv /\ OrderInv
  BY InvInit, OrderInit
<1>2. DownloadInv /\ OrderInv /\ [Next]_vars => (DownloadInv /\ OrderInv)'
  BY InvNext, OrderNext
<1>3. OrderInv => CountedAreInstalled
  BY DEF OrderInv, Order, Counts, Has, CountedAreInstalled
<1> QED BY <1>1, <1>2, <1>3, PTL DEF Spec
=============================================================================
