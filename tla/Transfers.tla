------------------------------ MODULE Transfers ------------------------------
(***************************************************************************)
(* What FileDownloadSendReceive (httpftp.c) promises to CL_WWWDownloadLoop *)
(* for one file transfer: Downloads is built on it, HttpFtp implements it. *)
(*                                                                         *)
(* A transfer is a record of what the caller can tell: whether it may take *)
(* what has come (transferactive), the code and the length of the answer,  *)
(* what has come and not been taken (buf) and what has not come yet        *)
(* (left), of which the last few units (extra) need not come.  The web     *)
(* server's copy of the file may differ from the file, and its length be   *)
(* read wrong: copies are the lengths and bodies possible.                 *)
(***************************************************************************)
EXTENDS Integers, Sequences

\* A transfer that was asked for the units after from.
Transfer(f, from) ==
    [file |-> f, from |-> from, active |-> FALSE, code |-> 0,
     total |-> 0, extra |-> 0, left |-> <<>>, buf |-> <<>>]

\* The part of copy s that the answer carries.
Part(ft, code, s) == IF code = 206 THEN SubSeq(s, ft.from + 1, Len(s)) ELSE s

\* The server continues a file only when it was asked to.
Codes(ft) == {200, 404} \cup IF ft.from > 0 THEN {206} ELSE {}

\* An answer that tells its length: the caller takes what has come from now on.
LengthTold(ft, copies) ==
    {[ft EXCEPT !.active = TRUE, !.code = 404]}
    \cup {[ft EXCEPT !.active = TRUE, !.code = c, !.total = copy.size,
                     !.extra = Len(copy.body) - copy.size, !.left = Part(ft, c, copy.body)] :
              c \in Codes(ft) \ {404}, copy \in copies}

\* An answer that does not is handed over at its end, and its end may be wherever the
\* first piece of it ended.
AtOnce(ft, copies) ==
    {[ft EXCEPT !.code = 404]}
    \cup UNION {LET p == Part(ft, c, copy.body)
                IN  {[ft EXCEPT !.code = c, !.buf = SubSeq(p, 1, n),
                                !.left = SubSeq(p, n + 1, Len(p))] : n \in 0 .. Len(p)} :
                   c \in Codes(ft) \ {404}, copy \in copies}

Take(ft, n) ==
    [ft EXCEPT !.buf = @ \o SubSeq(ft.left, 1, n),
               !.left = SubSeq(ft.left, n + 1, Len(ft.left))]

\* The results of one call: 0 under way, 1 finished, -1 failed.
FileDownloadSendReceive(ft, copies) ==
    LET answered == IF ft.code = 0 THEN LengthTold(ft, copies) ELSE {ft}
    IN  {[ft |-> ft, st |-> -1], [ft |-> ft, st |-> 0]}
        \cup UNION {{[ft |-> Take(h, n), st |-> r] :
                         n \in {k \in 0 .. Len(h.left) : r = 1 => Len(h.left) - k <= h.extra}} :
                        h \in answered, r \in {0, 1}}
        \cup IF ft.code # 0 THEN {}
             ELSE {[ft |-> h, st |-> 1] : h \in AtOnce(ft, copies)}
=============================================================================
