---------------------------- MODULE MCDownloads ----------------------------
(* Small instances of Downloads for TLC. *)
EXTENDS Downloads

\* An .iwd file of a segment and a half and a fast file of half a segment.
OneIwd == <<"a.iwd">>
OneFF == <<"a.ff">>
Sizes == [f \in {"a.iwd", "a.ff"} |-> IF f = "a.iwd" THEN 3 ELSE 1]

\* A temporary file: none, one with a bad segment, one longer than the file.
Stale == {<<>>, <<<<"a.iwd", 1>>, Corrupt, <<"a.iwd", 3>>>>,
          <<<<"a.iwd", 1>>, <<"a.iwd", 2>>, Corrupt, Corrupt>>}

\* Two fast files and no others.
NoIwds == <<>>
TwoFFs == <<"a.ff", "b.ff">>
SmallSizes == [f \in {"a.ff", "b.ff"} |-> 1]
NoStale == {<<>>}
=============================================================================
