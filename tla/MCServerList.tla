----------------------------- MODULE MCServerList -----------------------------
(* Instances of ServerList for TLC. *)
EXTENDS ServerList

SmallAnswers == {<<2, 1, 2>>}
=============================================================================
