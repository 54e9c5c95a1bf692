--------------------------- MODULE MCGameState ---------------------------
(* A small instance of GameState and Cvars for TLC. *)
EXTENDS GameState

A == <<"a">>
B == <<"b">>
Long == <<"c", "d", "e">>

\* A default that the first map keeps, and both blocks.
SmallDefaults == 2 :> B
SmallMaps == <<
    (0 :> A @@ 1 :> A @@ 2 :> B @@ 3 :> A @@ 4 :> <<>> @@ 5 :> <<>>),
    (0 :> <<"a", "b">> @@ 1 :> B @@ 2 :> A @@ 3 :> <<>> @@ 4 :> B @@ 5 :> <<>>)>>

\* The system information in three pieces, a default emptied, a string of the second block.
SmallChanges == {<<1, Long>>, <<2, <<>>>>, <<3, Long>>}

\* With and without sv_cheats and sv_pure, each with each.
SmallCheating == {A, Long}
SmallPure == {B, Long}

\* A protected variable that the program has registered, with another value latched.
Latched == [Cvar_RegisterNew("string", {"latch", "cheat"}, A, 0) EXCEPT !.latched = B, !.refs[B] = 1]

\* As many strings as a variable has values.
SmallStrings == {A, B, Long}
NullString == <<"null">>

\* In and out of the lists on either side, as Cvar_StringToEnum may answer.
SmallIndices == {-1, 0, 1, 2}
SmallConnectsWith == {Unregistered, Latched}
=============================================================================
