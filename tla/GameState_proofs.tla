-------------------------- MODULE GameState_proofs --------------------------
(***************************************************************************)
(* Proofs about variables and configuration strings, for any number of     *)
(* strings, any texts, blocks, slots and lengths of pieces.                *)
(*                                                                         *)
(* Variables: every variable is Good: its references are those of its      *)
(* three values, and an enumeration's values are in its list.  The lemmas  *)
(* say that each operator on a variable keeps it Good, from freeing one    *)
(* string up to a registration that meets an existing variable.            *)
(*                                                                         *)
(* Blocks: a text lies at an offset when its characters are there and its  *)
(* end behind them (Holds).  Putting a text behind the others leaves them  *)
(* where they are, so that a block that is filled holds all of them, and   *)
(* what is read at an offset is the text that was put there.               *)
(*                                                                         *)
(* The game: what is in a slot is what the server sent, until the slot was *)
(* given to a later command (SlotsInv), and after a piece that others      *)
(* follow the buffer has what there is of the string (PiecesInv).  With    *)
(* these the strings that a turn of cgame leaves behind are the server's.  *)
(*                                                                         *)
(* Demos: messages follow each other without a gap, and a game state goes  *)
(* on where the one before it ended (Ordered), so that a player receives   *)
(* every command from the first message on.  The strings of a client that  *)
(* records are those of the last game state that was written, and of the   *)
(* commands executed since (RecordedStrings); those of a player are those  *)
(* of the same game state, and of the commands it received                 *)
(* (ReplayStrings).  Where both have executed the same commands, the       *)
(* strings differ only where the demo lacks a command.                     *)
(***************************************************************************)
EXTENDS GameState, SequenceTheorems, WellFoundedInduction, TLAPS

-----------------------------------------------------------------------------
(* Variables *)

Value == Texts \cup Int \cup {Null}

Variable ==
    [type : {"none", "string", "enum"}, flags : SUBSET Flags,
     string : Value, latched : Value, reset : Value, count : Nat, refs : [Texts -> Int]]

\* The references that the three values of a string variable stand for.
RefsOf(v) == [t \in Texts |-> IF v.type = "string" /\ t \in Values(v) THEN 1 ELSE 0]

\* A value that the variable may take.
Fits(v, x) ==
    /\ v.type = "string" => x \in Texts
    /\ v.type = "enum" => x \in Domain(v.count)

Good(v) ==
    /\ v \in Variable
    /\ v.type # "none" => Fits(v, v.string) /\ Fits(v, v.latched) /\ Fits(v, v.reset)
    /\ "user" \in v.flags => v.type = "string"
    /\ v.refs = RefsOf(v)

-----------------------------------------------------------------------------
(* Values *)

LEMMA ValueFits ==
    ASSUME NEW v, v.type \in {"string", "enum"}, NEW x, Fits(v, x)
    PROVE  x \in Value
  BY DEF Fits, Domain, Value

\* The current value of a string variable changes, and the latched one with it.
LEMMA UpdatedString ==
    ASSUME NEW v, Good(v), v.type = "string", NEW x \in Texts
    PROVE  LET w == Dvar_UpdateValue(v, x)
           IN  /\ w \in Variable /\ w.type = v.type /\ w.flags = v.flags /\ w.count = v.count
               /\ w.string = x /\ w.latched = x /\ w.reset = v.reset
               /\ w.refs = RefsOf(w)
<1> DEFINE w1 == Dvar_AssignCurrentString(v, x)
           w2 == LatchCurrent(w1)
           w == Dvar_UpdateValue(v, x)
           r1 == [v.refs EXCEPT ![x] = IF x \in {v.latched, v.reset} THEN @ ELSE @ + 1]
           r2 == [r1 EXCEPT ![v.latched] =
                    IF v.latched # Null /\ v.latched # x /\ v.latched # v.reset THEN @ - 1 ELSE @]
           r3 == [r2 EXCEPT ![v.string] =
                    IF v.string # Null /\ v.string # v.latched /\ v.string # v.reset THEN @ - 1 ELSE @]
<1>0. /\ v \in Variable /\ v.refs = RefsOf(v)
      /\ v.string \in Texts /\ v.latched \in Texts /\ v.reset \in Texts /\ x \in Value
      /\ Null \notin Texts
  BY CvarAssumption DEF Good, Fits, Value
<1>1. w1 = [v EXCEPT !.string = x, !.refs = r1]
  BY <1>0 DEF Dvar_AssignCurrentString, CopyString, Variable
<1>2. w2 = [v EXCEPT !.string = x, !.latched = x, !.refs = r2]
  BY <1>0, <1>1 DEF LatchCurrent, Dvar_ShouldFreeLatchedString, FreeString, Variable
<1>3. w = [v EXCEPT !.string = x, !.latched = x, !.refs = r3]
  BY <1>0, <1>2 DEF Dvar_UpdateValue, Dvar_ShouldFreeCurrentString, FreeString, Variable
<1>4. r3 = [t \in Texts |-> IF t \in {x, v.reset} THEN 1 ELSE 0]
  BY <1>0 DEF RefsOf, Values, Variable
<1>5. w = [v EXCEPT !.string = x, !.latched = x,
                    !.refs = [t \in Texts |-> IF t \in {x, v.reset} THEN 1 ELSE 0]]
  BY <1>3, <1>4
<1> HIDE DEF w
<1>6. [t \in Texts |-> IF t \in {x, v.reset} THEN 1 ELSE 0] \in [Texts -> Int]
  OBVIOUS
<1>7. /\ w \in Variable /\ w.type = v.type /\ w.flags = v.flags /\ w.count = v.count
      /\ w.string = x /\ w.latched = x /\ w.reset = v.reset
      /\ w.refs = [t \in Texts |-> IF t \in {x, v.reset} THEN 1 ELSE 0]
  BY <1>0, <1>5, <1>6 DEF Variable
<1>8. RefsOf(w) = [t \in Texts |-> IF t \in {x, v.reset} THEN 1 ELSE 0]
  BY <1>7 DEF RefsOf, Values
<1> QED BY <1>7, <1>8 DEF w

\* The latched value of a string variable changes.
LEMMA LatchedString ==
    ASSUME NEW v, Good(v), v.type = "string", NEW x \in Texts
    PROVE  LET w == Dvar_SetLatchedValue(v, x)
           IN  /\ w \in Variable /\ w.type = v.type /\ w.flags = v.flags /\ w.count = v.count
               /\ w.string = v.string /\ w.latched = x /\ w.reset = v.reset
               /\ w.refs = RefsOf(w)
<1> DEFINE w1 == Dvar_AssignLatchedString(v, x)
           w == Dvar_SetLatchedValue(v, x)
           r1 == [v.refs EXCEPT ![x] = IF x \in {v.string, v.reset} THEN @ ELSE @ + 1]
           r2 == [r1 EXCEPT ![v.latched] =
                    IF v.latched # Null /\ v.latched # v.string /\ v.latched # v.reset THEN @ - 1 ELSE @]
<1>0. /\ v \in Variable /\ v.refs = RefsOf(v)
      /\ v.string \in Texts /\ v.latched \in Texts /\ v.reset \in Texts /\ x \in Value
      /\ Null \notin Texts
  BY CvarAssumption DEF Good, Fits, Value
<1>1. w1 = [v EXCEPT !.latched = x, !.refs = r1]
  BY <1>0 DEF Dvar_AssignLatchedString, CopyString, Variable
<1>2. w = [v EXCEPT !.latched = x, !.refs = r2]
  BY <1>0, <1>1 DEF Dvar_SetLatchedValue, Dvar_ShouldFreeLatchedString, FreeString, Variable
<1>3. r2 = [t \in Texts |-> IF t \in {v.string, x, v.reset} THEN 1 ELSE 0]
  BY <1>0 DEF RefsOf, Values, Variable
<1>4. w = [v EXCEPT !.latched = x,
                    !.refs = [t \in Texts |-> IF t \in {v.string, x, v.reset} THEN 1 ELSE 0]]
  BY <1>2, <1>3
<1> HIDE DEF w
<1>5. [t \in Texts |-> IF t \in {v.string, x, v.reset} THEN 1 ELSE 0] \in [Texts -> Int]
  OBVIOUS
<1>6. /\ w \in Variable /\ w.type = v.type /\ w.flags = v.flags /\ w.count = v.count
      /\ w.string = v.string /\ w.latched = x /\ w.reset = v.reset
      /\ w.refs = [t \in Texts |-> IF t \in {v.string, x, v.reset} THEN 1 ELSE 0]
  BY <1>0, <1>4, <1>5 DEF Variable
<1>7. RefsOf(w) = [t \in Texts |-> IF t \in {v.string, x, v.reset} THEN 1 ELSE 0]
  BY <1>6 DEF RefsOf, Values
<1> QED BY <1>6, <1>7 DEF w

\* What a change of the values leaves alone.
Same(v, w) == w.type = v.type /\ w.flags = v.flags /\ w.count = v.count /\ w.reset = v.reset

LEMMA Updated ==
    ASSUME NEW v, Good(v), v.type # "none", NEW x, Fits(v, x)
    PROVE  LET w == Dvar_UpdateValue(v, x)
           IN  Good(w) /\ Same(v, w) /\ w.string = x /\ w.latched = x
<1>1. CASE v.type = "string"
  BY <1>1, UpdatedString DEF Good, Same, Fits
<1>2. CASE v.type = "enum"
  <2> DEFINE w == Dvar_UpdateValue(v, x)
  <2>1. v \in Variable /\ x \in Value
    BY <1>2, ValueFits DEF Good
  <2>2. w = [v EXCEPT !.string = x, !.latched = x]
    BY <1>2 DEF Dvar_UpdateValue
  <2> HIDE DEF w
  <2>3. w \in Variable /\ Same(v, w) /\ w.string = x /\ w.latched = x /\ w.refs = v.refs
    BY <2>1, <2>2 DEF Variable, Same
  <2>4. RefsOf(w) = RefsOf(v)
    BY <1>2, <2>3 DEF RefsOf, Same
  <2> QED BY <1>2, <2>3, <2>4 DEF Good, Same, Fits, w
<1> QED BY <1>1, <1>2 DEF Good, Variable

LEMMA Latched ==
    ASSUME NEW v, Good(v), v.type # "none", NEW x, Fits(v, x)
    PROVE  LET w == Dvar_SetLatchedValue(v, x)
           IN  Good(w) /\ Same(v, w) /\ w.string = v.string /\ w.latched = x
<1>1. CASE v.type = "string"
  BY <1>1, LatchedString DEF Good, Same, Fits
<1>2. CASE v.type = "enum"
  <2> DEFINE w == Dvar_SetLatchedValue(v, x)
  <2>1. v \in Variable /\ x \in Value
    BY <1>2, ValueFits DEF Good
  <2>2. w = [v EXCEPT !.latched = x]
    BY <1>2 DEF Dvar_SetLatchedValue
  <2> HIDE DEF w
  <2>3. w \in Variable /\ Same(v, w) /\ w.string = v.string /\ w.latched = x /\ w.refs = v.refs
    BY <2>1, <2>2 DEF Variable, Same
  <2>4. RefsOf(w) = RefsOf(v)
    BY <1>2, <2>3 DEF RefsOf, Same
  <2> QED BY <1>2, <2>3, <2>4 DEF Good, Same, Fits, w
<1> QED BY <1>1, <1>2 DEF Good, Variable

\* Dvar_SetVariant keeps a variable Good, whatever index it is given.
LEMMA SetVariantKeeps ==
    ASSUME NEW v, Good(v), v.type # "none", NEW x, v.type = "string" => x \in Texts,
           NEW external \in BOOLEAN
    PROVE  LET w == Dvar_SetVariant(v, x, external) IN Good(w) /\ Same(v, w)
<1> DEFINE y == IF Dvar_ValueInDomain(v, x) THEN x ELSE v.reset
<1>1. Fits(v, y) /\ Fits(v, v.string)
  BY DEF Good, Fits, Dvar_ValueInDomain
<1> HIDE DEF y
<1>2. Good(SetInDomain(v, y, external)) /\ Same(v, SetInDomain(v, y, external))
  BY <1>1, Updated, Latched DEF SetInDomain, Same
<1> QED BY <1>2 DEF Dvar_SetVariant, y

-----------------------------------------------------------------------------
(* Registration *)

LEMMA RegisteredNew ==
    ASSUME NEW type \in {"string", "enum"}, NEW flags \in SUBSET Flags, NEW x, NEW n \in Nat,
           type = "string" => x \in Texts, type = "enum" => x \in Domain(n),
           "user" \in flags => type = "string"
    PROVE  Good(Cvar_RegisterNew(type, flags, x, n))
<1> DEFINE v == Cvar_RegisterNew(type, flags, x, n)
           refs == IF type = "string" THEN [NoReferences EXCEPT ![x] = 1] ELSE NoReferences
<1>1. /\ v.type = type /\ v.flags = flags /\ v.string = x /\ v.latched = x /\ v.reset = x
      /\ v.count = (IF type = "enum" THEN n ELSE 0) /\ v.refs = refs
  BY DEF Cvar_RegisterNew
<1>2. refs = [t \in Texts |-> IF type = "string" /\ t = x THEN 1 ELSE 0]
  BY DEF NoReferences
<1>3. x \in Value
  BY DEF Value, Domain
<1>4. v \in Variable
  <2>1. refs \in [Texts -> Int]
    <3> HIDE DEF refs
    <3> QED BY <1>2
  <2>2. v = [type |-> type, flags |-> flags, string |-> x, latched |-> x, reset |-> x,
             count |-> IF type = "enum" THEN n ELSE 0, refs |-> refs]
    BY DEF Cvar_RegisterNew
  <2> HIDE DEF v, refs
  <2> QED BY <1>3, <2>1, <2>2 DEF Variable
<1> HIDE DEF v, refs
<1>5. v.refs = RefsOf(v)
  BY <1>1, <1>2 DEF RefsOf, Values
<1>6. Fits(v, x)
  BY <1>1 DEF Fits
<1>7. Good(v)
  BY <1>1, <1>4, <1>5, <1>6 DEF Good
<1> QED BY <1>7 DEF v

LEMMA ClampedFits ==
    ASSUME NEW i \in Int, NEW n \in Nat PROVE Clamped(i, n) \in Domain(n)
  BY DEF Clamped, Domain

LEMMA NewDomain ==
    ASSUME NEW v, Good(v), v.type = "enum", NEW x \in Int, NEW n \in Nat
    PROVE  LET w == Cvar_ApplyNewEnumDomain(v, x, n)
           IN  Good(w) /\ w.type = v.type /\ w.flags = v.flags
<1> DEFINE w == Cvar_ApplyNewEnumDomain(v, x, n)
           current == Clamped(IF v.string >= n THEN x ELSE v.string, n)
           latched == IF v.latched >= n \/ v.latched < 0 THEN current ELSE v.latched
<1>1. v \in Variable /\ v.string \in Nat /\ v.latched \in Nat
  BY DEF Good, Fits, Domain
<1>2. current \in Domain(n) /\ latched \in Domain(n) /\ Clamped(x, n) \in Domain(n)
  <2>1. current \in Domain(n) /\ Clamped(x, n) \in Domain(n)
    BY <1>1, ClampedFits
  <2>2. ~(v.latched >= n \/ v.latched < 0) => v.latched \in Domain(n)
    BY <1>1 DEF Domain
  <2> QED BY <2>1, <2>2
<1>3. w = [v EXCEPT !.count = n, !.string = current, !.reset = Clamped(x, n), !.latched = latched]
  BY <1>1 DEF Cvar_ApplyNewEnumDomain, Variable
<1> DEFINE reset == Clamped(x, n)
<1>4. {current, latched, reset} \subseteq Value
  BY <1>2 DEF Domain, Value
<1> HIDE DEF w, current, latched, reset
<1>5. /\ w \in Variable /\ w.type = v.type /\ w.flags = v.flags /\ w.count = n
      /\ w.string = current /\ w.latched = latched /\ w.reset = reset /\ w.refs = v.refs
  BY <1>1, <1>3, <1>4 DEF Variable, reset
<1>6. RefsOf(w) = RefsOf(v)
  BY <1>5 DEF RefsOf
<1> QED BY <1>2, <1>5, <1>6 DEF Good, Fits, w, reset

\* Cvar_MakeExplicitType, of a string variable.
LEMMA ExplicitType ==
    ASSUME NEW v, Good(v), v.type = "string", "user" \notin v.flags,
           NEW type \in {"string", "enum"}, NEW y, NEW x, NEW n \in Nat,
           type = "string" => x \in Texts,
           type = "enum" => x \in Domain(n) /\ y \in Domain(n)
    PROVE  Good(Cvar_MakeExplicitType(v, type, y, x, n))
<1> DEFINE w == Cvar_MakeExplicitType(v, type, y, x, n)
<1>1. CASE type = "enum"
  <2> DEFINE u == Cvar_RegisterNew("enum", v.flags, y, n)
  <2>1. Good(u) /\ u.type = "enum" /\ u.count = n /\ u.flags = v.flags
    BY <1>1, RegisteredNew DEF Good, Variable, Cvar_RegisterNew
  <2>2. w = [u EXCEPT !.reset = x]
    BY <1>1 DEF Cvar_MakeExplicitType
  <2> HIDE DEF u, w
  <2>3. x \in Value
    BY <1>1 DEF Domain, Value
  <2>4. /\ w \in Variable /\ w.type = "enum" /\ w.flags = u.flags /\ w.count = n
        /\ w.string = u.string /\ w.latched = u.latched /\ w.reset = x /\ w.refs = u.refs
    BY <2>1, <2>2, <2>3 DEF Good, Variable
  <2>5. RefsOf(w) = RefsOf(u)
    BY <2>1, <2>4 DEF RefsOf
  <2> QED BY <1>1, <2>1, <2>4, <2>5 DEF Good, Fits, w
<1>2. CASE type = "string"
  <2> DEFINE refs == [t \in Texts |-> IF t \in {v.string, x} THEN 1 ELSE 0]
  <2>1. /\ v \in Variable /\ v.string \in Texts /\ x \in Value /\ refs \in [Texts -> Int]
    BY <1>2 DEF Good, Fits, Value
  <2>2. w = [v EXCEPT !.latched = v.string, !.reset = x, !.refs = refs]
    BY <1>2 DEF Cvar_MakeExplicitType
  <2> HIDE DEF refs, w
  <2>3. /\ w \in Variable /\ w.type = "string" /\ w.flags = v.flags
        /\ w.string = v.string /\ w.latched = v.string /\ w.reset = x /\ w.refs = refs
    BY <2>1, <2>2 DEF Variable
  <2>4. RefsOf(w) = refs
    BY <2>3 DEF RefsOf, Values, refs
  <2> QED BY <1>2, <2>1, <2>3, <2>4 DEF Good, Fits, w
<1> QED BY <1>1, <1>2

\* A change of the flags.
LEMMA Flagged ==
    ASSUME NEW v, Good(v), NEW flags \in SUBSET Flags, "user" \in flags => v.type = "string"
    PROVE  LET w == [v EXCEPT !.flags = flags]
           IN  Good(w) /\ w.type = v.type /\ w.flags = flags
<1> DEFINE w == [v EXCEPT !.flags = flags]
<1>1. /\ w \in Variable /\ w.type = v.type /\ w.flags = flags /\ w.count = v.count
      /\ w.string = v.string /\ w.latched = v.latched /\ w.reset = v.reset /\ w.refs = v.refs
  BY DEF Good, Variable
<1> HIDE DEF w
<1>2. RefsOf(w) = RefsOf(v)
  BY <1>1 DEF RefsOf, Values
<1> QED BY <1>1, <1>2 DEF Good, Fits, w

\* A registration that meets an existing variable keeps it Good.
LEMMA ReregisterKeeps ==
    ASSUME NEW v, Good(v), v.type # "none", NEW type \in {"string", "enum"},
           NEW flags \in SUBSET (Flags \ {"user"}), NEW y, NEW x, NEW n \in Nat,
           type = "string" => x \in Texts,
           type = "enum" => x \in Domain(n) /\ y \in Domain(n)
    PROVE  Good(Cvar_Reregister(v, type, flags, y, x, n))
<1> DEFINE renewed == IF v.type = "enum" /\ type = "enum" THEN Cvar_ApplyNewEnumDomain(v, x, n) ELSE v
           owned == Cvar_ReinterpretCvar(renewed, type, y, x, n)
           flagged == [owned EXCEPT !.flags = @ \cup flags]
           reset == CheatReset(flagged)
<1>1. Good(renewed) /\ renewed.type = v.type
  BY NewDomain DEF Domain
<1> HIDE DEF renewed
<1>2. Good(owned) /\ owned.type # "none"
  <2>1. CASE "user" \in renewed.flags
    <3> DEFINE u == [renewed EXCEPT !.flags = renewed.flags \ {"user"}]
    <3>1. renewed.type = "string" /\ renewed.flags \in SUBSET Flags
      BY <1>1, <2>1 DEF Good, Variable
    <3>2. Good(u) /\ u.type = "string" /\ "user" \notin u.flags
      BY <1>1, <3>1, Flagged
    <3>3. owned = Cvar_MakeExplicitType(u, type, y, x, n)
      BY <2>1 DEF Cvar_ReinterpretCvar
    <3>4. Cvar_MakeExplicitType(u, type, y, x, n).type # "none"
      <4> HIDE DEF u
      <4>1. CASE type = "enum"
        BY <4>1 DEF Cvar_MakeExplicitType, Cvar_RegisterNew
      <4>2. CASE type = "string"
        BY <4>2, <3>2 DEF Cvar_MakeExplicitType, Good, Variable
      <4> QED BY <4>1, <4>2
    <3> HIDE DEF u, owned
    <3> QED BY <3>2, <3>3, <3>4, ExplicitType
  <2>2. CASE "user" \notin renewed.flags
    BY <1>1, <2>2 DEF Cvar_ReinterpretCvar
  <2> QED BY <2>1, <2>2
<1> HIDE DEF owned
<1>3. Good(flagged) /\ flagged.type # "none"
  <2>1. owned.flags \cup flags \in SUBSET Flags
    BY <1>2 DEF Good, Variable
  <2>2. "user" \in owned.flags \cup flags => owned.type = "string"
    BY <1>2 DEF Good
  <2> QED BY <1>2, <2>1, <2>2, Flagged
<1> HIDE DEF flagged
<1>4. Good(reset) /\ reset.type # "none"
  <2>1. flagged.type = "string" => flagged.reset \in Texts
    BY <1>3 DEF Good, Fits
  <2> DEFINE u == Dvar_SetVariant(flagged, flagged.reset, FALSE)
  <2>2. Good(u) /\ Same(flagged, u)
    BY <1>3, <2>1, SetVariantKeeps
  <2>3. Fits(u, flagged.reset) /\ u.type # "none"
    BY <1>3, <2>2 DEF Good, Same, Fits
  <2> HIDE DEF u
  <2>4. Good(Dvar_SetLatchedValue(u, flagged.reset)) /\ Same(u, Dvar_SetLatchedValue(u, flagged.reset))
    BY <2>2, <2>3, Latched
  <2> QED BY <1>3, <2>3, <2>4 DEF CheatReset, Same, u
<1> HIDE DEF reset
<1>5. Good(Unlatch(reset))
  <2>1. reset.type = "string" => reset.latched \in Texts
    BY <1>4 DEF Good, Fits
  <2> QED BY <1>4, <2>1, SetVariantKeeps DEF Unlatch
<1> QED BY <1>5 DEF Cvar_Reregister, reset, flagged, owned, renewed

-----------------------------------------------------------------------------
(* The specification *)

AllGood ==
    /\ DOMAIN cvar = Names /\ cvar = [c \in Names |-> cvar[c]]
    /\ \A c \in Names : Good(cvar[c])
    /\ cvar_cheats \in BOOLEAN

LEMMA InitGood == CvarInit => AllGood
<1> SUFFICES ASSUME CvarInit PROVE AllGood
  OBVIOUS
<1>1. Good(Unregistered)
  <2>1. NoReferences \in [Texts -> Int]
    BY DEF NoReferences
  <2>2. Unregistered \in Variable /\ Unregistered.type = "none" /\ Unregistered.flags = {}
        /\ Unregistered.refs = NoReferences
    BY <2>1 DEF Unregistered, Variable, Value
  <2>3. RefsOf(Unregistered) = NoReferences
    BY <2>2 DEF RefsOf, NoReferences
  <2> QED BY <2>2, <2>3 DEF Good
<1> QED BY <1>1 DEF CvarInit, AllGood

LEMMA BecomesGood ==
    ASSUME AllGood, NEW c \in Names, NEW v, Good(v), Becomes(c, v)
    PROVE  AllGood'
  BY DEF AllGood, Becomes

LEMMA StringRegistration ==
    ASSUME AllGood, NEW c \in Names, NEW flags \in SUBSET (Flags \ {"user"}), NEW t \in Texts,
           Cvar_RegisterString(c, flags, t)
    PROVE  AllGood'
<1>1. Good(cvar[c]) /\ cvar[c].type \in {"none", "string", "enum"}
  BY DEF AllGood, Good, Variable
<1>2. CASE Registered(c)
  <2>1. Good(Cvar_Reregister(cvar[c], "string", flags, cvar[c].string, t, 0))
    BY <1>1, <1>2, ReregisterKeeps DEF Registered
  <2> QED BY <1>2, <2>1, BecomesGood DEF Cvar_RegisterString
<1>3. CASE ~Registered(c)
  <2>1. Good(Cvar_RegisterNew("string", flags, t, 0))
    BY RegisteredNew
  <2> QED BY <1>3, <2>1, BecomesGood DEF Cvar_RegisterString
<1> QED BY <1>2, <1>3

LEMMA EnumRegistration ==
    ASSUME AllGood, NEW c \in Names, NEW flags \in SUBSET (Flags \ {"user"}),
           NEW i \in Indices, NEW n \in EnumCounts, Cvar_RegisterEnum(c, flags, i, n)
    PROVE  AllGood'
<1> DEFINE x == IF i < 0 \/ i >= n THEN 0 ELSE i
<1>1. x \in Domain(n) /\ n \in Nat
  BY CvarAssumption DEF Domain
<1> HIDE DEF x
<1>2. PICK y \in Domain(n) \cap (Indices \cup {0}) :
          Becomes(c, IF Registered(c)
                     THEN Cvar_Reregister(cvar[c], "enum", flags, y, x, n)
                     ELSE Cvar_RegisterNew("enum", flags, x, n))
  BY DEF Cvar_RegisterEnum, x
<1>3. Good(cvar[c])
  BY DEF AllGood
<1>4. CASE Registered(c)
  <2>1. Good(Cvar_Reregister(cvar[c], "enum", flags, y, x, n))
    BY <1>1, <1>2, <1>3, <1>4, ReregisterKeeps DEF Registered
  <2> QED BY <1>2, <1>4, <2>1, BecomesGood
<1>5. CASE ~Registered(c)
  <2>1. Good(Cvar_RegisterNew("enum", flags, x, n))
    BY <1>1, RegisteredNew
  <2> QED BY <1>2, <1>5, <2>1, BecomesGood
<1> QED BY <1>4, <1>5

LEMMA Setting ==
    ASSUME AllGood, NEW c \in Names, Registered(c), NEW x, cvar[c].type = "string" => x \in Texts,
           NEW external \in BOOLEAN, Becomes(c, Dvar_SetVariant(cvar[c], x, external))
    PROVE  AllGood'
<1>1. Good(cvar[c]) /\ cvar[c].type # "none"
  BY DEF AllGood, Registered
<1>2. Good(Dvar_SetVariant(cvar[c], x, external))
  BY <1>1, SetVariantKeeps
<1> QED BY <1>2, BecomesGood

LEMMA NextGood == AllGood /\ [CvarNext]_cvarVars => AllGood'
<1> SUFFICES ASSUME AllGood, [CvarNext]_cvarVars PROVE AllGood'
  OBVIOUS
<1>1. CASE SetCheats
  BY <1>1 DEF SetCheats, AllGood
<1>2. ASSUME NEW c \in Names, Registration(c) PROVE AllGood'
  BY <1>2, StringRegistration, EnumRegistration DEF Registration
<1>3. ASSUME NEW c \in Names, Cvar_Reset(c) PROVE AllGood'
  <2>1. cvar[c].type = "string" => cvar[c].reset \in Texts
    BY DEF AllGood, Good, Fits
  <2> QED BY <1>3, <2>1, Setting DEF Cvar_Reset
<1>4. ASSUME NEW c \in Names, NEW t \in Texts, NEW external \in BOOLEAN,
             Cvar_SetFromString(c, t, external)
      PROVE  AllGood'
  <2>1. CASE Registered(c)
    BY <1>4, <2>1, Setting DEF Cvar_SetFromString, Meanings
  <2>2. CASE ~Registered(c)
    <3>1. Good(Cvar_RegisterNew("string", {"user"}, t, 0))
      BY RegisteredNew DEF Flags
    <3> QED BY <1>4, <2>2, <3>1, BecomesGood DEF Cvar_SetFromString
  <2> QED BY <2>1, <2>2
<1>5. CASE UNCHANGED cvarVars
  BY <1>5 DEF cvarVars, AllGood
<1> QED BY <1>1, <1>2, <1>3, <1>4, <1>5 DEF CvarNext

LEMMA AllGoodAlways == CvarSpec => []AllGood
  BY InitGood, NextGood, PTL DEF CvarSpec

(* Every variable has its type, at any time. *)
THEOREM CvarTypes == CvarSpec => []CvarTypeOK
<1>1. AllGood => CvarTypeOK
  BY DEF AllGood, CvarTypeOK, Good, Variable, Fits, Values
<1> QED BY <1>1, AllGoodAlways, PTL

(* No string of a variable dangles, is freed twice or leaks: whatever is set, latched, *)
(* reset and registered again, Dvar_UpdateValue and Dvar_SetLatchedValue keep exactly  *)
(* one reference to each value.                                                        *)
THEOREM StringsAreOwned == CvarSpec => []StringsOwned
<1>1. AllGood => StringsOwned
  BY DEF AllGood, StringsOwned, Good, RefsOf
<1> QED BY <1>1, AllGoodAlways, PTL

(* The values of an enumeration are in its list, whatever lists its registrations bring *)
(* (Cvar_ApplyNewEnumDomain) and whatever a command sets.                               *)
THEOREM EnumsStayInDomain == CvarSpec => []EnumsInDomain
<1>1. AllGood => EnumsInDomain
  BY DEF AllGood, EnumsInDomain, Good, Fits, Values
<1> QED BY <1>1, AllGoodAlways, PTL

-----------------------------------------------------------------------------
(* Induction *)

\* What induction is taken from: every set of numbers that is not empty has a least one.
LEMMA LeastNumber ==
    ASSUME NEW T \in SUBSET Nat, T # {}
    PROVE  \E x \in T : \A y \in T : x <= y
<1> DEFINE Less == {ss \in Nat \X Nat : ss[1] < ss[2]}
<1>1. IsWellFoundedOn(Less, Nat)
  <2>1. OpToRel(<, Nat) = Less
    BY DEF OpToRel
  <2> QED BY <2>1, NatLessThanWellFounded
<1> HIDE DEF Less
<1>2. PICK x \in T : \A y \in T : ~ (<<y, x>> \in Less)
  BY <1>1, WFMin
<1>3. ASSUME NEW y \in T PROVE x <= y
  <2>1. ~ (<<y, x>> \in Less) /\ <<y, x>> \in Nat \X Nat
    BY <1>2
  <2>2. y < x => <<y, x>> \in Less
    BY <2>1 DEF Less
  <2> QED BY <2>1, <2>2
<1> QED BY <1>3

\* Induction over a set of numbers: the prover takes no operator as an argument.
LEMMA Induct ==
    ASSUME NEW S \in SUBSET Nat, 0 \in S, \A n \in S : n + 1 \in S
    PROVE  S = Nat
<1> SUFFICES ASSUME Nat \ S # {} PROVE FALSE
  OBVIOUS
<1>1. PICK x \in Nat \ S : \A y \in Nat \ S : x <= y
  BY LeastNumber
<1>2. x # 0
  OBVIOUS
<1>3. x - 1 \in S
  BY <1>1, <1>2
<1> QED BY <1>1, <1>2, <1>3

-----------------------------------------------------------------------------
(* Blocks *)

\* A block: offset 0 holds the empty string.
Blocks ==
    {gs \in [stringOffsets : [0 .. MaxConfigStrings - 1 -> 0 .. Capacity - 1],
             stringData : [0 .. Capacity - 1 -> Characters \cup {End}],
             dataCount : Nat] :
        gs.stringData[0] = End}

\* The text lies at this offset, with its end.
Holds(gs, o, text) ==
    /\ o \in Nat /\ o + Len(text) < Capacity
    /\ \A k \in 1 .. Len(text) : gs.stringData[o + k - 1] = text[k]
    /\ gs.stringData[o + Len(text)] = End

LEMMA StringRead ==
    ASSUME NEW gs, NEW o, NEW text \in Seq(Characters), Holds(gs, o, text)
    PROVE  StringAt(gs, o) = text
<1> DEFINE Ends(k) == /\ k = Capacity \/ gs.stringData[k] = End
                      /\ \A j \in o .. k - 1 : gs.stringData[j] # End
           last == CHOOSE k \in o .. Capacity : Ends(k)
           e == o + Len(text)
<1>1. Capacity \in Nat /\ o \in Nat /\ Len(text) \in Nat /\ e \in o .. Capacity /\ e < Capacity
      /\ gs.stringData[e] = End
  BY GameStateAssumption DEF Holds
<1>2. \A j \in o .. e - 1 : gs.stringData[j] # End
  <2> SUFFICES ASSUME NEW j \in o .. e - 1 PROVE gs.stringData[j] # End
    OBVIOUS
  <2>1. j - o + 1 \in 1 .. Len(text) /\ o + (j - o + 1) - 1 = j
    BY <1>1
  <2>2. gs.stringData[j] = text[j - o + 1]
    BY <2>1 DEF Holds
  <2>3. text[j - o + 1] \in Characters
    BY <2>1
  <2> QED BY <2>2, <2>3, GameStateAssumption
<1>3. Ends(e)
  BY <1>1, <1>2
<1>4. \A k \in o .. Capacity : Ends(k) => k = e
  <2> SUFFICES ASSUME NEW k \in o .. Capacity, Ends(k) PROVE k = e
    OBVIOUS
  <2>1. ~ k < e
    <3> SUFFICES ASSUME k < e PROVE FALSE
      OBVIOUS
    <3>1. k \in o .. e - 1 /\ k # Capacity
      BY <1>1
    <3> QED BY <1>2, <3>1
  <2>2. ~ e < k
    <3> SUFFICES ASSUME e < k PROVE FALSE
      OBVIOUS
    <3>1. e \in o .. k - 1
      BY <1>1
    <3> QED BY <1>1, <3>1
  <2> QED BY <1>1, <2>1, <2>2
<1>5. last = e
  <2> HIDE DEF Ends, e
  <2> QED BY <1>1, <1>3, <1>4
<1>6. StringAt(gs, o) = [j \in 1 .. last - o |-> gs.stringData[o + j - 1]]
  BY DEF StringAt
<1> HIDE DEF last
<1>7. last - o = Len(text)
  BY <1>1, <1>5
<1>8. StringAt(gs, o) = [j \in 1 .. Len(text) |-> gs.stringData[o + j - 1]]
  BY <1>6, <1>7
<1>9. StringAt(gs, o) = [j \in 1 .. Len(text) |-> text[j]]
  BY <1>8 DEF Holds
<1> QED BY <1>9

\* What is read at any offset is a text.
LEMMA StringTyped ==
    ASSUME NEW gs \in Blocks, NEW o \in 0 .. Capacity - 1
    PROVE  StringAt(gs, o) \in Seq(Characters)
<1> DEFINE Ends(k) == /\ k = Capacity \/ gs.stringData[k] = End
                      /\ \A j \in o .. k - 1 : gs.stringData[j] # End
           last == CHOOSE k \in o .. Capacity : Ends(k)
           Stops == {k \in o .. Capacity : k = Capacity \/ gs.stringData[k] = End}
<1>1. Capacity \in Nat /\ o \in Nat /\ o < Capacity
  BY GameStateAssumption
<1>2. PICK k \in Stops : \A y \in Stops : k <= y
  <2>1. Stops \in SUBSET Nat /\ Capacity \in Stops
    BY <1>1
  <2> HIDE DEF Stops
  <2> QED BY <2>1, LeastNumber
<1>3. k \in o .. Capacity /\ Ends(k)
  <2>1. \A j \in o .. k - 1 : gs.stringData[j] # End
    <3> SUFFICES ASSUME NEW j \in o .. k - 1, gs.stringData[j] = End PROVE FALSE
      OBVIOUS
    <3>1. j \in Stops /\ j < k
      BY <1>1, <1>2
    <3> QED BY <1>1, <1>2, <3>1
  <2> QED BY <1>2, <2>1
<1>4. last \in o .. Capacity /\ Ends(last)
  <2> HIDE DEF Ends
  <2> QED BY <1>3
<1> HIDE DEF last
<1>5. \A j \in 1 .. last - o : gs.stringData[o + j - 1] \in Characters
  <2> SUFFICES ASSUME NEW j \in 1 .. last - o PROVE gs.stringData[o + j - 1] \in Characters
    OBVIOUS
  <2>1. o + j - 1 \in o .. last - 1 /\ o + j - 1 \in 0 .. Capacity - 1
    BY <1>1, <1>4
  <2>2. gs.stringData[o + j - 1] # End
    BY <1>4, <2>1
  <2>3. gs.stringData[o + j - 1] \in Characters \cup {End}
    BY <2>1 DEF Blocks
  <2> QED BY <2>2, <2>3
<1>6. StringAt(gs, o) = [j \in 1 .. last - o |-> gs.stringData[o + j - 1]]
  BY DEF StringAt, last
<1>7. last - o \in Nat
  BY <1>1, <1>4
<1> QED BY <1>5, <1>6, <1>7

\* Offset 0 holds the empty string.
LEMMA NoOffset ==
    ASSUME NEW gs \in Blocks
    PROVE  StringAt(gs, 0) = <<>>
<1>1. Holds(gs, 0, <<>>) /\ <<>> \in Seq(Characters)
  BY GameStateAssumption DEF Holds, Blocks
<1> QED BY <1>1, StringRead

-----------------------------------------------------------------------------
(* A block that is filled *)

\* What the block is after place n - 1, when it was after[n - 1] before.
FillStep(gs, strings, first, after, n) ==
    IF n = 0 THEN gs
    ELSE IF first + n - 1 \notin DOMAIN strings THEN after[n - 1]
    ELSE Appended(after[n - 1], n - 1, strings[first + n - 1])

\* There is a function with the equation that defines the filling.
LEMMA FillingExists ==
    ASSUME NEW gs, NEW strings, NEW first \in Nat
    PROVE  \E f : f = [n \in 0 .. MaxConfigStrings |-> FillStep(gs, strings, first, f, n)]
<1> DEFINE M == MaxConfigStrings
           Step(f, n) == FillStep(gs, strings, first, f, n)
           Fills(f, k) == \A n \in 0 .. M : n <= k => f[n] = Step(f, n)
           Turns == {k \in Nat : \E f : f = [n \in 0 .. M |-> f[n]] /\ Fills(f, k)}
<1>0. M \in Nat
  BY GameStateAssumption
<1> HIDE DEF M
<1>1. 0 \in Turns
  <2> DEFINE f == [n \in 0 .. M |-> gs]
  <2>1. f = [n \in 0 .. M |-> f[n]] /\ Fills(f, 0)
    BY <1>0 DEF FillStep
  <2> HIDE DEF f
  <2> QED BY <2>1
<1>2. ASSUME NEW k \in Turns PROVE k + 1 \in Turns
  <2>1. PICK f : f = [n \in 0 .. M |-> f[n]] /\ Fills(f, k)
    BY <1>2
  <2> DEFINE h == [n \in 0 .. M |-> Step(f, n)]
  <2>2. h = [n \in 0 .. M |-> h[n]] /\ \A n \in 0 .. M : h[n] = Step(f, n)
    OBVIOUS
  <2> HIDE DEF h
  <2>3. \A n \in 0 .. M : n <= k => h[n] = f[n]
    BY <2>1, <2>2
  <2>4. ASSUME NEW n \in 0 .. M, n <= k + 1 PROVE h[n] = Step(h, n)
    <3>1. CASE n = 0
      BY <2>2, <3>1 DEF FillStep
    <3>2. CASE n # 0
      <4>1. h[n - 1] = f[n - 1]
        <5>1. n - 1 \in 0 .. M /\ n - 1 <= k
          BY <1>0, <2>4, <3>2, k \in Nat
        <5> QED BY <2>3, <5>1
      <4> QED BY <2>2, <2>4, <3>2, <4>1 DEF FillStep
    <3> QED BY <3>1, <3>2
  <2>5. k + 1 \in Nat /\ Fills(h, k + 1)
    BY <2>4
  <2> QED BY <2>2, <2>5
<1>3. M \in Turns
  <2> HIDE DEF Turns
  <2>1. Turns \in SUBSET Nat
    BY DEF Turns
  <2> QED BY <1>0, <1>1, <1>2, <2>1, Induct
<1>4. PICK f : f = [n \in 0 .. M |-> f[n]] /\ Fills(f, M)
  BY <1>3
<1>5. \A n \in 0 .. M : f[n] = Step(f, n)
  BY <1>0, <1>4
<1> QED BY <1>4, <1>5 DEF M

LEMMA Filling ==
    ASSUME NEW gs, NEW strings, NEW first \in Nat
    PROVE  \E f : /\ f[0] = gs
                  /\ Filled(gs, strings, first) = f[MaxConfigStrings]
                  /\ \A n \in 0 .. MaxConfigStrings - 1 :
                       f[n + 1] = IF first + n \notin DOMAIN strings THEN f[n]
                                  ELSE Appended(f[n], n, strings[first + n])
<1> DEFINE f == CHOOSE f : f = [n \in 0 .. MaxConfigStrings |->
                    IF n = 0 THEN gs
                    ELSE IF first + n - 1 \notin DOMAIN strings THEN f[n - 1]
                    ELSE Appended(f[n - 1], n - 1, strings[first + n - 1])]
<1>1. f = [n \in 0 .. MaxConfigStrings |-> FillStep(gs, strings, first, f, n)]
  <2>1. \E g : g = [n \in 0 .. MaxConfigStrings |->
                    IF n = 0 THEN gs
                    ELSE IF first + n - 1 \notin DOMAIN strings THEN g[n - 1]
                    ELSE Appended(g[n - 1], n - 1, strings[first + n - 1])]
    <3>1. PICK g : g = [n \in 0 .. MaxConfigStrings |-> FillStep(gs, strings, first, g, n)]
      BY FillingExists
    <3>2. g = [n \in 0 .. MaxConfigStrings |->
                    IF n = 0 THEN gs
                    ELSE IF first + n - 1 \notin DOMAIN strings THEN g[n - 1]
                    ELSE Appended(g[n - 1], n - 1, strings[first + n - 1])]
      BY <3>1 DEF FillStep
    <3> QED BY <3>2
  <2>2. f = [n \in 0 .. MaxConfigStrings |->
                    IF n = 0 THEN gs
                    ELSE IF first + n - 1 \notin DOMAIN strings THEN f[n - 1]
                    ELSE Appended(f[n - 1], n - 1, strings[first + n - 1])]
    BY <2>1
  <2> HIDE DEF f
  <2> QED BY <2>2 DEF FillStep
<1>2. Filled(gs, strings, first) = f[MaxConfigStrings]
  BY DEF Filled
<1> HIDE DEF f
<1>3. f[0] = gs
  <2>1. 0 \in 0 .. MaxConfigStrings
    BY GameStateAssumption
  <2> QED BY <1>1, <2>1 DEF FillStep
<1>4. ASSUME NEW n \in 0 .. MaxConfigStrings - 1
      PROVE  f[n + 1] = IF first + n \notin DOMAIN strings THEN f[n]
                        ELSE Appended(f[n], n, strings[first + n])
  <2>1. n + 1 \in 0 .. MaxConfigStrings /\ n + 1 # 0 /\ (n + 1) - 1 = n
    BY GameStateAssumption
  <2>2. f[n + 1] = FillStep(gs, strings, first, f, n + 1)
    BY <1>1, <2>1
  <2>3. first + (n + 1) - 1 = first + n
    OBVIOUS
  <2> QED BY <2>1, <2>2, <2>3 DEF FillStep
<1> QED BY <1>2, <1>3, <1>4

\* A block that is being filled: whether it has room is looked at last.
Growing ==
    {gs \in [stringOffsets : [0 .. MaxConfigStrings - 1 -> Nat],
             stringData : [0 .. Capacity - 1 -> Characters \cup {End}],
             dataCount : Nat \ {0}] :
        gs.stringData[0] = End}

LEMMA AppendedHolds ==
    ASSUME NEW gs \in Growing, NEW i \in 0 .. MaxConfigStrings - 1, NEW text \in Seq(Characters),
           NEW w, w = Appended(gs, i, text)
    PROVE  /\ w \in Growing
           /\ w.dataCount = gs.dataCount + Len(text) + 1
           /\ w.stringOffsets = [gs.stringOffsets EXCEPT ![i] = gs.dataCount]
           /\ \A k \in 0 .. Capacity - 1 : k < gs.dataCount => w.stringData[k] = gs.stringData[k]
           /\ w.dataCount <= Capacity => Holds(w, gs.dataCount, text)
<1> DEFINE d == gs.dataCount
           char(k) == CASE k \in d .. d + Len(text) - 1 -> text[k - d + 1]
                        [] k = d + Len(text) -> End
                        [] OTHER -> gs.stringData[k]
           data == [k \in 0 .. Capacity - 1 |-> char(k)]
           offsets == [gs.stringOffsets EXCEPT ![i] = gs.dataCount]
<1>1. /\ d \in Nat \ {0} /\ Len(text) \in Nat /\ Capacity \in Nat \ {0}
      /\ gs.stringData \in [0 .. Capacity - 1 -> Characters \cup {End}]
      /\ gs.stringOffsets \in [0 .. MaxConfigStrings - 1 -> Nat] /\ gs.stringData[0] = End
  BY GameStateAssumption DEF Growing
<1>2. w = [stringOffsets |-> offsets, stringData |-> data, dataCount |-> d + Len(text) + 1]
  BY <1>1 DEF Appended
<1> HIDE DEF d
<1>3. \A k \in 0 .. Capacity - 1 :
        /\ k \in d .. d + Len(text) - 1 => char(k) = text[k - d + 1]
        /\ k = d + Len(text) => char(k) = End
        /\ ~ (k \in d .. d + Len(text) - 1) /\ k # d + Len(text) => char(k) = gs.stringData[k]
  <2> SUFFICES ASSUME NEW k \in 0 .. Capacity - 1
               PROVE  /\ k \in d .. d + Len(text) - 1 => char(k) = text[k - d + 1]
                      /\ k = d + Len(text) => char(k) = End
                      /\ ~ (k \in d .. d + Len(text) - 1) /\ k # d + Len(text)
                            => char(k) = gs.stringData[k]
    OBVIOUS
  <2>1. k = d + Len(text) => ~ (k \in d .. d + Len(text) - 1)
    BY <1>1
  <2> QED BY <2>1
<1> HIDE DEF char
<1>4. \A k \in 0 .. Capacity - 1 : char(k) \in Characters \cup {End}
  <2> SUFFICES ASSUME NEW k \in 0 .. Capacity - 1 PROVE char(k) \in Characters \cup {End}
    OBVIOUS
  <2>1. k \in d .. d + Len(text) - 1 => k - d + 1 \in 1 .. Len(text)
    BY <1>1
  <2>2. k \in d .. d + Len(text) - 1 => text[k - d + 1] \in Characters
    BY <2>1
  <2> QED BY <1>1, <1>3, <2>2
<1>5. data \in [0 .. Capacity - 1 -> Characters \cup {End}]
      /\ \A k \in 0 .. Capacity - 1 : data[k] = char(k)
  BY <1>4
<1>6. offsets \in [0 .. MaxConfigStrings - 1 -> Nat]
  BY <1>1 DEF d
<1>7. \A k \in 0 .. Capacity - 1 : k < d => data[k] = gs.stringData[k]
  <2> SUFFICES ASSUME NEW k \in 0 .. Capacity - 1, k < d PROVE data[k] = gs.stringData[k]
    OBVIOUS
  <2>1. ~ (k \in d .. d + Len(text) - 1) /\ k # d + Len(text)
    BY <1>1
  <2> QED BY <1>3, <1>5, <2>1
<1>8. data[0] = End
  BY <1>1, <1>7
<1> HIDE DEF data, offsets
<1>9. w \in Growing /\ w.dataCount = d + Len(text) + 1 /\ w.stringOffsets = offsets /\ w.stringData = data
  <2>1. d + Len(text) + 1 \in Nat \ {0}
    BY <1>1
  <2> DEFINE c == d + Len(text) + 1
  <2> HIDE DEF c
  <2>2. w = [stringOffsets |-> offsets, stringData |-> data, dataCount |-> c]
    BY <1>2 DEF c
  <2>3. w.dataCount = c /\ w.stringOffsets = offsets /\ w.stringData = data
    BY <2>2
  <2>4. w \in [stringOffsets : [0 .. MaxConfigStrings - 1 -> Nat],
                stringData : [0 .. Capacity - 1 -> Characters \cup {End}], dataCount : Nat \ {0}]
    BY <1>5, <1>6, <2>1, <2>2 DEF c
  <2> QED BY <1>8, <2>3, <2>4 DEF Growing, c
<1>10. ASSUME d + Len(text) + 1 <= Capacity PROVE Holds(w, d, text)
  <2>1. \A k \in 1 .. Len(text) : data[d + k - 1] = text[k]
    <3> SUFFICES ASSUME NEW k \in 1 .. Len(text) PROVE data[d + k - 1] = text[k]
      OBVIOUS
    <3>1. d + k - 1 \in 0 .. Capacity - 1 /\ d + k - 1 \in d .. d + Len(text) - 1 /\ (d + k - 1) - d + 1 = k
      BY <1>1, <1>10
    <3> QED BY <1>3, <1>5, <3>1
  <2>2. data[d + Len(text)] = End
    <3>1. d + Len(text) \in 0 .. Capacity - 1
      BY <1>1, <1>10
    <3> QED BY <1>3, <1>5, <3>1
  <2>3. d \in Nat /\ d + Len(text) < Capacity
    BY <1>1, <1>10
  <2>4. w.stringData = data
    BY <1>9
  <2> QED BY <2>1, <2>2, <2>3, <2>4 DEF Holds
<1> QED BY <1>7, <1>9, <1>10 DEF d, offsets

\* A text stays where it is when others are put behind it.
LEMMA StillHolds ==
    ASSUME NEW gs, NEW w, NEW o \in Nat, NEW text \in Seq(Characters), NEW d \in Nat,
           Holds(gs, o, text), o + Len(text) < d,
           \A k \in 0 .. Capacity - 1 : k < d => w.stringData[k] = gs.stringData[k]
    PROVE  Holds(w, o, text)
<1>1. Capacity \in Nat /\ Len(text) \in Nat /\ o + Len(text) < Capacity
  BY GameStateAssumption DEF Holds
<1>2. ASSUME NEW k \in 1 .. Len(text) PROVE w.stringData[o + k - 1] = text[k]
  <2>1. o + k - 1 \in 0 .. Capacity - 1 /\ o + k - 1 < d
    BY <1>1
  <2> QED BY <2>1 DEF Holds
<1>3. w.stringData[o + Len(text)] = End
  <2>1. o + Len(text) \in 0 .. Capacity - 1 /\ o + Len(text) < d
    BY <1>1
  <2> QED BY <2>1 DEF Holds
<1> QED BY <1>1, <1>2, <1>3 DEF Holds

\* A block that has room holds the strings it was filled with; the offsets of the others
\* are what they were.
LEMMA FilledHolds ==
    ASSUME NEW gs \in Growing, NEW strings, \A i \in DOMAIN strings : strings[i] \in Seq(Characters),
           NEW first \in Nat, NEW block, block = Filled(gs, strings, first)
    PROVE  /\ block \in Growing
           /\ block.dataCount <= Capacity =>
                \A n \in 0 .. MaxConfigStrings - 1 :
                    IF first + n \in DOMAIN strings
                    THEN /\ block.stringOffsets[n] # 0
                         /\ Holds(block, block.stringOffsets[n], strings[first + n])
                    ELSE block.stringOffsets[n] = gs.stringOffsets[n]
<1> DEFINE M == MaxConfigStrings
<1>1. PICK f : /\ f[0] = gs
               /\ Filled(gs, strings, first) = f[MaxConfigStrings]
               /\ \A n \in 0 .. MaxConfigStrings - 1 :
                    f[n + 1] = IF first + n \notin DOMAIN strings THEN f[n]
                               ELSE Appended(f[n], n, strings[first + n])
  BY Filling
<1> DEFINE Placed(n, j) ==
             IF j < n /\ first + j \in DOMAIN strings
             THEN f[n].dataCount <= Capacity =>
                    /\ f[n].stringOffsets[j] # 0
                    /\ Holds(f[n], f[n].stringOffsets[j], strings[first + j])
                    /\ f[n].stringOffsets[j] + Len(strings[first + j]) < f[n].dataCount
             ELSE f[n].stringOffsets[j] = gs.stringOffsets[j]
           FilledTo(n) == f[n] \in Growing /\ \A j \in 0 .. M - 1 : Placed(n, j)
           Turns == {n \in Nat : n <= M => FilledTo(n)}
<1>2. M \in Nat /\ Capacity \in Nat
  BY GameStateAssumption
<1>3. 0 \in Turns
  BY <1>1
<1>4. ASSUME NEW n \in Turns PROVE n + 1 \in Turns
  <2> SUFFICES ASSUME n + 1 <= M PROVE FilledTo(n + 1)
    BY <1>4
  <2>1. n \in Nat /\ n \in 0 .. M - 1 /\ FilledTo(n)
    BY <1>2, <1>4
  <2>2. CASE first + n \notin DOMAIN strings
    <3>1. f[n + 1] = f[n]
      BY <1>1, <2>1, <2>2
    <3>2. ASSUME NEW j \in 0 .. M - 1 PROVE Placed(n + 1, j)
      <4>1. Placed(n, j)
        BY <2>1
      <4>2. j < n + 1 /\ first + j \in DOMAIN strings <=> j < n /\ first + j \in DOMAIN strings
        <5>1. j < n + 1 <=> j < n \/ j = n
          BY <1>2, <2>1
        <5> QED BY <2>2, <5>1
      <4> QED BY <3>1, <4>1, <4>2
    <3> QED BY <2>1, <3>1, <3>2
  <2>3. CASE first + n \in DOMAIN strings
    <3> DEFINE text == strings[first + n]
               d == f[n].dataCount
               w == f[n + 1]
    <3>1. w = Appended(f[n], n, text)
      BY <1>1, <2>1, <2>3
    <3>2. f[n] \in Growing /\ text \in Seq(Characters)
      BY <2>1, <2>3
    <3> HIDE DEF text, w
    <3>3. /\ w \in Growing
          /\ w.dataCount = d + Len(text) + 1
          /\ w.stringOffsets = [f[n].stringOffsets EXCEPT ![n] = d]
          /\ \A k \in 0 .. Capacity - 1 : k < d => w.stringData[k] = f[n].stringData[k]
          /\ w.dataCount <= Capacity => Holds(w, d, text)
      <4> DEFINE g == f[n]
      <4>1. g \in Growing /\ n \in 0 .. MaxConfigStrings - 1 /\ w = Appended(g, n, text)
        BY <2>1, <3>1, <3>2
      <4> HIDE DEF g
      <4>2. /\ w \in Growing
            /\ w.dataCount = g.dataCount + Len(text) + 1
            /\ w.stringOffsets = [g.stringOffsets EXCEPT ![n] = g.dataCount]
            /\ \A k \in 0 .. Capacity - 1 : k < g.dataCount => w.stringData[k] = g.stringData[k]
            /\ w.dataCount <= Capacity => Holds(w, g.dataCount, text)
        BY <3>2, <4>1, AppendedHolds
      <4> QED BY <4>2 DEF g
    <3>4. d \in Nat \ {0} /\ Len(text) \in Nat /\ f[n].stringOffsets \in [0 .. M - 1 -> Nat]
      BY <3>2 DEF Growing
    <3>5. ASSUME NEW j \in 0 .. M - 1 PROVE Placed(n + 1, j)
      <4>1. CASE j = n
        <5>1. w.stringOffsets[j] = d
          BY <2>1, <3>3, <3>4, <4>1
        <5> QED BY <2>1, <2>3, <3>3, <3>4, <4>1, <5>1 DEF w, text
      <4>2. CASE j # n
        <5>1. w.stringOffsets[j] = f[n].stringOffsets[j]
          BY <3>3, <3>4, <4>2
        <5>2. j < n + 1 <=> j < n
          BY <1>2, <2>1, <4>2
        <5>3. Placed(n, j)
          BY <2>1
        <5>4. CASE j < n /\ first + j \in DOMAIN strings
          <6> SUFFICES ASSUME w.dataCount <= Capacity
                       PROVE  /\ w.stringOffsets[j] # 0
                              /\ Holds(w, w.stringOffsets[j], strings[first + j])
                              /\ w.stringOffsets[j] + Len(strings[first + j]) < w.dataCount
            BY <5>2, <5>4 DEF w
          <6>1. d <= Capacity
            BY <1>2, <3>3, <3>4
          <6> DEFINE o == f[n].stringOffsets[j]
                     other == strings[first + j]
          <6>2. o # 0 /\ Holds(f[n], o, other) /\ o + Len(other) < d
            BY <5>3, <5>4, <6>1
          <6>3. o \in Nat /\ other \in Seq(Characters) /\ Len(other) \in Nat
            <7>1. other \in Seq(Characters)
              BY <5>4
            <7>2. o \in Nat
              BY <3>4
            <7> QED BY <7>1, <7>2
          <6> HIDE DEF o, other
          <6>4. Holds(w, o, other)
            BY <3>3, <3>4, <6>2, <6>3, StillHolds
          <6>5. o + Len(other) < w.dataCount
            BY <3>3, <3>4, <6>2, <6>3
          <6> QED BY <5>1, <6>2, <6>4, <6>5 DEF o, other
        <5>5. CASE ~ (j < n /\ first + j \in DOMAIN strings)
          BY <5>1, <5>2, <5>3, <5>5 DEF w
        <5> QED BY <5>4, <5>5
      <4> QED BY <4>1, <4>2
    <3> QED BY <3>3, <3>5 DEF w
  <2> QED BY <2>2, <2>3
<1>5. M \in Turns
  <2> HIDE DEF Turns
  <2>1. Turns \in SUBSET Nat
    BY DEF Turns
  <2> QED BY <1>2, <1>3, <1>4, <2>1, Induct
<1>6. FilledTo(M) /\ block = f[M]
  <2> HIDE DEF FilledTo
  <2>1. M \in Nat /\ M <= M => FilledTo(M)
    BY <1>5
  <2> QED BY <1>1, <1>2, <2>1
<1>7. \A n \in 0 .. M - 1 : n < M
  BY <1>2
<1> QED BY <1>6, <1>7

LEMMA FilledBlock ==
    ASSUME NEW gs, gs \in Growing, gs.stringOffsets \in [0 .. MaxConfigStrings - 1 -> 0 .. Capacity - 1],
           NEW strings, \A i \in DOMAIN strings : strings[i] \in Seq(Characters),
           NEW first \in Nat, NEW block, block = Filled(gs, strings, first), HasRoom(block)
    PROVE  /\ block \in Blocks
           /\ \A n \in 0 .. MaxConfigStrings - 1 :
                IF first + n \in DOMAIN strings
                THEN /\ block.stringOffsets[n] # 0
                     /\ StringAt(block, block.stringOffsets[n]) = strings[first + n]
                ELSE block.stringOffsets[n] = gs.stringOffsets[n]
<1>1. /\ block \in Growing
      /\ \A n \in 0 .. MaxConfigStrings - 1 :
            IF first + n \in DOMAIN strings
            THEN /\ block.stringOffsets[n] # 0
                 /\ Holds(block, block.stringOffsets[n], strings[first + n])
            ELSE block.stringOffsets[n] = gs.stringOffsets[n]
  BY FilledHolds DEF HasRoom
<1>2. \A n \in 0 .. MaxConfigStrings - 1 :
        first + n \in DOMAIN strings => StringAt(block, block.stringOffsets[n]) = strings[first + n]
  <2> SUFFICES ASSUME NEW n \in 0 .. MaxConfigStrings - 1, first + n \in DOMAIN strings
               PROVE  StringAt(block, block.stringOffsets[n]) = strings[first + n]
    OBVIOUS
  <2> DEFINE text == strings[first + n]
             o == block.stringOffsets[n]
  <2>1. Holds(block, o, text) /\ text \in Seq(Characters)
    BY <1>1
  <2> HIDE DEF text, o
  <2>2. StringAt(block, o) = text
    BY <2>1, StringRead
  <2> QED BY <2>2 DEF text, o
<1>3. \A n \in 0 .. MaxConfigStrings - 1 : block.stringOffsets[n] \in 0 .. Capacity - 1
  <2> SUFFICES ASSUME NEW n \in 0 .. MaxConfigStrings - 1 PROVE block.stringOffsets[n] \in 0 .. Capacity - 1
    OBVIOUS
  <2>1. CASE first + n \in DOMAIN strings
    <3> DEFINE text == strings[first + n]
               o == block.stringOffsets[n]
    <3>1. Holds(block, o, text) /\ text \in Seq(Characters)
      BY <1>1, <2>1
    <3> HIDE DEF text
    <3>2. Len(text) \in Nat /\ o \in Nat /\ o + Len(text) < Capacity /\ Capacity \in Nat
      BY <3>1, GameStateAssumption DEF Holds
    <3> HIDE DEF o
    <3>3. o \in 0 .. Capacity - 1
      BY <3>2
    <3> QED BY <3>3 DEF o
  <2>2. CASE first + n \notin DOMAIN strings
    BY <1>1, <2>2
  <2> QED BY <2>1, <2>2
<1>4. block \in Blocks
  BY <1>1, <1>3 DEF Growing, Blocks
<1>5. \A n \in 0 .. MaxConfigStrings - 1 :
        first + n \in DOMAIN strings => block.stringOffsets[n] # 0
  BY <1>1
<1> QED BY <1>1, <1>2, <1>4, <1>5

LEMMA EmptyBlock ==
    /\ EmptyGameState \in Blocks /\ EmptyGameState \in Growing
    /\ EmptyGameState.stringOffsets \in [0 .. MaxConfigStrings - 1 -> 0 .. Capacity - 1]
    /\ \A n \in 0 .. MaxConfigStrings - 1 : EmptyGameState.stringOffsets[n] = 0
<1> DEFINE data == [k \in 0 .. Capacity - 1 |-> End]
           offsets == [i \in 0 .. MaxConfigStrings - 1 |-> 0]
<1>1. Capacity \in Nat \ {0}
  BY GameStateAssumption
<1>2. EmptyGameState = [stringOffsets |-> offsets, stringData |-> data, dataCount |-> 1]
  BY DEF EmptyGameState
<1>3. data \in [0 .. Capacity - 1 -> Characters \cup {End}] /\ data[0] = End
  BY <1>1
<1>4. /\ offsets \in [0 .. MaxConfigStrings - 1 -> 0 .. Capacity - 1]
      /\ offsets \in [0 .. MaxConfigStrings - 1 -> Nat]
      /\ \A n \in 0 .. MaxConfigStrings - 1 : offsets[n] = 0
  BY <1>1
<1> HIDE DEF data, offsets
<1>5. EmptyGameState.stringOffsets = offsets /\ EmptyGameState.stringData = data
  BY <1>2
<1>6. EmptyGameState \in [stringOffsets : [0 .. MaxConfigStrings - 1 -> 0 .. Capacity - 1],
                         stringData : [0 .. Capacity - 1 -> Characters \cup {End}], dataCount : Nat]
  BY <1>2, <1>3, <1>4
<1>7. EmptyGameState \in [stringOffsets : [0 .. MaxConfigStrings - 1 -> Nat],
                         stringData : [0 .. Capacity - 1 -> Characters \cup {End}], dataCount : Nat \ {0}]
  BY <1>2, <1>3, <1>4
<1> QED BY <1>3, <1>4, <1>5, <1>6, <1>7 DEF Blocks, Growing

-----------------------------------------------------------------------------
(* The inductive invariant *)

Text == Seq(Characters)

ServerCommand == [cmd : {"d", "x", "y", "z"}, index : Index, text : Text, value : Text]

NoCommand == [cmd |-> "none"]

Client ==
    [map : DOMAIN Maps \cup {0}, gameState : Blocks, serverCommandSequence : Nat, serverCommandNum : Nat,
     serverCommands : [0 .. Slots - 1 -> ServerCommand \cup {NoCommand}], executed : Nat]

\* Strings by their index, some of them.
Strings == UNION {[D -> Text] : D \in SUBSET Index}

Entry ==
    {Protocol}
    \cup [kind : {"gamestate"}, map : DOMAIN Maps \cup {0}, sequence : Nat, strings : Strings,
          executed : Nat, emptied : SUBSET Index]
    \cup [kind : {"message"}, first : Nat \ {0}, last : Nat]

GameTypes ==
    /\ mode \in {"menu", "live", "replay", "over"}
    /\ legacy \in BOOLEAN
    /\ client \in Client
    /\ extGameState \in Blocks
    /\ bigConfigString \in [index : Index \cup {-1}, text : Text]
    /\ server \in [map : DOMAIN Maps \cup {0}, sequence : Nat, first : Nat \ {0}, local : BOOLEAN]
    /\ svCommands \in Seq(ServerCommand)
    /\ demo \in Seq(Entry)
    /\ \A p \in 1 .. Len(demo) : demo[p].kind = "message" => demo[p].last <= Len(svCommands)
    /\ position \in Nat
    /\ stale \subseteq Index

\* A piece goes on where the one before it ended.
ServerInv ==
    \A n \in 1 .. Len(svCommands) :
        LET c == svCommands[n]
        IN  /\ c.cmd \in {"d", "x"} => c.value = c.text
            /\ c.cmd \in {"y", "z"} =>
                 /\ n > 1 /\ svCommands[n - 1].cmd \in {"x", "y"}
                 /\ svCommands[n - 1].index = c.index
                 /\ c.value = svCommands[n - 1].value \o c.text

\* A slot that was not given to a later command holds the server's.
SlotsInv ==
    \A n \in 1 .. client.serverCommandSequence :
        n > client.serverCommandSequence - Slots => client.serverCommands[n % Slots] = svCommands[n]

\* After a piece that others follow, the buffer has what there is of the string.
PiecesInv ==
    client.executed > 0 /\ svCommands[client.executed].cmd \in {"x", "y"} =>
        bigConfigString = [index |-> svCommands[client.executed].index,
                           text |-> svCommands[client.executed].value]

MenuInv ==
    mode = "menu" => client.executed = 0 /\ client.gameState = EmptyGameState /\ svCommands = <<>>

LiveInv ==
    mode = "live" =>
        /\ server.map \in DOMAIN Maps
        /\ server.sequence <= client.executed
        /\ client.executed <= client.serverCommandNum
        /\ client.serverCommandNum = client.serverCommandSequence
        /\ client.serverCommandSequence <= Len(svCommands)
        /\ SlotsInv
        /\ PiecesInv

-----------------------------------------------------------------------------
(* Configuration strings *)

LEMMA GameConstants ==
    /\ MaxConfigStrings \in Nat \ {0, 1} /\ Capacity \in Nat \ {0}
    /\ Slots \in Nat \ {0} /\ PieceLength \in Nat \ {0}
    /\ \A i \in Index : i \in Nat /\ FirstOf(i) \in {0, MaxConfigStrings}
                        /\ Place(i) \in 0 .. MaxConfigStrings - 1 /\ FirstOf(i) + Place(i) = i
    /\ \A i \in Index : i < MaxConfigStrings => FirstOf(i) = 0 /\ Place(i) = i
    /\ \A i \in Index : ~ (i < MaxConfigStrings) => FirstOf(i) = MaxConfigStrings
    /\ CS_SYSTEMINFO \in Index /\ CS_SYSTEMINFO < MaxConfigStrings
  BY GameStateAssumption DEF Index, FirstOf, Place, CS_SYSTEMINFO

LEMMA ConfigStrings ==
    ASSUME GameTypes, NEW i \in Index
    PROVE  /\ Block(i) \in Blocks /\ Block(i).stringOffsets[Place(i)] \in 0 .. Capacity - 1
           /\ CL_GetConfigString(i) \in Text
<1>1. Block(i) \in Blocks
  BY DEF Block, GameTypes, Client
<1>2. Block(i).stringOffsets[Place(i)] \in 0 .. Capacity - 1
  <2> DEFINE b == Block(i)
  <2> HIDE DEF b
  <2>1. b \in Blocks => b.stringOffsets[Place(i)] \in 0 .. Capacity - 1
    BY GameConstants DEF Blocks
  <2> QED BY <1>1, <2>1 DEF b
<1>3. StringAt(Block(i), Block(i).stringOffsets[Place(i)]) \in Text
  BY <1>1, <1>2, StringTyped DEF Text
<1> QED BY <1>1, <1>2, <1>3 DEF CL_GetConfigString

\* The strings of the block that is built anew, one of them changed.
LEMMA RebuiltBlock ==
    ASSUME GameTypes, NEW i \in Index, NEW s \in Text,
           NEW block, block = Filled(EmptyGameState, Modified(i, s), FirstOf(i)), HasRoom(block)
    PROVE  /\ block \in Blocks
           /\ \A j \in Index : FirstOf(j) = FirstOf(i) =>
                StringAt(block, block.stringOffsets[Place(j)]) = IF j = i THEN s ELSE CL_GetConfigString(j)
<1> DEFINE J == FirstOf(i) .. FirstOf(i) + MaxConfigStrings - 1
           all == [j \in J |-> IF j = i THEN s ELSE CL_GetConfigString(j)]
           strings == Modified(i, s)
<1>1. J \subseteq Index /\ FirstOf(i) \in Nat /\ MaxConfigStrings \in Nat
  BY GameConstants DEF Index
<1>2. \A j \in J : all[j] \in Text
  BY <1>1, ConfigStrings
<1>3. strings = [j \in {k \in J : all[k] # <<>>} |-> all[j]]
  BY DEF Modified
<1> HIDE DEF all, strings
<1>4. /\ DOMAIN strings = {k \in J : all[k] # <<>>}
      /\ \A j \in DOMAIN strings : strings[j] \in Seq(Characters) /\ strings[j] = all[j]
  BY <1>2, <1>3 DEF Text
<1>5. /\ block \in Blocks
      /\ \A n \in 0 .. MaxConfigStrings - 1 :
           IF FirstOf(i) + n \in DOMAIN strings
           THEN StringAt(block, block.stringOffsets[n]) = strings[FirstOf(i) + n]
           ELSE block.stringOffsets[n] = EmptyGameState.stringOffsets[n]
  <2> DEFINE gs == EmptyGameState
             first == FirstOf(i)
  <2>1. block = Filled(gs, strings, first) /\ first \in Nat
    BY <1>1 DEF strings
  <2>2. gs \in Growing /\ gs.stringOffsets \in [0 .. MaxConfigStrings - 1 -> 0 .. Capacity - 1]
    BY EmptyBlock
  <2> HIDE DEF gs, first
  <2>3. /\ block \in Blocks
        /\ \A n \in 0 .. MaxConfigStrings - 1 :
             IF first + n \in DOMAIN strings
             THEN StringAt(block, block.stringOffsets[n]) = strings[first + n]
             ELSE block.stringOffsets[n] = gs.stringOffsets[n]
    BY <1>4, <2>1, <2>2, FilledBlock
  <2> QED BY <2>3 DEF gs, first
<1>6. ASSUME NEW j \in Index, FirstOf(j) = FirstOf(i)
      PROVE  StringAt(block, block.stringOffsets[Place(j)]) = IF j = i THEN s ELSE CL_GetConfigString(j)
  <2>1. Place(j) \in 0 .. MaxConfigStrings - 1 /\ FirstOf(i) + Place(j) = j /\ j \in J
    BY <1>1, <1>6, GameConstants
  <2>2. all[j] = IF j = i THEN s ELSE CL_GetConfigString(j)
    BY <2>1 DEF all
  <2>3. CASE j \in DOMAIN strings
    <3>1. FirstOf(i) + Place(j) \in DOMAIN strings
      BY <2>1, <2>3
    <3>2. StringAt(block, block.stringOffsets[Place(j)]) = strings[FirstOf(i) + Place(j)]
      BY <1>5, <2>1, <3>1
    <3> QED BY <1>4, <2>1, <2>2, <2>3, <3>2
  <2>4. CASE j \notin DOMAIN strings
    <3>1. all[j] = <<>>
      BY <1>4, <2>1, <2>4
    <3>2. FirstOf(i) + Place(j) \notin DOMAIN strings
      BY <2>1, <2>4
    <3>3. block.stringOffsets[Place(j)] = 0
      BY <1>5, <2>1, <3>2, EmptyBlock
    <3> QED BY <1>5, <2>2, <3>1, <3>3, NoOffset
  <2> QED BY <2>3, <2>4
<1> QED BY <1>5, <1>6

\* What the client is after a change of string i, the variables aside.
LEMMA StringChanged ==
    ASSUME GameTypes, mode # "over", NEW i \in Index, NEW s \in Text, CL_ConfigstringModified(i, s)
    PROVE  /\ mode' \in {mode, "over"}
           /\ client' = [client EXCEPT !.executed = client.executed + 1, !.gameState = client'.gameState]
           /\ client'.gameState \in Blocks /\ extGameState' \in Blocks
           /\ stale' \subseteq stale /\ stale \ stale' \subseteq {i}
           /\ mode' # "over" =>
                \A j \in Index : CL_GetConfigString(j)' = IF j = i THEN s ELSE CL_GetConfigString(j)
<1> DEFINE block == Filled(EmptyGameState, Modified(i, s), FirstOf(i))
           executed == [client EXCEPT !.executed = @ + 1]
<1>1. client.gameState \in Blocks /\ extGameState \in Blocks /\ client \in Client
  BY DEF GameTypes, Client
<1>2. executed = [client EXCEPT !.executed = client.executed + 1, !.gameState = client.gameState]
      /\ executed.gameState = client.gameState
  BY <1>1 DEF Client
<1>3. CASE CL_GetConfigString(i) = s
  <2>1. client' = executed /\ UNCHANGED <<mode, extGameState, stale>>
    BY <1>3 DEF CL_ConfigstringModified
  <2> HIDE DEF executed
  <2>2. \A j \in Index : CL_GetConfigString(j)' = CL_GetConfigString(j)
    BY <1>2, <2>1 DEF CL_GetConfigString, Block
  <2> QED BY <1>1, <1>2, <1>3, <2>1, <2>2
<1>4. CASE CL_GetConfigString(i) # s /\ ~ HasRoom(block)
  <2>1. mode' = "over" /\ client' = executed /\ UNCHANGED <<extGameState, stale>>
    BY <1>4 DEF CL_ConfigstringModified
  <2> HIDE DEF executed
  <2> QED BY <1>1, <1>2, <2>1
<1>5. CASE CL_GetConfigString(i) # s /\ HasRoom(block)
  <2>1. /\ IF i < MaxConfigStrings
           THEN client' = [executed EXCEPT !.gameState = block] /\ extGameState' = extGameState
           ELSE client' = executed /\ extGameState' = block
        /\ stale' = stale \ {i} /\ mode' = mode
    BY <1>5 DEF CL_ConfigstringModified
  <2>2. /\ block \in Blocks
        /\ \A j \in Index : FirstOf(j) = FirstOf(i) =>
             StringAt(block, block.stringOffsets[Place(j)]) = IF j = i THEN s ELSE CL_GetConfigString(j)
    BY <1>5, RebuiltBlock
  <2> HIDE DEF block
  <2>3. [executed EXCEPT !.gameState = block]
            = [client EXCEPT !.executed = client.executed + 1, !.gameState = block]
        /\ [executed EXCEPT !.gameState = block].gameState = block
    BY <1>1 DEF Client
  <2> HIDE DEF executed
  <2>4. ASSUME NEW j \in Index PROVE CL_GetConfigString(j)' = IF j = i THEN s ELSE CL_GetConfigString(j)
    <3>1. CASE FirstOf(j) = FirstOf(i)
      <4>1. j < MaxConfigStrings <=> i < MaxConfigStrings
        BY <3>1, GameConstants DEF FirstOf
      <4>2. Block(j)' = block
        BY <1>2, <2>1, <2>3, <4>1 DEF Block
      <4> QED BY <2>2, <3>1, <4>2 DEF CL_GetConfigString
    <3>2. CASE FirstOf(j) # FirstOf(i)
      <4>1. ~ (j < MaxConfigStrings <=> i < MaxConfigStrings) /\ j # i
        BY <3>2, GameConstants DEF FirstOf
      <4>2. Block(j)' = Block(j)
        BY <1>2, <2>1, <2>3, <4>1 DEF Block
      <4> QED BY <4>1, <4>2 DEF CL_GetConfigString
    <3> QED BY <3>1, <3>2
  <2>5. client' = [client EXCEPT !.executed = client.executed + 1, !.gameState = client'.gameState]
        /\ client'.gameState \in Blocks /\ extGameState' \in Blocks
    BY <1>1, <1>2, <2>1, <2>2, <2>3
  <2> QED BY <2>1, <2>4, <2>5
<1> QED BY <1>3, <1>4, <1>5

-----------------------------------------------------------------------------
(* The variable that the system information sets *)

\* A variable has these fields.
Whole(v) ==
    v = [type |-> v.type, flags |-> v.flags, string |-> v.string, latched |-> v.latched,
         reset |-> v.reset, count |-> v.count, refs |-> v.refs]

InForce ==
    /\ cvar = [c \in Names |-> cvar[c]]
    /\ Whole(cvar[SystemVariable]) /\ cvar[SystemVariable].type \in {"none", "string"}

SystemInv ==
    /\ mode = "menu" \/ Text \subseteq Texts => AllGood
    /\ mode \in {"live", "replay"} => InForce
    /\ mode = "replay" => server.local = FALSE
    /\ SystemInfoInForce

LEMMA FieldChanged ==
    ASSUME NEW v, Whole(v), NEW x, NEW w
    PROVE  /\ w = [v EXCEPT !.string = x] => Whole(w) /\ w.type = v.type /\ w.string = x
           /\ w = [v EXCEPT !.latched = x] => Whole(w) /\ w.type = v.type /\ w.string = v.string
           /\ w = [v EXCEPT !.refs = x] => Whole(w) /\ w.type = v.type /\ w.string = v.string
  BY DEF Whole

LEMMA ReferenceChanged ==
    ASSUME NEW v, Whole(v), NEW t
    PROVE  /\ Whole(CopyString(v, t)) /\ CopyString(v, t).type = v.type /\ CopyString(v, t).string = v.string
           /\ Whole(FreeString(v, t)) /\ FreeString(v, t).type = v.type /\ FreeString(v, t).string = v.string
<1> DEFINE w1 == CopyString(v, t)
           w2 == FreeString(v, t)
<1>1. PICK x1, x2 : w1 = [v EXCEPT !.refs = x1] /\ w2 = [v EXCEPT !.refs = x2]
  BY DEF CopyString, FreeString
<1> HIDE DEF w1, w2
<1>2. Whole(w1) /\ w1.type = v.type /\ w1.string = v.string
  BY <1>1, FieldChanged
<1>3. Whole(w2) /\ w2.type = v.type /\ w2.string = v.string
  BY <1>1, FieldChanged
<1> QED BY <1>2, <1>3 DEF w1, w2

\* The program's own setting of a string variable takes effect at once, whatever is
\* latched or protected.
LEMMA VariantTaken ==
    ASSUME NEW v, Whole(v), v.type = "string", NEW x, NEW w, w = Dvar_SetVariant(v, x, FALSE)
    PROVE  Whole(w) /\ w.type = "string" /\ w.string = x
<1>1. w = IF x = v.string THEN Dvar_SetLatchedValue(v, v.string) ELSE Dvar_UpdateValue(v, x)
  BY DEF Dvar_SetVariant, SetInDomain, Dvar_ValueInDomain
<1>2. CASE x = v.string
  <2> DEFINE u == IF x \in {v.string, v.reset} THEN v ELSE CopyString(v, x)
             a == [u EXCEPT !.latched = x]
  <2>1. w = IF Dvar_ShouldFreeLatchedString(v) THEN FreeString(a, v.latched) ELSE a
    BY <1>1, <1>2 DEF Dvar_SetLatchedValue, Dvar_AssignLatchedString
  <2>2. Whole(u) /\ u.type = "string" /\ u.string = x
    BY <1>2
  <2> HIDE DEF u
  <2>3. Whole(a) /\ a.type = "string" /\ a.string = x
    BY <2>2, FieldChanged
  <2> HIDE DEF a
  <2>4. CASE w = a
    BY <2>3, <2>4
  <2>5. CASE w = FreeString(a, v.latched)
    <3> DEFINE t == v.latched
               f == FreeString(a, t)
    <3> HIDE DEF t
    <3>1. Whole(a)
      BY <2>3
    <3>2. Whole(f) /\ f.type = a.type /\ f.string = a.string
      BY <3>1, ReferenceChanged
    <3> QED BY <2>3, <2>5, <3>2 DEF t
  <2> QED BY <2>1, <2>4, <2>5
<1>3. CASE x # v.string
  <2> DEFINE u == IF x \in {v.latched, v.reset} THEN v ELSE CopyString(v, x)
             a == [u EXCEPT !.string = x]
             b == IF Dvar_ShouldFreeLatchedString(a) THEN FreeString(a, a.latched) ELSE a
             c == [b EXCEPT !.latched = a.string]
  <2>1. w = IF Dvar_ShouldFreeCurrentString(v) THEN FreeString(c, v.string) ELSE c
    BY <1>1, <1>3 DEF Dvar_UpdateValue, Dvar_AssignCurrentString, LatchCurrent
  <2>2. Whole(u) /\ u.type = "string"
    BY ReferenceChanged
  <2> HIDE DEF u
  <2>3. Whole(a) /\ a.type = "string" /\ a.string = x
    BY <2>2, FieldChanged
  <2> HIDE DEF a
  <2>4. Whole(b) /\ b.type = "string" /\ b.string = x
    BY <2>3, ReferenceChanged
  <2> HIDE DEF b
  <2>5. Whole(c) /\ c.type = "string" /\ c.string = x
    BY <2>4, FieldChanged
  <2> HIDE DEF c
  <2>6. CASE w = c
    BY <2>5, <2>6
  <2>7. CASE w = FreeString(c, v.string)
    <3> DEFINE t == v.string
               f == FreeString(c, t)
    <3> HIDE DEF t
    <3>1. Whole(c)
      BY <2>5
    <3>2. Whole(f) /\ f.type = c.type /\ f.string = c.string
      BY <3>1, ReferenceChanged
    <3> QED BY <2>5, <2>7, <3>2 DEF t
  <2> QED BY <2>1, <2>6, <2>7
<1> QED BY <1>2, <1>3

\* What setting one of the string variable's values leaves.
LEMMA VariantWhole ==
    ASSUME NEW v, Whole(v), v.type \in {"none", "string"}, NEW x
    PROVE  Whole(Dvar_SetVariant(v, x, FALSE)) /\ Dvar_SetVariant(v, x, FALSE).type = v.type
<1> DEFINE w == Dvar_SetVariant(v, x, FALSE)
<1>1. CASE v.type = "string"
  <2> HIDE DEF w
  <2>1. w = Dvar_SetVariant(v, x, FALSE)
    BY DEF w
  <2>2. Whole(w) /\ w.type = "string"
    BY <1>1, <2>1, VariantTaken
  <2> QED BY <1>1, <2>2 DEF w
<1>2. CASE v.type = "none"
  <2>1. \/ w = [v EXCEPT !.latched = v.string]
        \/ w = [v EXCEPT !.string = x, !.latched = x]
    BY <1>2 DEF Dvar_SetVariant, SetInDomain, Dvar_ValueInDomain, Dvar_SetLatchedValue, Dvar_UpdateValue
  <2> HIDE DEF w
  <2>2. w = [v EXCEPT !.latched = v.string] => Whole(w) /\ w.type = v.type
    BY DEF Whole
  <2>3. w = [v EXCEPT !.string = x, !.latched = x] => Whole(w) /\ w.type = v.type
    BY DEF Whole
  <2>4. Whole(w) /\ w.type = v.type
    BY <2>1, <2>2, <2>3
  <2> QED BY <2>4 DEF w
<1> QED BY <1>1, <1>2

\* What the variables are before the pairs are set: a string stays a string.
LEMMA CheatStateWhole ==
    ASSUME InForce, NEW vars \in {cvar, Cvar_SetCheatState}
    PROVE  /\ vars = [c \in Names |-> vars[c]]
           /\ Whole(vars[SystemVariable]) /\ vars[SystemVariable].type = cvar[SystemVariable].type
<1> DEFINE v == cvar[SystemVariable]
           w == Dvar_SetVariant(v, v.reset, FALSE)
           reset == Cvar_SetCheatState
<1>1. SystemVariable \in Names
  BY GameStateAssumption
<1>2. CASE vars = cvar
  BY <1>2 DEF InForce
<1>3. CASE vars = reset
  <2>1. reset = [c \in Names |-> reset[c]] /\ reset[SystemVariable] \in {v, w}
    BY <1>1 DEF Cvar_SetCheatState
  <2>2. Whole(v) /\ v.type \in {"none", "string"}
    BY DEF InForce
  <2>3. Whole(w) /\ w.type = v.type
    <3> DEFINE x == v.reset
    <3> HIDE DEF x, v
    <3> QED BY <2>2, VariantWhole DEF x
  <2> HIDE DEF reset, v, w
  <2>4. Whole(reset[SystemVariable]) /\ reset[SystemVariable].type = v.type
    BY <2>1, <2>2, <2>3
  <2> QED BY <1>3, <2>1, <2>4 DEF v
<1> QED BY <1>2, <1>3 DEF reset

LEMMA SystemInfoSet ==
    ASSUME InForce, NEW gs, NEW local, CL_SystemInfoChanged(gs, local)
    PROVE  /\ InForce'
           /\ SystemInfo(gs) # <<>> /\ ~ local => cvar'[SystemVariable].string = SystemInfo(gs)
           /\ SystemInfo(gs) # <<>> /\ ~ local /\ mode # "replay" =>
                cvar_cheats' = (SystemInfo(gs) \in Cheating) /\ sv_pure' = (SystemInfo(gs) \in Pure)
           /\ mode = "replay" => cvar_cheats' /\ ~ sv_pure'
<1> DEFINE v == cvar[SystemVariable]
           t == SystemInfo(gs)
           sets == t # <<>> /\ ~ local
<1>1. SystemVariable \in Names
  BY GameStateAssumption
<1>2. PICK vars \in {cvar, Cvar_SetCheatState} : cvar' \in IF sets THEN Cvar_Set(vars, t) ELSE {vars}
  <2>1. \E vars \in {cvar} \cup IF mode # "replay" /\ ~ local /\ t \notin Cheating
                                 THEN {Cvar_SetCheatState} ELSE {} :
           cvar' \in IF sets THEN Cvar_Set(vars, t) ELSE {vars}
    BY DEF CL_SystemInfoChanged
  <2> HIDE DEF sets, t
  <2> QED BY <2>1
<1>3. /\ vars = [c \in Names |-> vars[c]]
      /\ Whole(vars[SystemVariable]) /\ vars[SystemVariable].type = v.type
  BY CheatStateWhole
<1>4. v.type \in {"none", "string"}
  BY DEF InForce
<1>5. ASSUME sets, v.type = "string"
      PROVE  InForce' /\ cvar'[SystemVariable].string = t
  <2> DEFINE u == vars[SystemVariable]
             w == Dvar_SetVariant(u, t, FALSE)
  <2>1. cvar' = [vars EXCEPT ![SystemVariable] = w]
    BY <1>2, <1>3, <1>5 DEF Cvar_Set, Meanings
  <2>2. Whole(u) /\ u.type = "string"
    BY <1>3, <1>5
  <2> HIDE DEF u, t, v
  <2>3. Whole(w) /\ w.type = "string" /\ w.string = t
    BY <2>2, VariantTaken
  <2> HIDE DEF w
  <2>4. cvar' = [c \in Names |-> cvar'[c]] /\ cvar'[SystemVariable] = w
    BY <1>1, <1>3, <2>1
  <2> QED BY <2>3, <2>4 DEF InForce
<1>6. ASSUME sets, v.type = "none"
      PROVE  InForce' /\ cvar'[SystemVariable].string = t
  <2> DEFINE w == Cvar_RegisterNew("string", {"user"}, t, 0)
  <2>1. cvar' = [vars EXCEPT ![SystemVariable] = w]
    BY <1>2, <1>3, <1>6 DEF Cvar_Set, Meanings
  <2>2. Whole(w) /\ w.type = "string" /\ w.string = t
    BY DEF Cvar_RegisterNew, Whole
  <2> HIDE DEF w, t, v
  <2>3. cvar' = [c \in Names |-> cvar'[c]] /\ cvar'[SystemVariable] = w
    BY <1>1, <1>3, <2>1
  <2> QED BY <2>2, <2>3 DEF InForce
<1>7. ASSUME ~ sets PROVE InForce'
  <2>1. cvar' = vars
    BY <1>2, <1>7
  <2> QED BY <1>3, <1>4, <2>1 DEF InForce
<1>8. /\ cvar_cheats' = (mode = "replay" \/ IF sets THEN t \in Cheating ELSE cvar_cheats)
      /\ sv_pure' = (mode # "replay" /\ IF sets THEN t \in Pure ELSE sv_pure)
  BY DEF CL_SystemInfoChanged
<1>9. InForce' /\ (sets => cvar'[SystemVariable].string = t)
  BY <1>4, <1>5, <1>6, <1>7
<1> HIDE DEF t
<1>10. sets /\ mode # "replay" => cvar_cheats' = (t \in Cheating) /\ sv_pure' = (t \in Pure)
  BY <1>8
<1>11. mode = "replay" => cvar_cheats' /\ ~ sv_pure'
  BY <1>8
<1> QED BY <1>9, <1>10, <1>11 DEF t

\* What is in force stays so where neither the variables nor the system information change.
LEMMA InForceKept ==
    ASSUME InForce, SystemInfoInForce, UNCHANGED infoVars, mode' \in {mode, "over"},
           server'.local = server.local, client'.map = client.map,
           CL_GetConfigString(CS_SYSTEMINFO)' = CL_GetConfigString(CS_SYSTEMINFO)
    PROVE  InForce' /\ SystemInfoInForce'
<1>1. cvar' = cvar /\ cvar_cheats' = cvar_cheats /\ sv_pure' = sv_pure
  BY DEF infoVars, cvarVars
<1>2. InForce'
  BY <1>1 DEF InForce
<1>3. SystemInfoInForce'
  BY <1>1 DEF SystemInfoInForce
<1> QED BY <1>2, <1>3

\* A change of a string leaves what the system information says in force.
LEMMA ChangeInForce ==
    ASSUME GameTypes, mode \in {"live", "replay"}, InForce, SystemInfoInForce,
           mode = "replay" => server.local = FALSE, server' = server,
           NEW i \in Index, NEW s \in Text, CL_ConfigstringModified(i, s)
    PROVE  mode' # "over" => InForce' /\ SystemInfoInForce'
<1> DEFINE block == Filled(EmptyGameState, Modified(i, s), FirstOf(i))
           one == CS_SYSTEMINFO
<1>1. mode' # "over" =>
        \A j \in Index : CL_GetConfigString(j)' = IF j = i THEN s ELSE CL_GetConfigString(j)
  BY StringChanged
<1>2. one \in Index /\ one < MaxConfigStrings /\ Place(one) = one
  BY GameConstants
<1>0. mode' \in {mode, "over"} /\ client'.map = client.map
  <2> DEFINE gs == client'.gameState
  <2>1. client' = [client EXCEPT !.executed = client.executed + 1, !.gameState = gs]
    BY StringChanged
  <2> HIDE DEF gs
  <2>2. client'.map = client.map
    BY <2>1 DEF GameTypes, Client
  <2> QED BY <2>2, StringChanged
<1>3. CASE mode' # "over" /\ UNCHANGED infoVars /\ CL_GetConfigString(one)' = CL_GetConfigString(one)
  BY <1>0, <1>3, InForceKept
<1>4. CASE CL_GetConfigString(i) = s /\ mode' # "over"
  <2>1. UNCHANGED infoVars
    BY <1>4 DEF CL_ConfigstringModified
  <2> QED BY <1>1, <1>2, <1>3, <1>4, <2>1
<1>5. CASE CL_GetConfigString(i) # s /\ HasRoom(block) /\ i # one
  <2>1. UNCHANGED infoVars
    BY <1>5 DEF CL_ConfigstringModified
  <2> QED BY <1>1, <1>2, <1>3, <1>5, <2>1
<1>6. CASE CL_GetConfigString(i) # s /\ HasRoom(block) /\ i = one
  <2>1. CL_SystemInfoChanged(block, server.local)
    BY <1>6 DEF CL_ConfigstringModified
  <2>2. client' = [[client EXCEPT !.executed = @ + 1] EXCEPT !.gameState = block]
    BY <1>2, <1>6 DEF CL_ConfigstringModified
  <2>3. client'.gameState = block
    BY <2>2 DEF GameTypes, Client
  <2>6. mode' = mode
    BY <1>6 DEF CL_ConfigstringModified
  <2> HIDE DEF block
  <2>4. CL_GetConfigString(one)' = SystemInfo(block)
    BY <1>2, <2>3 DEF CL_GetConfigString, Block, SystemInfo
  <2> DEFINE info == SystemInfo(block)
  <2>5. /\ InForce'
        /\ info # <<>> /\ ~ server.local => cvar'[SystemVariable].string = info
        /\ info # <<>> /\ ~ server.local /\ mode # "replay" =>
             cvar_cheats' = (info \in Cheating) /\ sv_pure' = (info \in Pure)
        /\ mode = "replay" => cvar_cheats' /\ ~ sv_pure'
    BY <2>1, SystemInfoSet
  <2> HIDE DEF info
  <2> QED BY <2>4, <2>5, <2>6 DEF SystemInfoInForce, info
<1>7. CASE CL_GetConfigString(i) # s /\ ~ HasRoom(block)
  BY <1>7 DEF CL_ConfigstringModified
<1> QED BY <1>4, <1>5, <1>6, <1>7

-----------------------------------------------------------------------------
(* Game states *)

LEMMA DefaultTexts ==
    ASSUME NEW sent \in Strings
    PROVE  /\ DOMAIN WithDefaults(sent) = DOMAIN sent \cup DOMAIN Defaults
           /\ DOMAIN WithDefaults(sent) \subseteq Index
           /\ \A i \in DOMAIN WithDefaults(sent) :
                /\ WithDefaults(sent)[i] \in Text
                /\ WithDefaults(sent)[i] = IF i \in DOMAIN sent THEN sent[i] ELSE Defaults[i]
<1>1. PICK D \in SUBSET Index : sent \in [D -> Text]
  BY DEF Strings
<1>2. DOMAIN Defaults \subseteq Index /\ \A d \in DOMAIN Defaults : Defaults[d] \in Text
  BY GameStateAssumption DEF Text
<1> QED BY <1>1, <1>2 DEF WithDefaults

\* The second block keeps the offsets of the strings that are not sent.
LEMMA SecondBlock ==
    ASSUME NEW e \in Blocks, NEW strings, \A i \in DOMAIN strings : strings[i] \in Seq(Characters),
           NEW ext, ext = Filled([e EXCEPT !.dataCount = 1], strings, MaxConfigStrings), HasRoom(ext)
    PROVE  /\ ext \in Blocks
           /\ \A n \in 0 .. MaxConfigStrings - 1 :
                IF MaxConfigStrings + n \in DOMAIN strings
                THEN /\ ext.stringOffsets[n] # 0
                     /\ StringAt(ext, ext.stringOffsets[n]) = strings[MaxConfigStrings + n]
                ELSE ext.stringOffsets[n] = e.stringOffsets[n]
<1> DEFINE old == [e EXCEPT !.dataCount = 1]
           M == MaxConfigStrings
<1>1. e.stringOffsets \in [0 .. MaxConfigStrings - 1 -> Nat]
  BY GameConstants DEF Blocks
<1>2. old \in Growing
  BY <1>1 DEF Blocks, Growing
<1>3. /\ old.stringOffsets = e.stringOffsets
      /\ e.stringOffsets \in [0 .. MaxConfigStrings - 1 -> 0 .. Capacity - 1]
  BY DEF Blocks
<1>4. ext = Filled(old, strings, M) /\ M \in Nat
  BY GameConstants
<1> HIDE DEF old, M
<1>5. /\ ext \in Blocks
      /\ \A n \in 0 .. M - 1 :
           IF M + n \in DOMAIN strings
           THEN ext.stringOffsets[n] # 0 /\ StringAt(ext, ext.stringOffsets[n]) = strings[M + n]
           ELSE ext.stringOffsets[n] = old.stringOffsets[n]
  <2>1. HasRoom(ext) /\ \A i \in DOMAIN strings : strings[i] \in Seq(Characters)
    OBVIOUS
  <2>2. old.stringOffsets \in [0 .. MaxConfigStrings - 1 -> 0 .. Capacity - 1]
    BY <1>3
  <2>3. /\ ext \in Blocks
        /\ \A n \in 0 .. MaxConfigStrings - 1 :
             IF M + n \in DOMAIN strings
             THEN /\ ext.stringOffsets[n] # 0
                  /\ StringAt(ext, ext.stringOffsets[n]) = strings[M + n]
             ELSE ext.stringOffsets[n] = old.stringOffsets[n]
    BY ONLY <1>2, <1>4, <2>1, <2>2, FilledBlock
  <2> QED BY <2>3 DEF M
<1> QED BY <1>3, <1>5 DEF M

\* The two blocks that a game state brings.
LEMMA ParsedBlocks ==
    ASSUME GameTypes, NEW sent \in Strings,
           NEW strings, strings = WithDefaults(sent),
           NEW block, block = Filled(EmptyGameState, strings, 0), HasRoom(block),
           NEW ext, ext = Filled([extGameState EXCEPT !.dataCount = 1], strings, MaxConfigStrings), HasRoom(ext)
    PROVE  /\ block \in Blocks /\ ext \in Blocks
           /\ \A i \in Index : i < MaxConfigStrings =>
                StringAt(block, block.stringOffsets[Place(i)]) = IF i \in DOMAIN strings THEN strings[i] ELSE <<>>
           /\ \A i \in Index : ~ (i < MaxConfigStrings) =>
                IF i \in DOMAIN strings THEN StringAt(ext, ext.stringOffsets[Place(i)]) = strings[i]
                ELSE ext.stringOffsets[Place(i)] = extGameState.stringOffsets[Place(i)]
           /\ \A i \in DOMAIN strings :
                IF i < MaxConfigStrings THEN block.stringOffsets[Place(i)] # 0
                ELSE ext.stringOffsets[Place(i)] # 0
<1> DEFINE empty == EmptyGameState
           M == MaxConfigStrings
<1>1. \A i \in DOMAIN strings : strings[i] \in Seq(Characters)
  BY DefaultTexts DEF Text
<1>3. /\ empty \in Growing
      /\ empty.stringOffsets \in [0 .. MaxConfigStrings - 1 -> 0 .. Capacity - 1]
      /\ \A n \in 0 .. M - 1 : empty.stringOffsets[n] = 0
  BY EmptyBlock
<1>4. block = Filled(empty, strings, 0) /\ 0 \in Nat /\ M \in Nat
  BY GameConstants
<1> HIDE DEF empty, M
<1>5. /\ block \in Blocks
      /\ \A n \in 0 .. MaxConfigStrings - 1 :
           IF 0 + n \in DOMAIN strings
           THEN block.stringOffsets[n] # 0 /\ StringAt(block, block.stringOffsets[n]) = strings[0 + n]
           ELSE block.stringOffsets[n] = empty.stringOffsets[n]
  BY <1>1, <1>3, <1>4, FilledBlock
<1>6. /\ ext \in Blocks
      /\ \A n \in 0 .. MaxConfigStrings - 1 :
           IF MaxConfigStrings + n \in DOMAIN strings
           THEN ext.stringOffsets[n] # 0 /\ StringAt(ext, ext.stringOffsets[n]) = strings[MaxConfigStrings + n]
           ELSE ext.stringOffsets[n] = extGameState.stringOffsets[n]
  <2> DEFINE e == extGameState
  <2>1. e \in Blocks /\ ext = Filled([e EXCEPT !.dataCount = 1], strings, MaxConfigStrings) /\ HasRoom(ext)
    BY DEF GameTypes
  <2> HIDE DEF e
  <2>2. ext \in Blocks
    BY <1>1, <2>1, SecondBlock
  <2>3. \A n \in 0 .. MaxConfigStrings - 1 :
           IF MaxConfigStrings + n \in DOMAIN strings
           THEN ext.stringOffsets[n] # 0 /\ StringAt(ext, ext.stringOffsets[n]) = strings[MaxConfigStrings + n]
           ELSE ext.stringOffsets[n] = e.stringOffsets[n]
    BY <1>1, <2>1, SecondBlock
  <2> QED BY <2>2, <2>3 DEF e
<1>7. ASSUME NEW i \in Index, i < MaxConfigStrings
      PROVE  StringAt(block, block.stringOffsets[Place(i)]) = IF i \in DOMAIN strings THEN strings[i] ELSE <<>>
  <2>1. Place(i) \in 0 .. MaxConfigStrings - 1 /\ 0 + Place(i) = i
    BY <1>7, GameConstants
  <2>2. CASE i \in DOMAIN strings
    BY <1>5, <2>1, <2>2
  <2>3. CASE i \notin DOMAIN strings
    <3>1. block.stringOffsets[Place(i)] = 0
      BY <1>3, <1>5, <2>1, <2>3 DEF M
    <3> QED BY <1>5, <2>3, <3>1, NoOffset
  <2> QED BY <2>2, <2>3
<1>8. ASSUME NEW i \in Index, ~ (i < MaxConfigStrings)
      PROVE  IF i \in DOMAIN strings THEN StringAt(ext, ext.stringOffsets[Place(i)]) = strings[i]
             ELSE ext.stringOffsets[Place(i)] = extGameState.stringOffsets[Place(i)]
  <2>1. Place(i) \in 0 .. MaxConfigStrings - 1 /\ MaxConfigStrings + Place(i) = i
    BY <1>8, GameConstants
  <2> QED BY <1>6, <2>1
<1>9. ASSUME NEW i \in DOMAIN strings
      PROVE  IF i < MaxConfigStrings THEN block.stringOffsets[Place(i)] # 0
             ELSE ext.stringOffsets[Place(i)] # 0
  <2>1. i \in Index
    BY DefaultTexts
  <2>2. Place(i) \in 0 .. MaxConfigStrings - 1
    BY <2>1, GameConstants
  <2>3. CASE i < MaxConfigStrings
    <3>1. 0 + Place(i) = i
      BY <2>1, <2>3, GameConstants
    <3> QED BY <1>5, <2>2, <2>3, <3>1
  <2>4. CASE ~ (i < MaxConfigStrings)
    <3>1. MaxConfigStrings + Place(i) = i
      BY <2>1, <2>4, GameConstants
    <3> QED BY <1>6, <2>2, <2>4, <3>1
  <2> QED BY <2>3, <2>4
<1> QED BY <1>5, <1>6, <1>7, <1>8, <1>9

\* What the client is after a game state.
LEMMA GameStateParsed ==
    ASSUME GameTypes, NEW map \in DOMAIN Maps \cup {0}, NEW sequence \in Nat, NEW sent \in Strings,
           mode \in {"menu", "live", "replay"}, legacy' \in BOOLEAN,
           NEW local, CL_ParseGamestate(map, sequence, sent, local),
           server'.local = local, mode = "replay" => local = FALSE
    PROVE  /\ mode' \in {"live", "replay", "over"}
           /\ client' \in Client /\ extGameState' \in Blocks /\ stale' \subseteq Index
           /\ mode' # "over" =>
                /\ mode' = IF mode = "menu" THEN "live" ELSE mode
                /\ client' = [client EXCEPT !.map = map, !.gameState = client'.gameState,
                                !.serverCommandSequence = sequence, !.serverCommandNum = client.executed]
                /\ \A i \in Index \ stale' : (legacy' => i < MaxConfigStrings) =>
                     CL_GetConfigString(i)' =
                        IF i \in DOMAIN WithDefaults(sent) THEN WithDefaults(sent)[i] ELSE <<>>
                /\ \A i \in DOMAIN WithDefaults(sent) : (legacy' => i < MaxConfigStrings) =>
                     Block(i)'.stringOffsets[Place(i)] # 0
                /\ stale' \subseteq {i \in Index : ~ (i < MaxConfigStrings)}
                /\ legacy' => extGameState' = extGameState
                /\ InForce => InForce' /\ SystemInfoInForce'
<1> DEFINE strings == WithDefaults(sent)
           block == Filled(EmptyGameState, strings, 0)
           ext == Filled([extGameState EXCEPT !.dataCount = 1], strings, MaxConfigStrings)
           one == CS_SYSTEMINFO
<1>0. client \in Client /\ extGameState \in Blocks /\ stale \subseteq Index
  BY DEF GameTypes
<1>1. CASE DOMAIN sent = {}
  <2>1. mode' = "over" /\ UNCHANGED <<client, extGameState, stale>>
    BY <1>1 DEF CL_ParseGamestate
  <2> QED BY <1>0, <2>1
<1>2. CASE DOMAIN sent # {}
  <2>1. /\ HasRoom(block) /\ HasRoom(ext)
        /\ client' = [client EXCEPT !.map = map, !.gameState = block,
                        !.serverCommandSequence = sequence, !.serverCommandNum = client.executed]
        /\ CL_SystemInfoChanged(block, local)
        /\ extGameState' = IF legacy' THEN extGameState ELSE ext
        /\ stale' = Outliving(strings)
        /\ mode' = IF mode = "menu" THEN "live" ELSE mode
    BY <1>2 DEF CL_ParseGamestate
  <2>2. /\ block \in Blocks /\ ext \in Blocks
        /\ \A i \in Index : i < MaxConfigStrings =>
             StringAt(block, block.stringOffsets[Place(i)]) = IF i \in DOMAIN strings THEN strings[i] ELSE <<>>
        /\ \A i \in Index : ~ (i < MaxConfigStrings) =>
             IF i \in DOMAIN strings THEN StringAt(ext, ext.stringOffsets[Place(i)]) = strings[i]
             ELSE ext.stringOffsets[Place(i)] = extGameState.stringOffsets[Place(i)]
        /\ \A i \in DOMAIN strings :
             IF i < MaxConfigStrings THEN block.stringOffsets[Place(i)] # 0
             ELSE ext.stringOffsets[Place(i)] # 0
    BY <2>1, ParsedBlocks
  <2> HIDE DEF block, ext, strings
  <2>3. client'.gameState = block /\ client' \in Client
    BY <1>0, <2>1, <2>2 DEF Client
  <2>4. extGameState' \in Blocks /\ stale' \subseteq Index
    BY <1>0, <2>1, <2>2, GameConstants DEF Outliving, Index
  <2>5. ASSUME NEW i \in Index \ stale', legacy' => i < MaxConfigStrings
        PROVE  CL_GetConfigString(i)' = IF i \in DOMAIN strings THEN strings[i] ELSE <<>>
    <3>1. CASE i < MaxConfigStrings
      BY <2>2, <2>3, <3>1 DEF CL_GetConfigString, Block
    <3>2. CASE ~ (i < MaxConfigStrings)
      <4>1. ~ legacy' /\ extGameState' = ext
        BY <2>1, <2>5, <3>2
      <4>2. CL_GetConfigString(i)' = StringAt(ext, ext.stringOffsets[Place(i)])
        BY <3>2, <4>1 DEF CL_GetConfigString, Block
      <4>3. CASE i \in DOMAIN strings
        BY <2>2, <3>2, <4>2, <4>3
      <4>4. CASE i \notin DOMAIN strings
        <5>1. i \in MaxConfigStrings .. 2 * MaxConfigStrings - 1
          BY <3>2, GameConstants DEF Index
        <5>2. extGameState.stringOffsets[Place(i)] = 0
          BY <2>1, <2>5, <4>4, <5>1 DEF Outliving
        <5>3. ext.stringOffsets[Place(i)] = 0
          BY <2>2, <3>2, <4>4, <5>2
        <5> QED BY <2>2, <4>2, <4>4, <5>3, NoOffset
      <4> QED BY <4>3, <4>4
    <3> QED BY <3>1, <3>2
  <2>6. ASSUME InForce PROVE InForce' /\ SystemInfoInForce'
    <3>1. one \in Index /\ one < MaxConfigStrings /\ Place(one) = one
      BY GameConstants
    <3>2. CL_GetConfigString(one)' = SystemInfo(block)
      BY <2>3, <3>1 DEF CL_GetConfigString, Block, SystemInfo
    <3> DEFINE info == SystemInfo(block)
    <3>3. /\ InForce'
          /\ info # <<>> /\ ~ local => cvar'[SystemVariable].string = info
          /\ info # <<>> /\ ~ local /\ mode # "replay" =>
               cvar_cheats' = (info \in Cheating) /\ sv_pure' = (info \in Pure)
          /\ mode = "replay" => cvar_cheats' /\ ~ sv_pure'
      BY <2>1, <2>6, SystemInfoSet
    <3>4. mode' = "live" => mode # "replay"
      BY <2>1
    <3>5. mode' = "replay" => mode = "replay" /\ ~ local
      BY <2>1
    <3> HIDE DEF info
    <3> QED BY <3>2, <3>3, <3>4, <3>5 DEF SystemInfoInForce, info
  <2>7. client' = [client EXCEPT !.map = map, !.gameState = client'.gameState,
                     !.serverCommandSequence = sequence, !.serverCommandNum = client.executed]
    BY <2>1, <2>3
  <2>8. ASSUME NEW i \in DOMAIN strings, legacy' => i < MaxConfigStrings
        PROVE  Block(i)'.stringOffsets[Place(i)] # 0
    BY <2>1, <2>2, <2>3, <2>8 DEF Block
  <2>9. stale' \subseteq {i \in Index : ~ (i < MaxConfigStrings)}
    BY <2>1, GameConstants DEF Outliving, Index
  <2> QED BY <2>1, <2>3, <2>4, <2>5, <2>6, <2>7, <2>8, <2>9 DEF strings
<1> QED BY <1>1, <1>2

-----------------------------------------------------------------------------
(* The server's commands *)

LEMMA MaxIs ==
    ASSUME NEW S \in SUBSET Nat, NEW x \in S, \A y \in S : x >= y
    PROVE  Max(S) = x
<1> DEFINE m == Max(S)
<1>1. m \in S /\ m >= x
  BY DEF Max
<1> HIDE DEF m
<1>2. m \in Nat /\ x \in Nat /\ x >= m
  BY <1>1
<1> QED BY <1>1, <1>2 DEF m

LEMMA MaxExists ==
    ASSUME NEW S \in SUBSET Nat, S # {}, NEW b \in Nat, \A y \in S : y <= b
    PROVE  Max(S) \in S /\ \A y \in S : Max(S) >= y
<1> DEFINE Below == {b - y : y \in S}
<1>1. Below \in SUBSET Nat /\ Below # {}
  <2>1. \A y \in S : b - y \in Nat
    OBVIOUS
  <2> QED BY <2>1
<1>2. PICK z \in Below : \A w \in Below : z <= w
  <2> HIDE DEF Below
  <2> QED BY <1>1, LeastNumber
<1>3. PICK x \in S : z = b - x
  BY <1>2
<1>4. \A y \in S : x >= y
  <2> SUFFICES ASSUME NEW y \in S PROVE x >= y
    OBVIOUS
  <2>1. z <= b - y
    BY <1>2
  <2> QED BY <1>3, <2>1
<1> QED BY <1>4, MaxIs

\* The commands that have set string i.
SetBy(i, n) ==
    {k \in server.sequence + 1 .. n : svCommands[k].index = i /\ svCommands[k].cmd \in {"d", "z"}}

\* One command more.
LEMMA ServerStringNext ==
    ASSUME GameTypes, NEW i \in Index, NEW n \in Nat, server.sequence <= n
    PROVE  ServerString(i, n + 1) =
             IF svCommands[n + 1].index = i /\ svCommands[n + 1].cmd \in {"d", "z"}
             THEN svCommands[n + 1].value ELSE ServerString(i, n)
<1> DEFINE s == server.sequence
           sets == svCommands[n + 1].index = i /\ svCommands[n + 1].cmd \in {"d", "z"}
<1>1. s \in Nat
  BY DEF GameTypes
<1>2. SetBy(i, n + 1) = SetBy(i, n) \cup (IF sets THEN {n + 1} ELSE {})
  <2>1. s + 1 .. n + 1 = (s + 1 .. n) \cup {n + 1}
    BY <1>1
  <2> QED BY <2>1 DEF SetBy
<1>3. SetBy(i, n + 1) \in SUBSET Nat /\ \A k \in SetBy(i, n + 1) : n + 1 >= k
  BY <1>1 DEF SetBy
<1> HIDE DEF sets
<1>4. CASE sets
  <2>1. Max(SetBy(i, n + 1)) = n + 1 /\ SetBy(i, n + 1) # {}
    BY <1>2, <1>3, <1>4, MaxIs
  <2> QED BY <1>4, <2>1 DEF ServerString, SetBy, sets
<1>5. CASE ~ sets
  <2>1. SetBy(i, n + 1) = SetBy(i, n)
    BY <1>2, <1>5
  <2>2. ServerString(i, n + 1) = ServerString(i, n)
    BY <2>1 DEF ServerString, SetBy
  <2> QED BY <1>5, <2>2 DEF sets
<1> QED BY <1>4, <1>5

\* After a game state nothing was set.
LEMMA ServerStringFirst ==
    ASSUME NEW i, server.sequence \in Nat
    PROVE  ServerString(i, server.sequence) = Maps[server.map][i]
<1>1. server.sequence + 1 .. server.sequence = {}
  OBVIOUS
<1> QED BY <1>1 DEF ServerString

\* Commands that come later change nothing.
LEMMA ServerStringKept ==
    ASSUME GameTypes, NEW i, NEW n \in Nat, n <= Len(svCommands),
           server'.map = server.map, server'.sequence = server.sequence,
           \A k \in 1 .. Len(svCommands) : svCommands'[k] = svCommands[k]
    PROVE  ServerString(i, n)' = ServerString(i, n)
<1> DEFINE set == {k \in server.sequence + 1 .. n :
                     svCommands[k].index = i /\ svCommands[k].cmd \in {"d", "z"}}
<1>1. server.sequence \in Nat /\ Len(svCommands) \in Nat
  BY DEF GameTypes
<1>2. \A k \in server.sequence + 1 .. n : svCommands'[k] = svCommands[k]
  BY <1>1
<1>3. set' = set
  BY <1>2
<1>4. set # {} => Max(set) \in set
  <2>1. set \in SUBSET Nat /\ \A k \in set : k <= n
    BY <1>1
  <2> HIDE DEF set
  <2> QED BY <2>1, MaxExists
<1>5. set # {} => svCommands'[Max(set)] = svCommands[Max(set)]
  BY <1>2, <1>4
<1> QED BY <1>3, <1>5 DEF ServerString

-----------------------------------------------------------------------------
(* Messages *)

\* Two numbers less than n apart have different slots in a buffer of n.
LEMMA ModDistinct ==
    ASSUME NEW n \in Nat \ {0}, NEW a \in Nat, NEW b \in Nat, a < b, b < a + n
    PROVE  a % n # b % n
<1> DEFINE qa == a \div n
           qb == b \div n
<1>1. a = n * qa + (a % n) /\ b = n * qb + (b % n)
  OBVIOUS
<1>2. qa \in Int /\ qb \in Int
  OBVIOUS
<1>3. SUFFICES ASSUME a % n = b % n PROVE FALSE
  OBVIOUS
<1>4. b - a = n * (qb - qa)
  <2>1. b - a = n * qb - n * qa
    BY <1>1, <1>3
  <2>2. n * qb - n * qa = n * (qb - qa)
    BY <1>2
  <2> QED BY <2>1, <2>2
<1> HIDE DEF qa, qb
<1>5. CASE qb - qa <= 0
  <2>1. n * (qb - qa) <= 0
    BY <1>2, <1>5
  <2> QED BY <1>4, <2>1
<1>6. CASE qb - qa >= 1
  <2>1. n * (qb - qa) >= n
    BY <1>2, <1>6
  <2> QED BY <1>4, <2>1
<1> QED BY <1>2, <1>5, <1>6

\* The commands first .. last that were not received before, and those of them in a slot.
New(first, last) == {n \in first .. last : n > client.serverCommandSequence}
Here(first, last, slot) == {n \in New(first, last) : n % Slots = slot}
Received(first, last) == Max(New(first, last) \cup {client.serverCommandSequence})

\* What a message does to the slots.
LEMMA MessageParsed ==
    ASSUME GameTypes, NEW first \in Nat \ {0}, NEW last \in Nat, last <= Len(svCommands),
           CL_ParseServerMessage(first, last)
    PROVE  /\ client' \in Client
           /\ client' = [client EXCEPT !.serverCommands = client'.serverCommands,
                            !.serverCommandSequence = Received(first, last),
                            !.serverCommandNum = Received(first, last)]
           /\ \A slot \in 0 .. Slots - 1 :
                client'.serverCommands[slot] =
                    IF Here(first, last, slot) = {} THEN client.serverCommands[slot]
                    ELSE svCommands[Max(Here(first, last, slot))]
<1> DEFINE old == client.serverCommands
           slots == [slot \in 0 .. Slots - 1 |->
                        IF Here(first, last, slot) = {} THEN old[slot]
                        ELSE svCommands[Max(Here(first, last, slot))]]
           received == Received(first, last)
<1>1. client \in Client /\ old \in [0 .. Slots - 1 -> ServerCommand \cup {NoCommand}]
      /\ client.serverCommandSequence \in Nat /\ svCommands \in Seq(ServerCommand)
  BY DEF GameTypes, Client
<1>2. received \in Nat
  <2> DEFINE S == New(first, last) \cup {client.serverCommandSequence}
             b == last + client.serverCommandSequence
  <2>1. S \in SUBSET Nat /\ S # {} /\ b \in Nat /\ \A y \in S : y <= b
    BY <1>1 DEF New
  <2>2. received = Max(S)
    BY DEF Received
  <2> HIDE DEF S, b
  <2> QED BY <2>1, <2>2, MaxExists
<1>3. ASSUME NEW slot \in 0 .. Slots - 1, Here(first, last, slot) # {}
      PROVE  svCommands[Max(Here(first, last, slot))] \in ServerCommand
  <2> DEFINE S == Here(first, last, slot)
  <2>1. S \in SUBSET Nat /\ S # {} /\ (\A y \in S : y <= last) /\ S \subseteq 1 .. Len(svCommands)
    BY <1>1, <1>3 DEF Here, New
  <2> HIDE DEF S
  <2>2. Max(S) \in 1 .. Len(svCommands)
    BY <2>1, MaxExists
  <2> QED BY <1>1, <2>2 DEF S
<1>4. slots \in [0 .. Slots - 1 -> ServerCommand \cup {NoCommand}]
  BY <1>1, <1>3
<1>5. client' = [client EXCEPT !.serverCommands = slots,
                    !.serverCommandSequence = received, !.serverCommandNum = received]
  <2>1. DOMAIN old = 0 .. Slots - 1
    BY <1>1
  <2> QED BY <1>1, <2>1 DEF CL_ParseServerMessage, Received, Here, New, Client
<1>6. \A slot \in 0 .. Slots - 1 :
        slots[slot] = IF Here(first, last, slot) = {} THEN old[slot]
                      ELSE svCommands[Max(Here(first, last, slot))]
  OBVIOUS
<1> HIDE DEF slots, received
<1>7. client' \in Client /\ client'.serverCommands = slots
  BY <1>1, <1>2, <1>4, <1>5 DEF Client
<1> QED BY <1>5, <1>6, <1>7 DEF received

\* After a message with all commands up to the last, the slots hold the newest.
LEMMA SlotsFilled ==
    ASSUME GameTypes, SlotsInv, NEW first \in Nat \ {0}, NEW last \in Nat, last = Len(svCommands),
           first <= client.serverCommandSequence + 1, client.serverCommandSequence <= last,
           CL_ParseServerMessage(first, last), svCommands' = svCommands
    PROVE  /\ client'.serverCommandSequence = last /\ client'.serverCommandNum = last
           /\ SlotsInv'
<1> DEFINE seq == client.serverCommandSequence
<1>1. seq \in Nat /\ Slots \in Nat \ {0} /\ client \in Client
  BY GameConstants DEF GameTypes, Client
<1>2. New(first, last) = seq + 1 .. last
  BY <1>1 DEF New
<1>3. Received(first, last) = last
  <2> DEFINE S == New(first, last) \cup {seq}
  <2>1. S \in SUBSET Nat /\ last \in S /\ \A y \in S : last >= y
    BY <1>1, <1>2
  <2>2. Received(first, last) = Max(S)
    BY DEF Received
  <2> HIDE DEF S
  <2> QED BY <2>1, <2>2, MaxIs
<1>0. /\ client' = [client EXCEPT !.serverCommands = client'.serverCommands,
                      !.serverCommandSequence = Received(first, last),
                      !.serverCommandNum = Received(first, last)]
      /\ \A slot \in 0 .. Slots - 1 :
           client'.serverCommands[slot] =
               IF Here(first, last, slot) = {} THEN client.serverCommands[slot]
               ELSE svCommands[Max(Here(first, last, slot))]
  <2>1. last <= Len(svCommands)
    OBVIOUS
  <2> QED BY <2>1, MessageParsed
<1>4. client'.serverCommandSequence = last /\ client'.serverCommandNum = last
  BY <1>0, <1>1, <1>3 DEF Client
<1>5. ASSUME NEW n \in 1 .. last, n > last - Slots
      PROVE  client'.serverCommands[n % Slots] = svCommands[n]
  <2> DEFINE S == Here(first, last, n % Slots)
  <2>1. n % Slots \in 0 .. Slots - 1
    BY <1>1
  <2>2. client'.serverCommands[n % Slots] =
            IF S = {} THEN client.serverCommands[n % Slots] ELSE svCommands[Max(S)]
    BY <1>0, <2>1
  <2>3. S = {k \in seq + 1 .. last : k % Slots = n % Slots}
    BY <1>2 DEF Here
  <2>4. \A k \in n + 1 .. last : k % Slots # n % Slots
    <3> SUFFICES ASSUME NEW k \in n + 1 .. last PROVE k % Slots # n % Slots
      OBVIOUS
    <3>1. n \in Nat /\ k \in Nat /\ n < k /\ k < n + Slots
      BY <1>1, <1>5
    <3> QED BY <1>1, <3>1, ModDistinct
  <2>5. CASE n > seq
    <3>1. S \in SUBSET Nat /\ n \in S /\ \A k \in S : n >= k
      BY <1>1, <2>3, <2>4, <2>5
    <3> HIDE DEF S
    <3>2. Max(S) = n
      BY <3>1, MaxIs
    <3> QED BY <2>2, <3>1, <3>2
  <2>6. CASE n <= seq
    <3>1. S = {}
      BY <1>1, <2>3, <2>4, <2>6
    <3>2. n \in 1 .. seq /\ n > seq - Slots
      BY <1>1, <1>5, <2>6
    <3> QED BY <2>2, <3>1, <3>2 DEF SlotsInv
  <2> QED BY <1>1, <2>5, <2>6
<1>6. SlotsInv'
  BY <1>4, <1>5 DEF SlotsInv
<1> QED BY <1>4, <1>6

-----------------------------------------------------------------------------
(* The server *)

\* Where the pieces of a text end: in order, and the last with the text.
LEMMA PieceEnds ==
    ASSUME NEW l \in Nat, NEW d \in Nat \ {0}, NEW a, a = l + d - 1,
           NEW n, n = a \div d, n > 1
    PROVE  n \in Nat /\ \A p \in 1 .. n - 1 : p * d \in Nat /\ (p - 1) * d <= p * d /\ p * d <= l
<1>1. n \in Int /\ n * d + (a % d) = l + d - 1 /\ a % d \in 0 .. d - 1
  <2>1. a \in Nat
    OBVIOUS
  <2>2. a = d * (a \div d) + (a % d) /\ a \div d \in Int /\ a % d \in 0 .. d - 1
    BY <2>1
  <2> QED BY <2>2
<1>2. (n - 1) * d = n * d - d
  BY <1>1
<1>3. (n - 1) * d <= l
  BY <1>1, <1>2
<1>4. ASSUME NEW p \in 1 .. n - 1
      PROVE  p * d \in Nat /\ (p - 1) * d <= p * d /\ p * d <= l
  <2>1. (p - 1) * d = p * d - d /\ p * d \in Nat
    BY <1>1
  <2>2. p * d <= (n - 1) * d
    <3> DEFINE q == n - 1 - p
    <3>1. q \in Nat /\ n - 1 = p + q
      BY <1>1
    <3> HIDE DEF q
    <3>2. (p + q) * d = p * d + q * d /\ q * d \in Nat
      BY <3>1
    <3> QED BY <2>1, <3>1, <3>2
  <2> QED BY <1>1, <1>3, <2>1, <2>2
<1> QED BY <1>1, <1>4

\* A piece goes on where the one before it ended.
Continues(cs, p) ==
    /\ cs[p].cmd \in {"d", "x"} => cs[p].value = cs[p].text
    /\ cs[p].cmd \in {"y", "z"} =>
         /\ p > 1 /\ cs[p - 1].cmd \in {"x", "y"}
         /\ cs[p - 1].index = cs[p].index
         /\ cs[p].value = cs[p - 1].value \o cs[p].text

LEMMA CommandsContinue ==
    ASSUME NEW i \in Index, NEW text \in Text, NEW cs, cs = Commands(i, text)
    PROVE  cs \in Seq(ServerCommand) /\ \A p \in 1 .. Len(cs) : Continues(cs, p)
<1> DEFINE l == Len(text)
           d == PieceLength
           n == (l + d - 1) \div d
           upTo(p) == IF p = n THEN l ELSE p * d
           piece(p) == [cmd |-> IF p = 1 THEN "x" ELSE IF p = n THEN "z" ELSE "y", index |-> i,
                        text |-> SubSeq(text, upTo(p - 1) + 1, upTo(p)),
                        value |-> SubSeq(text, 1, upTo(p))]
<1>1. l \in Nat /\ d \in Nat \ {0} /\ text \in Seq(Characters)
  BY GameConstants DEF Text
<1>2. CASE n <= 1
  <2> DEFINE c == [cmd |-> "d", index |-> i, text |-> text, value |-> text]
  <2>1. cs = <<c>>
    BY <1>2 DEF Commands
  <2>2. c \in ServerCommand /\ c.cmd = "d" /\ c.value = c.text
    BY DEF ServerCommand
  <2> HIDE DEF c
  <2>3. cs \in Seq(ServerCommand) /\ Len(cs) = 1 /\ cs[1] = c
    BY <2>1, <2>2
  <2> QED BY <2>2, <2>3 DEF Continues
<1>3. CASE ~ (n <= 1)
  <2>1. cs = [p \in 1 .. n |-> piece(p)]
    BY <1>3 DEF Commands
  <2>2. n \in Int /\ n > 1
    BY <1>1, <1>3
  <2> HIDE DEF l, d, n
  <2>3. n \in Nat /\ \A p \in 1 .. n - 1 : p * d \in Nat /\ (p - 1) * d <= p * d /\ p * d <= l
    <3> DEFINE a == l + d - 1
    <3>1. a = l + d - 1 /\ n = a \div d
      BY DEF n
    <3> HIDE DEF a
    <3> QED BY <1>1, <2>2, <3>1, PieceEnds
  <2>4. \A p \in 0 .. n : upTo(p) \in 0 .. l
    <3>1. 0 * d = 0
      BY <1>1
    <3> QED BY <1>1, <2>2, <2>3, <3>1
  <2>5. \A p \in 1 .. n : upTo(p - 1) <= upTo(p)
    <3> SUFFICES ASSUME NEW p \in 1 .. n PROVE upTo(p - 1) <= upTo(p)
      OBVIOUS
    <3>1. CASE p = n
      BY <1>1, <2>2, <2>4, <3>1
    <3>2. CASE p # n
      BY <1>1, <2>2, <2>3, <3>2
    <3> QED BY <3>1, <3>2
  <2>6. upTo(0) = 0
    BY <1>1, <2>2
  <2> HIDE DEF upTo
  <2>7. \A p \in 1 .. n :
          /\ SubSeq(text, upTo(p - 1) + 1, upTo(p)) \in Text
          /\ SubSeq(text, 1, upTo(p)) \in Text
          /\ SubSeq(text, 1, upTo(p - 1)) \o SubSeq(text, upTo(p - 1) + 1, upTo(p)) = SubSeq(text, 1, upTo(p))
    <3> SUFFICES ASSUME NEW p \in 1 .. n
                 PROVE  /\ SubSeq(text, upTo(p - 1) + 1, upTo(p)) \in Text
                        /\ SubSeq(text, 1, upTo(p)) \in Text
                        /\ SubSeq(text, 1, upTo(p - 1)) \o SubSeq(text, upTo(p - 1) + 1, upTo(p))
                             = SubSeq(text, 1, upTo(p))
      OBVIOUS
    <3> DEFINE a == upTo(p - 1)
               b == upTo(p)
    <3>1. a \in 0 .. l /\ b \in a .. l
      BY <1>1, <2>2, <2>4, <2>5
    <3> HIDE DEF a, b
    <3>2. SubSeq(text, 1, a) \o SubSeq(text, a + 1, b) = SubSeq(text, 1, b)
      <4>1. 1 \in 1 .. Len(text) + 1 /\ a \in 1 - 1 .. Len(text) /\ b \in a .. Len(text)
        BY <1>1, <3>1 DEF l
      <4> QED BY <1>1, <4>1, ConcatAdjacentSubSeq
    <3>3. SubSeq(text, a + 1, b) \in Text
      <4>1. a + 1 \in Int /\ b \in Int /\ \A k \in a + 1 .. b : text[k] \in Characters
        BY <1>1, <3>1 DEF l
      <4> QED BY <4>1, SubSeqProperties DEF Text
    <3>4. SubSeq(text, 1, b) \in Text
      <4>1. b \in Int /\ \A k \in 1 .. b : text[k] \in Characters
        BY <1>1, <3>1 DEF l
      <4> QED BY <4>1, SubSeqProperties DEF Text
    <3> QED BY <3>2, <3>3, <3>4 DEF a, b
  <2>8. \A p \in 1 .. n : piece(p) \in ServerCommand
    BY <2>7 DEF ServerCommand
  <2>9. cs \in Seq(ServerCommand) /\ Len(cs) = n /\ \A p \in 1 .. n : cs[p] = piece(p)
    <3> HIDE DEF piece
    <3> QED BY <2>1, <2>3, <2>8
  <2>10. ASSUME NEW p \in 1 .. n PROVE Continues(cs, p)
    <3> DEFINE t == SubSeq(text, upTo(p - 1) + 1, upTo(p))
               v == SubSeq(text, 1, upTo(p))
    <3>1. /\ cs[p].cmd = IF p = 1 THEN "x" ELSE IF p = n THEN "z" ELSE "y"
          /\ cs[p].index = i /\ cs[p].text = t /\ cs[p].value = v
      BY <2>9
    <3>2. CASE p = 1
      <4>1. t = v
        <5>1. p - 1 = 0 /\ 0 + 1 = 1
          BY <3>2
        <5> QED BY <2>6, <5>1
      <4> HIDE DEF t, v
      <4> QED BY <3>1, <3>2, <4>1 DEF Continues
    <3>3. CASE p # 1
      <4> DEFINE u == SubSeq(text, 1, upTo(p - 1))
      <4>1. p - 1 \in 1 .. n /\ p - 1 # n /\ p > 1
        BY <2>2, <3>3
      <4>2. cs[p - 1].cmd \in {"x", "y"} /\ cs[p - 1].index = i /\ cs[p - 1].value = u
        BY <2>9, <4>1
      <4>3. u \o t = v
        BY <2>7
      <4>4. cs[p].cmd \in {"y", "z"}
        BY <3>1, <3>3
      <4> HIDE DEF t, v, u
      <4> QED BY <3>1, <4>1, <4>2, <4>3, <4>4 DEF Continues
    <3> QED BY <3>2, <3>3
  <2> QED BY <2>9, <2>10
<1> QED BY <1>2, <1>3

LEMMA ServerContinues ==
    ServerInv <=> \A n \in 1 .. Len(svCommands) : Continues(svCommands, n)
  BY DEF ServerInv, Continues

\* Commands behind those that are there.
LEMMA CommandsAppended ==
    ASSUME GameTypes, ServerInv, NEW cs \in Seq(ServerCommand), \A p \in 1 .. Len(cs) : Continues(cs, p),
           svCommands' = svCommands \o cs
    PROVE  /\ svCommands' \in Seq(ServerCommand) /\ Len(svCommands) <= Len(svCommands')
           /\ \A n \in 1 .. Len(svCommands) : svCommands'[n] = svCommands[n]
           /\ ServerInv'
<1> DEFINE sv == svCommands
           l == Len(sv)
           all == sv \o cs
<1>1. sv \in Seq(ServerCommand) /\ l \in Nat /\ Len(cs) \in Nat
  BY DEF GameTypes
<1>2. /\ all \in Seq(ServerCommand) /\ Len(all) = l + Len(cs)
      /\ \A n \in 1 .. l : all[n] = sv[n]
      /\ \A p \in 1 .. Len(cs) : all[l + p] = cs[p]
  <2>1. /\ all \in Seq(ServerCommand) /\ Len(all) = l + Len(cs)
        /\ \A n \in 1 .. l + Len(cs) : all[n] = IF n <= l THEN sv[n] ELSE cs[n - l]
    BY <1>1, ConcatProperties
  <2> HIDE DEF all, l
  <2> QED BY <1>1, <2>1
<1>3. \A n \in 1 .. l : Continues(sv, n)
  BY ServerContinues
<1> HIDE DEF all, sv, l
<1>4. ASSUME NEW n \in 1 .. Len(all) PROVE Continues(all, n)
  <2>1. CASE n <= l
    <3>1. n \in 1 .. l /\ (n > 1 => n - 1 \in 1 .. l) /\ Continues(sv, n)
      BY <1>1, <1>3, <2>1
    <3> QED BY <1>2, <3>1 DEF Continues
  <2>2. CASE n > l
    <3> DEFINE p == n - l
    <3>1. p \in 1 .. Len(cs) /\ n = l + p
      BY <1>1, <1>2, <2>2
    <3> HIDE DEF p
    <3>2. all[n] = cs[p] /\ Continues(cs, p)
      BY <1>2, <3>1
    <3>3. CASE p = 1
      <4>1. ~ (cs[p].cmd \in {"y", "z"})
        BY <3>2, <3>3 DEF Continues
      <4> QED BY <3>2, <4>1 DEF Continues
    <3>4. CASE p # 1
      <4>1. p - 1 \in 1 .. Len(cs) /\ n - 1 = l + (p - 1) /\ n > 1
        BY <1>1, <3>1, <3>4
      <4>2. all[n - 1] = cs[p - 1]
        BY <1>2, <4>1
      <4> QED BY <3>2, <4>1, <4>2 DEF Continues
    <3> QED BY <3>3, <3>4
  <2> QED BY <1>1, <2>1, <2>2
<1>5. svCommands' = all /\ svCommands = sv /\ Len(svCommands) = l
  BY DEF all, sv, l
<1>6. ServerInv'
  <2>1. \A n \in 1 .. Len(svCommands') : Continues(svCommands', n)
    BY <1>4, <1>5
  <2> QED BY ONLY <2>1, Zenon DEF ServerInv, Continues
<1> QED BY <1>1, <1>2, <1>5, <1>6

-----------------------------------------------------------------------------
(* The variable's strings, where every text is one of the host's *)

\* What is protected gets its reset value, which is one of the variable's.
LEMMA CheatStateGood ==
    ASSUME AllGood, NEW vars \in {cvar, Cvar_SetCheatState}
    PROVE  /\ vars = [c \in Names |-> vars[c]]
           /\ \A c \in Names : Good(vars[c]) /\ vars[c].type = cvar[c].type
<1>1. CASE vars = cvar
  BY <1>1 DEF AllGood
<1>2. CASE vars = Cvar_SetCheatState
  <2>1. vars = [c \in Names |-> vars[c]]
    BY <1>2 DEF Cvar_SetCheatState
  <2>2. ASSUME NEW c \in Names PROVE Good(vars[c]) /\ vars[c].type = cvar[c].type
    <3> DEFINE v == cvar[c]
               x == v.reset
    <3>1. Good(v)
      BY DEF AllGood
    <3>2. vars[c] = IF "cheat" \in v.flags THEN Dvar_SetVariant(v, x, FALSE) ELSE v
      BY <1>2 DEF Cvar_SetCheatState
    <3>3. v.type # "none" => (v.type = "string" => x \in Texts)
      BY <3>1 DEF Good, Fits
    <3> DEFINE w == Dvar_SetVariant(v, x, FALSE)
    <3>4. CASE v.type = "none"
      <4>1. v \in Variable /\ v.refs = RefsOf(v) /\ "user" \notin v.flags /\ x \in Value
        BY <3>1, <3>4 DEF Good, Variable
      <4>2. w \in {[v EXCEPT !.latched = v.string], [v EXCEPT !.string = x, !.latched = x]}
        BY <3>4 DEF Dvar_SetVariant, SetInDomain, Dvar_ValueInDomain, Dvar_SetLatchedValue, Dvar_UpdateValue
      <4> HIDE DEF v, x, w
      <4>3. w \in Variable /\ w.type = "none" /\ w.flags = v.flags /\ w.refs = v.refs
        BY <3>4, <4>1, <4>2 DEF Variable
      <4>4. w.refs = RefsOf(w)
        BY <3>4, <4>1, <4>3 DEF RefsOf
      <4>5. Good(w)
        BY <4>1, <4>3, <4>4 DEF Good
      <4> QED BY <3>1, <3>2, <3>4, <4>3, <4>5 DEF v, w
    <3> HIDE DEF v, x
    <3>5. CASE v.type # "none"
      <4>1. Good(w) /\ Same(v, w)
        BY <3>1, <3>3, <3>5, SetVariantKeeps
      <4> QED BY <3>1, <3>2, <4>1 DEF Same, v
    <3> QED BY <3>4, <3>5
  <2> QED BY <2>1, <2>2
<1> QED BY <1>1, <1>2

LEMMA SystemInfoGood ==
    ASSUME AllGood, Text \subseteq Texts, NEW gs \in Blocks, NEW local, CL_SystemInfoChanged(gs, local)
    PROVE  AllGood'
<1> DEFINE t == SystemInfo(gs)
           c == SystemVariable
           sets == t # <<>> /\ ~ local
<1>1. c \in Names
  BY GameStateAssumption
<1>2. t \in Texts
  <2> DEFINE o == gs.stringOffsets[CS_SYSTEMINFO]
  <2>1. o \in 0 .. Capacity - 1
    BY GameConstants DEF Blocks, CS_SYSTEMINFO
  <2> HIDE DEF o
  <2>2. StringAt(gs, o) \in Text
    BY <2>1, StringTyped DEF Text
  <2> QED BY <2>2 DEF SystemInfo, o
<1>3. PICK vars \in {cvar, Cvar_SetCheatState} : cvar' \in IF sets THEN Cvar_Set(vars, t) ELSE {vars}
  <2>1. \E vars \in {cvar} \cup IF mode # "replay" /\ ~ local /\ t \notin Cheating
                                 THEN {Cvar_SetCheatState} ELSE {} :
           cvar' \in IF sets THEN Cvar_Set(vars, t) ELSE {vars}
    BY DEF CL_SystemInfoChanged
  <2> HIDE DEF sets, t
  <2> QED BY <2>1
<1>4. /\ vars = [n \in Names |-> vars[n]]
      /\ \A n \in Names : Good(vars[n]) /\ vars[n].type = cvar[n].type
  BY CheatStateGood
<1>5. cvar_cheats' \in BOOLEAN
  BY DEF CL_SystemInfoChanged, AllGood
<1> HIDE DEF t, c, sets
<1>6. CASE ~ sets
  BY <1>3, <1>4, <1>5, <1>6 DEF AllGood
<1>7. CASE sets
  <2> DEFINE v == vars[c]
             new == Cvar_RegisterNew("string", {"user"}, t, 0)
  <2>1. Good(v) /\ v.type = cvar[c].type
    BY <1>1, <1>4
  <2>2. PICK x \in Meanings(c, t) :
          cvar' = [vars EXCEPT ![c] = IF v.type = "none" THEN new ELSE Dvar_SetVariant(v, x, FALSE)]
    BY <1>1, <1>3, <1>4, <1>7 DEF Cvar_Set, c
  <2>3. Good(new)
    BY <1>2, RegisteredNew DEF Flags
  <2>4. v.type = "string" => x \in Texts
    BY <1>2, <2>1 DEF Meanings
  <2> HIDE DEF new, v
  <2>5. v.type # "none" => Good(Dvar_SetVariant(v, x, FALSE))
    BY <2>1, <2>4, SetVariantKeeps
  <2> DEFINE w == IF v.type = "none" THEN new ELSE Dvar_SetVariant(v, x, FALSE)
  <2>6. Good(w) /\ cvar' = [vars EXCEPT ![c] = w]
    BY <2>2, <2>3, <2>5
  <2> HIDE DEF w
  <2>7. DOMAIN cvar' = Names /\ cvar' = [n \in Names |-> cvar'[n]]
    BY <1>4, <2>6
  <2>8. \A n \in Names : Good(cvar'[n])
    BY <1>1, <1>4, <2>6
  <2> QED BY <1>5, <2>7, <2>8 DEF AllGood
<1> QED BY <1>6, <1>7

LEMMA ChangeGood ==
    ASSUME GameTypes, AllGood, Text \subseteq Texts, NEW i \in Index, NEW s \in Text,
           CL_ConfigstringModified(i, s)
    PROVE  AllGood'
<1> DEFINE block == Filled(EmptyGameState, Modified(i, s), FirstOf(i))
<1>1. CASE UNCHANGED infoVars
  BY <1>1 DEF cvarVars, infoVars, AllGood
<1>2. CASE HasRoom(block) /\ CL_SystemInfoChanged(block, server.local)
  <2>1. block \in Blocks
    BY <1>2, RebuiltBlock
  <2> HIDE DEF block
  <2> QED BY <1>2, <2>1, SystemInfoGood
<1>3. UNCHANGED infoVars \/ (HasRoom(block) /\ CL_SystemInfoChanged(block, server.local))
  BY DEF CL_ConfigstringModified
<1> QED BY <1>1, <1>2, <1>3

LEMMA ParsedGood ==
    ASSUME GameTypes, AllGood, Text \subseteq Texts, NEW map, NEW sequence, NEW sent \in Strings, NEW local,
           CL_ParseGamestate(map, sequence, sent, local)
    PROVE  AllGood'
<1> DEFINE strings == WithDefaults(sent)
           block == Filled(EmptyGameState, strings, 0)
           ext == Filled([extGameState EXCEPT !.dataCount = 1], strings, MaxConfigStrings)
<1>1. CASE UNCHANGED infoVars
  BY <1>1 DEF cvarVars, infoVars, AllGood
<1>2. CASE CL_SystemInfoChanged(block, local)
  <2>1. HasRoom(block) /\ HasRoom(ext)
    BY DEF CL_ParseGamestate
  <2>2. block \in Blocks
    BY <2>1, ParsedBlocks
  <2> HIDE DEF block
  <2> QED BY <1>2, <2>2, SystemInfoGood
<1>3. UNCHANGED infoVars \/ CL_SystemInfoChanged(block, local)
  BY DEF CL_ParseGamestate
<1> QED BY <1>1, <1>2, <1>3

-----------------------------------------------------------------------------
(* The commands that cgame executes *)

GameInv ==
    /\ GameTypes
    /\ ServerInv
    /\ MenuInv
    /\ LiveInv
    /\ StringsFollowServer
    /\ SystemInv

\* The variables are as they should be where nothing they depend on changes.
LEMMA SystemKept ==
    ASSUME SystemInv, UNCHANGED infoVars, mode' = mode, server'.local = server.local,
           client'.map = client.map,
           CL_GetConfigString(CS_SYSTEMINFO)' = CL_GetConfigString(CS_SYSTEMINFO)
    PROVE  SystemInv'
<1>1. cvar' = cvar /\ cvar_cheats' = cvar_cheats /\ sv_pure' = sv_pure
  BY DEF infoVars, cvarVars
<1>2. AllGood <=> AllGood'
  BY <1>1 DEF AllGood
<1>3. InForce <=> InForce'
  BY <1>1 DEF InForce
<1>4. SystemInfoInForce'
  BY <1>1 DEF SystemInv, SystemInfoInForce
<1> QED BY <1>2, <1>3, <1>4 DEF SystemInv

\* The strings that the server had when it had added n commands, as StringsFollowServer
\* says.
FollowsAt(n) ==
    \A i \in Index \ stale :
        (legacy => i < MaxConfigStrings) => CL_GetConfigString(i) = ServerString(i, n)

LEMMA Following == StringsFollowServer <=> (mode = "live" => FollowsAt(client.executed))
  BY DEF StringsFollowServer, FollowsAt

LEMMA SameServer ==
    ASSUME UNCHANGED <<server, svCommands>>, NEW i, NEW n
    PROVE  ServerString(i, n)' = ServerString(i, n)
  BY DEF ServerString

\* What cgame asks for is the server's next command, unless it is lost.
LEMMA LiveCommand ==
    ASSUME GameInv, mode = "live", Executes, ~ CycledOut
    PROVE  /\ Asked \in 1 .. Len(svCommands) /\ Asked = client.executed + 1 /\ client.executed \in Nat
           /\ Command = svCommands[Asked] /\ Command \in ServerCommand
           /\ Continues(svCommands, Asked)
<1> DEFINE e == client.executed
           seq == client.serverCommandSequence
<1>1. e \in Nat /\ seq \in Nat /\ Slots \in Nat \ {0} /\ svCommands \in Seq(ServerCommand)
      /\ Len(svCommands) \in Nat
  BY GameConstants DEF GameInv, GameTypes, Client
<1>2. e < seq /\ seq <= Len(svCommands) /\ SlotsInv
  BY DEF GameInv, LiveInv, Executes
<1>3. ~ (e + 1 <= seq - Slots)
  BY DEF CycledOut, Asked
<1>4. Asked = e + 1
  BY DEF Asked
<1>5. \A n \in 1 .. seq : n > seq - Slots => client.serverCommands[n % Slots] = svCommands[n]
  BY <1>2 DEF SlotsInv
<1> HIDE DEF e, seq
<1>6. Asked \in 1 .. seq /\ Asked > seq - Slots /\ Asked \in 1 .. Len(svCommands)
  BY <1>1, <1>2, <1>3, <1>4
<1>7. Command = svCommands[Asked]
  BY <1>5, <1>6 DEF Command
<1>8. Continues(svCommands, Asked)
  BY <1>6, ServerContinues DEF GameInv
<1> QED BY <1>1, <1>4, <1>6, <1>7, <1>8 DEF e

\* In a slot is a command of the server, or nothing.
LEMMA AnyCommand ==
    ASSUME GameInv
    PROVE  /\ Command \in ServerCommand \cup {NoCommand}
           /\ Command.cmd # "none" => Command \in ServerCommand
           /\ client \in Client /\ client.executed \in Nat
<1>1. Slots \in Nat \ {0} /\ client \in Client /\ client.executed \in Nat
  BY GameConstants DEF GameInv, GameTypes, Client
<1>2. Asked % Slots \in 0 .. Slots - 1
  <2> DEFINE a == client.executed + 1
  <2>1. a \in Nat
    BY <1>1
  <2> HIDE DEF a
  <2> QED BY <1>1, <2>1 DEF Asked, a
<1>3. Command \in ServerCommand \cup {NoCommand}
  BY <1>1, <1>2 DEF Command, Client
<1> QED BY <1>1, <1>3 DEF NoCommand

\* A turn of CG_ExecuteNewServerCommands.
LEMMA Turn ==
    ASSUME GameInv, Executes, mode' \in {mode, "over"},
           client' \in Client, extGameState' \in Blocks, stale' \subseteq Index,
           bigConfigString' \in [index : Index \cup {-1}, text : Text],
           UNCHANGED <<legacy, server, svCommands, demo, position>>,
           mode' = "live" =>
              /\ client' = [client EXCEPT !.executed = Asked, !.gameState = client'.gameState]
              /\ PiecesInv' /\ FollowsAt(client.executed)',
           mode' # "over" => InForce' /\ SystemInfoInForce',
           Text \subseteq Texts => AllGood'
    PROVE  GameInv'
<1>1. mode \in {"live", "replay"} /\ mode' \in {"live", "replay", "over"}
  BY DEF Executes
<1>2. GameTypes'
  BY <1>1 DEF GameInv, GameTypes
<1>3. ServerInv'
  BY DEF GameInv, ServerInv
<1>4. MenuInv'
  BY <1>1 DEF MenuInv
<1>5. ASSUME mode' = "live"
      PROVE  LiveInv' /\ client'.executed = Asked
  <2>1. mode = "live"
    BY <1>1, <1>5
  <2>2. /\ client'.executed = Asked /\ client'.serverCommandNum = client.serverCommandNum
        /\ client'.serverCommandSequence = client.serverCommandSequence
        /\ client'.serverCommands = client.serverCommands
    BY <1>5 DEF GameInv, GameTypes, Client
  <2>3. SlotsInv'
    BY <2>1, <2>2 DEF GameInv, LiveInv, SlotsInv
  <2>4. server.sequence <= Asked /\ Asked <= client.serverCommandNum
    BY <2>1 DEF GameInv, LiveInv, GameTypes, Client, Asked, Executes
  <2>5. PiecesInv'
    BY <1>5
  <2> QED BY <2>1, <2>2, <2>3, <2>4, <2>5 DEF GameInv, LiveInv
<1>6. LiveInv'
  BY <1>5 DEF LiveInv
<1>7. StringsFollowServer'
  BY <1>5 DEF StringsFollowServer, FollowsAt
<1>8. SystemInfoInForce'
  BY <1>1 DEF SystemInfoInForce
<1>9. SystemInv'
  <2>1. mode' = "replay" => server'.local = FALSE
    BY <1>1 DEF GameInv, SystemInv
  <2> QED BY <1>1, <1>8, <2>1 DEF SystemInv
<1> QED BY <1>2, <1>3, <1>4, <1>6, <1>7, <1>9 DEF GameInv

\* The strings do not change when the blocks do not.
LEMMA StringsKept ==
    ASSUME client'.gameState = client.gameState, extGameState' = extGameState, NEW i
    PROVE  CL_GetConfigString(i)' = CL_GetConfigString(i)
  BY DEF CL_GetConfigString, Block

\* A turn that changes one string.
LEMMA StringTurn ==
    ASSUME GameInv, Executes, NEW i \in Index, NEW s \in Text, CL_ConfigstringModified(i, s),
           UNCHANGED unchangedByCommand, bigConfigString' \in [index : Index \cup {-1}, text : Text],
           mode = "live" =>
              /\ Asked \in 1 .. Len(svCommands)
              /\ svCommands[Asked].index = i /\ svCommands[Asked].cmd \in {"d", "z"}
              /\ svCommands[Asked].value = s
    PROVE  GameInv'
<1>1. GameTypes /\ mode \in {"live", "replay"} /\ mode # "over" /\ client \in Client
  BY DEF GameInv, GameTypes, Executes
<1>2. /\ mode' \in {mode, "over"}
      /\ client' = [client EXCEPT !.executed = client.executed + 1, !.gameState = client'.gameState]
      /\ client'.gameState \in Blocks /\ extGameState' \in Blocks
      /\ stale' \subseteq stale /\ stale \ stale' \subseteq {i}
      /\ mode' # "over" =>
           \A j \in Index : CL_GetConfigString(j)' = IF j = i THEN s ELSE CL_GetConfigString(j)
  BY <1>1, StringChanged
<1>3. client' \in Client /\ client'.executed = Asked /\ stale' \subseteq Index
  <2> DEFINE block == client'.gameState
  <2>1. block \in Blocks /\ client' = [client EXCEPT !.executed = client.executed + 1, !.gameState = block]
    BY <1>2
  <2> HIDE DEF block
  <2>2. client.executed + 1 \in Nat
    BY <1>1 DEF Client
  <2>3. client' \in Client /\ client'.executed = client.executed + 1
    BY <1>1, <2>1, <2>2 DEF Client
  <2> QED BY <1>1, <1>2, <2>3 DEF Asked, GameTypes
<1>4. UNCHANGED <<legacy, server, svCommands, demo, position>>
  BY DEF unchangedByCommand
<1>5. ASSUME mode' = "live"
      PROVE  PiecesInv' /\ FollowsAt(client.executed)'
  <2>1. mode = "live" /\ server.sequence <= client.executed /\ client.executed \in Nat
        /\ FollowsAt(client.executed)
    BY <1>1, <1>2, <1>5, Following DEF GameInv, LiveInv, Client
  <2>2. PiecesInv'
    BY <1>3, <1>4, <2>1 DEF PiecesInv
  <2>3. ASSUME NEW j \in Index \ stale', legacy' => j < MaxConfigStrings
        PROVE  CL_GetConfigString(j)' = ServerString(j, client.executed)'
    <3>1. ServerString(j, client.executed)' = ServerString(j, Asked)
      BY <1>3, <1>4 DEF ServerString
    <3>2. ServerString(j, client.executed + 1) =
             IF svCommands[client.executed + 1].index = j /\ svCommands[client.executed + 1].cmd \in {"d", "z"}
             THEN svCommands[client.executed + 1].value ELSE ServerString(j, client.executed)
      BY <1>1, <2>1, ServerStringNext
    <3>3. ServerString(j, Asked) = IF j = i THEN s ELSE ServerString(j, client.executed)
      BY <2>1, <3>2 DEF Asked
    <3>4. j # i => j \notin stale
      BY <1>2
    <3>5. CL_GetConfigString(j)' = IF j = i THEN s ELSE CL_GetConfigString(j)
      BY <1>2, <1>5
    <3>6. j # i => CL_GetConfigString(j) = ServerString(j, client.executed)
      BY <1>4, <2>1, <2>3, <3>4 DEF FollowsAt
    <3>7. CL_GetConfigString(j)' = ServerString(j, Asked)
      BY <3>3, <3>5, <3>6
    <3> QED BY <3>1, <3>7
  <2> QED BY <2>2, <2>3 DEF FollowsAt
<1>6. client' = [client EXCEPT !.executed = Asked, !.gameState = client'.gameState]
  BY <1>2 DEF Asked
<1>7. mode' # "over" => InForce' /\ SystemInfoInForce'
  BY <1>1, <1>4, ChangeInForce DEF GameInv, SystemInv
<1>8. Text \subseteq Texts => AllGood'
  BY <1>1, ChangeGood DEF GameInv, SystemInv
<1> QED BY <1>2, <1>3, <1>4, <1>5, <1>6, <1>7, <1>8, Turn

\* A turn that changes no string.
LEMMA PlainTurn ==
    ASSUME GameInv, Executes, client' = [client EXCEPT !.executed = Asked], mode' = mode,
           UNCHANGED <<legacy, server, svCommands, demo, position, extGameState, stale, infoVars>>,
           bigConfigString' \in [index : Index \cup {-1}, text : Text],
           mode = "live" =>
              /\ ~ CycledOut /\ Command.cmd \in {"x", "y"}
              /\ bigConfigString' = [index |-> Command.index, text |-> Command.value]
    PROVE  GameInv'
<1>1. GameTypes /\ mode \in {"live", "replay"} /\ client \in Client
  BY DEF GameInv, GameTypes, Executes
<1>2. /\ client' \in Client /\ client'.executed = Asked /\ client'.gameState = client.gameState
      /\ client' = [client EXCEPT !.executed = Asked, !.gameState = client'.gameState]
  <2>1. Asked \in Nat
    BY <1>1 DEF Asked, Client
  <2>2. client'.gameState = client.gameState /\ client' \in Client /\ client'.executed = Asked
    BY <1>1, <2>1 DEF Client
  <2> QED BY <1>1, <2>2 DEF Client
<1>3. \A j : CL_GetConfigString(j)' = CL_GetConfigString(j)
  BY <1>2, StringsKept
<1>4. ASSUME mode' = "live" PROVE PiecesInv' /\ FollowsAt(client.executed)'
  <2>1. mode = "live" /\ FollowsAt(client.executed) /\ server.sequence <= client.executed
    BY <1>4, Following DEF GameInv, LiveInv
  <2>2. Command = svCommands[Asked] /\ Asked = client.executed + 1 /\ client.executed \in Nat
    BY <2>1, LiveCommand
  <2>3. PiecesInv'
    BY <1>2, <2>1, <2>2 DEF PiecesInv
  <2>4. ASSUME NEW j \in Index \ stale', legacy' => j < MaxConfigStrings
        PROVE  CL_GetConfigString(j)' = ServerString(j, client.executed)'
    <3>1. ServerString(j, client.executed)' = ServerString(j, Asked)
      BY <1>2 DEF ServerString
    <3>2. ServerString(j, client.executed + 1) =
             IF svCommands[client.executed + 1].index = j /\ svCommands[client.executed + 1].cmd \in {"d", "z"}
             THEN svCommands[client.executed + 1].value ELSE ServerString(j, client.executed)
      BY <1>1, <2>1, <2>2, ServerStringNext
    <3>3. ServerString(j, Asked) = ServerString(j, client.executed)
      BY <2>1, <2>2, <3>2
    <3>4. CL_GetConfigString(j) = ServerString(j, client.executed)
      BY <2>1, <2>4 DEF FollowsAt
    <3> QED BY <1>3, <3>1, <3>3, <3>4
  <2> QED BY <2>3, <2>4 DEF FollowsAt
<1>5. InForce' /\ SystemInfoInForce'
  <2>1. client'.map = client.map
    BY <1>1 DEF Client
  <2>2. InForce /\ SystemInfoInForce
    BY <1>1 DEF GameInv, SystemInv
  <2> QED BY <1>3, <2>1, <2>2, InForceKept
<1>6. Text \subseteq Texts => AllGood'
  BY DEF GameInv, SystemInv, AllGood, cvarVars, infoVars
<1>7. extGameState' \in Blocks /\ stale' \subseteq Index /\ mode' \in {mode, "over"}
  BY <1>1 DEF GameTypes
<1> QED BY <1>2, <1>4, <1>5, <1>6, <1>7, Turn

\* The game is left.
LEMMA OverTurn ==
    ASSUME GameInv, Executes, mode' = "over",
           UNCHANGED <<client, legacy, server, svCommands, demo, position, extGameState, stale,
                       bigConfigString, infoVars>>
    PROVE  GameInv'
<1>1. Text \subseteq Texts => AllGood'
  BY DEF GameInv, SystemInv, AllGood, cvarVars, infoVars
<1>2. /\ client' \in Client /\ extGameState' \in Blocks /\ stale' \subseteq Index
      /\ bigConfigString' \in [index : Index \cup {-1}, text : Text]
  BY DEF GameInv, GameTypes
<1> QED BY <1>1, <1>2, Turn

LEMMA LostCommand == GameInv /\ CommandIsLost => GameInv'
<1> SUFFICES ASSUME GameInv, CommandIsLost PROVE GameInv'
  OBVIOUS
<1>1. /\ Executes
      /\ UNCHANGED <<infoVars, legacy, server, svCommands, demo, position, extGameState,
                     bigConfigString, stale>>
  BY DEF CommandIsLost
<1>2. CASE mode = "replay"
  <2>1. client' = [client EXCEPT !.executed = Asked] /\ mode' = mode /\ mode # "live"
    BY <1>2 DEF CommandIsLost
  <2>2. bigConfigString' \in [index : Index \cup {-1}, text : Text]
    BY <1>1 DEF GameInv, GameTypes
  <2> QED BY <1>1, <2>1, <2>2, PlainTurn
<1>3. CASE mode # "replay"
  BY <1>1, <1>3, OverTurn DEF CommandIsLost
<1> QED BY <1>2, <1>3

LEMMA EmptyCommand == GameInv /\ CommandIsEmpty => GameInv'
<1> SUFFICES ASSUME GameInv, CommandIsEmpty PROVE GameInv'
  OBVIOUS
<1>1. /\ Executes /\ ~ CycledOut /\ Command.cmd = "none" /\ mode' = mode
      /\ client' = [client EXCEPT !.executed = Asked]
      /\ UNCHANGED <<infoVars, legacy, server, svCommands, demo, position, extGameState,
                     bigConfigString, stale>>
  BY DEF CommandIsEmpty, unchangedByCommand
<1>2. mode # "live"
  BY <1>1, LiveCommand DEF ServerCommand
<1>3. bigConfigString' \in [index : Index \cup {-1}, text : Text]
  BY <1>1 DEF GameInv, GameTypes
<1> QED BY <1>1, <1>2, <1>3, PlainTurn

LEMMA FirstPieceKeeps == GameInv /\ FirstPiece => GameInv'
<1> SUFFICES ASSUME GameInv, FirstPiece PROVE GameInv'
  OBVIOUS
<1>1. /\ Executes /\ ~ CycledOut /\ Command.cmd = "x" /\ mode' = mode
      /\ client' = [client EXCEPT !.executed = Asked]
      /\ bigConfigString' = [index |-> Command.index, text |-> Command.text]
      /\ UNCHANGED <<infoVars, legacy, server, svCommands, demo, position, extGameState, stale>>
  BY DEF FirstPiece, unchangedByCommand
<1>2. Command \in ServerCommand
  BY <1>1, AnyCommand
<1>3. mode = "live" => Command.value = Command.text
  BY <1>1, LiveCommand DEF Continues
<1>4. bigConfigString' \in [index : Index \cup {-1}, text : Text]
  BY <1>1, <1>2 DEF ServerCommand
<1> QED BY <1>1, <1>3, <1>4, PlainTurn

\* The pieces before this one are in the buffer.
LEMMA BufferContinues ==
    ASSUME GameInv, Executes, ~ CycledOut, Command.cmd \in {"y", "z"}
    PROVE  /\ Command \in ServerCommand /\ Pieced \in Text
           /\ bigConfigString \in [index : Index \cup {-1}, text : Text]
           /\ mode = "live" => /\ bigConfigString.index = Command.index
                               /\ Pieced = Command.value
<1>1. Command \in ServerCommand /\ bigConfigString \in [index : Index \cup {-1}, text : Text]
  BY AnyCommand DEF GameInv, GameTypes
<1>2. Pieced \in Text
  BY <1>1 DEF Pieced, ServerCommand, Text
<1>3. ASSUME mode = "live"
      PROVE  bigConfigString.index = Command.index /\ Pieced = Command.value
  <2> DEFINE e == client.executed
  <2>1. e \in Nat /\ Asked = e + 1 /\ Command = svCommands[Asked] /\ Continues(svCommands, Asked)
    BY <1>3, LiveCommand
  <2> HIDE DEF e
  <2>2. Asked - 1 = e
    BY <2>1
  <2>3. /\ Asked > 1
        /\ svCommands[e].cmd \in {"x", "y"} /\ svCommands[e].index = Command.index
        /\ Command.value = svCommands[e].value \o Command.text
    <3>1. svCommands[Asked].cmd \in {"y", "z"}
      BY <2>1
    <3>2. /\ Asked > 1
          /\ svCommands[Asked - 1].cmd \in {"x", "y"}
          /\ svCommands[Asked - 1].index = svCommands[Asked].index
          /\ svCommands[Asked].value = svCommands[Asked - 1].value \o svCommands[Asked].text
      BY <2>1, <3>1 DEF Continues
    <3> QED BY <2>1, <2>2, <3>2
  <2>4. bigConfigString = [index |-> svCommands[e].index, text |-> svCommands[e].value]
    <3>1. e > 0
      BY <2>1, <2>3
    <3> QED BY <1>3, <2>3, <3>1 DEF GameInv, LiveInv, PiecesInv, e
  <2> QED BY <2>3, <2>4 DEF Pieced
<1> QED BY <1>1, <1>2, <1>3

LEMMA NextPieceKeeps == GameInv /\ NextPiece => GameInv'
<1> SUFFICES ASSUME GameInv, NextPiece PROVE GameInv'
  OBVIOUS
<1>1. /\ Executes /\ ~ CycledOut /\ Command.cmd = "y" /\ mode' = mode
      /\ client' = [client EXCEPT !.executed = Asked]
      /\ bigConfigString' = [bigConfigString EXCEPT !.text = Pieced]
      /\ UNCHANGED <<infoVars, legacy, server, svCommands, demo, position, extGameState, stale>>
  BY DEF NextPiece, unchangedByCommand
<1>2. /\ Command \in ServerCommand /\ Pieced \in Text
      /\ bigConfigString \in [index : Index \cup {-1}, text : Text]
      /\ mode = "live" => bigConfigString.index = Command.index /\ Pieced = Command.value
  BY <1>1, BufferContinues
<1>3. /\ bigConfigString' = [index |-> bigConfigString.index, text |-> Pieced]
      /\ bigConfigString' \in [index : Index \cup {-1}, text : Text]
  BY <1>1, <1>2
<1> QED BY <1>1, <1>2, <1>3, PlainTurn

LEMMA TooLongPiece == GameInv /\ PieceTooLong => GameInv'
  BY OverTurn DEF PieceTooLong, unchangedByCommand

LEMMA LastPieceKeeps == GameInv /\ LastPiece => GameInv'
<1> SUFFICES ASSUME GameInv, LastPiece PROVE GameInv'
  OBVIOUS
<1>1. /\ Executes /\ ~ CycledOut /\ Command.cmd = "z"
      /\ bigConfigString' = [bigConfigString EXCEPT !.text = Pieced]
      /\ UNCHANGED unchangedByCommand
      /\ IF bigConfigString.index \in Index
         THEN CL_ConfigstringModified(bigConfigString.index, Pieced)
         ELSE \E s \in {<<>>, Pieced} : CL_ConfigstringModified(0, s)
  BY DEF LastPiece
<1>2. /\ Command \in ServerCommand /\ Pieced \in Text
      /\ bigConfigString \in [index : Index \cup {-1}, text : Text]
      /\ mode = "live" => bigConfigString.index = Command.index /\ Pieced = Command.value
  BY <1>1, BufferContinues
<1>3. bigConfigString' \in [index : Index \cup {-1}, text : Text]
  BY <1>1, <1>2
<1>4. CASE bigConfigString.index \in Index
  <2> DEFINE i == bigConfigString.index
             s == Pieced
  <2>1. CL_ConfigstringModified(i, s) /\ i \in Index /\ s \in Text
    BY <1>1, <1>2, <1>4
  <2>2. mode = "live" =>
          /\ Asked \in 1 .. Len(svCommands)
          /\ svCommands[Asked].index = i /\ svCommands[Asked].cmd \in {"d", "z"}
          /\ svCommands[Asked].value = s
    BY <1>1, <1>2, LiveCommand
  <2> HIDE DEF i, s
  <2> QED BY <1>1, <1>3, <2>1, <2>2, StringTurn
<1>5. CASE bigConfigString.index \notin Index
  <2>1. mode # "live"
    BY <1>2, <1>5 DEF ServerCommand
  <2>2. PICK s \in {<<>>, Pieced} : CL_ConfigstringModified(0, s)
    BY <1>1, <1>5
  <2>3. 0 \in Index /\ s \in Text
    <3>1. <<>> \in Text
      BY DEF Text
    <3>2. 0 \in Index
      BY GameConstants DEF Index
    <3> QED BY <1>2, <3>1, <3>2
  <2> QED BY <1>1, <1>3, <2>1, <2>2, <2>3, StringTurn
<1> QED BY <1>4, <1>5

LEMMA WholeStringKeeps == GameInv /\ WholeString => GameInv'
<1> SUFFICES ASSUME GameInv, WholeString PROVE GameInv'
  OBVIOUS
<1>1. /\ Executes /\ ~ CycledOut /\ Command.cmd = "d"
      /\ CL_ConfigstringModified(Command.index, Command.text)
      /\ UNCHANGED unchangedByCommand /\ bigConfigString' = bigConfigString
  BY DEF WholeString
<1> DEFINE i == Command.index
           s == Command.text
<1>2. i \in Index /\ s \in Text
  BY <1>1, AnyCommand DEF ServerCommand
<1>3. bigConfigString' \in [index : Index \cup {-1}, text : Text]
  BY <1>1 DEF GameInv, GameTypes
<1>4. mode = "live" =>
        /\ Asked \in 1 .. Len(svCommands)
        /\ svCommands[Asked].index = i /\ svCommands[Asked].cmd \in {"d", "z"}
        /\ svCommands[Asked].value = s
  BY <1>1, LiveCommand DEF Continues
<1>5. CL_ConfigstringModified(i, s)
  BY <1>1
<1> HIDE DEF i, s
<1> QED BY <1>1, <1>2, <1>3, <1>4, <1>5, StringTurn

-----------------------------------------------------------------------------
(* Variables, the server and its messages *)

LEMMA InitKeeps == GameInit => GameInv
<1> SUFFICES ASSUME GameInit PROVE GameInv
  OBVIOUS
<1>1. client = NoClient /\ NoClient \in Client /\ NoClient.executed = 0
      /\ NoClient.gameState = EmptyGameState
  <2> DEFINE slots == [slot \in 0 .. Slots - 1 |-> [cmd |-> "none"]]
             block == EmptyGameState
  <2>1. slots \in [0 .. Slots - 1 -> ServerCommand \cup {NoCommand}] /\ block \in Blocks
    BY EmptyBlock DEF NoCommand
  <2>2. NoClient = [map |-> 0, gameState |-> block, serverCommandSequence |-> 0, serverCommandNum |-> 0,
                    serverCommands |-> slots, executed |-> 0]
    BY DEF NoClient
  <2> HIDE DEF slots, block
  <2>3. NoClient \in Client /\ NoClient.executed = 0 /\ NoClient.gameState = block
    BY <2>1, <2>2 DEF Client
  <2> QED BY <2>3 DEF GameInit, block
<1>2. GameTypes
  <2>1. server \in [map : DOMAIN Maps \cup {0}, sequence : Nat, first : Nat \ {0}, local : BOOLEAN]
    BY DEF GameInit, NoServer
  <2>2. bigConfigString \in [index : Index \cup {-1}, text : Text]
    BY DEF GameInit, NoBigConfigString, Text
  <2>3. svCommands = <<>> /\ demo = <<>>
    BY DEF GameInit
  <2>4. svCommands \in Seq(ServerCommand) /\ demo \in Seq(Entry) /\ Len(demo) = 0
    BY <2>3
  <2>5. extGameState \in Blocks
    BY EmptyBlock DEF GameInit
  <2>6. mode = "menu" /\ legacy \in BOOLEAN /\ position \in Nat /\ stale \subseteq Index
    BY DEF GameInit
  <2> QED BY <1>1, <2>1, <2>2, <2>4, <2>5, <2>6 DEF GameTypes
<1>3. AllGood
  BY InitGood DEF GameInit
<1>4. mode = "menu" /\ svCommands = <<>> /\ Len(svCommands) = 0
  BY DEF GameInit
<1>5. ServerInv /\ MenuInv
  BY <1>1, <1>4 DEF ServerInv, MenuInv
<1> QED BY <1>2, <1>3, <1>4, <1>5
        DEF GameInv, LiveInv, StringsFollowServer, SystemInv, SystemInfoInForce

\* Nothing but the variables changes.
LEMMA GameKept ==
    ASSUME GameInv, UNCHANGED gameVars
    PROVE  /\ GameTypes' /\ ServerInv' /\ MenuInv' /\ LiveInv' /\ StringsFollowServer'
           /\ mode' = mode /\ \A i : CL_GetConfigString(i)' = CL_GetConfigString(i)
<1>1. GameTypes'
  BY DEF GameInv, GameTypes, gameVars
<1>2. ServerInv' /\ MenuInv'
  BY DEF GameInv, ServerInv, MenuInv, gameVars
<1>3. LiveInv'
  BY DEF GameInv, LiveInv, SlotsInv, PiecesInv, gameVars
<1>4. \A i : CL_GetConfigString(i)' = CL_GetConfigString(i)
  BY DEF CL_GetConfigString, Block, gameVars
<1>5. StringsFollowServer'
  <2>1. client' = client /\ mode' = mode /\ stale' = stale /\ legacy' = legacy
    BY DEF gameVars
  <2>2. \A i : ServerString(i, client.executed)' = ServerString(i, client.executed)
    BY DEF ServerString, gameVars
  <2> QED BY <1>4, <2>1, <2>2 DEF GameInv, StringsFollowServer
<1> QED BY <1>1, <1>2, <1>3, <1>4, <1>5 DEF gameVars

LEMMA VariablesKeep == GameInv /\ Variables => GameInv'
<1> SUFFICES ASSUME GameInv, Variables PROVE GameInv'
  OBVIOUS
<1>1. mode = "menu" /\ AllGood /\ CvarNext /\ UNCHANGED gameVars
  BY DEF Variables, GameInv, SystemInv
<1>2. AllGood'
  BY <1>1, NextGood
<1>3. SystemInv'
  BY <1>1, <1>2, GameKept DEF SystemInv, SystemInfoInForce
<1> QED BY <1>1, <1>3, GameKept DEF GameInv

LEMMA StutterKeeps == GameInv /\ UNCHANGED <<gameVars, cvarVars>> => GameInv'
<1> SUFFICES ASSUME GameInv, UNCHANGED gameVars, UNCHANGED cvarVars PROVE GameInv'
  OBVIOUS
<1>1. SystemInv'
  <2>1. UNCHANGED infoVars /\ server' = server /\ client' = client
    BY DEF infoVars, gameVars
  <2> QED BY <2>1, GameKept, SystemKept DEF GameInv
<1> QED BY <1>1, GameKept DEF GameInv

LEMMA SetConfigstringKeeps ==
    ASSUME GameInv, NEW i \in Index, NEW text \in Text, SV_SetConfigstring(i, text)
    PROVE  GameInv'
<1> DEFINE cs == Commands(i, text)
<1>1. /\ mode = "live" /\ svCommands' = svCommands \o cs
      /\ UNCHANGED <<infoVars, mode, legacy, client, extGameState, bigConfigString, server,
                     demo, position, stale>>
  BY DEF SV_SetConfigstring
<1>2. cs \in Seq(ServerCommand) /\ \A p \in 1 .. Len(cs) : Continues(cs, p)
  BY CommandsContinue
<1> HIDE DEF cs
<1>3. /\ svCommands' \in Seq(ServerCommand) /\ Len(svCommands) <= Len(svCommands')
      /\ \A n \in 1 .. Len(svCommands) : svCommands'[n] = svCommands[n]
      /\ ServerInv'
  BY <1>1, <1>2, CommandsAppended DEF GameInv
<1>4. GameTypes'
  <2>1. \A p \in 1 .. Len(demo) : demo[p].kind = "message" => demo[p].last <= Len(svCommands')
    <3> SUFFICES ASSUME NEW p \in 1 .. Len(demo), demo[p].kind = "message"
                 PROVE  demo[p].last <= Len(svCommands')
      OBVIOUS
    <3>1. demo[p] \in Entry /\ demo[p].last <= Len(svCommands)
      BY DEF GameInv, GameTypes
    <3>2. demo[p].last \in Nat
      BY <3>1 DEF Entry, Protocol
    <3>3. Len(svCommands) \in Nat /\ Len(svCommands') \in Nat
      BY <1>3 DEF GameInv, GameTypes
    <3> QED BY <1>3, <3>1, <3>2, <3>3
  <2> QED BY <1>1, <1>3, <2>1 DEF GameInv, GameTypes
<1>5. /\ client \in Client /\ client.executed \in Nat /\ client.serverCommandSequence \in Nat
      /\ client.serverCommandNum \in Nat /\ Len(svCommands) \in Nat /\ Len(svCommands') \in Nat
  BY <1>3 DEF GameInv, GameTypes, Client
<1>6. /\ server.map \in DOMAIN Maps /\ server.sequence <= client.executed
      /\ client.executed <= client.serverCommandNum
      /\ client.serverCommandNum = client.serverCommandSequence
      /\ client.serverCommandSequence <= Len(svCommands)
      /\ SlotsInv /\ PiecesInv
  BY <1>1 DEF GameInv, LiveInv
<1>7. LiveInv'
  <2>1. SlotsInv'
    <3>1. \A n \in 1 .. client.serverCommandSequence : svCommands'[n] = svCommands[n]
      BY <1>3, <1>5, <1>6
    <3> QED BY <1>1, <1>6, <3>1 DEF SlotsInv
  <2>2. PiecesInv'
    <3>1. client.executed > 0 => svCommands'[client.executed] = svCommands[client.executed]
      BY <1>3, <1>5, <1>6
    <3> QED BY <1>1, <1>6, <3>1 DEF PiecesInv
  <2>3. client.serverCommandSequence <= Len(svCommands')
    BY <1>3, <1>5, <1>6
  <2> QED BY <1>1, <1>6, <2>1, <2>2, <2>3 DEF LiveInv
<1>8. StringsFollowServer'
  <2>1. \A j \in Index : CL_GetConfigString(j)' = CL_GetConfigString(j)
    BY <1>1 DEF CL_GetConfigString, Block
  <2>2. ASSUME NEW j PROVE ServerString(j, client.executed)' = ServerString(j, client.executed)
    <3> DEFINE n == client.executed
    <3>1. n \in Nat /\ n <= Len(svCommands)
      BY <1>5, <1>6
    <3>2. PICK m \in Nat : m = client.executed /\ m <= Len(svCommands)
      BY <3>1
    <3>3. ServerString(j, m)' = ServerString(j, m)
      BY <1>1, <1>3, <3>2, ServerStringKept DEF GameInv
    <3> QED BY <1>1, <3>2, <3>3 DEF ServerString
  <2> QED BY <1>1, <2>1, <2>2 DEF GameInv, StringsFollowServer
<1>9. MenuInv'
  BY <1>1 DEF MenuInv
<1>10. SystemInv'
  <2>1. CL_GetConfigString(CS_SYSTEMINFO)' = CL_GetConfigString(CS_SYSTEMINFO)
    BY <1>1 DEF CL_GetConfigString, Block
  <2> QED BY <1>1, <2>1, SystemKept DEF GameInv
<1> QED BY <1>3, <1>4, <1>7, <1>8, <1>9, <1>10 DEF GameInv

\* What the demo holds.
DemoTypes ==
    /\ demo \in Seq(Entry)
    /\ \A p \in 1 .. Len(demo) : demo[p].kind = "message" => demo[p].last <= Len(svCommands)

LEMMA DemoAppended ==
    ASSUME DemoTypes, NEW e \in Entry, e.kind = "message" => e.last <= Len(svCommands),
           demo' = Append(demo, e), svCommands' = svCommands
    PROVE  DemoTypes'
<1>1. /\ demo' \in Seq(Entry) /\ Len(demo) \in Nat /\ Len(demo') = Len(demo) + 1
      /\ demo'[Len(demo) + 1] = e /\ \A p \in 1 .. Len(demo) : demo'[p] = demo[p]
  BY DEF DemoTypes
<1>2. ASSUME NEW p \in 1 .. Len(demo'), demo'[p].kind = "message"
      PROVE  demo'[p].last <= Len(svCommands)
  <2>1. CASE p = Len(demo) + 1
    BY <1>1, <1>2, <2>1
  <2>2. CASE p # Len(demo) + 1
    <3>1. p \in 1 .. Len(demo) /\ demo'[p] = demo[p]
      BY <1>1, <2>2
    <3> QED BY <1>2, <3>1 DEF DemoTypes
  <2> QED BY <2>1, <2>2
<1> QED BY <1>1, <1>2 DEF DemoTypes

LEMMA MessageEntry ==
    ASSUME NEW first \in Nat \ {0}, NEW last \in Nat
    PROVE  /\ Message(first, last) \in Entry
           /\ Message(first, last).kind = "message" /\ Message(first, last).last = last
  BY DEF Message, Entry

LEMMA StateEntry ==
    ASSUME NEW c \in Client, NEW strings \in Strings, NEW emptied \in SUBSET Index
    PROVE  /\ GameStateEntry(c, strings, emptied) \in Entry
           /\ GameStateEntry(c, strings, emptied).kind = "gamestate"
<1>1. c.map \in DOMAIN Maps \cup {0} /\ c.serverCommandSequence \in Nat /\ c.executed \in Nat
  BY DEF Client
<1> QED BY <1>1 DEF GameStateEntry, Entry

\* What is written are texts.
LEMMA WrittenTexts ==
    ASSUME NEW gs \in Blocks, NEW ext \in Blocks
    PROVE  Written(gs, ext) \in Strings
<1> DEFINE block(i) == IF i < MaxConfigStrings THEN gs ELSE ext
           offset(i) == block(i).stringOffsets[Place(i)]
           D == {i \in Index : offset(i) # 0 /\ (legacy => i < MaxConfigStrings)}
           w == [i \in D |-> StringAt(block(i), offset(i))]
<1>1. ASSUME NEW i \in Index PROVE StringAt(block(i), offset(i)) \in Text
  <2>1. block(i) \in Blocks /\ Place(i) \in 0 .. MaxConfigStrings - 1
    BY GameConstants
  <2> DEFINE b == block(i)
             o == b.stringOffsets[Place(i)]
  <2> HIDE DEF block
  <2>2. b.stringOffsets \in [0 .. MaxConfigStrings - 1 -> 0 .. Capacity - 1]
    BY <2>1 DEF Blocks
  <2>3. b \in Blocks /\ o \in 0 .. Capacity - 1
    BY <2>1, <2>2
  <2> HIDE DEF b, o
  <2>4. StringAt(b, o) \in Text
    BY <2>3, StringTyped DEF Text
  <2> QED BY <2>4 DEF b, o
<1>2. Written(gs, ext) = w
  BY DEF Written
<1>3. w \in [D -> Text] /\ D \in SUBSET Index
  <2> HIDE DEF block, offset
  <2> QED BY <1>1
<1> HIDE DEF D, w
<1> QED BY <1>2, <1>3 DEF Strings

LEMMA PacketKeeps ==
    ASSUME GameInv, NEW first, NEW full, CL_PacketEvent(first, full)
    PROVE  GameInv'
<1> DEFINE last == Len(svCommands)
           writes == recording = "yes" \/ (recording = "waiting" /\ full)
<1>1. /\ mode = "live" /\ first \in server.first .. client.serverCommandSequence + 1
      /\ server' = [server EXCEPT !.first = first]
      /\ CL_ParseServerMessage(first, last)
      /\ demo' = IF writes THEN Append(demo, Message(first, last)) ELSE demo
      /\ UNCHANGED <<infoVars, mode, legacy, extGameState, bigConfigString, svCommands, position, stale>>
  BY DEF CL_PacketEvent
<1>2. /\ server \in [map : DOMAIN Maps \cup {0}, sequence : Nat, first : Nat \ {0}, local : BOOLEAN]
      /\ client \in Client /\ client.serverCommandSequence \in Nat /\ client.executed \in Nat
      /\ svCommands \in Seq(ServerCommand) /\ last \in Nat /\ GameTypes /\ ServerInv /\ DemoTypes
  <2>1. client \in Client /\ GameTypes /\ ServerInv /\ svCommands \in Seq(ServerCommand)
    BY DEF GameInv, GameTypes
  <2>2. server \in [map : DOMAIN Maps \cup {0}, sequence : Nat, first : Nat \ {0}, local : BOOLEAN]
    BY <2>1 DEF GameTypes
  <2>3. DemoTypes
    BY <2>1 DEF GameTypes, DemoTypes
  <2>4. client.serverCommandSequence \in Nat /\ client.executed \in Nat
    BY <2>1 DEF Client
  <2> QED BY <2>1, <2>2, <2>3, <2>4
<1>3. first \in Nat \ {0} /\ first <= client.serverCommandSequence + 1
  BY <1>1, <1>2
<1>4. /\ server.map \in DOMAIN Maps /\ server.sequence <= client.executed
      /\ client.executed <= client.serverCommandNum
      /\ client.serverCommandNum = client.serverCommandSequence
      /\ client.serverCommandSequence <= last
      /\ SlotsInv /\ PiecesInv
  BY <1>1 DEF GameInv, LiveInv
<1>5. client'.serverCommandSequence = last /\ client'.serverCommandNum = last /\ SlotsInv'
  <2>1. last = Len(svCommands) /\ svCommands' = svCommands
    BY <1>1
  <2> HIDE DEF last
  <2> QED BY <1>1, <1>2, <1>3, <1>4, <2>1, SlotsFilled
<1>6. /\ client' \in Client /\ client'.executed = client.executed
      /\ client'.gameState = client.gameState /\ client'.map = client.map
  <2>1. last <= Len(svCommands)
    BY <1>2
  <2> HIDE DEF last
  <2>2. /\ client' \in Client
        /\ client' = [client EXCEPT !.serverCommands = client'.serverCommands,
                        !.serverCommandSequence = Received(first, last),
                        !.serverCommandNum = Received(first, last)]
    BY <1>1, <1>2, <1>3, <2>1, MessageParsed
  <2> QED BY <1>2, <2>2 DEF Client
<1>7. DemoTypes'
  <2>1. CASE writes
    <3> DEFINE e == Message(first, last)
    <3>1. e \in Entry /\ e.last <= Len(svCommands)
      <4>1. last <= Len(svCommands)
        BY <1>2
      <4> HIDE DEF last
      <4> QED BY <1>2, <1>3, <4>1, MessageEntry
    <3>2. demo' = Append(demo, e) /\ svCommands' = svCommands
      BY <1>1, <2>1
    <3> HIDE DEF e
    <3> QED BY <1>2, <3>1, <3>2, DemoAppended
  <2>2. CASE ~ writes
    <3>1. demo' = demo /\ svCommands' = svCommands
      BY <1>1, <2>2
    <3> QED BY <1>2, <3>1 DEF DemoTypes
  <2> QED BY <2>1, <2>2
<1>8. server' \in [map : DOMAIN Maps \cup {0}, sequence : Nat, first : Nat \ {0}, local : BOOLEAN]
      /\ server'.map = server.map /\ server'.sequence = server.sequence
  BY <1>1, <1>2, <1>3
<1>9. GameTypes'
  BY <1>1, <1>2, <1>6, <1>7, <1>8 DEF GameTypes, DemoTypes
<1>10. LiveInv'
  <2>1. PiecesInv'
    BY <1>1, <1>4, <1>6 DEF PiecesInv
  <2>2. client'.executed <= client'.serverCommandNum
    BY <1>2, <1>4, <1>5, <1>6
  <2>3. server'.sequence <= client'.executed /\ client'.serverCommandSequence <= Len(svCommands')
    BY <1>1, <1>2, <1>4, <1>5, <1>6, <1>8
  <2> QED BY <1>4, <1>5, <1>8, <2>1, <2>2, <2>3 DEF LiveInv
<1>11. \A i : CL_GetConfigString(i)' = CL_GetConfigString(i)
  BY <1>1, <1>6, StringsKept
<1>12. StringsFollowServer'
  <2>1. \A i : ServerString(i, client.executed)' = ServerString(i, client.executed)
    BY <1>1, <1>6, <1>8 DEF ServerString
  <2> QED BY <1>1, <1>6, <1>11, <2>1 DEF GameInv, StringsFollowServer
<1>13. ServerInv' /\ MenuInv'
  BY <1>1, <1>2 DEF ServerInv, MenuInv
<1>14. SystemInv'
  <2>1. server'.local = server.local
    BY <1>1, <1>2
  <2> QED BY <1>1, <1>6, <1>11, <2>1, SystemKept DEF GameInv
<1> QED BY <1>9, <1>10, <1>12, <1>13, <1>14 DEF GameInv

LEMMA RecordKeeps == GameInv /\ CL_Record_f => GameInv'
<1> SUFFICES ASSUME GameInv, CL_Record_f PROVE GameInv'
  OBVIOUS
<1> DEFINE emptied == {i \in DOMAIN Defaults : CL_GetConfigString(i) = <<>>}
           entry == GameStateEntry(client, Written(client.gameState, extGameState), emptied)
<1>1. /\ demo' = (IF legacy THEN <<>> ELSE <<Protocol>>) \o <<entry>>
      /\ UNCHANGED <<infoVars, mode, legacy, client, extGameState, bigConfigString, server, svCommands,
                     position, stale>>
  BY DEF CL_Record_f
<1>2. entry \in Entry /\ entry.kind = "gamestate"
  <2> DEFINE strings == Written(client.gameState, extGameState)
  <2>1. emptied \in SUBSET Index
    BY GameStateAssumption
  <2>2. client \in Client /\ client.gameState \in Blocks /\ extGameState \in Blocks
    BY DEF GameInv, GameTypes, Client
  <2>3. strings \in Strings
    BY <2>2, WrittenTexts
  <2> HIDE DEF emptied, strings
  <2> QED BY <2>1, <2>2, <2>3, StateEntry DEF strings
<1> HIDE DEF entry
<1>3. DemoTypes'
  <2>1. Protocol \in Entry /\ Protocol.kind = "protocol"
    BY DEF Protocol, Entry
  <2>2. CASE legacy
    <3>1. demo' = <<entry>>
      BY <1>1, <2>2
    <3> QED BY <1>2, <3>1 DEF DemoTypes
  <2>3. CASE ~ legacy
    <3> DEFINE a == <<Protocol>>
               b == <<entry>>
    <3>1. /\ a \in Seq(Entry) /\ Len(a) = 1 /\ a[1] = Protocol
          /\ b \in Seq(Entry) /\ Len(b) = 1 /\ b[1] = entry
          /\ demo' = a \o b
      BY <1>1, <1>2, <2>1, <2>3
    <3> HIDE DEF a, b
    <3>2. demo' \in Seq(Entry) /\ Len(demo') = 2 /\ demo'[1] = Protocol /\ demo'[2] = entry
      BY <3>1, ConcatProperties
    <3>3. \A p \in 1 .. Len(demo') : demo'[p].kind # "message"
      BY <1>2, <2>1, <3>2
    <3> QED BY <3>2, <3>3 DEF DemoTypes
  <2> QED BY <2>2, <2>3
<1>4. GameTypes'
  BY <1>1, <1>3 DEF GameInv, GameTypes, DemoTypes
<1>5. ServerInv' /\ MenuInv' /\ LiveInv'
  BY <1>1 DEF GameInv, ServerInv, MenuInv, LiveInv, SlotsInv, PiecesInv
<1>6. \A i : CL_GetConfigString(i)' = CL_GetConfigString(i)
  BY <1>1, StringsKept
<1>7. StringsFollowServer'
  <2>1. \A i : ServerString(i, client.executed)' = ServerString(i, client.executed)
    BY <1>1 DEF ServerString
  <2> QED BY <1>1, <1>6, <2>1 DEF GameInv, StringsFollowServer
<1>8. SystemInv'
  BY <1>1, <1>6, SystemKept DEF GameInv
<1> QED BY <1>4, <1>5, <1>7, <1>8 DEF GameInv

-----------------------------------------------------------------------------
(* Demos and game states *)

LEMMA PlayKeeps ==
    ASSUME GameInv, NEW newProcess, CL_PlayDemo(newProcess)
    PROVE  GameInv'
<1>1. /\ mode = "live" /\ mode' = "replay" /\ legacy' = TRUE
      /\ client' = NoClient /\ stale' = {} /\ server' = NoServer
      /\ UNCHANGED <<infoVars, svCommands, demo, position>>
  BY DEF CL_PlayDemo
<1>2. extGameState' \in {EmptyGameState, extGameState}
      /\ bigConfigString' \in {NoBigConfigString, bigConfigString}
  BY DEF CL_PlayDemo
<1>3. NoClient \in Client /\ NoClient.gameState = EmptyGameState
  <2> DEFINE slots == [slot \in 0 .. Slots - 1 |-> [cmd |-> "none"]]
             block == EmptyGameState
  <2>1. slots \in [0 .. Slots - 1 -> ServerCommand \cup {NoCommand}] /\ block \in Blocks
    BY EmptyBlock DEF NoCommand
  <2>2. NoClient = [map |-> 0, gameState |-> block, serverCommandSequence |-> 0, serverCommandNum |-> 0,
                    serverCommands |-> slots, executed |-> 0]
    BY DEF NoClient
  <2> HIDE DEF slots, block
  <2>3. NoClient \in Client /\ NoClient.gameState = block
    BY <2>1, <2>2 DEF Client
  <2> QED BY <2>3 DEF block
<1>4. GameTypes'
  <2>1. extGameState' \in Blocks
    BY <1>2, EmptyBlock DEF GameInv, GameTypes
  <2>2. bigConfigString' \in [index : Index \cup {-1}, text : Text]
    <3>1. NoBigConfigString \in [index : Index \cup {-1}, text : Text]
      BY DEF NoBigConfigString, Text
    <3> QED BY <1>2, <3>1 DEF GameInv, GameTypes
  <2>3. NoServer \in [map : DOMAIN Maps \cup {0}, sequence : Nat, first : Nat \ {0}, local : BOOLEAN]
    BY DEF NoServer
  <2> QED BY <1>1, <1>3, <2>1, <2>2, <2>3 DEF GameInv, GameTypes
<1>5. ServerInv' /\ MenuInv' /\ LiveInv' /\ StringsFollowServer'
  BY <1>1 DEF GameInv, ServerInv, MenuInv, LiveInv, StringsFollowServer
<1>6. CL_GetConfigString(CS_SYSTEMINFO)' = <<>>
  <2> DEFINE one == CS_SYSTEMINFO
             block == EmptyGameState
  <2>1. one < MaxConfigStrings /\ Place(one) \in 0 .. MaxConfigStrings - 1
    BY GameConstants
  <2>2. block \in Blocks /\ block.stringOffsets[Place(one)] = 0 /\ StringAt(block, 0) = <<>>
    BY <2>1, EmptyBlock, NoOffset
  <2>3. client'.gameState = block
    BY <1>1, <1>3
  <2> HIDE DEF block, one
  <2> QED BY <2>1, <2>2, <2>3 DEF CL_GetConfigString, Block, one
<1>7. SystemInv'
  <2>1. client'.map = 0 /\ server'.local = FALSE
    BY <1>1 DEF NoClient, NoServer
  <2>2. InForce /\ (Text \subseteq Texts => AllGood) /\ cvar' = cvar /\ cvar_cheats' = cvar_cheats
    BY <1>1 DEF GameInv, SystemInv, infoVars, cvarVars
  <2>3. InForce' /\ (Text \subseteq Texts => AllGood')
    BY <2>2 DEF InForce, AllGood
  <2>4. SystemInfoInForce'
    BY <1>1, <1>6, <2>1 DEF SystemInfoInForce
  <2> QED BY <1>1, <2>1, <2>3, <2>4 DEF SystemInv
<1> QED BY <1>4, <1>5, <1>7 DEF GameInv

LEMMA ReadKeeps == GameInv /\ CL_ReadDemoMessage => GameInv'
<1> SUFFICES ASSUME GameInv, CL_ReadDemoMessage PROVE GameInv'
  OBVIOUS
<1> DEFINE entry == demo[position + 1]
<1>1. /\ mode = "replay" /\ position < Len(demo) /\ position' = position + 1
      /\ UNCHANGED <<bigConfigString, server, svCommands, demo>>
      /\ entry.kind = "protocol" =>
           legacy' = FALSE /\ UNCHANGED <<mode, client, extGameState, infoVars, stale>>
      /\ entry.kind = "gamestate" =>
           legacy' = legacy /\ CL_ParseGamestate(entry.map, entry.sequence, entry.strings, FALSE)
      /\ entry.kind = "message" =>
           /\ CL_ParseServerMessage(entry.first, entry.last)
           /\ UNCHANGED <<mode, legacy, extGameState, infoVars, stale>>
  BY DEF CL_ReadDemoMessage
<1>2. GameTypes /\ ServerInv /\ SystemInv /\ position \in Nat /\ legacy \in BOOLEAN
  BY DEF GameInv, GameTypes
<1>3. entry \in Entry /\ (entry.kind = "message" => entry.last <= Len(svCommands))
  <2>1. position + 1 \in 1 .. Len(demo)
    BY <1>1, <1>2 DEF GameTypes
  <2> QED BY <1>2, <2>1 DEF GameTypes
<1> HIDE DEF entry
\* It is enough that the client has its type, and that the variables are as they should be.
<1>4. ASSUME mode' \in {"replay", "over"}, legacy' \in BOOLEAN,
             client' \in Client, extGameState' \in Blocks, stale' \subseteq Index,
             mode' # "over" => InForce' /\ SystemInfoInForce',
             Text \subseteq Texts => AllGood'
      PROVE  GameInv'
  <2>1. GameTypes'
    BY <1>1, <1>2, <1>4 DEF GameTypes
  <2>2. ServerInv' /\ MenuInv' /\ LiveInv' /\ StringsFollowServer'
    BY <1>1, <1>2, <1>4 DEF ServerInv, MenuInv, LiveInv, StringsFollowServer
  <2>3. SystemInv'
    <3>1. server'.local = FALSE
      BY <1>1, <1>2 DEF SystemInv
    <3>2. mode' = "over" => SystemInfoInForce'
      BY DEF SystemInfoInForce
    <3> QED BY <1>4, <3>1, <3>2 DEF SystemInv
  <2> QED BY <2>1, <2>2, <2>3 DEF GameInv
\* When the blocks and the variables do not change, the variables are.
<1>5. ASSUME client'.gameState = client.gameState, client'.map = client.map,
             UNCHANGED <<mode, extGameState, infoVars>>
      PROVE  InForce' /\ SystemInfoInForce' /\ (Text \subseteq Texts => AllGood')
  <2>1. \A i : CL_GetConfigString(i)' = CL_GetConfigString(i)
    BY <1>5, StringsKept
  <2>2. SystemInv'
    BY <1>1, <1>2, <1>5, <2>1, SystemKept
  <2> QED BY <1>1, <1>5, <2>2 DEF SystemInv
<1>6. CASE entry.kind = "protocol"
  <2>1. legacy' = FALSE /\ UNCHANGED <<mode, client, extGameState, infoVars, stale>>
    BY <1>1, <1>6
  <2> QED BY <1>1, <1>2, <1>4, <1>5, <2>1 DEF GameTypes
<1>7. CASE entry.kind = "gamestate"
  <2>1. legacy' = legacy /\ CL_ParseGamestate(entry.map, entry.sequence, entry.strings, FALSE)
    BY <1>1, <1>7
  <2>2. entry.map \in DOMAIN Maps \cup {0} /\ entry.sequence \in Nat /\ entry.strings \in Strings
    BY <1>3, <1>7 DEF Entry, Protocol
  <2>3. InForce
    BY <1>1, <1>2 DEF SystemInv
  <2>4. /\ mode' \in {"replay", "over"}
        /\ client' \in Client /\ extGameState' \in Blocks /\ stale' \subseteq Index
        /\ mode' # "over" => InForce' /\ SystemInfoInForce'
    <3>1. server'.local = FALSE
      BY <1>1, <1>2 DEF SystemInv
    <3> QED BY <1>1, <1>2, <2>1, <2>2, <2>3, <3>1, GameStateParsed
  <2>5. Text \subseteq Texts => AllGood'
    BY <1>2, <2>1, <2>2, ParsedGood DEF SystemInv
  <2> QED BY <1>2, <1>4, <2>1, <2>4, <2>5
<1>8. CASE entry.kind = "message"
  <2>1. /\ CL_ParseServerMessage(entry.first, entry.last)
        /\ UNCHANGED <<mode, legacy, extGameState, infoVars, stale>>
    BY <1>1, <1>8
  <2>2. entry.first \in Nat \ {0} /\ entry.last \in Nat /\ entry.last <= Len(svCommands)
    BY <1>3, <1>8 DEF Entry, Protocol
  <2>3. /\ client' \in Client
        /\ client' = [client EXCEPT !.serverCommands = client'.serverCommands,
                        !.serverCommandSequence = Received(entry.first, entry.last),
                        !.serverCommandNum = Received(entry.first, entry.last)]
    BY <1>2, <2>1, <2>2, MessageParsed
  <2>4. client'.gameState = client.gameState /\ client'.map = client.map
    BY <1>2, <2>3 DEF GameTypes, Client
  <2> QED BY <1>1, <1>2, <1>4, <1>5, <2>1, <2>3, <2>4 DEF GameTypes
<1>9. entry.kind \in {"protocol", "gamestate", "message"}
  BY <1>3 DEF Entry, Protocol
<1> QED BY <1>6, <1>7, <1>8, <1>9

LEMMA SentTexts ==
    ASSUME NEW m \in DOMAIN Maps, NEW isLegacy
    PROVE  /\ Sent(m, isLegacy) \in Strings
           /\ \A i \in Index : (isLegacy => i < MaxConfigStrings) =>
                Maps[m][i] = IF i \in DOMAIN WithDefaults(Sent(m, isLegacy))
                             THEN WithDefaults(Sent(m, isLegacy))[i] ELSE <<>>
<1> DEFINE D == {i \in Index : Maps[m][i] # Default(i) /\ (isLegacy => i < MaxConfigStrings)}
           sent == [i \in D |-> Maps[m][i]]
<1>1. Sent(m, isLegacy) = sent
  BY DEF Sent
<1>2. \A i \in Index : Maps[m][i] \in Text
  BY GameStateAssumption DEF Text
<1>3. sent \in [D -> Text] /\ D \in SUBSET Index /\ DOMAIN sent = D
  BY <1>2
<1>4. \A i \in D : sent[i] = Maps[m][i]
  OBVIOUS
<1>5. \A i \in Index : (isLegacy => i < MaxConfigStrings) =>
         i \in D \/ Maps[m][i] = IF i \in DOMAIN Defaults THEN Defaults[i] ELSE <<>>
  BY DEF Default
<1> HIDE DEF D, sent
<1>6. sent \in Strings
  BY <1>3 DEF Strings
<1>7. \A i \in Index : (isLegacy => i < MaxConfigStrings) =>
         Maps[m][i] = IF i \in DOMAIN WithDefaults(sent) THEN WithDefaults(sent)[i] ELSE <<>>
  <2> DEFINE texts == WithDefaults(sent)
  <2>1. /\ DOMAIN texts = D \cup DOMAIN Defaults
        /\ \A i \in DOMAIN texts : texts[i] = IF i \in D THEN sent[i] ELSE Defaults[i]
    BY <1>3, <1>6, DefaultTexts
  <2> HIDE DEF texts
  <2>2. ASSUME NEW i \in Index, isLegacy => i < MaxConfigStrings
        PROVE  Maps[m][i] = IF i \in DOMAIN texts THEN texts[i] ELSE <<>>
    <3>1. CASE i \in D
      BY <1>4, <2>1, <3>1
    <3>2. CASE i \notin D
      BY <1>5, <2>1, <2>2, <3>2
    <3> QED BY <3>1, <3>2
  <2> QED BY <2>2 DEF texts
<1> QED BY <1>1, <1>6, <1>7

LEMMA MapKeeps ==
    ASSUME GameInv, NEW isLegacy \in BOOLEAN, NEW local \in BOOLEAN, NewMap(isLegacy, local)
    PROVE  GameInv'
<1> DEFINE m == server.map + 1
           l == Len(svCommands)
           sent == Sent(m, isLegacy)
           written == IF isLegacy THEN sent ELSE Written(client'.gameState, extGameState')
<1>1. /\ mode \in {"menu", "live"} /\ m \in DOMAIN Maps
      /\ mode = "menu" => cvar[SystemVariable].type # "enum"
      /\ mode = "live" => client.executed = l
      /\ legacy' = isLegacy
      /\ server' = [server EXCEPT !.map = m, !.sequence = l, !.local = local]
      /\ CL_ParseGamestate(m, l, sent, local)
      /\ demo' = IF recording = "yes" /\ mode' = "live"
                 THEN Append(demo, GameStateEntry(client', written, {})) ELSE demo
      /\ UNCHANGED <<bigConfigString, svCommands, position>>
  BY DEF NewMap
<1>2. /\ GameTypes /\ ServerInv /\ DemoTypes /\ SystemInv /\ client \in Client /\ l \in Nat
      /\ client.executed \in Nat /\ client.serverCommandNum \in Nat /\ client.serverCommandSequence \in Nat
      /\ server \in [map : DOMAIN Maps \cup {0}, sequence : Nat, first : Nat \ {0}, local : BOOLEAN]
  BY DEF GameInv, GameTypes, Client, DemoTypes
<1>3. sent \in Strings
  BY <1>1, SentTexts
<1>4. InForce
  <2>1. CASE mode = "menu"
    <3>1. AllGood /\ SystemVariable \in Names
      BY <1>2, <2>1, GameStateAssumption DEF SystemInv
    <3> DEFINE v == cvar[SystemVariable]
    <3>2. v \in Variable /\ v.type # "enum"
      BY <1>1, <2>1, <3>1 DEF AllGood, Good
    <3> HIDE DEF v
    <3>3. Whole(v) /\ v.type \in {"none", "string"}
      BY <3>2 DEF Variable, Whole
    <3> QED BY <3>1, <3>3 DEF AllGood, InForce, v
  <2>2. CASE mode = "live"
    BY <1>2, <2>2 DEF SystemInv
  <2> QED BY <1>1, <2>1, <2>2
<1> HIDE DEF sent, m, l
<1>5. /\ mode' \in {"live", "replay", "over"}
      /\ client' \in Client /\ extGameState' \in Blocks /\ stale' \subseteq Index
      /\ mode' # "over" =>
           /\ mode' = IF mode = "menu" THEN "live" ELSE mode
           /\ client' = [client EXCEPT !.map = m, !.gameState = client'.gameState,
                           !.serverCommandSequence = l, !.serverCommandNum = client.executed]
           /\ \A i \in Index \ stale' : (legacy' => i < MaxConfigStrings) =>
                CL_GetConfigString(i)' =
                   IF i \in DOMAIN WithDefaults(sent) THEN WithDefaults(sent)[i] ELSE <<>>
           /\ InForce' /\ SystemInfoInForce'
  <2>1. m \in DOMAIN Maps \cup {0} /\ mode \in {"menu", "live", "replay"} /\ legacy' \in BOOLEAN
        /\ mode # "replay"
    BY <1>1
  <2>2. server'.local = local
    BY <1>1, <1>2
  <2> QED BY <1>1, <1>2, <1>3, <1>4, <2>1, <2>2, GameStateParsed
<1>6. mode' \in {"live", "over"}
  BY <1>1, <1>5
<1>7. Text \subseteq Texts => AllGood'
  BY <1>1, <1>2, <1>3, ParsedGood DEF SystemInv
<1>8. DemoTypes'
  <2>1. CASE recording = "yes" /\ mode' = "live"
    <3> DEFINE e == GameStateEntry(client', written, {})
    <3>1. written \in Strings
      <4>1. client'.gameState \in Blocks
        BY <1>5 DEF Client
      <4> QED BY <1>3, <1>5, <4>1, WrittenTexts
    <3>2. e \in Entry /\ e.kind = "gamestate"
      <4>1. {} \in SUBSET Index
        OBVIOUS
      <4> HIDE DEF written
      <4> QED BY <1>5, <3>1, <4>1, StateEntry
    <3>3. demo' = Append(demo, e) /\ svCommands' = svCommands
      BY <1>1, <2>1
    <3> HIDE DEF e
    <3> QED BY <1>2, <3>2, <3>3, DemoAppended
  <2>2. CASE ~ (recording = "yes" /\ mode' = "live")
    <3>1. demo' = demo /\ svCommands' = svCommands
      BY <1>1, <2>2
    <3> QED BY <1>2, <3>1 DEF DemoTypes
  <2> QED BY <2>1, <2>2
<1>9. /\ server' \in [map : DOMAIN Maps \cup {0}, sequence : Nat, first : Nat \ {0}, local : BOOLEAN]
      /\ server'.map = m /\ server'.sequence = l
  BY <1>1, <1>2
<1>10. GameTypes'
  BY <1>1, <1>2, <1>5, <1>6, <1>8, <1>9 DEF GameTypes, DemoTypes
<1>11. ServerInv' /\ MenuInv'
  BY <1>1, <1>2, <1>6 DEF ServerInv, MenuInv
<1>12. client.executed = l
  BY <1>1 DEF GameInv, MenuInv, l
<1>13. ASSUME mode' = "live"
       PROVE  LiveInv' /\ StringsFollowServer'
  <2>1. /\ client'.executed = l /\ client'.serverCommandNum = l /\ client'.serverCommandSequence = l
        /\ client'.serverCommands = client.serverCommands
    BY <1>2, <1>5, <1>12, <1>13 DEF Client
  <2>2. SlotsInv'
    <3>1. CASE mode = "menu"
      <4>1. l = 0
        BY <3>1 DEF GameInv, MenuInv, l
      <4> QED BY <2>1, <4>1 DEF SlotsInv
    <3>2. CASE mode = "live"
      <4>1. /\ client.executed <= client.serverCommandNum
            /\ client.serverCommandNum = client.serverCommandSequence
            /\ client.serverCommandSequence <= l /\ SlotsInv
        BY <3>2 DEF GameInv, LiveInv, l
      <4>2. client.serverCommandSequence = l
        BY <1>2, <1>12, <4>1
      <4> QED BY <1>1, <2>1, <4>1, <4>2 DEF SlotsInv
    <3> QED BY <1>1, <3>1, <3>2
  <2>3. PiecesInv'
    <3>1. CASE mode = "menu"
      <4>1. l = 0
        BY <3>1 DEF GameInv, MenuInv, l
      <4> QED BY <2>1, <4>1 DEF PiecesInv
    <3>2. CASE mode = "live"
      <4>1. PiecesInv
        BY <3>2 DEF GameInv, LiveInv
      <4> QED BY <1>1, <1>12, <2>1, <4>1 DEF PiecesInv
    <3> QED BY <1>1, <3>1, <3>2
  <2>4. LiveInv'
    <3>1. Len(svCommands') = l
      BY <1>1 DEF l
    <3> QED BY <1>1, <1>2, <1>9, <2>1, <2>2, <2>3, <3>1 DEF LiveInv
  <2>5. ASSUME NEW i \in Index \ stale', legacy' => i < MaxConfigStrings
        PROVE  CL_GetConfigString(i)' = ServerString(i, client.executed)'
    <3>1. CL_GetConfigString(i)' = Maps[m][i]
      <4>1. Maps[m][i] = IF i \in DOMAIN WithDefaults(sent) THEN WithDefaults(sent)[i] ELSE <<>>
        BY <1>1, <2>5, SentTexts DEF sent
      <4> QED BY <1>5, <1>13, <2>5, <4>1
    <3>2. ServerString(i, client.executed)' = Maps[m][i]
      <4>1. l + 1 .. l = {}
        BY <1>2
      <4> QED BY <1>9, <2>1, <4>1 DEF ServerString
    <3> QED BY <3>1, <3>2
  <2>6. StringsFollowServer'
    BY <2>5 DEF StringsFollowServer
  <2> QED BY <2>4, <2>6
<1>14. LiveInv' /\ StringsFollowServer'
  BY <1>13 DEF LiveInv, StringsFollowServer
<1>15. SystemInv'
  BY <1>5, <1>6, <1>7 DEF SystemInv, SystemInfoInForce
<1> QED BY <1>10, <1>11, <1>14, <1>15 DEF GameInv

-----------------------------------------------------------------------------
(* What a demo holds *)

\* Where its first game state is: behind the protocol, which those of the x-protocol name.
Opening(d) == IF d[1].kind = "protocol" THEN 2 ELSE 1

StatesOf(d) == {p \in 1 .. Len(d) : d[p].kind = "gamestate"}
Newest(d) == Max(StatesOf(d))

\* The last command of a player who has read entry p and all before it.
Reaches(d, p) == IF d[p].kind = "gamestate" THEN d[p].sequence ELSE d[p].last

\* The first command that the messages bring.
Lowest(d) ==
    IF d[Opening(d) + 1].first > d[Opening(d)].sequence THEN d[Opening(d) + 1].first
    ELSE d[Opening(d)].sequence + 1

\* The commands that a player receives after the last game state.
Carried(d) ==
    {n \in UNION {d[p].first .. d[p].last : p \in {p \in Newest(d) .. Len(d) : d[p].kind = "message"}} :
        n > d[Newest(d)].sequence}

\* The first game state is followed by a message.
Headed(d) ==
    /\ Opening(d) \in 1 .. Len(d) /\ d[Opening(d)].kind = "gamestate"
    /\ \A p \in 1 .. Len(d) : d[p].kind = "protocol" <=> p < Opening(d)
    /\ Opening(d) < Len(d) =>
         /\ d[Opening(d) + 1].kind = "message"
         /\ d[Opening(d) + 1].first <= d[Opening(d) + 1].last + 1

\* Messages follow each other without a gap, from the first of them on.
Gapless(d) ==
    /\ \A p \in Opening(d) + 1 .. Len(d) :
         d[p].kind = "message" => d[Opening(d) + 1].first <= d[p].first
    /\ \A p \in Opening(d) + 2 .. Len(d) :
         IF d[p].kind = "message" THEN d[p].first <= Reaches(d, p - 1) + 1
         ELSE d[p].sequence = Reaches(d, p - 1)
    /\ \A p, q \in Opening(d) .. Len(d) : p <= q => Reaches(d, p) <= Reaches(d, q)

\* Maps follow each other.
MapsRise(d) ==
    /\ \A p \in StatesOf(d) : d[p].map \in Nat \ {0} /\ d[p].executed <= d[p].sequence
    /\ \A p, q \in StatesOf(d) : p < q => d[p].map < d[q].map

\* What is carried has no gap either.
CarriedAll(d) ==
    \A n : n \in Carried(d) <=>
        Len(d) > Opening(d) /\ n \in Lowest(d) .. Reaches(d, Len(d)) /\ n > d[Newest(d)].sequence

Ordered(d) == Headed(d) /\ Gapless(d) /\ MapsRise(d) /\ CarriedAll(d)

\* The fields of an entry.
LEMMA EntryFields ==
    ASSUME NEW e \in Entry
    PROVE  /\ e.kind \in {"protocol", "gamestate", "message"}
           /\ e.kind = "gamestate" =>
                /\ e.map \in DOMAIN Maps \cup {0} /\ e.sequence \in Nat /\ e.strings \in Strings
                /\ e.executed \in Nat /\ e.emptied \in SUBSET Index
           /\ e.kind = "message" => e.first \in Nat \ {0} /\ e.last \in Nat
  BY DEF Entry, Protocol

\* Where things are, in a demo.
LEMMA DemoPlaces ==
    ASSUME NEW d \in Seq(Entry), Headed(d)
    PROVE  /\ Len(d) \in Nat /\ Opening(d) \in {1, 2} /\ Opening(d) <= Len(d)
           /\ StatesOf(d) \subseteq Opening(d) .. Len(d) /\ Opening(d) \in StatesOf(d)
           /\ Newest(d) \in StatesOf(d) /\ Newest(d) \in Opening(d) .. Len(d)
           /\ \A p \in StatesOf(d) : p <= Newest(d)
           /\ \A p \in Opening(d) .. Len(d) :
                /\ d[p] \in Entry /\ d[p].kind \in {"gamestate", "message"}
                /\ Reaches(d, p) \in Nat
           /\ Opening(d) < Len(d) =>
                /\ d[Opening(d) + 1].kind = "message" /\ d[Opening(d) + 1].first \in Nat \ {0}
                /\ Lowest(d) \in Nat \ {0} /\ d[Opening(d)].sequence < Lowest(d)
                /\ d[Opening(d) + 1].first <= Lowest(d)
           /\ d[Opening(d)].sequence \in Nat /\ d[Newest(d)].sequence \in Nat
<1>1. Len(d) \in Nat /\ Opening(d) \in {1, 2} /\ Opening(d) <= Len(d)
  BY DEF Opening, Headed
<1>2. \A p \in Opening(d) .. Len(d) : d[p] \in Entry /\ p \in 1 .. Len(d) /\ d[p].kind \in {"gamestate", "message"}
  <2> SUFFICES ASSUME NEW p \in Opening(d) .. Len(d)
               PROVE  d[p] \in Entry /\ p \in 1 .. Len(d) /\ d[p].kind \in {"gamestate", "message"}
    OBVIOUS
  <2>1. p \in 1 .. Len(d) /\ ~ (p < Opening(d))
    BY <1>1
  <2>2. d[p] \in Entry
    BY <2>1
  <2> QED BY <2>1, <2>2, EntryFields DEF Headed
<1>3. \A p \in Opening(d) .. Len(d) : Reaches(d, p) \in Nat
  BY <1>2, EntryFields DEF Reaches
<1>4. StatesOf(d) \subseteq Opening(d) .. Len(d) /\ Opening(d) \in StatesOf(d)
  <2>1. ASSUME NEW p \in StatesOf(d) PROVE p \in Opening(d) .. Len(d)
    <3>1. p \in 1 .. Len(d) /\ d[p].kind # "protocol"
      BY <2>1 DEF StatesOf
    <3> QED BY <1>1, <3>1 DEF Headed
  <2> QED BY <2>1 DEF StatesOf, Headed
<1>5. Newest(d) \in StatesOf(d) /\ \A p \in StatesOf(d) : Newest(d) >= p
  <2> DEFINE S == StatesOf(d)
             b == Len(d)
  <2>1. S \in SUBSET Nat /\ S # {} /\ b \in Nat /\ \A p \in S : p <= b
    BY <1>1, <1>4
  <2> HIDE DEF S, b
  <2>2. Max(S) \in S /\ \A p \in S : Max(S) >= p
    BY <2>1, MaxExists
  <2> QED BY <2>2 DEF Newest, S
<1>6. \A p \in StatesOf(d) : p <= Newest(d)
  BY <1>1, <1>4, <1>5
<1>7. d[Opening(d)].sequence \in Nat /\ d[Newest(d)].sequence \in Nat
  BY <1>2, <1>4, <1>5, EntryFields DEF StatesOf
<1>8. ASSUME Opening(d) < Len(d)
      PROVE  /\ d[Opening(d) + 1].kind = "message" /\ d[Opening(d) + 1].first \in Nat \ {0}
             /\ Lowest(d) \in Nat \ {0} /\ d[Opening(d)].sequence < Lowest(d)
             /\ d[Opening(d) + 1].first <= Lowest(d)
  <2>1. d[Opening(d) + 1].kind = "message" /\ Opening(d) + 1 \in Opening(d) .. Len(d)
    BY <1>1, <1>8 DEF Headed
  <2>2. d[Opening(d) + 1].first \in Nat \ {0}
    BY <1>2, <2>1, EntryFields
  <2> QED BY <1>7, <2>1, <2>2 DEF Lowest
<1> QED BY <1>1, <1>2, <1>3, <1>4, <1>5, <1>6, <1>7, <1>8

\* The demo w is d and then the entry e.
Longer(d, e, w) ==
    /\ w \in Seq(Entry) /\ Len(w) = Len(d) + 1 /\ w[Len(w)] = e
    /\ \A p \in 1 .. Len(d) : w[p] = d[p]

\* So is a demo that an entry is appended to.
LEMMA AppendIsLonger ==
    ASSUME NEW d \in Seq(Entry), NEW e \in Entry PROVE Longer(d, e, Append(d, e))
  BY DEF Longer

\* What stays as it was when an entry is added.
LEMMA EntryAdded ==
    ASSUME NEW d \in Seq(Entry), Headed(d), NEW e, NEW w, Longer(d, e, w)
    PROVE  /\ Opening(w) = Opening(d)
           /\ \A p \in 1 .. Len(d) : Reaches(w, p) = Reaches(d, p)
           /\ Opening(d) < Len(d) => Lowest(w) = Lowest(d)
<1>1. Len(w) = Len(d) + 1 /\ \A p \in 1 .. Len(d) : w[p] = d[p]
  BY DEF Longer
<1>2. 1 \in 1 .. Len(d) /\ Opening(d) \in 1 .. Len(d) /\ Len(d) \in Nat
  BY DemoPlaces
<1>3. Opening(w) = Opening(d)
  BY <1>1, <1>2 DEF Opening
<1>4. \A p \in 1 .. Len(d) : Reaches(w, p) = Reaches(d, p)
  BY <1>1 DEF Reaches
<1>5. ASSUME Opening(d) < Len(d) PROVE Lowest(w) = Lowest(d)
  <2>1. Opening(d) + 1 \in 1 .. Len(d)
    BY <1>2, <1>5
  <2> QED BY <1>1, <1>2, <1>3, <2>1 DEF Lowest
<1> QED BY <1>3, <1>4, <1>5

\* A command is carried by a message behind the last game state.
LEMMA CarriedIs ==
    ASSUME NEW d
    PROVE  \A n : n \in Carried(d) <=>
                /\ n > d[Newest(d)].sequence
                /\ \E p \in Newest(d) .. Len(d) : d[p].kind = "message" /\ n \in d[p].first .. d[p].last
  BY DEF Carried

\* A message, a game state that may follow a demo.
MessageFollows(d, e) ==
    /\ e \in Entry /\ e.kind = "message" /\ Reaches(d, Len(d)) <= e.last /\ e.first <= e.last + 1
    /\ Opening(d) < Len(d) =>
         e.first <= Reaches(d, Len(d)) + 1 /\ d[Opening(d) + 1].first <= e.first

StateFollows(d, e) ==
    /\ e \in Entry /\ e.kind = "gamestate" /\ Opening(d) < Len(d)
    /\ e.sequence = Reaches(d, Len(d)) /\ e.executed <= e.sequence
    /\ e.map \in Nat \ {0} /\ d[Newest(d)].map < e.map

\* A message behind a demo in order.
LEMMA MessageAdded ==
    ASSUME NEW d \in Seq(Entry), Ordered(d), NEW e, MessageFollows(d, e), NEW w, Longer(d, e, w)
    PROVE  /\ Ordered(w) /\ Opening(w) < Len(w)
           /\ w[Newest(w)] = d[Newest(d)] /\ w[1] = d[1]
           /\ Reaches(w, Len(w)) = e.last /\ w[Opening(w) + 1].first <= e.first
<1> DEFINE o == Opening(d)
           l == Len(d)
           last == e.last
           first == e.first
<1>1. /\ l \in Nat /\ o \in {1, 2} /\ o <= l
      /\ StatesOf(d) \subseteq o .. l /\ o \in StatesOf(d)
      /\ Newest(d) \in StatesOf(d) /\ Newest(d) \in o .. l
      /\ \A p \in StatesOf(d) : p <= Newest(d)
      /\ \A p \in o .. l : /\ d[p] \in Entry /\ d[p].kind \in {"gamestate", "message"}
                           /\ Reaches(d, p) \in Nat
      /\ o < l =>
           /\ d[o + 1].kind = "message" /\ d[o + 1].first \in Nat \ {0}
           /\ Lowest(d) \in Nat \ {0} /\ d[o].sequence < Lowest(d)
           /\ d[o + 1].first <= Lowest(d)
      /\ d[o].sequence \in Nat /\ d[Newest(d)].sequence \in Nat
  BY DemoPlaces DEF Ordered
<1>2. /\ w \in Seq(Entry) /\ Len(w) = l + 1 /\ w[l + 1] = e
      /\ \A p \in 1 .. l : w[p] = d[p]
      /\ Opening(w) = o
      /\ \A p \in 1 .. l : Reaches(w, p) = Reaches(d, p)
      /\ o < l => Lowest(w) = Lowest(d)
  <2>1. Headed(d)
    BY DEF Ordered
  <2>2. /\ Opening(w) = Opening(d)
        /\ \A p \in 1 .. Len(d) : Reaches(w, p) = Reaches(d, p)
        /\ Opening(d) < Len(d) => Lowest(w) = Lowest(d)
    BY <2>1, EntryAdded
  <2>3. /\ w \in Seq(Entry) /\ Len(w) = l + 1 /\ w[Len(w)] = e
        /\ \A p \in 1 .. Len(d) : w[p] = d[p]
    BY DEF Longer
  <2> QED BY <2>2, <2>3
<1>3. first \in Nat \ {0} /\ last \in Nat
  BY EntryFields DEF MessageFollows
<1>4. /\ \A p \in 1 .. l : d[p].kind = "protocol" <=> p < o
      /\ d[o].kind = "gamestate"
      /\ o < l => d[o + 1].kind = "message" /\ d[o + 1].first <= d[o + 1].last + 1
  BY DEF Ordered, Headed
<1>5. /\ \A p \in o + 1 .. l : d[p].kind = "message" => d[o + 1].first <= d[p].first
      /\ \A p \in o + 2 .. l :
           IF d[p].kind = "message" THEN d[p].first <= Reaches(d, p - 1) + 1
           ELSE d[p].sequence = Reaches(d, p - 1)
      /\ \A p, q \in o .. l : p <= q => Reaches(d, p) <= Reaches(d, q)
  BY DEF Ordered, Gapless
<1>6. Reaches(d, l) <= last /\ (o < l => first <= Reaches(d, l) + 1 /\ d[o + 1].first <= first)
      /\ first <= last + 1
  BY DEF MessageFollows
<1>7. e.kind = "message" /\ Reaches(w, l + 1) = last
  BY <1>2 DEF Reaches, MessageFollows
<1> HIDE DEF o, l, last, first
<1>0. l \in Nat /\ o \in Nat /\ o > 0 /\ (o < l \/ o = l)
  BY <1>1
<1>8. Headed(w)
  <2>1. \A p \in 1 .. l + 1 : w[p].kind = "protocol" <=> p < o
    <3>1. \A p \in 1 .. l : w[p].kind = "protocol" <=> p < o
      BY <1>2, <1>4
    <3>2. ~ (w[l + 1].kind = "protocol") /\ ~ (l + 1 < o)
      BY <1>0, <1>2, <1>7
    <3>3. \A p \in 1 .. l + 1 : p \in 1 .. l \/ p = l + 1
      BY <1>0
    <3> QED BY <3>1, <3>2, <3>3
  <2>2. w[o].kind = "gamestate" /\ o \in 1 .. l + 1
    BY <1>1, <1>2, <1>4
  <2>3. w[o + 1].kind = "message" /\ w[o + 1].first <= w[o + 1].last + 1
    <3>1. CASE o < l
      <4>1. o + 1 \in 1 .. l
        BY <1>1, <3>1
      <4> QED BY <1>2, <1>4, <3>1, <4>1
    <3>2. CASE o = l
      BY <1>2, <1>6, <1>7, <3>2 DEF first, last
    <3> QED BY <1>0, <3>1, <3>2
  <2> QED BY <1>2, <2>1, <2>2, <2>3 DEF Headed
<1>9. Gapless(w)
  <2>1. ASSUME NEW p \in o + 1 .. l + 1, w[p].kind = "message" PROVE w[o + 1].first <= w[p].first
    <3>1. CASE o = l
      <4>1. p = o + 1 /\ w[p] = e
        BY <1>1, <1>2, <3>1
      <4> QED BY <1>3, <4>1 DEF first
    <3>2. CASE o < l
      <4>1. w[o + 1] = d[o + 1]
        BY <1>1, <1>2, <3>2
      <4>2. CASE p = l + 1
        BY <1>2, <1>6, <3>2, <4>1, <4>2 DEF first
      <4>3. CASE p \in o + 1 .. l
        <5>1. w[p] = d[p]
          <6>1. p \in 1 .. l
            BY <1>0, <4>3
          <6> QED BY <1>2, <6>1
        <5> QED BY <1>5, <2>1, <4>1, <4>3, <5>1
      <4> QED BY <1>0, <2>1, <4>2, <4>3
    <3> QED BY <1>0, <3>1, <3>2
  <2>2. ASSUME NEW p \in o + 2 .. l + 1
        PROVE  IF w[p].kind = "message" THEN w[p].first <= Reaches(w, p - 1) + 1
               ELSE w[p].sequence = Reaches(w, p - 1)
    <3>1. CASE p = l + 1
      <4>1. p - 1 = l /\ l \in 1 .. l /\ o < l
        BY <1>1, <3>1
      <4> QED BY <1>2, <1>6, <1>7, <3>1, <4>1 DEF first
    <3>2. CASE p \in o + 2 .. l
      <4>1. p \in 1 .. l /\ p - 1 \in 1 .. l
        BY <1>1, <3>2
      <4> QED BY <1>2, <1>5, <3>2, <4>1
    <3> QED BY <1>0, <2>2, <3>1, <3>2
  <2>3. ASSUME NEW p \in o .. l + 1, NEW q \in o .. l + 1, p <= q PROVE Reaches(w, p) <= Reaches(w, q)
    <3>1. CASE q = l + 1 /\ p = l + 1
      BY <1>3, <1>7, <3>1
    <3>2. CASE q = l + 1 /\ p \in o .. l
      <4>1. Reaches(w, p) = Reaches(d, p) /\ p \in 1 .. l
        BY <1>1, <1>2, <3>2
      <4>2. Reaches(d, p) <= Reaches(d, l) /\ l \in o .. l
        BY <1>1, <1>5, <3>2
      <4>3. Reaches(d, p) \in Nat /\ Reaches(d, l) \in Nat
        BY <1>1, <3>2, <4>2
      <4> QED BY <1>3, <1>6, <1>7, <3>2, <4>1, <4>2, <4>3
    <3>3. CASE p \in o .. l /\ q \in o .. l
      <4>1. Reaches(w, p) = Reaches(d, p) /\ Reaches(w, q) = Reaches(d, q)
        BY <1>1, <1>2, <3>3
      <4> QED BY <1>5, <2>3, <3>3, <4>1
    <3> QED BY <1>1, <2>3, <3>1, <3>2, <3>3
  <2> QED BY <1>2, <2>1, <2>2, <2>3 DEF Gapless
<1>10. StatesOf(w) = StatesOf(d) /\ Newest(w) = Newest(d)
  <2>1. StatesOf(w) = StatesOf(d)
    BY <1>1, <1>2, <1>7 DEF StatesOf, l
  <2> QED BY <2>1 DEF Newest
<1>11. \A p \in StatesOf(d) : w[p] = d[p]
  BY <1>1, <1>2
<1>12. MapsRise(w)
  BY <1>10, <1>11 DEF Ordered, MapsRise
<1> DEFINE n0 == Newest(d)
           s == d[n0].sequence
<1>13. w[n0] = d[n0] /\ n0 \in o .. l /\ n0 \in Nat
  BY <1>0, <1>1, <1>11
<1>14. \A n : n \in Carried(w) <=> n \in Carried(d) \/ (n \in first .. last /\ n > s)
  <2>1. \A p \in n0 .. l + 1 : w[p].kind = "message" <=> p = l + 1 \/ (p \in n0 .. l /\ d[p].kind = "message")
    BY <1>0, <1>2, <1>7, <1>13
  <2>2. \A p \in n0 .. l : w[p] = d[p] /\ p \in n0 .. l + 1
    BY <1>0, <1>2, <1>13
  <2>3. w[l + 1].first = first /\ w[l + 1].last = last /\ l + 1 \in n0 .. l + 1
    BY <1>0, <1>2, <1>13 DEF first, last
  <2> SUFFICES ASSUME NEW n PROVE n \in Carried(w) <=> n \in Carried(d) \/ (n \in first .. last /\ n > s)
    OBVIOUS
  <2>4. n \in Carried(w) <=> n > s /\ \E p \in n0 .. l + 1 : w[p].kind = "message" /\ n \in w[p].first .. w[p].last
    BY <1>2, <1>10, <1>13, CarriedIs
  <2>5. n \in Carried(d) <=> n > s /\ \E p \in n0 .. l : d[p].kind = "message" /\ n \in d[p].first .. d[p].last
    BY CarriedIs DEF l
  <2> HIDE DEF n0, s
  <2>6. (\E p \in n0 .. l + 1 : w[p].kind = "message" /\ n \in w[p].first .. w[p].last)
          <=> (\E p \in n0 .. l : d[p].kind = "message" /\ n \in d[p].first .. d[p].last) \/ n \in first .. last
    <3>1. ASSUME NEW p \in n0 .. l + 1, w[p].kind = "message", n \in w[p].first .. w[p].last
          PROVE  (\E q \in n0 .. l : d[q].kind = "message" /\ n \in d[q].first .. d[q].last) \/ n \in first .. last
      BY <2>1, <2>2, <2>3, <3>1
    <3>2. ASSUME NEW p \in n0 .. l, d[p].kind = "message", n \in d[p].first .. d[p].last
          PROVE  \E q \in n0 .. l + 1 : w[q].kind = "message" /\ n \in w[q].first .. w[q].last
      BY <2>1, <2>2, <3>2
    <3>3. n \in first .. last => \E q \in n0 .. l + 1 : w[q].kind = "message" /\ n \in w[q].first .. w[q].last
      BY <2>1, <2>3
    <3> QED BY <3>1, <3>2, <3>3
  <2> QED BY <2>4, <2>5, <2>6
<1>15. s \in Nat /\ d[o].sequence <= s
  <2>1. Reaches(d, o) = d[o].sequence /\ Reaches(d, n0) = s
    BY <1>1 DEF Reaches, StatesOf
  <2>2. o \in o .. l /\ n0 \in o .. l /\ o <= n0
    BY <1>1
  <2> QED BY <1>1, <1>5, <2>1, <2>2
<1>16. CarriedAll(w)
  <2>1. CarriedAll(d)
    BY DEF Ordered
  <2> SUFFICES ASSUME NEW n
               PROVE  n \in Carried(w) <=> n \in Lowest(w) .. last /\ n > s
    BY <1>1, <1>2, <1>7, <1>10, <1>13 DEF CarriedAll
  <2>2. CASE o = l
    <3>1. n \notin Carried(d)
      BY <1>1, <2>1, <2>2 DEF CarriedAll, o, l
    <3>2. n0 = o
      BY <1>1, <2>2
    <3>3. w[o] = d[o] /\ w[o + 1] = e
      BY <1>1, <1>2, <2>2
    <3>4. Lowest(w) = IF first > s THEN first ELSE s + 1
      BY <1>2, <3>2, <3>3 DEF Lowest, first
    <3> QED BY <1>3, <1>14, <1>15, <3>1, <3>4
  <2>3. CASE o < l
    <3> DEFINE r == Reaches(d, l)
               low == Lowest(d)
    <3>1. n \in Carried(d) <=> n \in low .. r /\ n > s
      BY <2>1, <2>3 DEF CarriedAll, o, l
    <3>2. Lowest(w) = low /\ low \in Nat /\ r \in Nat /\ d[o].sequence \in Nat
      BY <1>1, <1>2, <2>3
    <3>3. r <= last /\ first <= r + 1
      BY <1>6, <2>3
    <3>4. n \in first .. last /\ n > s => n >= low
      <4>1. d[o + 1].first <= first /\ d[o + 1].first \in Nat
        BY <1>1, <1>6, <2>3
      <4>2. low = IF d[o + 1].first > d[o].sequence THEN d[o + 1].first ELSE d[o].sequence + 1
        BY DEF Lowest, o
      <4> DEFINE f == d[o + 1].first
                 a == d[o].sequence
      <4>3. f <= first /\ f \in Nat /\ a \in Nat /\ s \in Nat /\ a <= s /\ first \in Nat /\ last \in Nat
        BY <1>3, <1>15, <3>2, <4>1
      <4>4. low = IF f > a THEN f ELSE a + 1
        BY <4>2
      <4> HIDE DEF low, f, a, s, first, last
      <4> QED BY ONLY <4>3, <4>4
    <3> HIDE DEF r, low, s
    <3> QED BY <1>3, <1>14, <1>15, <3>1, <3>2, <3>3, <3>4
  <2> QED BY <1>1, <2>2, <2>3
<1>17. w[o + 1].first <= first
  <2>1. CASE o = l
    BY <1>2, <1>3, <2>1 DEF first
  <2>2. CASE o < l
    <3>1. o + 1 \in 1 .. l
      BY <1>1, <2>2
    <3> QED BY <1>2, <1>6, <2>2, <3>1
  <2> QED BY <1>0, <2>1, <2>2
<1>18. w[1] = d[1]
  <2>1. 1 \in 1 .. l
    BY <1>1
  <2> QED BY <1>2, <2>1
<1> QED BY <1>1, <1>2, <1>7, <1>8, <1>9, <1>10, <1>12, <1>13, <1>16, <1>17, <1>18 DEF Ordered, first, last

\* A game state behind a demo in order.
LEMMA StateAdded ==
    ASSUME NEW d \in Seq(Entry), Ordered(d), NEW e, StateFollows(d, e), NEW w, Longer(d, e, w)
    PROVE  /\ Ordered(w) /\ Opening(w) < Len(w)
           /\ w[Newest(w)] = e /\ w[1] = d[1]
           /\ Reaches(w, Len(w)) = e.sequence /\ w[Opening(w) + 1] = d[Opening(d) + 1]
<1> DEFINE o == Opening(d)
           l == Len(d)
<1>1. /\ l \in Nat /\ o \in {1, 2} /\ o <= l /\ o < l
      /\ StatesOf(d) \subseteq o .. l /\ o \in StatesOf(d)
      /\ Newest(d) \in StatesOf(d)
      /\ \A p \in StatesOf(d) : p <= Newest(d)
      /\ \A p \in o .. l : Reaches(d, p) \in Nat
  BY DemoPlaces DEF Ordered, StateFollows
<1>2. /\ w \in Seq(Entry) /\ Len(w) = l + 1 /\ w[l + 1] = e
      /\ \A p \in 1 .. l : w[p] = d[p]
      /\ Opening(w) = o
      /\ \A p \in 1 .. l : Reaches(w, p) = Reaches(d, p)
      /\ Lowest(w) = Lowest(d)
  <2>1. Headed(d)
    BY DEF Ordered
  <2>2. /\ Opening(w) = Opening(d)
        /\ \A p \in 1 .. Len(d) : Reaches(w, p) = Reaches(d, p)
        /\ Opening(d) < Len(d) => Lowest(w) = Lowest(d)
    BY <2>1, EntryAdded
  <2>3. /\ w \in Seq(Entry) /\ Len(w) = l + 1 /\ w[Len(w)] = e
        /\ \A p \in 1 .. Len(d) : w[p] = d[p]
    BY DEF Longer
  <2> QED BY <1>1, <2>2, <2>3
<1>3. e.sequence \in Nat /\ e.executed \in Nat
  BY EntryFields DEF StateFollows
<1>4. /\ \A p \in 1 .. l : d[p].kind = "protocol" <=> p < o
      /\ d[o].kind = "gamestate"
      /\ d[o + 1].kind = "message" /\ d[o + 1].first <= d[o + 1].last + 1
  BY <1>1 DEF Ordered, Headed
<1>5. /\ \A p \in o + 1 .. l : d[p].kind = "message" => d[o + 1].first <= d[p].first
      /\ \A p \in o + 2 .. l :
           IF d[p].kind = "message" THEN d[p].first <= Reaches(d, p - 1) + 1
           ELSE d[p].sequence = Reaches(d, p - 1)
      /\ \A p, q \in o .. l : p <= q => Reaches(d, p) <= Reaches(d, q)
  BY DEF Ordered, Gapless
<1>6. /\ e.kind = "gamestate" /\ Reaches(w, l + 1) = e.sequence /\ e.sequence = Reaches(d, l)
      /\ e.executed <= e.sequence /\ e.map \in Nat \ {0} /\ d[Newest(d)].map < e.map
  BY <1>2 DEF Reaches, StateFollows
<1> HIDE DEF o, l
<1>0. l \in Nat /\ o \in Nat /\ o > 0 /\ o < l
  BY <1>1
<1>7. o + 1 \in 1 .. l /\ w[o + 1] = d[o + 1]
  BY <1>1, <1>2
<1>8. Headed(w)
  <2>1. \A p \in 1 .. l + 1 : w[p].kind = "protocol" <=> p < o
    <3>1. \A p \in 1 .. l : w[p].kind = "protocol" <=> p < o
      BY <1>2, <1>4
    <3>2. ~ (w[l + 1].kind = "protocol") /\ ~ (l + 1 < o)
      BY <1>0, <1>2, <1>6
    <3>3. \A p \in 1 .. l + 1 : p \in 1 .. l \/ p = l + 1
      BY <1>0
    <3> QED BY <3>1, <3>2, <3>3
  <2>2. w[o].kind = "gamestate" /\ o \in 1 .. l + 1
    BY <1>1, <1>2, <1>4
  <2> QED BY <1>2, <1>4, <1>7, <2>1, <2>2 DEF Headed
<1>9. Gapless(w)
  <2>1. ASSUME NEW p \in o + 1 .. l + 1, w[p].kind = "message" PROVE w[o + 1].first <= w[p].first
    <3>1. p \in o + 1 .. l
      BY <1>1, <1>2, <1>6, <2>1
    <3>2. w[p] = d[p]
      BY <1>1, <1>2, <3>1
    <3> QED BY <1>5, <1>7, <2>1, <3>1, <3>2
  <2>2. ASSUME NEW p \in o + 2 .. l + 1
        PROVE  IF w[p].kind = "message" THEN w[p].first <= Reaches(w, p - 1) + 1
               ELSE w[p].sequence = Reaches(w, p - 1)
    <3>1. CASE p = l + 1
      <4>1. p - 1 = l /\ l \in 1 .. l
        BY <1>1, <3>1
      <4> QED BY <1>2, <1>6, <3>1, <4>1
    <3>2. CASE p \in o + 2 .. l
      <4>1. p \in 1 .. l /\ p - 1 \in 1 .. l
        BY <1>1, <3>2
      <4> QED BY <1>2, <1>5, <3>2, <4>1
    <3> QED BY <1>0, <2>2, <3>1, <3>2
  <2>3. ASSUME NEW p \in o .. l + 1, NEW q \in o .. l + 1, p <= q PROVE Reaches(w, p) <= Reaches(w, q)
    <3>1. CASE q = l + 1 /\ p = l + 1
      BY <1>3, <1>6, <3>1
    <3>2. CASE q = l + 1 /\ p \in o .. l
      <4>1. Reaches(w, p) = Reaches(d, p) /\ p \in 1 .. l
        BY <1>1, <1>2, <3>2
      <4>2. Reaches(d, p) <= Reaches(d, l)
        BY <1>1, <1>5, <3>2
      <4> QED BY <1>6, <3>2, <4>1, <4>2
    <3>3. CASE p \in o .. l /\ q \in o .. l
      <4>1. Reaches(w, p) = Reaches(d, p) /\ Reaches(w, q) = Reaches(d, q)
        BY <1>1, <1>2, <3>3
      <4> QED BY <1>5, <2>3, <3>3, <4>1
    <3> QED BY <1>1, <2>3, <3>1, <3>2, <3>3
  <2> QED BY <1>2, <2>1, <2>2, <2>3 DEF Gapless
<1>10. StatesOf(w) = StatesOf(d) \cup {l + 1}
  BY <1>1, <1>2, <1>6 DEF StatesOf, l
<1>11. Newest(w) = l + 1
  <2> DEFINE S == StatesOf(w)
             x == l + 1
  <2>1. S \in SUBSET Nat /\ x \in S /\ \A p \in S : x >= p
    BY <1>1, <1>10
  <2> HIDE DEF S, x
  <2>2. Max(S) = x
    BY <2>1, MaxIs
  <2> QED BY <2>2 DEF Newest, S, x
<1>12. MapsRise(w)
  <2>1. /\ \A p \in StatesOf(d) : d[p].map \in Nat \ {0} /\ d[p].executed <= d[p].sequence
        /\ \A p, q \in StatesOf(d) : p < q => d[p].map < d[q].map
    BY DEF Ordered, MapsRise
  <2>2. \A p \in StatesOf(d) : w[p] = d[p] /\ p \in o .. l
    BY <1>1, <1>2
  <2>3. \A p \in StatesOf(d) : d[p].map < e.map
    <3> SUFFICES ASSUME NEW p \in StatesOf(d) PROVE d[p].map < e.map
      OBVIOUS
    <3>1. p <= Newest(d) /\ p \in Nat /\ Newest(d) \in Nat
      BY <1>1, <2>2
    <3>2. p = Newest(d) \/ d[p].map < d[Newest(d)].map
      BY <1>1, <2>1, <3>1
    <3>3. d[Newest(d)].map < e.map /\ d[p].map \in Nat /\ d[Newest(d)].map \in Nat /\ e.map \in Nat
      BY <1>1, <1>6, <2>1
    <3> QED BY <3>2, <3>3
  <2>4. \A p \in StatesOf(w) : w[p].map \in Nat \ {0} /\ w[p].executed <= w[p].sequence
    BY <1>2, <1>6, <1>10, <2>1, <2>2
  <2>5. ASSUME NEW p \in StatesOf(w), NEW q \in StatesOf(w), p < q PROVE w[p].map < w[q].map
    <3>1. p \in StatesOf(d)
      BY <1>1, <1>10, <2>2, <2>5
    <3>2. CASE q = l + 1
      BY <1>2, <2>2, <2>3, <3>1, <3>2
    <3>3. CASE q \in StatesOf(d)
      BY <2>1, <2>2, <2>5, <3>1, <3>3
    <3> QED BY <1>10, <3>2, <3>3
  <2> QED BY <2>4, <2>5 DEF MapsRise
<1>13. CarriedAll(w)
  <2>1. {p \in l + 1 .. Len(w) : w[p].kind = "message"} = {}
    BY <1>1, <1>2, <1>6
  <2>2. Carried(w) = {}
    BY <1>11, <2>1 DEF Carried
  <2>3. ASSUME NEW n, n \in Lowest(w) .. Reaches(w, Len(w)), n > w[Newest(w)].sequence PROVE FALSE
    <3>1. Lowest(d) \in Nat
      BY <1>1, DemoPlaces DEF Ordered, o, l
    <3>2. n \in Nat /\ n <= e.sequence /\ n > e.sequence
      BY <1>2, <1>3, <1>6, <1>11, <2>3, <3>1
    <3> QED BY <1>3, <3>2
  <2> QED BY <2>2, <2>3 DEF CarriedAll
<1>14. w[1] = d[1]
  <2>1. 1 \in 1 .. l
    BY <1>1
  <2> QED BY <1>2, <2>1
<1> QED BY <1>1, <1>2, <1>6, <1>7, <1>8, <1>9, <1>11, <1>12, <1>13, <1>14 DEF Ordered, o, l

\* A demo that was just opened.
LEMMA DemoOpened ==
    ASSUME NEW e \in Entry, e.kind = "gamestate", e.map \in Nat \ {0}, e.executed <= e.sequence,
           NEW o \in {1, 2}, NEW d, d = IF o = 1 THEN <<e>> ELSE <<Protocol>> \o <<e>>
    PROVE  /\ d \in Seq(Entry) /\ Ordered(d) /\ Len(d) = Opening(d) /\ d[Newest(d)] = e
           /\ Reaches(d, Len(d)) = e.sequence /\ d # <<>>
           /\ o = 1 <=> d[1].kind # "protocol"
<1>1. Protocol \in Entry /\ Protocol.kind = "protocol"
  BY DEF Protocol, Entry
<1>2. d \in Seq(Entry) /\ Len(d) = o /\ d[o] = e /\ (o = 2 => d[1] = Protocol) /\ d # <<>>
  <2>1. CASE o = 1
    <3>1. d = <<e>>
      BY <2>1
    <3> QED BY <2>1, <3>1
  <2>2. CASE o = 2
    <3> DEFINE a == <<Protocol>>
               b == <<e>>
    <3>1. /\ a \in Seq(Entry) /\ Len(a) = 1 /\ a[1] = Protocol
          /\ b \in Seq(Entry) /\ Len(b) = 1 /\ b[1] = e
          /\ d = a \o b
      BY <1>1, <2>2
    <3> HIDE DEF a, b
    <3>2. d \in Seq(Entry) /\ Len(d) = 2 /\ d[1] = Protocol /\ d[2] = e
      BY <3>1, ConcatProperties
    <3> QED BY <2>2, <3>2
  <2> QED BY <2>1, <2>2
<1>3. Opening(d) = o /\ o \in {1, 2} /\ (o = 1 <=> d[1].kind # "protocol")
  BY <1>1, <1>2 DEF Opening
<1>4. StatesOf(d) = {o} /\ \A p \in 1 .. o : d[p].kind = "protocol" <=> p < o
  <2>1. o = 1 \/ (o = 2 /\ d[1].kind = "protocol")
    BY <1>1, <1>2, <1>3
  <2> QED BY <1>2, <1>3, <2>1 DEF StatesOf
<1>5. Newest(d) = o
  <2> DEFINE S == StatesOf(d)
  <2>1. S \in SUBSET Nat /\ o \in S /\ \A p \in S : o >= p
    BY <1>3, <1>4
  <2> HIDE DEF S
  <2>2. Max(S) = o
    BY <2>1, MaxIs
  <2> QED BY <2>2 DEF Newest, S
<1>6. e.sequence \in Nat
  BY EntryFields
<1>7. Headed(d) /\ MapsRise(d)
  BY <1>2, <1>3, <1>4 DEF Headed, MapsRise
<1>8. Gapless(d)
  <2>1. \A p, q \in o .. o : p = q
    BY <1>3
  <2>2. Reaches(d, o) = e.sequence /\ o \in o .. o
    BY <1>2, <1>3 DEF Reaches
  <2>3. \A p, q \in o .. o : p <= q => Reaches(d, p) <= Reaches(d, q)
    BY <1>6, <2>1, <2>2
  <2> QED BY <1>2, <1>3, <2>3 DEF Gapless
<1>9. CarriedAll(d)
  <2>1. {p \in o .. Len(d) : d[p].kind = "message"} = {}
    BY <1>2, <1>3
  <2>2. Carried(d) = {}
    BY <1>5, <2>1 DEF Carried
  <2> QED BY <1>2, <1>3, <2>2 DEF CarriedAll
<1> QED BY <1>2, <1>3, <1>5, <1>7, <1>8, <1>9 DEF Ordered, Reaches

-----------------------------------------------------------------------------
(* Strings after a written game state and some commands *)

Sets(c, i) == c.index = i /\ c.cmd \in {"d", "z"}

SetAmong(cs, i, S) == {k \in S : Sets(cs[k], i)}

\* String i, when these strings were written and the commands S came behind them.
After(cs, strings, i, S) ==
    IF SetAmong(cs, i, S) # {} THEN cs[Max(SetAmong(cs, i, S))].value
    ELSE IF i \in DOMAIN WithDefaults(strings) THEN WithDefaults(strings)[i] ELSE <<>>

\* One more command, behind all others.
LEMMA AfterNext ==
    ASSUME NEW cs, NEW strings, NEW i, NEW S \in SUBSET Nat, NEW n \in Nat, \A k \in S : k < n
    PROVE  After(cs, strings, i, S \cup {n}) =
              IF Sets(cs[n], i) THEN cs[n].value ELSE After(cs, strings, i, S)
<1> DEFINE T == S \cup {n}
<1>1. SetAmong(cs, i, T) = SetAmong(cs, i, S) \cup (IF Sets(cs[n], i) THEN {n} ELSE {})
  BY DEF SetAmong
<1>2. CASE Sets(cs[n], i)
  <2> DEFINE Q == SetAmong(cs, i, T)
  <2>0. Q = SetAmong(cs, i, S) \cup {n} /\ SetAmong(cs, i, S) \subseteq S
    BY <1>1, <1>2 DEF SetAmong
  <2> HIDE DEF Q
  <2>1. Q \in SUBSET Nat /\ n \in Q
    BY <2>0
  <2>3. ASSUME NEW k \in Q PROVE n >= k
    <3>1. k \in Nat /\ (k < n \/ k = n)
      BY <2>0
    <3> QED BY <3>1
  <2>2. Max(Q) = n
    BY <2>1, <2>3, MaxIs
  <2> QED BY <1>2, <2>1, <2>2 DEF After, Q
<1>3. CASE ~ Sets(cs[n], i)
  <2>1. SetAmong(cs, i, T) = SetAmong(cs, i, S)
    BY <1>1, <1>3
  <2> QED BY <1>3, <2>1 DEF After
<1> QED BY <1>2, <1>3

\* Only the commands that set the string matter.
LEMMA AfterSame ==
    ASSUME NEW cs, NEW strings, NEW i, NEW S, NEW T, SetAmong(cs, i, S) = SetAmong(cs, i, T)
    PROVE  After(cs, strings, i, S) = After(cs, strings, i, T)
  BY DEF After

\* The commands that are there already stay what they are.
LEMMA AfterKept ==
    ASSUME NEW cs, NEW ds, NEW strings, NEW i, NEW a \in Nat, NEW b \in Nat,
           \A k \in a + 1 .. b : cs[k] = ds[k]
    PROVE  After(cs, strings, i, a + 1 .. b) = After(ds, strings, i, a + 1 .. b)
<1> DEFINE Q == SetAmong(cs, i, a + 1 .. b)
<1>1. SetAmong(ds, i, a + 1 .. b) = Q /\ Q \in SUBSET Nat /\ (\A k \in Q : k <= b /\ cs[k] = ds[k])
  BY DEF SetAmong
<1> HIDE DEF Q
<1>2. Q # {} => Max(Q) \in Q
  BY <1>1, MaxExists
<1> QED BY <1>1, <1>2 DEF After, Q

\* With no command behind it, what was written.
LEMMA AfterNone ==
    ASSUME NEW cs, NEW strings, NEW i
    PROVE  After(cs, strings, i, {}) =
              IF i \in DOMAIN WithDefaults(strings) THEN WithDefaults(strings)[i] ELSE <<>>
  BY DEF After, SetAmong

\* What is written of two blocks: the strings that are not empty, and some that are.
LEMMA WrittenIs ==
    ASSUME NEW gs \in Blocks, NEW ext \in Blocks, NEW i \in Index, legacy => i < MaxConfigStrings,
           NEW b, b = IF i < MaxConfigStrings THEN gs ELSE ext
    PROVE  IF b.stringOffsets[Place(i)] # 0
           THEN /\ i \in DOMAIN Written(gs, ext)
                /\ Written(gs, ext)[i] = StringAt(b, b.stringOffsets[Place(i)])
           ELSE /\ i \notin DOMAIN Written(gs, ext)
                /\ StringAt(b, b.stringOffsets[Place(i)]) = <<>>
<1> DEFINE block(j) == IF j < MaxConfigStrings THEN gs ELSE ext
           offset(j) == block(j).stringOffsets[Place(j)]
           D == {j \in Index : offset(j) # 0 /\ (legacy => j < MaxConfigStrings)}
<1>1. Written(gs, ext) = [j \in D |-> StringAt(block(j), offset(j))]
  BY DEF Written
<1>2. b = block(i) /\ b \in Blocks
  OBVIOUS
<1>3. CASE b.stringOffsets[Place(i)] # 0
  <2>1. i \in D
    BY <1>2, <1>3
  <2> HIDE DEF D
  <2> QED BY <1>1, <1>2, <1>3, <2>1
<1>4. CASE b.stringOffsets[Place(i)] = 0
  <2>1. i \notin D
    BY <1>2, <1>4
  <2>2. StringAt(b, 0) = <<>>
    BY <1>2, NoOffset
  <2> HIDE DEF D
  <2> QED BY <1>1, <1>4, <2>1, <2>2
<1> QED BY <1>3, <1>4

\* In an empty block all strings are empty.
LEMMA NoStrings ==
    ASSUME NEW i \in Index PROVE StringAt(EmptyGameState, EmptyGameState.stringOffsets[Place(i)]) = <<>>
<1> DEFINE block == EmptyGameState
<1>1. Place(i) \in 0 .. MaxConfigStrings - 1
  BY GameConstants
<1>2. block \in Blocks /\ block.stringOffsets[Place(i)] = 0
  BY <1>1, EmptyBlock
<1> HIDE DEF block
<1>3. StringAt(block, block.stringOffsets[Place(i)]) = <<>>
  BY <1>2, NoOffset
<1> QED BY <1>3 DEF block

-----------------------------------------------------------------------------
(* The inductive invariant of demos *)

\* The last game state in the demo.
LastState == demo[Newest(demo)]

\* A demo of a server that has no second block.
OneBlock == demo[1].kind # "protocol"

DemoInv == demo # <<>> => Ordered(demo) /\ Reaches(demo, Len(demo)) <= Len(svCommands)

\* Before the first connection everything is empty.
NothingInv ==
    mode = "menu" =>
        /\ client = NoClient /\ extGameState = EmptyGameState /\ bigConfigString = NoBigConfigString
        /\ demo = <<>> /\ recording = "no" /\ position = 0 /\ server.map = 0

\* Without the x-protocol nothing is in the second block.
OneBlockInv ==
    (mode = "live" /\ legacy) \/ (mode = "replay" /\ OneBlock) =>
        /\ extGameState = EmptyGameState
        /\ bigConfigString.index < MaxConfigStrings
        /\ \A n \in 1 .. Len(svCommands) : svCommands[n].index < MaxConfigStrings
        /\ \A slot \in 0 .. Slots - 1 :
             client.serverCommands[slot] # NoCommand => client.serverCommands[slot].index < MaxConfigStrings

\* The demo ends where the client is, once messages are written.
RecordingInv ==
    mode = "live" =>
        /\ client.map = server.map /\ server.map \in Nat \ {0} /\ position = 0
        /\ recording \in {"no", "waiting", "yes"} /\ (recording = "no" <=> demo = <<>>)
        /\ recording = "waiting" =>
             /\ Len(demo) = Opening(demo)
             /\ Reaches(demo, Len(demo)) <= client.serverCommandSequence
        /\ recording = "yes" =>
             /\ Opening(demo) < Len(demo)
             /\ Reaches(demo, Len(demo)) = client.serverCommandSequence
             /\ demo[Opening(demo) + 1].first <= server.first
        /\ demo # <<>> =>
             /\ LastState.map <= client.map /\ LastState.executed <= client.executed
             /\ legacy <=> OneBlock

\* The strings are those of the last game state that was written, and what came behind it.
RecordedStrings ==
    mode = "live" /\ demo # <<>> /\ client.map = LastState.map =>
        \A i \in Index \ LastState.emptied : (legacy => i < MaxConfigStrings) =>
            CL_GetConfigString(i) =
                After(svCommands, LastState.strings, i, LastState.executed + 1 .. client.executed)

\* And so are those that are remembered.
ShownInv ==
    mode = "replay" =>
        /\ demo # <<>> /\ shown.map \in Nat /\ shown.executed \in Nat /\ shown.skipped \in BOOLEAN
        /\ shown = [map |-> shown.map, executed |-> shown.executed, strings |-> shown.strings,
                    skipped |-> shown.skipped]
        /\ LastState.map <= shown.map /\ LastState.executed <= shown.executed
        /\ shown.map = LastState.map =>
             \A i \in Index \ LastState.emptied :
                shown.strings[i] =
                    IF OneBlock /\ ~ (i < MaxConfigStrings) THEN <<>>
                    ELSE After(svCommands, LastState.strings, i, LastState.executed + 1 .. shown.executed)

\* Where a player of the demo is.
ReplayPlace ==
    mode = "replay" =>
        /\ demo # <<>> /\ position <= Len(demo)
        /\ legacy <=> position = 0 \/ OneBlock
        /\ position < Opening(demo) => client.map = 0 /\ client.serverCommandSequence = 0
        /\ position <= Opening(demo) => client.executed = 0 /\ client.serverCommandNum = 0
        /\ position >= Opening(demo) =>
             /\ client.map # 0
             /\ demo[Opening(demo)].sequence <= client.serverCommandSequence
             /\ client.serverCommandSequence <= Reaches(demo, position)
        /\ client.executed <= client.serverCommandNum
        /\ client.serverCommandNum <= client.serverCommandSequence
        /\ position < Newest(demo) => client.map \in Nat /\ client.map < LastState.map
        /\ position >= Newest(demo) => client.map = LastState.map
        /\ position >= Newest(demo) /\ Newest(demo) > Opening(demo) =>
             LastState.sequence <= client.executed

\* What is in the slots of a player: the commands since the first message, and nothing else.
ReplaySlots ==
    mode = "replay" =>
        /\ position <= Opening(demo) => \A slot \in 0 .. Slots - 1 : client.serverCommands[slot] = NoCommand
        /\ position > Opening(demo) =>
             IF Reaches(demo, position) < Lowest(demo)
             THEN \A slot \in 0 .. Slots - 1 : client.serverCommands[slot] = NoCommand
             ELSE /\ client.serverCommandSequence = Reaches(demo, position)
                  /\ \A n \in 1 .. client.serverCommandSequence :
                       n > client.serverCommandSequence - Slots =>
                          client.serverCommands[n % Slots] =
                              IF n >= Lowest(demo) THEN svCommands[n] ELSE NoCommand

\* The demo is whole, and nothing of it was skipped.
NothingMissed == ~ Torn /\ ~ shown.skipped

\* The strings of a player: those of the last game state, and what it had of the rest.
ReplayStrings ==
    mode = "replay" /\ position >= Newest(demo) /\ NothingMissed =>
        /\ \A i \in Index \ (stale \cup LastState.emptied) :
             CL_GetConfigString(i) =
                 IF OneBlock /\ ~ (i < MaxConfigStrings) THEN <<>>
                 ELSE After(svCommands, LastState.strings, i, {n \in Carried(demo) : n <= client.executed})
        /\ client.executed \in Carried(demo) /\ svCommands[client.executed].cmd \in {"x", "y"} =>
             bigConfigString = [index |-> svCommands[client.executed].index,
                                text |-> svCommands[client.executed].value]

ReplayInv ==
    /\ DemoInv /\ NothingInv /\ OneBlockInv /\ RecordingInv /\ RecordedStrings
    /\ ShownInv /\ ReplayPlace /\ ReplaySlots /\ ReplayStrings

\* What the properties say of a demo, in these words.
LEMMA RecordedIs ==
    ASSUME GameTypes
    PROVE  Recorded.state = LastState /\ Recorded.commands = Carried(demo)
<1>1. DOMAIN demo = 1 .. Len(demo)
  BY DEF GameTypes
<1>2. Max({p \in DOMAIN demo : demo[p].kind = "gamestate"}) = Newest(demo)
  BY <1>1 DEF Newest, StatesOf
<1> QED BY <1>2 DEF Recorded, LastState, Carried

\* What the invariant says of a demo.
LEMMA DemoFacts ==
    ASSUME GameTypes, DemoInv, demo # <<>>
    PROVE  /\ demo \in Seq(Entry) /\ Headed(demo) /\ Gapless(demo) /\ MapsRise(demo) /\ CarriedAll(demo)
           /\ Ordered(demo) /\ LastState \in Entry /\ LastState.kind = "gamestate"
           /\ LastState.map \in Nat \ {0} /\ LastState.sequence \in Nat /\ LastState.executed \in Nat
           /\ LastState.executed <= LastState.sequence
           /\ LastState.strings \in Strings /\ LastState.emptied \in SUBSET Index
           /\ Reaches(demo, Len(demo)) \in Nat /\ Reaches(demo, Len(demo)) <= Len(svCommands)
           /\ Carried(demo) \in SUBSET Nat /\ Carried(demo) \subseteq 1 .. Len(svCommands)
           /\ \A n \in Carried(demo) : n > LastState.sequence
<1>1. /\ demo \in Seq(Entry) /\ Headed(demo) /\ Gapless(demo) /\ MapsRise(demo) /\ CarriedAll(demo)
      /\ Ordered(demo) /\ Reaches(demo, Len(demo)) <= Len(svCommands) /\ Len(svCommands) \in Nat
  BY DEF GameTypes, DemoInv, Ordered
<1>2. /\ Newest(demo) \in StatesOf(demo) /\ Newest(demo) \in Opening(demo) .. Len(demo)
      /\ LastState \in Entry /\ Reaches(demo, Len(demo)) \in Nat
      /\ Opening(demo) < Len(demo) => Lowest(demo) \in Nat \ {0}
  <2>1. /\ Newest(demo) \in StatesOf(demo) /\ Newest(demo) \in Opening(demo) .. Len(demo)
        /\ \A p \in Opening(demo) .. Len(demo) : demo[p] \in Entry /\ Reaches(demo, p) \in Nat
        /\ Opening(demo) < Len(demo) => Lowest(demo) \in Nat \ {0}
        /\ Opening(demo) \in {1, 2} /\ Len(demo) \in Nat /\ Opening(demo) <= Len(demo)
    BY <1>1, DemoPlaces
  <2>2. Len(demo) \in Opening(demo) .. Len(demo)
    BY <2>1
  <2> QED BY <2>1, <2>2 DEF LastState
<1>3. LastState.kind = "gamestate"
  BY <1>2 DEF StatesOf, LastState
<1>4. /\ LastState.sequence \in Nat /\ LastState.executed \in Nat
      /\ LastState.strings \in Strings /\ LastState.emptied \in SUBSET Index
  BY <1>2, <1>3, EntryFields
<1>5. LastState.map \in Nat \ {0} /\ LastState.executed <= LastState.sequence
  BY <1>1, <1>2 DEF MapsRise, LastState
<1>6. ASSUME NEW n \in Carried(demo) PROVE n \in 1 .. Len(svCommands) /\ n > LastState.sequence
  <2>1. Opening(demo) < Len(demo) /\ n \in Lowest(demo) .. Reaches(demo, Len(demo)) /\ n > LastState.sequence
    BY <1>1, <1>6 DEF CarriedAll, LastState
  <2> QED BY <1>1, <1>2, <2>1
<1> QED BY <1>1, <1>2, <1>3, <1>4, <1>5, <1>6

\* All commands that set a string are about it.
LEMMA CommandsIndex ==
    ASSUME NEW i \in Index, NEW text \in Text
    PROVE  \A p \in 1 .. Len(Commands(i, text)) : Commands(i, text)[p].index = i
<1> DEFINE n == (Len(text) + PieceLength - 1) \div PieceLength
           upTo(p) == IF p = n THEN Len(text) ELSE p * PieceLength
           piece(p) == [cmd |-> IF p = 1 THEN "x" ELSE IF p = n THEN "z" ELSE "y", index |-> i,
                        text |-> SubSeq(text, upTo(p - 1) + 1, upTo(p)),
                        value |-> SubSeq(text, 1, upTo(p))]
           all == [p \in 1 .. n |-> piece(p)]
<1>1. CASE n <= 1
  <2> DEFINE c == [cmd |-> "d", index |-> i, text |-> text, value |-> text]
  <2>1. Commands(i, text) = <<c>> /\ c.index = i
    BY <1>1 DEF Commands
  <2> HIDE DEF c
  <2> QED BY <2>1
<1>2. CASE ~ (n <= 1)
  <2>1. Commands(i, text) = all
    BY <1>2 DEF Commands
  <2>2. n \in Nat
    <3> DEFINE a == Len(text) + PieceLength - 1
               d == PieceLength
    <3>1. a \in Nat /\ d \in Nat \ {0}
      BY GameConstants DEF Text
    <3> HIDE DEF a, d
    <3>2. a \div d \in Nat
      BY <3>1
    <3> QED BY <3>2 DEF a, d
  <2>3. \A p \in 1 .. n : all[p].index = i
    OBVIOUS
  <2> HIDE DEF piece, n
  <2>4. Len(all) = n
    BY <2>2
  <2> HIDE DEF all
  <2> QED BY <2>1, <2>3, <2>4
<1> QED BY <1>1, <1>2

\* A command that was taken out of its slot, or put together from its pieces, and executed.
Takes(c) ==
    /\ mode' = mode
    /\ client' = [client EXCEPT !.executed = Asked, !.gameState = client'.gameState]
    /\ \A j \in Index : CL_GetConfigString(j)' = IF Sets(c, j) THEN c.value ELSE CL_GetConfigString(j)
    /\ stale' \subseteq stale /\ \A j \in stale \ stale' : Sets(c, j)
    /\ c.cmd \in {"x", "y"} => bigConfigString' = [index |-> c.index, text |-> c.value]

\* Any turn takes a command that is whole, or goes on where the buffer ends.
LEMMA CommandTaken ==
    ASSUME GameTypes, Executes, ~ CycledOut, CL_CGameNeedsServerCommand, mode' # "over",
           Command \in ServerCommand,
           Command.cmd \in {"d", "x"} => Command.value = Command.text,
           Command.cmd \in {"y", "z"} => bigConfigString.index = Command.index /\ Pieced = Command.value
    PROVE  Takes(Command)
<1> DEFINE c == Command
<1>1. /\ c.cmd \in {"d", "x", "y", "z"} /\ c.index \in Index /\ c.text \in Text /\ c.value \in Text
      /\ client \in Client /\ mode \in {"live", "replay"}
      /\ bigConfigString \in [index : Index \cup {-1}, text : Text]
  BY DEF ServerCommand, GameTypes, Executes
<1>2. client.executed \in Nat /\ Asked = client.executed + 1 /\ client.gameState \in Blocks
  BY <1>1 DEF Client, Asked
\* A piece that others follow.
<1>3. ASSUME c.cmd \in {"x", "y"}, client' = [client EXCEPT !.executed = Asked],
             UNCHANGED <<mode, extGameState, stale>>,
             bigConfigString' = [index |-> c.index, text |-> c.value]
      PROVE  Takes(c)
  <2>1. client'.gameState = client.gameState
        /\ client' = [client EXCEPT !.executed = Asked, !.gameState = client'.gameState]
    BY <1>1, <1>2, <1>3 DEF Client
  <2>2. \A j : CL_GetConfigString(j)' = CL_GetConfigString(j)
    BY <1>3, <2>1, StringsKept
  <2> HIDE DEF c
  <2> QED BY <1>3, <2>1, <2>2 DEF Takes, Sets
\* A whole string.
<1>4. ASSUME c.cmd \in {"d", "z"}, CL_ConfigstringModified(c.index, c.value)
      PROVE  Takes(c)
  <2> HIDE DEF c
  <2>1. /\ mode' \in {mode, "over"}
        /\ client' = [client EXCEPT !.executed = client.executed + 1, !.gameState = client'.gameState]
        /\ stale' \subseteq stale /\ stale \ stale' \subseteq {c.index}
        /\ \A j \in Index : CL_GetConfigString(j)' = IF j = c.index THEN c.value ELSE CL_GetConfigString(j)
    BY <1>1, <1>4, StringChanged
  <2> QED BY <1>2, <1>4, <2>1 DEF Takes, Sets
<1>5. CASE CommandIsLost
  BY <1>5 DEF CommandIsLost
<1>6. CASE CommandIsEmpty
  BY <1>1, <1>6 DEF CommandIsEmpty
<1>7. CASE FirstPiece
  <2>1. /\ c.cmd = "x" /\ client' = [client EXCEPT !.executed = Asked]
        /\ UNCHANGED <<mode, extGameState, stale>> /\ bigConfigString' = [index |-> c.index, text |-> c.text]
    BY <1>7 DEF FirstPiece
  <2> QED BY <1>3, <2>1
<1>8. CASE PieceTooLong
  BY <1>8 DEF PieceTooLong
<1>9. CASE NextPiece
  <2>1. /\ c.cmd = "y" /\ client' = [client EXCEPT !.executed = Asked]
        /\ UNCHANGED <<mode, extGameState, stale>> /\ bigConfigString' = [bigConfigString EXCEPT !.text = Pieced]
    BY <1>9 DEF NextPiece
  <2>2. bigConfigString.index = c.index /\ Pieced = c.value
    BY <2>1
  <2>3. bigConfigString' = [index |-> c.index, text |-> c.value]
    <3> HIDE DEF c
    <3> QED BY <1>1, <2>1, <2>2
  <2> QED BY <1>3, <2>1, <2>3
<1>10. CASE LastPiece
  <2>1. /\ c.cmd = "z"
        /\ IF bigConfigString.index \in Index
           THEN CL_ConfigstringModified(bigConfigString.index, Pieced)
           ELSE \E s \in {<<>>, Pieced} : CL_ConfigstringModified(0, s)
    BY <1>10 DEF LastPiece
  <2>2. bigConfigString.index = c.index /\ Pieced = c.value
    BY <2>1
  <2> QED BY <1>1, <1>4, <2>1, <2>2
<1>11. CASE WholeString
  <2>1. c.cmd = "d" /\ CL_ConfigstringModified(c.index, c.text)
    BY <1>11 DEF WholeString
  <2> QED BY <1>4, <2>1
<1> QED BY <1>5, <1>6, <1>7, <1>8, <1>9, <1>10, <1>11 DEF CL_CGameNeedsServerCommand

\* What no turn changes.
LEMMA TurnLeaves ==
    ASSUME CL_CGameNeedsServerCommand
    PROVE  /\ Executes /\ UNCHANGED <<legacy, server, svCommands, recording, demo, position>>
           /\ mode = "live" \/ ~ CycledOut => shown' = shown
           /\ mode' \in {mode, "over"}
           /\ CycledOut <=> CommandIsLost
  BY DEF CL_CGameNeedsServerCommand, CommandIsLost, CommandIsEmpty, FirstPiece, PieceTooLong, NextPiece,
         LastPiece, WholeString, CL_ConfigstringModified, unchangedByCommand

\* Without the x-protocol the second block stays empty, and the slots are as they were.
LEMMA TurnOneBlock ==
    ASSUME GameTypes, OneBlockInv, CL_CGameNeedsServerCommand
    PROVE  /\ client'.map = client.map /\ client'.serverCommands = client.serverCommands
           /\ client'.serverCommandSequence = client.serverCommandSequence
           /\ client'.serverCommandNum = client.serverCommandNum
           /\ OneBlockInv'
<1> DEFINE one == (mode = "live" /\ legacy) \/ (mode = "replay" /\ OneBlock)
           same(c) == [map : {client.map}, gameState : {c.gameState},
                       serverCommandSequence : {client.serverCommandSequence},
                       serverCommandNum : {client.serverCommandNum},
                       serverCommands : {client.serverCommands}, executed : {c.executed}]
           small == bigConfigString.index < MaxConfigStrings
           next == client'.gameState
<1>1. /\ client \in Client /\ Executes /\ mode' \in {mode, "over"} /\ mode \in {"live", "replay"}
      /\ UNCHANGED <<legacy, svCommands, demo>> /\ client.gameState \in Blocks
  BY TurnLeaves DEF GameTypes, Client, Executes
<1>2. one => /\ extGameState = EmptyGameState /\ small
             /\ \A n \in 1 .. Len(svCommands) : svCommands[n].index < MaxConfigStrings
             /\ \A slot \in 0 .. Slots - 1 :
                  client.serverCommands[slot] # NoCommand =>
                      client.serverCommands[slot].index < MaxConfigStrings
  BY DEF OneBlockInv
\* It is enough that the block and the buffer are so.
<1>3. ASSUME client' \in same(client'), one => extGameState' = EmptyGameState /\ small'
      PROVE  client' \in same(client') /\ OneBlockInv'
  <2>1. client'.serverCommands = client.serverCommands
    BY <1>3
  <2>2. one' => one
    BY <1>1 DEF OneBlock
  <2> HIDE DEF one, same, small
  <2>3. one' => /\ extGameState' = EmptyGameState /\ small'
                /\ \A n \in 1 .. Len(svCommands') : svCommands'[n].index < MaxConfigStrings
                /\ \A slot \in 0 .. Slots - 1 :
                     client'.serverCommands[slot] # NoCommand =>
                         client'.serverCommands[slot].index < MaxConfigStrings
    BY <1>1, <1>2, <1>3, <2>1, <2>2
  <2> QED BY <1>3, <2>3 DEF OneBlockInv, one, small
<1>4. ASSUME client' = [client EXCEPT !.executed = Asked] \/ client' = client
      PROVE  client' \in same(client')
  <2> DEFINE e == Asked
  <2> HIDE DEF e
  <2>1. client' = [client EXCEPT !.executed = e] \/ client' = client
    BY <1>4 DEF e
  <2> QED BY <1>1, <2>1 DEF Client
\* The command in the slot is about the first block.
<1>5. ASSUME one, Command.cmd # "none" PROVE Command.index < MaxConfigStrings
  <2>1. Asked % Slots \in 0 .. Slots - 1
    <3> DEFINE a == client.executed + 1
    <3>1. a \in Nat /\ Slots \in Nat \ {0}
      BY <1>1, GameConstants DEF Client
    <3> HIDE DEF a
    <3> QED BY <3>1 DEF Asked, a
  <2>2. Command # NoCommand
    BY <1>5 DEF NoCommand
  <2> QED BY <1>2, <1>5, <2>1, <2>2 DEF Command
<1>6. ASSUME NEW i, NEW s, CL_ConfigstringModified(i, s), one => i < MaxConfigStrings
      PROVE  client' \in same(client') /\ (one => extGameState' = extGameState)
  <2> DEFINE block == Filled(EmptyGameState, Modified(i, s), FirstOf(i))
             executed == [client EXCEPT !.executed = @ + 1]
             e == client.executed + 1
  <2>1. executed = [client EXCEPT !.executed = e]
    BY <1>1 DEF Client
  <2>2. /\ client' = executed \/ client' = [executed EXCEPT !.gameState = block]
        /\ i < MaxConfigStrings => extGameState' = extGameState
    BY <1>6 DEF CL_ConfigstringModified
  <2> HIDE DEF block, executed, e
  <2>3. client' \in same(client')
    BY <1>1, <2>1, <2>2 DEF Client
  <2> QED BY <1>6, <2>2, <2>3
<1> HIDE DEF same
<1>7. CASE CommandIsLost
  <2>1. /\ UNCHANGED <<extGameState, bigConfigString>>
        /\ client' = [client EXCEPT !.executed = Asked] \/ client' = client
    BY <1>7 DEF CommandIsLost
  <2>2. one => extGameState' = EmptyGameState /\ small'
    BY <1>2, <2>1
  <2>3. client' \in same(client')
    BY <1>4, <2>1
  <2> HIDE DEF one, small
  <2> QED BY <1>3, <2>2, <2>3 DEF same
<1>8. CASE CommandIsEmpty
  <2>1. UNCHANGED <<extGameState, bigConfigString>> /\ client' = [client EXCEPT !.executed = Asked]
    BY <1>8 DEF CommandIsEmpty
  <2>2. one => extGameState' = EmptyGameState /\ small'
    BY <1>2, <2>1
  <2>3. client' \in same(client')
    BY <1>4, <2>1
  <2> HIDE DEF one, small
  <2> QED BY <1>3, <2>2, <2>3 DEF same
<1>9. CASE FirstPiece
  <2>1. /\ extGameState' = extGameState /\ bigConfigString' = [index |-> Command.index, text |-> Command.text]
        /\ client' = [client EXCEPT !.executed = Asked] /\ Command.cmd # "none"
    BY <1>9 DEF FirstPiece
  <2>2. one => extGameState' = EmptyGameState /\ small'
    <3>1. one => Command.index < MaxConfigStrings
      BY <1>5, <2>1
    <3>2. bigConfigString'.index = Command.index
      BY <2>1
    <3> QED BY <1>2, <2>1, <3>1, <3>2
  <2>3. client' \in same(client')
    BY <1>4, <2>1
  <2> HIDE DEF one, small
  <2> QED BY <1>3, <2>2, <2>3 DEF same
<1>10. CASE PieceTooLong
  <2>1. UNCHANGED <<extGameState, bigConfigString>> /\ client' = client
    BY <1>10 DEF PieceTooLong
  <2>2. one => extGameState' = EmptyGameState /\ small'
    BY <1>2, <2>1
  <2>3. client' \in same(client')
    BY <1>4, <2>1
  <2> HIDE DEF one, small
  <2> QED BY <1>3, <2>2, <2>3 DEF same
<1>11. CASE NextPiece
  <2>1. /\ extGameState' = extGameState /\ bigConfigString' = [bigConfigString EXCEPT !.text = Pieced]
        /\ client' = [client EXCEPT !.executed = Asked]
    BY <1>11 DEF NextPiece
  <2>2. bigConfigString'.index = bigConfigString.index
    BY <2>1 DEF GameTypes
  <2>3. one => extGameState' = EmptyGameState /\ small'
    BY <1>2, <2>1, <2>2
  <2>4. client' \in same(client')
    BY <1>4, <2>1
  <2> HIDE DEF one, small
  <2> QED BY <1>3, <2>3, <2>4 DEF same
<1>12. CASE LastPiece
  <2>1. /\ bigConfigString' = [bigConfigString EXCEPT !.text = Pieced]
        /\ IF bigConfigString.index \in Index
           THEN CL_ConfigstringModified(bigConfigString.index, Pieced)
           ELSE \E s \in {<<>>, Pieced} : CL_ConfigstringModified(0, s)
    BY <1>12 DEF LastPiece
  <2>2. bigConfigString'.index = bigConfigString.index
    BY <2>1 DEF GameTypes
  <2>3. client' \in same(client') /\ (one => extGameState' = extGameState)
    <3>1. CASE bigConfigString.index \in Index
      BY <1>2, <1>6, <2>1, <3>1
    <3>2. CASE bigConfigString.index \notin Index
      <4>1. 0 < MaxConfigStrings
        BY GameConstants
      <4> QED BY <1>6, <2>1, <3>2, <4>1
    <3> QED BY <3>1, <3>2
  <2>4. one => extGameState' = EmptyGameState /\ small'
    BY <1>2, <2>2, <2>3
  <2> HIDE DEF one, small
  <2> QED BY <1>3, <2>3, <2>4 DEF same
<1>13. CASE WholeString
  <2>1. CL_ConfigstringModified(Command.index, Command.text) /\ bigConfigString' = bigConfigString
        /\ Command.cmd # "none"
    BY <1>13 DEF WholeString
  <2>2. client' \in same(client') /\ (one => extGameState' = extGameState)
    BY <1>5, <1>6, <2>1
  <2>3. one => extGameState' = EmptyGameState /\ small'
    BY <1>2, <2>1, <2>2
  <2> HIDE DEF one, small
  <2> QED BY <1>3, <2>2, <2>3 DEF same
<1> QED BY <1>7, <1>8, <1>9, <1>10, <1>11, <1>12, <1>13 DEF CL_CGameNeedsServerCommand

\* What a message brings of a server without a second block.
SlotsStaySmall(first, last) ==
    /\ \A n \in 1 .. Len(svCommands) : svCommands[n].index < MaxConfigStrings
    /\ \A slot \in 0 .. Slots - 1 :
         client.serverCommands[slot] # NoCommand => client.serverCommands[slot].index < MaxConfigStrings
    => \A slot \in 0 .. Slots - 1 :
         client'.serverCommands[slot] # NoCommand => client'.serverCommands[slot].index < MaxConfigStrings

\* The server's commands are about the first block, and so are those in the slots.
LEMMA SlotsSmall ==
    ASSUME GameTypes, NEW first \in Nat \ {0}, NEW last \in Nat, last <= Len(svCommands),
           \A slot \in 0 .. Slots - 1 :
             client'.serverCommands[slot] =
               IF Here(first, last, slot) = {} THEN client.serverCommands[slot]
               ELSE svCommands[Max(Here(first, last, slot))]
    PROVE  SlotsStaySmall(first, last)
<1>1. ASSUME NEW slot \in 0 .. Slots - 1, Here(first, last, slot) # {}
      PROVE  Max(Here(first, last, slot)) \in 1 .. Len(svCommands)
  <2> DEFINE S == Here(first, last, slot)
  <2>1. client.serverCommandSequence \in Nat /\ Len(svCommands) \in Nat
    BY DEF GameTypes, Client
  <2>2. S \in SUBSET Nat /\ S # {} /\ (\A y \in S : y <= last) /\ S \subseteq 1 .. Len(svCommands)
    BY <1>1, <2>1 DEF Here, New
  <2> HIDE DEF S
  <2>3. Max(S) \in S
    BY <2>2, MaxExists
  <2> QED BY <2>2, <2>3 DEF S
<1> QED BY <1>1 DEF SlotsStaySmall

-----------------------------------------------------------------------------
(* Demos, while connected *)

\* What there is to show, by where the step ends.
LEMMA EndsOver == ASSUME mode' = "over", DemoInv' PROVE ReplayInv'
  BY DEF ReplayInv, NothingInv, OneBlockInv, RecordingInv, RecordedStrings, ShownInv, ReplayPlace,
         ReplaySlots, ReplayStrings

\* A client that stays connected.
LEMMA EndsLive ==
    ASSUME mode' = "live", DemoInv', OneBlockInv', RecordingInv', RecordedStrings' PROVE ReplayInv'
  BY DEF ReplayInv, NothingInv, ShownInv, ReplayPlace, ReplaySlots, ReplayStrings

\* A demo that goes on.
LEMMA EndsInReplay ==
    ASSUME mode' = "replay", DemoInv', OneBlockInv', ShownInv', ReplayPlace', ReplaySlots', ReplayStrings'
    PROVE  ReplayInv'
  BY DEF ReplayInv, NothingInv, RecordingInv, RecordedStrings

\* A demo and commands that stay as they are.
LEMMA SameDemo ==
    ASSUME DemoInv, UNCHANGED <<demo, svCommands>>
    PROVE  DemoInv' /\ LastState' = LastState /\ (OneBlock' <=> OneBlock)
  BY DEF DemoInv, LastState, OneBlock

\* What recording and connection have in common.
LEMMA LiveFacts ==
    ASSUME GameInv, ReplayInv, mode = "live"
    PROVE  /\ GameTypes /\ client \in Client /\ client.executed \in Nat
           /\ client.serverCommandSequence \in Nat /\ svCommands \in Seq(ServerCommand) /\ Len(svCommands) \in Nat
           /\ client.executed <= client.serverCommandNum
           /\ client.serverCommandNum = client.serverCommandSequence
           /\ client.serverCommandSequence <= Len(svCommands)
           /\ client.map = server.map /\ server.map \in Nat \ {0} /\ position = 0
           /\ DemoInv /\ OneBlockInv /\ RecordingInv /\ RecordedStrings
<1>1. GameTypes /\ LiveInv
  BY DEF GameInv
<1>2. DemoInv /\ OneBlockInv /\ RecordingInv /\ RecordedStrings
  BY DEF ReplayInv
<1> QED BY <1>1, <1>2 DEF GameTypes, Client, LiveInv, RecordingInv

\* The server sets a string.
LEMMA SetConfigstringReplays ==
    ASSUME GameInv, ReplayInv, NEW i \in Index, NEW text \in Text, SV_SetConfigstring(i, text)
    PROVE  ReplayInv'
<1> DEFINE cs == Commands(i, text)
<1>1. /\ mode = "live" /\ svCommands' = svCommands \o cs /\ (legacy => i < MaxConfigStrings)
      /\ UNCHANGED <<mode, legacy, client, extGameState, bigConfigString, server, recording, demo, position>>
  BY DEF SV_SetConfigstring
<1>2. cs \in Seq(ServerCommand) /\ \A p \in 1 .. Len(cs) : Continues(cs, p)
  BY CommandsContinue
<1>3. \A p \in 1 .. Len(cs) : cs[p].index = i
  BY CommandsIndex
<1> HIDE DEF cs
<1>4. /\ svCommands' \in Seq(ServerCommand) /\ Len(svCommands) <= Len(svCommands')
      /\ \A n \in 1 .. Len(svCommands) : svCommands'[n] = svCommands[n]
  BY <1>1, <1>2, CommandsAppended DEF GameInv
<1>5. /\ GameTypes /\ client \in Client /\ client.executed \in Nat
      /\ client.serverCommandSequence \in Nat /\ svCommands \in Seq(ServerCommand) /\ Len(svCommands) \in Nat
      /\ client.executed <= Len(svCommands)
      /\ DemoInv /\ OneBlockInv /\ RecordingInv /\ RecordedStrings
  BY <1>1, LiveFacts
<1>6. LastState' = LastState /\ (OneBlock' <=> OneBlock)
  BY <1>1 DEF LastState, OneBlock
<1>7. DemoInv'
  <2>1. CASE demo = <<>>
    BY <1>1, <2>1 DEF DemoInv
  <2>2. CASE demo # <<>>
    <3>1. Ordered(demo) /\ Reaches(demo, Len(demo)) <= Len(svCommands) /\ Reaches(demo, Len(demo)) \in Nat
      BY <1>5, <2>2, DemoFacts
    <3>2. Reaches(demo, Len(demo)) <= Len(svCommands')
      <4>1. Len(svCommands') \in Nat
        BY <1>4
      <4> QED BY <1>4, <1>5, <3>1, <4>1
    <3> QED BY <1>1, <3>1, <3>2 DEF DemoInv
  <2> QED BY <2>1, <2>2
<1>8. OneBlockInv'
  <2>1. legacy => \A n \in 1 .. Len(svCommands') : svCommands'[n].index < MaxConfigStrings
    <3> SUFFICES ASSUME legacy, NEW n \in 1 .. Len(svCommands')
                 PROVE  svCommands'[n].index < MaxConfigStrings
      OBVIOUS
    <3>1. CASE n \in 1 .. Len(svCommands)
      BY <1>1, <1>4, <1>5, <3>1 DEF OneBlockInv
    <3>2. CASE n \notin 1 .. Len(svCommands)
      <4>1. Len(svCommands \o cs) = Len(svCommands) + Len(cs)
            /\ \A k \in 1 .. Len(svCommands) + Len(cs) :
                 (svCommands \o cs)[k] = IF k <= Len(svCommands) THEN svCommands[k] ELSE cs[k - Len(svCommands)]
        BY <1>2, <1>5, ConcatProperties
      <4> DEFINE p == n - Len(svCommands)
      <4>2. p \in 1 .. Len(cs) /\ svCommands'[n] = cs[p]
        BY <1>1, <1>2, <1>5, <3>2, <4>1
      <4> QED BY <1>1, <1>3, <4>2
    <3> QED BY <3>1, <3>2
  <2> QED BY <1>1, <1>5, <2>1 DEF OneBlockInv
<1>9. RecordingInv'
  BY <1>1, <1>5, <1>6 DEF RecordingInv
<1>10. RecordedStrings'
  <2> SUFFICES ASSUME demo # <<>>, client.map = LastState.map,
                      NEW j \in Index \ LastState.emptied, legacy => j < MaxConfigStrings
               PROVE  CL_GetConfigString(j)' =
                        After(svCommands', LastState.strings, j, LastState.executed + 1 .. client.executed)
    BY <1>1, <1>6 DEF RecordedStrings
  <2>1. CL_GetConfigString(j)' = CL_GetConfigString(j)
    BY <1>1, StringsKept
  <2>2. CL_GetConfigString(j) =
          After(svCommands, LastState.strings, j, LastState.executed + 1 .. client.executed)
    BY <1>1, <1>5 DEF RecordedStrings
  <2>3. LastState.executed \in Nat
    BY <1>5, DemoFacts
  <2> DEFINE a == LastState.executed
             e == client.executed
             cs0 == svCommands
             ds0 == svCommands'
             s0 == LastState.strings
  <2>4. a \in Nat /\ e \in Nat /\ \A k \in a + 1 .. e : cs0[k] = ds0[k]
    BY <1>4, <1>5, <2>3
  <2> HIDE DEF a, e, cs0, ds0, s0
  <2>5. After(cs0, s0, j, a + 1 .. e) = After(ds0, s0, j, a + 1 .. e)
    BY <2>4, AfterKept
  <2> QED BY <2>1, <2>2, <2>5 DEF a, e, cs0, ds0, s0
<1> QED BY <1>1, <1>7, <1>8, <1>9, <1>10, EndsLive

\* A message arrives, and may be written.
LEMMA PacketReplays ==
    ASSUME GameInv, ReplayInv, NEW first, NEW full, CL_PacketEvent(first, full)
    PROVE  ReplayInv'
<1> DEFINE last == Len(svCommands)
           writes == recording = "yes" \/ (recording = "waiting" /\ full)
           e == Message(first, last)
           seq == client.serverCommandSequence
<1>1. /\ mode = "live" /\ first \in server.first .. seq + 1
      /\ server' = [server EXCEPT !.first = first]
      /\ CL_ParseServerMessage(first, last)
      /\ recording' = IF writes THEN "yes" ELSE recording
      /\ demo' = IF writes THEN Append(demo, e) ELSE demo
      /\ UNCHANGED <<mode, legacy, extGameState, bigConfigString, svCommands, position>>
  BY DEF CL_PacketEvent
<1>2. /\ GameTypes /\ client \in Client /\ client.executed \in Nat
      /\ seq \in Nat /\ svCommands \in Seq(ServerCommand) /\ last \in Nat
      /\ client.serverCommandNum = seq /\ seq <= last
      /\ client.map = server.map /\ server.map \in Nat \ {0} /\ position = 0
      /\ DemoInv /\ OneBlockInv /\ RecordingInv /\ RecordedStrings /\ SlotsInv
      /\ server \in [map : DOMAIN Maps \cup {0}, sequence : Nat, first : Nat \ {0}, local : BOOLEAN]
  BY <1>1, LiveFacts DEF GameInv, GameTypes, LiveInv
<1>3. first \in Nat \ {0} /\ first <= seq + 1 /\ server.first <= first /\ server.first \in Nat
      /\ first <= last + 1
  BY <1>1, <1>2
<1>4. /\ e \in Entry /\ e.kind = "message" /\ e.first = first /\ e.last = last
      /\ server'.first = first /\ server'.map = server.map
  <2>1. e.first = first
    BY DEF Message
  <2>2. e \in Entry /\ e.kind = "message" /\ e.last = last
    <3> HIDE DEF last
    <3> QED BY <1>2, <1>3, MessageEntry
  <2> QED BY <1>1, <1>2, <2>1, <2>2
<1>5. /\ client' = [client EXCEPT !.serverCommands = client'.serverCommands,
                      !.serverCommandSequence = last, !.serverCommandNum = last]
      /\ \A slot \in 0 .. Slots - 1 :
           client'.serverCommands[slot] =
             IF Here(first, last, slot) = {} THEN client.serverCommands[slot]
             ELSE svCommands[Max(Here(first, last, slot))]
  <2>1. last <= Len(svCommands) /\ last = Len(svCommands) /\ svCommands' = svCommands
    BY <1>1, <1>2
  <2> HIDE DEF last, seq
  <2>2. /\ client' = [client EXCEPT !.serverCommands = client'.serverCommands,
                        !.serverCommandSequence = Received(first, last),
                        !.serverCommandNum = Received(first, last)]
        /\ \A slot \in 0 .. Slots - 1 :
             client'.serverCommands[slot] =
               IF Here(first, last, slot) = {} THEN client.serverCommands[slot]
               ELSE svCommands[Max(Here(first, last, slot))]
    BY <1>1, <1>2, <1>3, <2>1, MessageParsed
  <2>3. client'.serverCommandSequence = last
    BY <1>1, <1>2, <1>3, <2>1, SlotsFilled DEF seq
  <2>4. Received(first, last) = last
    BY <1>2, <2>2, <2>3 DEF Client
  <2> QED BY <2>2, <2>4
<1>6. client'.map = client.map /\ client'.executed = client.executed
      /\ client'.gameState = client.gameState /\ client'.serverCommandSequence = last
  BY <1>2, <1>5 DEF Client
<1>7. \A i : CL_GetConfigString(i)' = CL_GetConfigString(i)
  BY <1>1, <1>6, StringsKept
<1>8. OneBlockInv'
  <2>1. SlotsStaySmall(first, last)
    <3>1. last <= Len(svCommands)
      BY <1>2
    <3> HIDE DEF last, e, seq
    <3> QED BY <1>2, <1>3, <1>5, <3>1, SlotsSmall
  <2> QED BY <1>1, <1>2, <2>1 DEF OneBlockInv, OneBlock, SlotsStaySmall
<1> HIDE DEF e, seq
\* Nothing is written.
<1>9. CASE ~ writes
  <2>1. demo' = demo /\ recording' = recording /\ svCommands' = svCommands
    BY <1>1, <1>9
  <2>2. DemoInv' /\ LastState' = LastState /\ (OneBlock' <=> OneBlock)
    BY <1>2, <2>1, SameDemo
  <2>3. RecordingInv'
    <3>1. demo # <<>> => Reaches(demo, Len(demo)) <= last
      BY <1>2 DEF DemoInv
    <3> HIDE DEF last
    <3>2. recording # "yes"
      BY <1>9
    <3>3. RecordingInv /\ mode = "live"
      BY <1>1, <1>2
    <3> QED BY <1>1, <1>2, <1>4, <1>6, <2>1, <2>2, <3>1, <3>2, <3>3 DEF RecordingInv
  <2>4. RecordedStrings'
    BY <1>1, <1>2, <1>6, <1>7, <2>1, <2>2 DEF RecordedStrings
  <2> QED BY <1>1, <1>8, <2>2, <2>3, <2>4, EndsLive
\* The message is written.
<1>10. CASE writes
  <2>1. demo' = Append(demo, e) /\ recording' = "yes" /\ svCommands' = svCommands /\ recording \in {"yes", "waiting"}
    BY <1>1, <1>10
  <2>2. /\ demo # <<>>
        /\ recording = "waiting" => Len(demo) = Opening(demo) /\ Reaches(demo, Len(demo)) <= seq
        /\ recording = "yes" =>
             /\ Opening(demo) < Len(demo) /\ Reaches(demo, Len(demo)) = seq
             /\ demo[Opening(demo) + 1].first <= server.first
        /\ LastState.map <= client.map /\ LastState.executed <= client.executed
        /\ legacy <=> OneBlock
    BY <1>1, <1>2, <2>1 DEF RecordingInv, seq
  <2>3. /\ demo \in Seq(Entry) /\ Headed(demo) /\ Ordered(demo) /\ Reaches(demo, Len(demo)) \in Nat
    BY <1>2, <2>2, DemoFacts
  <2>4. MessageFollows(demo, e)
    <3>1. Reaches(demo, Len(demo)) <= last
      BY <1>2, <2>2, <2>3 DEF DemoInv
    <3>2. Opening(demo) < Len(demo) => recording = "yes" /\ demo[Opening(demo) + 1].first \in Nat
      <4>1. Opening(demo) < Len(demo) => demo[Opening(demo) + 1].first \in Nat \ {0}
        BY <2>3, DemoPlaces
      <4>2. Len(demo) \in Nat
        BY <2>3
      <4> QED BY <2>1, <2>2, <4>1, <4>2
    <3>3. Opening(demo) < Len(demo) =>
            first <= Reaches(demo, Len(demo)) + 1 /\ demo[Opening(demo) + 1].first <= first
      BY <1>3, <2>2, <3>2 DEF seq
    <3> QED BY <1>3, <1>4, <3>1, <3>3 DEF MessageFollows
  <2>5. Longer(demo, e, demo')
    BY <1>4, <2>1, <2>3, AppendIsLonger
  <2>6. /\ Ordered(demo') /\ Opening(demo') < Len(demo')
        /\ demo'[Newest(demo')] = demo[Newest(demo)] /\ demo'[1] = demo[1]
        /\ Reaches(demo', Len(demo')) = e.last /\ demo'[Opening(demo') + 1].first <= e.first
    <3> DEFINE d == demo
               w == demo'
    <3>1. d \in Seq(Entry) /\ Ordered(d) /\ MessageFollows(d, e) /\ Longer(d, e, w)
      BY <2>3, <2>4, <2>5
    <3> HIDE DEF d, w
    <3>2. /\ Ordered(w) /\ Opening(w) < Len(w)
          /\ w[Newest(w)] = d[Newest(d)] /\ w[1] = d[1]
          /\ Reaches(w, Len(w)) = e.last /\ w[Opening(w) + 1].first <= e.first
      BY <3>1, MessageAdded
    <3> QED BY <3>2 DEF d, w
  <2>7. LastState' = LastState /\ (OneBlock' <=> OneBlock) /\ demo' # <<>>
    BY <2>3, <2>5, <2>6 DEF LastState, OneBlock, Longer
  <2>8. DemoInv'
    BY <1>1, <1>2, <1>4, <2>6 DEF DemoInv
  <2>9. RecordingInv'
    BY <1>1, <1>2, <1>4, <1>6, <2>1, <2>2, <2>6, <2>7 DEF RecordingInv
  <2>10. RecordedStrings'
    BY <1>1, <1>2, <1>6, <1>7, <2>1, <2>2, <2>7 DEF RecordedStrings
  <2> QED BY <1>1, <1>8, <2>8, <2>9, <2>10, EndsLive
<1> QED BY <1>9, <1>10

\* A recording starts with what the client has.
LEMMA RecordReplays == GameInv /\ ReplayInv /\ CL_Record_f => ReplayInv'
<1> SUFFICES ASSUME GameInv, ReplayInv, CL_Record_f PROVE ReplayInv'
  OBVIOUS
<1> DEFINE emptied == {i \in DOMAIN Defaults : CL_GetConfigString(i) = <<>>}
           strings == Written(client.gameState, extGameState)
           e == GameStateEntry(client, strings, emptied)
<1>1. /\ mode = "live" /\ recording' = "waiting"
      /\ demo' = (IF legacy THEN <<>> ELSE <<Protocol>>) \o <<e>>
      /\ UNCHANGED <<mode, legacy, client, extGameState, bigConfigString, server, svCommands, position>>
  BY DEF CL_Record_f
<1>2. /\ GameTypes /\ client \in Client /\ client.executed \in Nat /\ legacy \in BOOLEAN
      /\ client.serverCommandSequence \in Nat /\ Len(svCommands) \in Nat
      /\ client.executed <= client.serverCommandSequence
      /\ client.serverCommandSequence <= Len(svCommands)
      /\ client.map = server.map /\ server.map \in Nat \ {0} /\ position = 0
      /\ OneBlockInv /\ client.gameState \in Blocks /\ extGameState \in Blocks
  BY <1>1, LiveFacts DEF GameTypes, Client
<1>3. /\ e.map = client.map /\ e.sequence = client.serverCommandSequence /\ e.executed = client.executed
      /\ e.strings = strings /\ e.emptied = emptied
  BY DEF GameStateEntry
<1>4. e \in Entry /\ e.kind = "gamestate"
  <2>1. emptied \in SUBSET Index /\ strings \in Strings
    BY <1>2, WrittenTexts, GameStateAssumption
  <2> HIDE DEF emptied, strings
  <2> QED BY <1>2, <2>1, StateEntry
<1>5. ASSUME NEW i \in Index \ emptied, legacy => i < MaxConfigStrings
      PROVE  CL_GetConfigString(i) = IF i \in DOMAIN WithDefaults(strings) THEN WithDefaults(strings)[i] ELSE <<>>
  <2> DEFINE b == Block(i)
  <2>1. b = IF i < MaxConfigStrings THEN client.gameState ELSE extGameState
    BY DEF Block
  <2>2. CL_GetConfigString(i) = StringAt(b, b.stringOffsets[Place(i)])
    BY DEF CL_GetConfigString
  <2> HIDE DEF b
  <2>3. IF b.stringOffsets[Place(i)] # 0
        THEN i \in DOMAIN strings /\ strings[i] = CL_GetConfigString(i)
        ELSE i \notin DOMAIN strings /\ CL_GetConfigString(i) = <<>>
    BY <1>2, <1>5, <2>1, <2>2, WrittenIs
  <2>4. strings \in Strings
    BY <1>2, WrittenTexts
  <2> HIDE DEF strings
  <2>5. CASE i \in DOMAIN strings
    BY <2>3, <2>4, <2>5, DefaultTexts
  <2>6. CASE i \notin DOMAIN strings
    <3>1. i \notin DOMAIN Defaults /\ CL_GetConfigString(i) = <<>>
      BY <1>5, <2>3, <2>6
    <3> QED BY <2>4, <2>6, <3>1, DefaultTexts
  <2> QED BY <2>5, <2>6
<1> HIDE DEF e, strings, emptied
<1>6. /\ demo' \in Seq(Entry) /\ Ordered(demo') /\ Len(demo') = Opening(demo')
      /\ demo'[Newest(demo')] = e /\ Reaches(demo', Len(demo')) = e.sequence /\ demo' # <<>>
      /\ legacy <=> demo'[1].kind # "protocol"
  <2>1. PICK w : w = demo'
    OBVIOUS
  <2>2. e.map \in Nat \ {0} /\ e.executed <= e.sequence
    BY <1>2, <1>3
  <2>3. w = (IF legacy THEN <<>> ELSE <<Protocol>>) \o <<e>>
    BY <1>1, <2>1
  <2>4. /\ w \in Seq(Entry) /\ Ordered(w) /\ Len(w) = Opening(w)
        /\ w[Newest(w)] = e /\ Reaches(w, Len(w)) = e.sequence /\ w # <<>>
        /\ legacy <=> w[1].kind # "protocol"
    <3> DEFINE o == IF legacy THEN 1 ELSE 2
    <3>1. o \in {1, 2} /\ w = (IF o = 1 THEN <<e>> ELSE <<Protocol>> \o <<e>>) /\ (legacy <=> o = 1)
      <4>1. CASE legacy
        <5>1. w = <<>> \o <<e>> /\ <<>> \o <<e>> = <<e>> /\ o = 1
          BY <2>3, <4>1
        <5> QED BY <4>1, <5>1
      <4>2. CASE ~ legacy
        <5>1. w = <<Protocol>> \o <<e>> /\ o = 2
          BY <2>3, <4>2
        <5> QED BY <4>2, <5>1
      <4> QED BY <4>1, <4>2
    <3> HIDE DEF o
    <3>2. /\ w \in Seq(Entry) /\ Ordered(w) /\ Len(w) = Opening(w)
          /\ w[Newest(w)] = e /\ Reaches(w, Len(w)) = e.sequence /\ w # <<>>
          /\ o = 1 <=> w[1].kind # "protocol"
      BY <1>4, <2>2, <3>1, DemoOpened
    <3> QED BY <3>1, <3>2
  <2> QED BY <2>1, <2>4
<1>7. LastState' = e /\ (legacy <=> OneBlock')
  BY <1>6 DEF LastState, OneBlock
<1>8. DemoInv'
  BY <1>1, <1>2, <1>3, <1>6 DEF DemoInv
<1>9. OneBlockInv'
  BY <1>1, <1>2 DEF OneBlockInv
<1>10. RecordingInv'
  BY <1>1, <1>2, <1>3, <1>6, <1>7 DEF RecordingInv
<1>11. RecordedStrings'
  <2> SUFFICES ASSUME NEW i \in Index \ emptied, legacy => i < MaxConfigStrings
               PROVE  CL_GetConfigString(i)' =
                        After(svCommands, strings, i, client.executed + 1 .. client.executed)
    BY <1>1, <1>3, <1>7 DEF RecordedStrings
  <2>1. CL_GetConfigString(i)' = CL_GetConfigString(i)
    BY <1>1, StringsKept
  <2>2. client.executed + 1 .. client.executed = {}
    BY <1>2
  <2> QED BY <1>5, <2>1, <2>2, AfterNone
<1> QED BY <1>1, <1>8, <1>9, <1>10, <1>11, EndsLive

\* A turn, while connected.
LEMMA LiveTurnReplays ==
    ASSUME GameInv, ReplayInv, mode = "live", CL_CGameNeedsServerCommand
    PROVE  ReplayInv'
<1> DEFINE c == Command
           x == client.executed
<1>1. /\ Executes /\ UNCHANGED <<legacy, server, svCommands, recording, demo, position>>
      /\ mode' \in {"live", "over"} /\ (CycledOut => mode' = "over")
  BY TurnLeaves DEF CommandIsLost
<1>2. /\ GameTypes /\ x \in Nat /\ DemoInv /\ OneBlockInv /\ RecordingInv /\ RecordedStrings
      /\ svCommands \in Seq(ServerCommand)
  BY LiveFacts
<1>3. DemoInv' /\ LastState' = LastState /\ (OneBlock' <=> OneBlock)
  BY <1>1, <1>2, SameDemo
<1>4. CASE mode' = "over"
  BY <1>3, <1>4, EndsOver
<1>5. CASE mode' = "live"
  <2>1. /\ Asked \in 1 .. Len(svCommands) /\ Asked = x + 1
        /\ c = svCommands[Asked] /\ c \in ServerCommand /\ Continues(svCommands, Asked)
    BY <1>1, <1>5, LiveCommand
  <2>2. /\ c.cmd \in {"d", "x"} => c.value = c.text
        /\ c.cmd \in {"y", "z"} => bigConfigString.index = c.index /\ Pieced = c.value
    BY <1>1, <1>5, <2>1, BufferContinues DEF Continues
  <2>3. Takes(c)
    BY <1>1, <1>2, <1>5, <2>1, <2>2, CommandTaken
  <2>4. /\ client'.map = client.map /\ client'.serverCommandSequence = client.serverCommandSequence
        /\ OneBlockInv'
    BY <1>2, TurnOneBlock
  <2>5. client'.executed = Asked
    BY <1>2, <2>3 DEF Takes, GameTypes, Client
  <2>6. RecordingInv'
    <3>1. demo # <<>> => LastState.executed <= x + 1
      <4>1. demo # <<>> => LastState.executed <= x /\ LastState.executed \in Nat
        BY <1>2, DemoFacts DEF RecordingInv
      <4> HIDE DEF x
      <4> QED BY <1>2, <4>1
    <3> HIDE DEF x
    <3> QED BY <1>1, <1>2, <1>3, <1>5, <2>1, <2>4, <2>5, <3>1 DEF RecordingInv
  <2>7. RecordedStrings'
    <3> SUFFICES ASSUME demo # <<>>, client.map = LastState.map,
                        NEW i \in Index \ LastState.emptied, legacy => i < MaxConfigStrings
                 PROVE  CL_GetConfigString(i)' =
                          After(svCommands, LastState.strings, i, LastState.executed + 1 .. Asked)
      BY <1>1, <1>3, <2>4, <2>5 DEF RecordedStrings
    <3> DEFINE a == LastState.executed
               S == a + 1 .. x
               cs == svCommands
               strings == LastState.strings
               n == Asked
    <3>1. CL_GetConfigString(i) = After(cs, strings, i, S)
      BY <1>2 DEF RecordedStrings
    <3>2. a \in Nat /\ a <= x
      BY <1>2, DemoFacts DEF RecordingInv
    <3>3. a + 1 .. n = S \cup {n} /\ S \in SUBSET Nat /\ n \in Nat /\ \A k \in S : k < n
      <4> HIDE DEF a, x
      <4> QED BY <1>2, <2>1, <3>2
    <3>4. CL_GetConfigString(i)' = IF Sets(c, i) THEN c.value ELSE CL_GetConfigString(i)
      BY <2>3 DEF Takes
    <3> HIDE DEF c, S, a, n, cs, strings
    <3>5. After(cs, strings, i, S \cup {n}) = IF Sets(cs[n], i) THEN cs[n].value ELSE After(cs, strings, i, S)
      BY <3>3, AfterNext
    <3>6. cs[n] = c
      BY <2>1 DEF cs, n
    <3> QED BY <3>1, <3>3, <3>4, <3>5, <3>6 DEF cs, strings, a, n
  <2> QED BY <1>3, <1>5, <2>4, <2>6, <2>7, EndsLive
<1> QED BY <1>1, <1>4, <1>5

\* A client that was zeroed.
LEMMA NoClientIs ==
    /\ NoClient.map = 0 /\ NoClient.serverCommandSequence = 0 /\ NoClient.serverCommandNum = 0
    /\ NoClient.executed = 0 /\ NoClient.gameState = EmptyGameState
    /\ \A slot \in 0 .. Slots - 1 : NoClient.serverCommands[slot] = NoCommand
  BY DEF NoClient, NoCommand

\* The demo is played, in this process or in a new one.
LEMMA PlayReplays ==
    ASSUME GameInv, ReplayInv, NEW newProcess, CL_PlayDemo(newProcess)
    PROVE  ReplayInv'
<1> DEFINE strings == [i \in Index |-> CL_GetConfigString(i)]
<1>1. /\ mode = "live" /\ demo # <<>> /\ mode' = "replay" /\ legacy' = TRUE
      /\ client' = NoClient
      /\ shown' = [map |-> client.map, executed |-> client.executed, strings |-> strings, skipped |-> FALSE]
      /\ UNCHANGED <<svCommands, demo, position>>
  BY DEF CL_PlayDemo
<1>2. extGameState' \in {EmptyGameState, extGameState}
      /\ bigConfigString' \in {NoBigConfigString, bigConfigString}
  BY DEF CL_PlayDemo
<1>3. /\ GameTypes /\ client \in Client /\ client.executed \in Nat /\ client.map \in Nat \ {0} /\ position = 0
      /\ DemoInv /\ OneBlockInv /\ RecordingInv /\ RecordedStrings
  BY <1>1, LiveFacts
<1>4. DemoInv' /\ LastState' = LastState /\ (OneBlock' <=> OneBlock)
  BY <1>1, <1>3, SameDemo
<1>5. /\ LastState.map <= client.map /\ LastState.executed <= client.executed /\ (legacy <=> OneBlock)
      /\ LastState.map \in Nat \ {0} /\ Headed(demo) /\ demo \in Seq(Entry)
  BY <1>1, <1>3, DemoFacts DEF RecordingInv
<1>6. OneBlockInv'
  <2>1. OneBlock => extGameState' = EmptyGameState /\ bigConfigString'.index < MaxConfigStrings
    <3>1. NoBigConfigString.index < MaxConfigStrings
      BY GameConstants DEF NoBigConfigString
    <3> QED BY <1>1, <1>2, <1>3, <1>5, <3>1 DEF OneBlockInv
  <2> QED BY <1>1, <1>3, <1>4, <1>5, <2>1, NoClientIs DEF OneBlockInv
<1>7. ShownInv'
  <2>1. shown'.map = client.map /\ shown'.executed = client.executed /\ shown'.strings = strings
    BY <1>1
  <2>2. ASSUME client.map = LastState.map, NEW i \in Index \ LastState.emptied
        PROVE  CL_GetConfigString(i) =
                 IF OneBlock /\ ~ (i < MaxConfigStrings) THEN <<>>
                 ELSE After(svCommands, LastState.strings, i, LastState.executed + 1 .. client.executed)
    <3>1. CASE OneBlock /\ ~ (i < MaxConfigStrings)
      <4>1. extGameState = EmptyGameState
        BY <1>1, <1>3, <1>5, <3>1 DEF OneBlockInv
      <4>2. CL_GetConfigString(i) = <<>>
        BY <3>1, <4>1, NoStrings DEF CL_GetConfigString, Block
      <4> QED BY <3>1, <4>2
    <3>2. CASE ~ (OneBlock /\ ~ (i < MaxConfigStrings))
      BY <1>1, <1>3, <1>5, <2>2, <3>2 DEF RecordedStrings
    <3> QED BY <3>1, <3>2
  <2>3. ASSUME client.map = LastState.map, NEW i \in Index \ LastState.emptied
        PROVE  strings[i] =
                 IF OneBlock /\ ~ (i < MaxConfigStrings) THEN <<>>
                 ELSE After(svCommands, LastState.strings, i, LastState.executed + 1 .. client.executed)
    BY <2>2, <2>3
  <2> HIDE DEF strings
  <2>4. client.map = LastState.map => \A i \in Index \ LastState.emptied : strings[i] =
                 IF OneBlock /\ ~ (i < MaxConfigStrings) THEN <<>>
                 ELSE After(svCommands, LastState.strings, i, LastState.executed + 1 .. client.executed)
    BY <2>3
  <2> QED BY <1>1, <1>3, <1>4, <1>5, <2>1, <2>4 DEF ShownInv
<1>8. Opening(demo) \in {1, 2} /\ Newest(demo) \in Opening(demo) .. Len(demo) /\ Len(demo) \in Nat
      /\ Opening(demo) <= Len(demo)
  BY <1>5, DemoPlaces
<1>9. ~ (0 >= Opening(demo)) /\ ~ (0 >= Newest(demo)) /\ 0 <= Opening(demo) /\ 0 <= Len(demo)
  BY <1>8
<1> HIDE DEF strings
<1>10. ReplayPlace'
  <2>1. 0 < LastState.map /\ 0 <= 0 /\ 0 \in Nat
    BY <1>5
  <2> QED BY <1>1, <1>3, <1>4, <1>9, <2>1, NoClientIs DEF ReplayPlace
<1>11. ReplaySlots'
  <2>1. ~ (0 > Opening(demo))
    BY <1>8
  <2> QED BY <1>1, <1>3, <2>1, NoClientIs DEF ReplaySlots
<1>12. ReplayStrings'
  BY <1>1, <1>3, <1>9 DEF ReplayStrings
<1> QED BY <1>1, <1>4, <1>6, <1>7, <1>10, <1>11, <1>12, EndsInReplay

\* What is written of a game state that has just arrived brings the same strings.
LEMMA WrittenAnew ==
    ASSUME NEW sent \in Strings, NEW isLegacy, legacy = isLegacy, legacy' = isLegacy,
           client' \in Client, extGameState' \in Blocks,
           \A i \in Index \ stale' : (legacy' => i < MaxConfigStrings) =>
                CL_GetConfigString(i)' =
                   IF i \in DOMAIN WithDefaults(sent) THEN WithDefaults(sent)[i] ELSE <<>>,
           \A i \in DOMAIN WithDefaults(sent) : (legacy' => i < MaxConfigStrings) =>
                Block(i)'.stringOffsets[Place(i)] # 0,
           stale' \subseteq {i \in Index : ~ (i < MaxConfigStrings)},
           NEW written, written = IF isLegacy THEN sent ELSE Written(client'.gameState, extGameState'),
           written \in Strings,
           NEW i \in Index, legacy' => i < MaxConfigStrings
    PROVE  CL_GetConfigString(i)' = IF i \in DOMAIN WithDefaults(written) THEN WithDefaults(written)[i] ELSE <<>>
<1>1. CASE isLegacy
  <2>1. i \notin stale'
    BY <1>1
  <2> QED BY <1>1, <2>1
<1>2. CASE ~ isLegacy
  <2> DEFINE b == Block(i)'
             gs == client'.gameState
             ext == extGameState'
  <2>1. b = IF i < MaxConfigStrings THEN gs ELSE ext
    BY DEF Block
  <2>2. CL_GetConfigString(i)' = StringAt(b, b.stringOffsets[Place(i)])
    BY DEF CL_GetConfigString
  <2>3. gs \in Blocks /\ ext \in Blocks
    BY DEF Client
  <2>4. i \in DOMAIN Defaults => b.stringOffsets[Place(i)] # 0
    BY DefaultTexts
  <2> DEFINE x == CL_GetConfigString(i)'
  <2>5. x = StringAt(b, b.stringOffsets[Place(i)]) /\ written = Written(gs, ext)
    BY <1>2, <2>2
  <2> HIDE DEF b, gs, ext, x
  <2>6. IF b.stringOffsets[Place(i)] # 0
        THEN i \in DOMAIN written /\ written[i] = x
        ELSE i \notin DOMAIN written /\ x = <<>>
    BY <1>2, <2>1, <2>3, <2>5, WrittenIs
  <2>7. x = IF i \in DOMAIN WithDefaults(written) THEN WithDefaults(written)[i] ELSE <<>>
    <3>1. /\ i \in DOMAIN WithDefaults(written) <=> i \in DOMAIN written \/ i \in DOMAIN Defaults
          /\ i \in DOMAIN written => WithDefaults(written)[i] = written[i]
      BY ONLY written \in Strings, DefaultTexts
    <3> QED BY ONLY <2>4, <2>6, <3>1
  <2> QED BY <2>7 DEF x
<1> QED BY <1>1, <1>2

\* A map starts, and its game state may be written.
LEMMA MapReplays ==
    ASSUME GameInv, ReplayInv, NEW isLegacy \in BOOLEAN, NEW local \in BOOLEAN, NewMap(isLegacy, local)
    PROVE  ReplayInv'
<1> DEFINE m == server.map + 1
           l == Len(svCommands)
           sent == Sent(m, isLegacy)
           written == IF isLegacy THEN sent ELSE Written(client'.gameState, extGameState')
           e == GameStateEntry(client', written, {})
           writes == recording = "yes" /\ mode' = "live"
<1>1. /\ mode \in {"menu", "live"} /\ m \in DOMAIN Maps
      /\ mode = "live" => (legacy <=> isLegacy) /\ client.executed = l
      /\ legacy' = isLegacy
      /\ server' = [server EXCEPT !.map = m, !.sequence = l, !.local = local]
      /\ CL_ParseGamestate(m, l, sent, local)
      /\ demo' = IF writes THEN Append(demo, e) ELSE demo
      /\ UNCHANGED <<bigConfigString, svCommands, recording, position>>
  BY DEF NewMap
<1>2. /\ GameTypes /\ client \in Client /\ l \in Nat /\ DemoInv /\ NothingInv /\ OneBlockInv
      /\ server \in [map : DOMAIN Maps \cup {0}, sequence : Nat, first : Nat \ {0}, local : BOOLEAN]
      /\ client.executed \in Nat /\ client.serverCommandSequence \in Nat
      /\ client.serverCommandNum \in Nat
  BY DEF GameInv, GameTypes, Client, ReplayInv
<1>3. sent \in Strings
  BY <1>1, SentTexts
<1> HIDE DEF sent
<1>4. /\ mode' \in {"live", "over"} /\ client' \in Client /\ extGameState' \in Blocks
      /\ mode' = "live" =>
           /\ client' = [client EXCEPT !.map = m, !.gameState = client'.gameState,
                           !.serverCommandSequence = l, !.serverCommandNum = client.executed]
           /\ \A i \in Index \ stale' : (legacy' => i < MaxConfigStrings) =>
                CL_GetConfigString(i)' =
                   IF i \in DOMAIN WithDefaults(sent) THEN WithDefaults(sent)[i] ELSE <<>>
           /\ \A i \in DOMAIN WithDefaults(sent) : (legacy' => i < MaxConfigStrings) =>
                Block(i)'.stringOffsets[Place(i)] # 0
           /\ stale' \subseteq {i \in Index : ~ (i < MaxConfigStrings)}
           /\ legacy' => extGameState' = extGameState
  <2>1. m \in DOMAIN Maps \cup {0} /\ mode \in {"menu", "live", "replay"} /\ legacy' \in BOOLEAN
    BY <1>1
  <2> HIDE DEF m, l
  <2>2. /\ mode' \in {"live", "replay", "over"}
        /\ client' \in Client /\ extGameState' \in Blocks
        /\ mode' # "over" =>
             /\ mode' = IF mode = "menu" THEN "live" ELSE mode
             /\ client' = [client EXCEPT !.map = m, !.gameState = client'.gameState,
                             !.serverCommandSequence = l, !.serverCommandNum = client.executed]
             /\ \A i \in Index \ stale' : (legacy' => i < MaxConfigStrings) =>
                  CL_GetConfigString(i)' =
                     IF i \in DOMAIN WithDefaults(sent) THEN WithDefaults(sent)[i] ELSE <<>>
             /\ \A i \in DOMAIN WithDefaults(sent) : (legacy' => i < MaxConfigStrings) =>
                  Block(i)'.stringOffsets[Place(i)] # 0
             /\ stale' \subseteq {i \in Index : ~ (i < MaxConfigStrings)}
             /\ legacy' => extGameState' = extGameState
    BY <1>1, <1>2, <1>3, <2>1, GameStateParsed
  <2> QED BY <1>1, <2>2
<1>5. CASE mode' = "over"
  <2>1. demo' = demo
    BY <1>1, <1>5
  <2>2. DemoInv'
    BY <1>1, <1>2, <2>1, SameDemo
  <2> QED BY <1>5, <2>2, EndsOver
<1>6. CASE mode' = "live"
  <2>1. /\ client'.map = m /\ client'.serverCommandSequence = l /\ client'.executed = client.executed
        /\ client'.serverCommands = client.serverCommands
        /\ server'.map = m /\ server'.first = server.first
    BY <1>1, <1>2, <1>4, <1>6 DEF Client
  <2>2. CASE mode = "menu"
    <3>1. /\ client = NoClient /\ extGameState = EmptyGameState /\ bigConfigString = NoBigConfigString
          /\ demo = <<>> /\ recording = "no" /\ position = 0 /\ server.map = 0 /\ svCommands = <<>>
      BY <1>2, <2>2 DEF NothingInv, GameInv, MenuInv
    <3>2. DemoInv' /\ demo' = <<>> /\ recording' = "no"
      BY <1>1, <3>1 DEF DemoInv
    <3>3. OneBlockInv'
      <4>1. NoBigConfigString.index < MaxConfigStrings
        BY GameConstants DEF NoBigConfigString
      <4>2. Len(svCommands') = 0
        BY <1>1, <3>1
      <4>3. \A slot \in 0 .. Slots - 1 : client'.serverCommands[slot] = NoCommand
        BY <2>1, <3>1, NoClientIs
      <4>4. \A n \in 1 .. Len(svCommands') : svCommands'[n].index < MaxConfigStrings
        BY <4>2
      <4> QED BY <1>1, <1>4, <1>6, <3>1, <4>1, <4>3, <4>4 DEF OneBlockInv
    <3>4. RecordingInv'
      BY <1>1, <1>6, <2>1, <3>1, <3>2 DEF RecordingInv
    <3>5. RecordedStrings'
      BY <3>2 DEF RecordedStrings
    <3> QED BY <1>6, <3>2, <3>3, <3>4, <3>5, EndsLive
  <2>3. CASE mode = "live"
    <3>1. /\ client.executed = l /\ (legacy' <=> legacy) /\ legacy = isLegacy /\ client.serverCommandSequence = l
          /\ client.map = server.map /\ server.map \in Nat \ {0} /\ position = 0
          /\ m \in Nat \ {0} /\ client.map < m
          /\ RecordingInv /\ RecordedStrings
      <4>1. /\ client.executed <= client.serverCommandNum
            /\ client.serverCommandNum = client.serverCommandSequence
            /\ client.serverCommandSequence <= l
            /\ client.map = server.map /\ server.map \in Nat \ {0} /\ position = 0
            /\ RecordingInv /\ RecordedStrings
        BY <2>3, LiveFacts
      <4>2. client.serverCommandSequence = l
        BY <1>1, <1>2, <2>3, <4>1
      <4>3. legacy = isLegacy
        BY <1>1, <1>2, <2>3 DEF GameTypes
      <4> QED BY <1>1, <2>3, <4>1, <4>2, <4>3
    <3>2. OneBlockInv'
      BY <1>1, <1>2, <1>4, <1>6, <2>1, <2>3, <3>1 DEF OneBlockInv
    <3> HIDE DEF m, l, e
    <3>3. CASE recording # "yes"
      <4>1. demo' = demo /\ svCommands' = svCommands /\ recording' = recording
        BY <1>1, <3>3
      <4>2. DemoInv' /\ LastState' = LastState /\ (OneBlock' <=> OneBlock)
        BY <1>2, <4>1, SameDemo
      <4>3. demo # <<>> =>
              /\ LastState.map < m /\ LastState.executed <= client.executed
              /\ Reaches(demo, Len(demo)) <= l /\ (legacy <=> OneBlock)
        <5> SUFFICES ASSUME demo # <<>>
                     PROVE  /\ LastState.map < m /\ LastState.executed <= client.executed
                            /\ Reaches(demo, Len(demo)) <= l /\ (legacy <=> OneBlock)
          OBVIOUS
        <5>1. LastState.map <= client.map /\ LastState.executed <= client.executed /\ (legacy <=> OneBlock)
          BY <2>3, <3>1 DEF RecordingInv
        <5>2. LastState.map \in Nat \ {0} /\ Reaches(demo, Len(demo)) <= l
          BY <1>2, DemoFacts DEF l
        <5> QED BY <3>1, <5>1, <5>2
      <4>4. RecordingInv'
        <5>1. demo # <<>> => LastState.map <= m
          <6>1. demo # <<>> => LastState.map \in Nat
            BY <1>2, DemoFacts
          <6> QED BY <3>1, <4>3, <6>1
        <5> QED BY <1>1, <1>6, <2>1, <2>3, <3>1, <3>3, <4>1, <4>2, <4>3, <5>1 DEF RecordingInv
      <4>5. RecordedStrings'
        <5>1. demo # <<>> => m # LastState.map
          <6>1. demo # <<>> => LastState.map \in Nat
            BY <1>2, DemoFacts
          <6> QED BY <3>1, <4>3, <6>1
        <5> QED BY <2>1, <4>1, <4>2, <5>1 DEF RecordedStrings
      <4> QED BY <1>6, <3>2, <4>2, <4>4, <4>5, EndsLive
    <3>4. CASE recording = "yes"
      <4>1. demo' = Append(demo, e) /\ svCommands' = svCommands /\ recording' = "yes"
        BY <1>1, <1>6, <3>4
      <4>2. /\ demo # <<>> /\ Opening(demo) < Len(demo) /\ Reaches(demo, Len(demo)) = l
            /\ demo[Opening(demo) + 1].first <= server.first /\ (legacy <=> OneBlock)
            /\ LastState.map <= client.map
        BY <2>3, <3>1, <3>4 DEF RecordingInv
      <4>3. demo \in Seq(Entry) /\ Headed(demo) /\ Ordered(demo) /\ LastState.map \in Nat
        BY <1>2, <4>2, DemoFacts
      <4>4. written \in Strings
        <5>1. client'.gameState \in Blocks
          BY <1>4 DEF Client
        <5> QED BY <1>3, <1>4, <5>1, WrittenTexts
      <4>5. /\ e \in Entry /\ e.kind = "gamestate" /\ e.map = m /\ e.sequence = l /\ e.executed = l
            /\ e.strings = written /\ e.emptied = {}
        <5>1. {} \in SUBSET Index
          OBVIOUS
        <5>2. e.map = client'.map /\ e.sequence = client'.serverCommandSequence /\ e.executed = client'.executed
              /\ e.strings = written /\ e.emptied = {}
          BY DEF GameStateEntry, e
        <5> HIDE DEF written
        <5>3. e \in Entry /\ e.kind = "gamestate"
          BY <1>4, <4>4, <5>1, StateEntry DEF e
        <5> QED BY <2>1, <3>1, <5>2, <5>3
      <4>6. StateFollows(demo, e)
        <5>1. demo[Newest(demo)].map < m /\ l <= l
          BY <1>2, <3>1, <4>2, <4>3 DEF LastState, l
        <5> QED BY <3>1, <4>2, <4>5, <5>1 DEF StateFollows
      <4>7. Longer(demo, e, demo')
        BY <4>1, <4>3, <4>5, AppendIsLonger
      <4>8. /\ Ordered(demo') /\ Opening(demo') < Len(demo')
            /\ demo'[Newest(demo')] = e /\ demo'[1] = demo[1]
            /\ Reaches(demo', Len(demo')) = e.sequence
            /\ demo'[Opening(demo') + 1] = demo[Opening(demo) + 1]
        <5> DEFINE d == demo
                   w == demo'
        <5>1. d \in Seq(Entry) /\ Ordered(d) /\ StateFollows(d, e) /\ Longer(d, e, w)
          BY <4>3, <4>6, <4>7
        <5> HIDE DEF d, w
        <5>2. /\ Ordered(w) /\ Opening(w) < Len(w)
              /\ w[Newest(w)] = e /\ w[1] = d[1]
              /\ Reaches(w, Len(w)) = e.sequence
              /\ w[Opening(w) + 1] = d[Opening(d) + 1]
          BY <5>1, StateAdded
        <5> QED BY <5>2 DEF d, w
      <4>9. LastState' = e /\ (OneBlock' <=> OneBlock) /\ demo' # <<>>
        BY <4>3, <4>7, <4>8 DEF LastState, OneBlock, Longer
      <4>10. DemoInv'
        <5>1. l <= Len(svCommands')
          BY <1>2, <4>1 DEF l
        <5> QED BY <4>5, <4>8, <5>1 DEF DemoInv
      <4>11. RecordingInv'
        <5>1. m <= m /\ l <= l
          BY <1>2, <3>1
        <5> QED BY <1>1, <1>6, <2>1, <3>1, <4>1, <4>2, <4>5, <4>8, <4>9, <5>1 DEF RecordingInv
      <4>12. RecordedStrings'
        <5> SUFFICES ASSUME NEW i \in Index, legacy' => i < MaxConfigStrings
                     PROVE  CL_GetConfigString(i)' = After(svCommands', written, i, l + 1 .. l)
          BY <2>1, <3>1, <4>5, <4>9 DEF RecordedStrings
        <5>1. l + 1 .. l = {}
          BY <1>2
        <5>2. CL_GetConfigString(i)' =
                IF i \in DOMAIN WithDefaults(written) THEN WithDefaults(written)[i] ELSE <<>>
          BY <1>1, <1>3, <1>4, <1>6, <3>1, <4>4, WrittenAnew
        <5> QED BY <5>1, <5>2, AfterNone
      <4> QED BY <1>6, <3>2, <4>10, <4>11, <4>12, EndsLive
    <3> QED BY <3>3, <3>4
  <2> QED BY <1>1, <2>2, <2>3
<1> QED BY <1>4, <1>5, <1>6

-----------------------------------------------------------------------------
(* A demo that is played *)

\* In the slots are the commands from the lowest on, up to a last one.
FilledFrom(slots, low, last) ==
    \A n \in 1 .. last : n > last - Slots =>
        slots[n % Slots] = IF n >= low THEN svCommands[n] ELSE NoCommand

Unfilled(slots) == \A slot \in 0 .. Slots - 1 : slots[slot] = NoCommand

\* What a message of the demo adds to the slots.
LEMMA SlotsFrom ==
    ASSUME GameTypes, NEW first \in Nat \ {0}, NEW last \in Nat, NEW low \in Nat \ {0},
           \A slot \in 0 .. Slots - 1 :
             client'.serverCommands[slot] =
               IF Here(first, last, slot) = {} THEN client.serverCommands[slot]
               ELSE svCommands[Max(Here(first, last, slot))],
           NEW seq \in Nat, seq = client.serverCommandSequence,
           FilledFrom(client.serverCommands, low, seq),
           seq < low => Unfilled(client.serverCommands),
           low <= last, seq <= last, first <= seq + 1 \/ first <= low,
           low <= seq \/ low <= first \/ low = seq + 1
    PROVE  Received(first, last) = last /\ FilledFrom(client'.serverCommands, low, last)
<1>1. Slots \in Nat \ {0}
  BY GameConstants
<1>2. \A n : n \in New(first, last) <=> n \in seq + 1 .. last /\ n >= low
  <2> SUFFICES ASSUME NEW n PROVE n \in New(first, last) <=> n \in seq + 1 .. last /\ n >= low
    OBVIOUS
  <2>1. n \in New(first, last) <=> n \in first .. last /\ n > seq
    BY DEF New
  <2>2. first \in Nat /\ low \in Nat /\ seq \in Nat /\ last \in Nat
    OBVIOUS
  <2>3. (first <= seq + 1 \/ first <= low) /\ (low <= seq \/ low <= first \/ low = seq + 1)
    OBVIOUS
  <2> QED BY ONLY <2>1, <2>2, <2>3
<1>3. Received(first, last) = last
  <2> DEFINE S == New(first, last) \cup {seq}
  <2>1. S \in SUBSET Nat /\ \A y \in S : last >= y
    BY <1>2
  <2>2. last \in S
    <3>1. last = seq \/ last \in seq + 1 .. last
      OBVIOUS
    <3> QED BY <1>2, <3>1
  <2>3. Received(first, last) = Max(S)
    BY DEF Received
  <2> HIDE DEF S
  <2> QED BY <2>1, <2>2, <2>3, MaxIs
<1>4. ASSUME NEW n \in 1 .. last, n > last - Slots
      PROVE  client'.serverCommands[n % Slots] = IF n >= low THEN svCommands[n] ELSE NoCommand
  <2> DEFINE S == Here(first, last, n % Slots)
  <2>1. n % Slots \in 0 .. Slots - 1
    BY <1>1
  <2>2. client'.serverCommands[n % Slots] =
            IF S = {} THEN client.serverCommands[n % Slots] ELSE svCommands[Max(S)]
    BY <2>1
  <2>3. \A k : k \in S <=> k \in seq + 1 .. last /\ k >= low /\ k % Slots = n % Slots
    BY <1>2 DEF Here
  <2>4. \A k \in n + 1 .. last : k % Slots # n % Slots
    <3> SUFFICES ASSUME NEW k \in n + 1 .. last PROVE k % Slots # n % Slots
      OBVIOUS
    <3>1. n \in Nat /\ k \in Nat /\ n < k /\ k < n + Slots
      BY <1>1, <1>4
    <3> QED BY <1>1, <3>1, ModDistinct
  <2>5. CASE n > seq /\ n >= low
    <3>1. S \in SUBSET Nat /\ n \in S /\ \A k \in S : n >= k
      BY <1>1, <2>3, <2>4, <2>5
    <3> HIDE DEF S
    <3>2. Max(S) = n
      BY <3>1, MaxIs
    <3> QED BY <2>2, <2>5, <3>1, <3>2
  <2>6. CASE n <= seq
    <3>1. S = {}
      BY <1>1, <2>3, <2>4, <2>6
    <3>2. n \in 1 .. seq /\ n > seq - Slots
      BY <1>1, <1>4, <2>6
    <3> QED BY <2>2, <3>1, <3>2 DEF FilledFrom
  <2>7. CASE n > seq /\ ~ (n >= low)
    <3>1. S = {}
      <4>1. ASSUME NEW k \in S PROVE FALSE
        <5>1. k \in seq + 1 .. last /\ k >= low /\ k % Slots = n % Slots
          BY <2>3, <4>1
        <5>2. k \in n + 1 .. last
          BY <2>7, <5>1
        <5> QED BY <2>4, <5>1, <5>2
      <4> QED BY <4>1
    <3>2. seq < low
      BY <2>7
    <3> QED BY <2>1, <2>2, <2>7, <3>1, <3>2 DEF Unfilled
  <2> QED BY <2>5, <2>6, <2>7
<1> QED BY <1>3, <1>4 DEF FilledFrom

\* A message that brings nothing leaves the slots.
LEMMA NothingNew ==
    ASSUME GameTypes, NEW first \in Nat \ {0}, NEW last \in Nat,
           \A slot \in 0 .. Slots - 1 :
             client'.serverCommands[slot] =
               IF Here(first, last, slot) = {} THEN client.serverCommands[slot]
               ELSE svCommands[Max(Here(first, last, slot))],
           last < first \/ last <= client.serverCommandSequence
    PROVE  /\ Received(first, last) = client.serverCommandSequence
           /\ \A slot \in 0 .. Slots - 1 : client'.serverCommands[slot] = client.serverCommands[slot]
<1> DEFINE seq == client.serverCommandSequence
<1>0. seq \in Nat
  BY DEF GameTypes, Client
<1>1. New(first, last) = {}
  BY <1>0 DEF New
<1>2. \A slot : Here(first, last, slot) = {}
  BY <1>1 DEF Here
<1>3. Received(first, last) = seq
  <2> DEFINE S == {seq}
  <2>1. S \in SUBSET Nat /\ seq \in S /\ \A y \in S : seq >= y
    BY <1>0
  <2>2. Received(first, last) = Max(S)
    <3>1. New(first, last) \cup {client.serverCommandSequence} = S
      BY <1>1
    <3> QED BY <3>1 DEF Received
  <2> HIDE DEF S
  <2> QED BY <2>1, <2>2, MaxIs
<1> QED BY <1>2, <1>3

\* What the invariants say of a demo that is played.
LEMMA ReplayFacts ==
    ASSUME GameInv, ReplayInv, mode = "replay"
    PROVE  /\ GameTypes /\ DemoInv /\ OneBlockInv /\ ShownInv /\ ReplayPlace /\ ReplaySlots /\ ReplayStrings
           /\ demo # <<>> /\ demo \in Seq(Entry) /\ Headed(demo) /\ Gapless(demo) /\ MapsRise(demo)
           /\ CarriedAll(demo) /\ Len(demo) \in Nat /\ position \in Nat /\ position <= Len(demo)
           /\ client \in Client /\ client.executed \in Nat /\ client.serverCommandNum \in Nat
           /\ client.serverCommandSequence \in Nat /\ Len(svCommands) \in Nat /\ legacy \in BOOLEAN
           /\ Reaches(demo, Len(demo)) <= Len(svCommands)
           /\ svCommands \in Seq(ServerCommand)
<1>1. /\ GameTypes /\ DemoInv /\ OneBlockInv /\ ShownInv /\ ReplayPlace /\ ReplaySlots /\ ReplayStrings
  BY DEF GameInv, ReplayInv
<1>2. demo # <<>> /\ position <= Len(demo)
  BY <1>1 DEF ReplayPlace
<1>3. /\ demo \in Seq(Entry) /\ Headed(demo) /\ Gapless(demo) /\ MapsRise(demo) /\ CarriedAll(demo)
      /\ Reaches(demo, Len(demo)) <= Len(svCommands)
  BY <1>1, <1>2, DemoFacts
<1> QED BY <1>1, <1>2, <1>3 DEF GameTypes, Client

\* A message of a demo in order, for a player who has read what is before it.
LEMMA MessageOf ==
    ASSUME NEW d \in Seq(Entry), Headed(d), Gapless(d), NEW p \in Opening(d) + 1 .. Len(d),
           d[p].kind = "message", NEW seq \in Nat, d[Opening(d)].sequence <= seq,
           seq <= Reaches(d, p - 1), Lowest(d) <= Reaches(d, p - 1) => seq = Reaches(d, p - 1)
    PROVE  /\ d[p].first \in Nat \ {0} /\ d[p].last \in Nat /\ Reaches(d, p) = d[p].last
           /\ Lowest(d) \in Nat \ {0} /\ seq <= d[p].last
           /\ d[p].last < Lowest(d) =>
                (d[p].last < d[p].first \/ d[p].last <= seq) /\ Reaches(d, p - 1) < Lowest(d)
           /\ ~ (d[p].last < Lowest(d)) =>
                /\ d[p].first <= seq + 1 \/ d[p].first <= Lowest(d)
                /\ Lowest(d) <= seq \/ Lowest(d) <= d[p].first \/ Lowest(d) = seq + 1
<1> DEFINE o == Opening(d)
           low == Lowest(d)
           s == d[o].sequence
           f == d[o + 1].first
           first == d[p].first
           last == d[p].last
           before == Reaches(d, p - 1)
<1>1. /\ Len(d) \in Nat /\ o \in Nat \ {0} /\ o < Len(d) /\ s \in Nat /\ p \in o .. Len(d) /\ p - 1 \in o .. Len(d)
      /\ p \in Nat
  <2>1. Len(d) \in Nat /\ o \in {1, 2} /\ s \in Nat
    BY DemoPlaces
  <2> HIDE DEF o
  <2>2. p \in o + 1 .. Len(d)
    BY DEF o
  <2> QED BY <2>1, <2>2
<1>2. /\ f \in Nat \ {0} /\ low \in Nat \ {0} /\ f <= low
      /\ \A q \in o .. Len(d) : d[q] \in Entry /\ Reaches(d, q) \in Nat
  BY <1>1, DemoPlaces
<1>3. first \in Nat \ {0} /\ last \in Nat /\ Reaches(d, p) = last /\ before \in Nat
  BY <1>1, <1>2, EntryFields DEF Reaches
<1>4. before <= last
  <2>1. Reaches(d, p - 1) <= Reaches(d, p)
    <3>1. p - 1 <= p
      BY <1>1
    <3>2. \A q, r \in o .. Len(d) : q <= r => Reaches(d, q) <= Reaches(d, r)
      BY DEF Gapless
    <3> QED BY <1>1, <3>1, <3>2
  <2> QED BY <1>3, <2>1
<1>5. f <= first
  BY DEF Gapless
<1>6. low = IF f > s THEN f ELSE s + 1
  BY DEF Lowest
<1>7. IF p = o + 1 THEN first = f ELSE first <= before + 1
  <2>1. CASE p # o + 1
    <3>1. p \in o + 2 .. Len(d)
      BY <1>1, <2>1
    <3> QED BY <2>1, <3>1 DEF Gapless
  <2> QED BY <2>1
<1>8. s <= seq /\ seq <= before /\ (low <= before => seq = before)
  OBVIOUS
<1>9. d[p].last < low => (last < first \/ last <= seq) /\ before < low
  <2> HIDE DEF low, s, f, first, before
  <2> QED BY <1>1, <1>2, <1>3, <1>4, <1>5, <1>6, <1>8
<1>10. (first <= seq + 1 \/ first <= low) /\ (low <= seq \/ low <= first \/ low = seq + 1)
  <2>1. seq \in Nat
    OBVIOUS
  <2> HIDE DEF low, s, f, first, before, o
  <2> QED BY ONLY <1>1, <1>2, <1>3, <1>4, <1>5, <1>6, <1>7, <1>8, <2>1
<1>11. seq <= last
  <2>1. seq \in Nat
    OBVIOUS
  <2> HIDE DEF last, before
  <2> QED BY ONLY <1>3, <1>4, <1>8, <2>1
<1> QED BY <1>2, <1>3, <1>9, <1>10, <1>11

\* What reading leaves.
LEMMA ReadLeaves ==
    ASSUME CL_ReadDemoMessage
    PROVE  /\ mode = "replay" /\ position < Len(demo) /\ position' = position + 1
           /\ UNCHANGED <<bigConfigString, server, svCommands, demo, shown>>
           /\ demo[position + 1].kind = "protocol" =>
                legacy' = FALSE /\ UNCHANGED <<mode, client, extGameState, stale>>
           /\ demo[position + 1].kind = "gamestate" =>
                /\ client.map # 0 => client.executed = demo[position + 1].sequence
                /\ legacy' = legacy
                /\ CL_ParseGamestate(demo[position + 1].map, demo[position + 1].sequence,
                                     demo[position + 1].strings, FALSE)
           /\ demo[position + 1].kind = "message" =>
                /\ CL_ParseServerMessage(demo[position + 1].first, demo[position + 1].last)
                /\ UNCHANGED <<mode, legacy, extGameState, stale>>
<1> DEFINE entry == demo[position + 1]
<1>1. /\ mode = "replay" /\ position < Len(demo) /\ position' = position + 1
      /\ UNCHANGED <<bigConfigString, server, svCommands, demo, shown>>
      /\ entry.kind = "protocol" =>
           legacy' = FALSE /\ UNCHANGED <<mode, client, extGameState, stale>>
      /\ entry.kind = "gamestate" =>
           /\ client.map # 0 => client.executed = entry.sequence
           /\ legacy' = legacy
           /\ CL_ParseGamestate(entry.map, entry.sequence, entry.strings, FALSE)
      /\ entry.kind = "message" =>
           /\ CL_ParseServerMessage(entry.first, entry.last)
           /\ UNCHANGED <<mode, legacy, extGameState, stale>>
  BY DEF CL_ReadDemoMessage
<1> QED BY <1>1

\* What is shown stays, in a demo.
LEMMA SameShown ==
    ASSUME mode = "replay", ShownInv, UNCHANGED <<demo, svCommands, shown>>
    PROVE  ShownInv'
  BY DEF ShownInv, LastState, OneBlock

\* A message is read.
LEMMA ReadMessageReplays ==
    ASSUME GameInv, ReplayInv, CL_ReadDemoMessage, demo[position + 1].kind = "message"
    PROVE  ReplayInv'
<1> DEFINE p == position + 1
           first == demo[p].first
           last == demo[p].last
           seq == client.serverCommandSequence
           o == Opening(demo)
           low == Lowest(demo)
<1>1. /\ mode = "replay" /\ mode' = "replay" /\ position < Len(demo) /\ position' = p
      /\ UNCHANGED <<bigConfigString, svCommands, demo, shown>>
      /\ CL_ParseServerMessage(first, last)
      /\ UNCHANGED <<legacy, extGameState, stale>>
  BY ReadLeaves
<1>2. /\ GameTypes /\ DemoInv /\ OneBlockInv /\ ShownInv /\ ReplayPlace /\ ReplaySlots /\ ReplayStrings
      /\ demo # <<>> /\ demo \in Seq(Entry) /\ Headed(demo) /\ Gapless(demo)
      /\ Len(demo) \in Nat /\ position \in Nat /\ position <= Len(demo)
      /\ client \in Client /\ client.executed \in Nat /\ client.serverCommandNum \in Nat
      /\ seq \in Nat /\ Len(svCommands) \in Nat
  BY <1>1, ReplayFacts
<1>3. /\ o \in Nat \ {0} /\ p \in o + 1 .. Len(demo) /\ position >= o /\ position \in o .. Len(demo)
      /\ \A q \in o .. Len(demo) : Reaches(demo, q) \in Nat
      /\ p # Newest(demo) /\ Newest(demo) \in Nat /\ p \in Nat
  <2>1. o \in {1, 2} /\ o \in StatesOf(demo) /\ Newest(demo) \in StatesOf(demo)
        /\ \A q \in o .. Len(demo) : Reaches(demo, q) \in Nat
    BY <1>2, DemoPlaces
  <2>2. p \in 1 .. Len(demo) /\ demo[p].kind = "message"
    BY <1>1, <1>2
  <2>3. ~ (p < o) /\ p # o /\ p # Newest(demo)
    BY <2>1, <2>2, <1>2 DEF Headed, StatesOf
  <2>4. Newest(demo) \in Nat
    BY <2>1 DEF StatesOf
  <2> QED BY <1>1, <1>2, <2>1, <2>2, <2>3, <2>4
<1>4. /\ client.map # 0 /\ demo[o].sequence <= seq /\ seq <= Reaches(demo, position)
      /\ client.executed <= client.serverCommandNum /\ client.serverCommandNum <= seq
  BY <1>1, <1>2, <1>3 DEF ReplayPlace
<1>5. /\ low <= Reaches(demo, position) =>
           seq = Reaches(demo, position) /\ FilledFrom(client.serverCommands, low, seq)
      /\ Reaches(demo, position) < low => Unfilled(client.serverCommands)
  <2>1. low \in Nat /\ Reaches(demo, position) \in Nat
    <3>1. o < Len(demo)
      BY <1>2, <1>3
    <3> QED BY <1>2, <1>3, <3>1, DemoPlaces
  <2>2. CASE position = o
    <3>1. Reaches(demo, o) = demo[o].sequence /\ demo[o].sequence < low
      <4>1. o < Len(demo) /\ o \in StatesOf(demo)
        BY <1>2, <1>3, DemoPlaces
      <4>2. demo[o].sequence < low
        BY <1>2, <4>1, DemoPlaces
      <4> QED BY <4>1, <4>2 DEF Reaches, StatesOf
    <3>2. Unfilled(client.serverCommands)
      <4>1. position <= o
        BY <1>3, <2>2
      <4> QED BY <1>1, <1>2, <4>1 DEF ReplaySlots, Unfilled
    <3>3. ~ (low <= Reaches(demo, position))
      BY <1>2, <2>1, <2>2, <3>1
    <3> QED BY <3>2, <3>3
  <2>3. CASE position # o
    <3>1. position > o
      BY <1>2, <1>3, <2>3
    <3>2. IF Reaches(demo, position) < low THEN Unfilled(client.serverCommands)
          ELSE seq = Reaches(demo, position) /\ FilledFrom(client.serverCommands, low, seq)
      BY <1>1, <1>2, <3>1 DEF ReplaySlots, Unfilled, FilledFrom
    <3> QED BY <2>1, <3>2
  <2> QED BY <2>2, <2>3
<1>6. /\ first \in Nat \ {0} /\ last \in Nat /\ Reaches(demo, p) = last /\ low \in Nat \ {0} /\ seq <= last
      /\ last < low => (last < first \/ last <= seq) /\ Reaches(demo, position) < low
      /\ ~ (last < low) =>
           /\ first <= seq + 1 \/ first <= low
           /\ low <= seq \/ low <= first \/ low = seq + 1
  <2> DEFINE d == demo
  <2>1. p - 1 = position /\ d[p].kind = "message"
    BY <1>2
  <2>2. /\ d \in Seq(Entry) /\ Headed(d) /\ Gapless(d) /\ p \in Opening(d) + 1 .. Len(d)
        /\ d[Opening(d)].sequence <= seq /\ seq <= Reaches(d, p - 1) /\ seq \in Nat
        /\ Lowest(d) <= Reaches(d, p - 1) => seq = Reaches(d, p - 1)
    BY <1>2, <1>3, <1>4, <1>5, <2>1
  <2> HIDE DEF d, p, seq
  <2>3. /\ d[p].first \in Nat \ {0} /\ d[p].last \in Nat /\ Reaches(d, p) = d[p].last
        /\ Lowest(d) \in Nat \ {0} /\ seq <= d[p].last
        /\ d[p].last < Lowest(d) =>
             (d[p].last < d[p].first \/ d[p].last <= seq) /\ Reaches(d, p - 1) < Lowest(d)
        /\ ~ (d[p].last < Lowest(d)) =>
             /\ d[p].first <= seq + 1 \/ d[p].first <= Lowest(d)
             /\ Lowest(d) <= seq \/ Lowest(d) <= d[p].first \/ Lowest(d) = seq + 1
    BY <2>1, <2>2, MessageOf
  <2> QED BY <2>1, <2>3 DEF d
<1>7. last <= Len(svCommands)
  <2>1. p \in 1 .. Len(demo)
    BY <1>2, <1>3
  <2> QED BY <1>2, <2>1 DEF GameTypes
<1> DEFINE received == Received(first, last)
<1>8. /\ client' \in Client
      /\ client' = [client EXCEPT !.serverCommands = client'.serverCommands,
                       !.serverCommandSequence = received, !.serverCommandNum = received]
      /\ \A slot \in 0 .. Slots - 1 :
           client'.serverCommands[slot] =
               IF Here(first, last, slot) = {} THEN client.serverCommands[slot]
               ELSE svCommands[Max(Here(first, last, slot))]
  <2> HIDE DEF first, last
  <2> QED BY <1>1, <1>2, <1>6, <1>7, MessageParsed
<1> HIDE DEF first, last, received
<1>9. /\ client'.map = client.map /\ client'.executed = client.executed /\ client'.gameState = client.gameState
      /\ client'.serverCommandSequence = received /\ client'.serverCommandNum = received
  BY <1>2, <1>8 DEF Client
<1>10. /\ received \in Nat /\ seq <= received /\ received <= last
       /\ last < low => Unfilled(client'.serverCommands)
       /\ ~ (last < low) => received = last /\ FilledFrom(client'.serverCommands, low, last)
  <2>1. CASE last < low
    <3>1. /\ received = seq
          /\ \A slot \in 0 .. Slots - 1 : client'.serverCommands[slot] = client.serverCommands[slot]
      <4>1. last < first \/ last <= client.serverCommandSequence
        BY <1>6, <2>1
      <4> QED BY <1>2, <1>6, <1>8, <4>1, NothingNew DEF received
    <3>2. Unfilled(client'.serverCommands)
      BY <1>5, <1>6, <2>1, <3>1 DEF Unfilled
    <3> QED BY <1>2, <1>6, <2>1, <3>1, <3>2
  <2>2. CASE ~ (last < low)
    <3>1. FilledFrom(client.serverCommands, low, seq) /\ (seq < low => Unfilled(client.serverCommands))
      <4>1. Reaches(demo, position) \in Nat
        BY <1>3
      <4>2. CASE low <= Reaches(demo, position)
        BY <1>2, <1>5, <1>6, <4>2
      <4>3. CASE ~ (low <= Reaches(demo, position))
        <5>1. Reaches(demo, position) < low /\ Unfilled(client.serverCommands) /\ seq < low
          BY <1>2, <1>4, <1>5, <1>6, <4>1, <4>3
        <5>2. \A n \in 1 .. seq : ~ (n >= low) /\ n % Slots \in 0 .. Slots - 1
          <6> SUFFICES ASSUME NEW n \in 1 .. seq PROVE ~ (n >= low) /\ n % Slots \in 0 .. Slots - 1
            OBVIOUS
          <6>1. n \in Nat /\ n <= seq /\ low \in Nat /\ Slots \in Nat \ {0}
            BY <1>2, <1>6, GameConstants
          <6> HIDE DEF seq, low
          <6> QED BY <1>2, <5>1, <6>1
        <5> QED BY <5>1, <5>2 DEF FilledFrom, Unfilled
      <4> QED BY <4>2, <4>3
    <3>2. low <= last
      BY <1>6, <2>2
    <3>3. received = last /\ FilledFrom(client'.serverCommands, low, last)
      <4>1. seq = client.serverCommandSequence
        OBVIOUS
      <4> HIDE DEF seq, low
      <4> QED BY <1>2, <1>6, <1>8, <2>2, <3>1, <3>2, <4>1, SlotsFrom DEF received
    <3> QED BY <1>6, <2>2, <3>3
  <2> QED BY <2>1, <2>2
<1>11. DemoInv' /\ LastState' = LastState /\ (OneBlock' <=> OneBlock)
  BY <1>1, <1>2, SameDemo
<1>12. OneBlockInv'
  <2>1. SlotsStaySmall(first, last)
    BY <1>2, <1>6, <1>7, <1>8, SlotsSmall
  <2> QED BY <1>1, <1>2, <1>11, <2>1 DEF OneBlockInv, SlotsStaySmall
<1>13. ShownInv'
  BY <1>1, <1>2, SameShown
<1>14. ReplayPlace'
  <2>1. /\ p <= Len(demo) /\ p # 0 /\ position # 0 /\ ~ (p < o) /\ ~ (p <= o) /\ p >= o
        /\ (p < Newest(demo) <=> position < Newest(demo))
        /\ (p >= Newest(demo) <=> position >= Newest(demo))
    BY <1>2, <1>3
  <2>2. demo[o].sequence \in Nat
    BY <1>2, DemoPlaces
  <2>3. demo[o].sequence <= received /\ received <= Reaches(demo, p)
    <3>1. demo[o].sequence \in Nat /\ demo[o].sequence <= seq /\ seq \in Nat
      BY <1>2, <1>4, <2>2
    <3>2. Reaches(demo, p) = last /\ last \in Nat
      BY <1>6
    <3> HIDE DEF o, p, seq, low
    <3> QED BY <1>10, <3>1, <3>2
  <2>4. client.executed <= received /\ received <= received
    BY <1>2, <1>4, <1>10
  <2> HIDE DEF p, seq
  <2> QED BY <1>1, <1>2, <1>4, <1>9, <1>11, <2>1, <2>3, <2>4 DEF ReplayPlace
<1>15. ReplaySlots'
  <2>1. ~ (p <= o)
    BY <1>2, <1>3
  <2> HIDE DEF p, seq
  <2> QED BY <1>1, <1>6, <1>9, <1>10, <2>1 DEF ReplaySlots, Unfilled, FilledFrom
<1>16. ReplayStrings'
  <2>1. \A i : CL_GetConfigString(i)' = CL_GetConfigString(i)
    BY <1>1, <1>9, StringsKept
  <2>2. p >= Newest(demo) => position >= Newest(demo)
    BY <1>2, <1>3
  <2>3. NothingMissed' <=> NothingMissed
    BY <1>1 DEF NothingMissed, Torn, Recorded
  <2> HIDE DEF p
  <2> QED BY <1>1, <1>2, <1>9, <1>11, <2>1, <2>2, <2>3 DEF ReplayStrings
<1> QED BY <1>1, <1>11, <1>12, <1>13, <1>14, <1>15, <1>16, EndsInReplay

\* The protocol is read.
LEMMA ReadProtocolReplays ==
    ASSUME GameInv, ReplayInv, CL_ReadDemoMessage, demo[position + 1].kind = "protocol"
    PROVE  ReplayInv'
<1> DEFINE p == position + 1
           o == Opening(demo)
<1>1. /\ mode = "replay" /\ mode' = "replay" /\ position < Len(demo) /\ position' = p
      /\ UNCHANGED <<bigConfigString, svCommands, demo, shown>>
      /\ legacy' = FALSE /\ UNCHANGED <<client, extGameState, stale>>
  BY ReadLeaves
<1>2. /\ GameTypes /\ DemoInv /\ OneBlockInv /\ ShownInv /\ ReplayPlace /\ ReplaySlots /\ ReplayStrings
      /\ demo # <<>> /\ demo \in Seq(Entry) /\ Headed(demo)
      /\ Len(demo) \in Nat /\ position \in Nat
      /\ LastState.map \in Nat \ {0}
  BY <1>1, ReplayFacts, DemoFacts
<1>3. /\ o \in Nat \ {0} /\ p < o /\ p <= Len(demo) /\ p # 0 /\ position < o /\ o <= Newest(demo)
      /\ Newest(demo) \in Nat /\ ~ OneBlock
  <2>1. o \in {1, 2} /\ Newest(demo) \in o .. Len(demo)
    BY <1>2, DemoPlaces
  <2>2. p \in 1 .. Len(demo) /\ demo[p].kind = "protocol"
    BY <1>1, <1>2
  <2>3. p < o
    BY <1>2, <2>2 DEF Headed
  <2>4. p = 1
    BY <1>2, <2>1, <2>3
  <2> HIDE DEF o
  <2> QED BY <1>1, <1>2, <2>1, <2>2, <2>3, <2>4 DEF OneBlock
<1>4. DemoInv' /\ LastState' = LastState /\ (OneBlock' <=> OneBlock)
  BY <1>1, <1>2, SameDemo
<1>5. OneBlockInv'
  BY <1>1, <1>3, <1>4 DEF OneBlockInv
<1>6. ShownInv'
  BY <1>1, <1>2, SameShown
<1>7. ~ (p >= o) /\ ~ (p >= Newest(demo)) /\ p <= o /\ position <= o
  BY <1>2, <1>3
<1>8. /\ client.map = 0 /\ client.serverCommandSequence = 0
      /\ client.executed = 0 /\ client.serverCommandNum = 0
  BY <1>1, <1>2, <1>3, <1>7 DEF ReplayPlace
<1>9. ReplayPlace'
  <2>1. 0 < LastState.map /\ 0 <= 0 /\ 0 \in Nat
    BY <1>2
  <2> HIDE DEF p
  <2> QED BY <1>1, <1>2, <1>3, <1>4, <1>7, <1>8, <2>1 DEF ReplayPlace
<1>10. ReplaySlots'
  <2>1. ~ (p > o)
    BY <1>2, <1>3
  <2> HIDE DEF p
  <2> QED BY <1>1, <1>2, <1>7, <2>1 DEF ReplaySlots
<1>11. ReplayStrings'
  <2> HIDE DEF p
  <2> QED BY <1>1, <1>7 DEF ReplayStrings
<1> QED BY <1>1, <1>4, <1>5, <1>6, <1>9, <1>10, <1>11, EndsInReplay

\* Where a player is who reads a game state.
LEMMA StateRead ==
    ASSUME GameInv, ReplayInv, CL_ReadDemoMessage, demo[position + 1].kind = "gamestate",
           NEW p, p = position + 1
    PROVE  /\ p \in Opening(demo) .. Len(demo) /\ p <= Newest(demo) /\ Newest(demo) \in Nat
           /\ demo[p].sequence \in Nat /\ Reaches(demo, p) = demo[p].sequence
           /\ demo[Opening(demo)].sequence <= demo[p].sequence
           /\ client.executed <= demo[p].sequence
           /\ demo[p].map \in Nat \ {0} /\ demo[p].map \in DOMAIN Maps \cup {0} /\ demo[p].strings \in Strings
           /\ p < Newest(demo) => demo[p].map < LastState.map
           /\ p = Opening(demo) =>
                /\ client.executed = 0
                /\ \A slot \in 0 .. Slots - 1 : client.serverCommands[slot] = NoCommand
           /\ p # Opening(demo) =>
                /\ position > Opening(demo)
                /\ client.executed = demo[p].sequence /\ client.serverCommandSequence = demo[p].sequence
                /\ Reaches(demo, position) = demo[p].sequence
           /\ ~ legacy \/ OneBlock
           /\ position = 0 => OneBlock
<1> DEFINE o == Opening(demo)
           seq == client.serverCommandSequence
<1>1. /\ mode = "replay" /\ position < Len(demo) /\ demo[p].kind = "gamestate"
      /\ client.map # 0 => client.executed = demo[p].sequence
  BY ReadLeaves
<1>2. /\ GameTypes /\ DemoInv /\ ReplayPlace /\ ReplaySlots
      /\ demo \in Seq(Entry) /\ Headed(demo) /\ Gapless(demo) /\ MapsRise(demo)
      /\ Len(demo) \in Nat /\ position \in Nat
      /\ client.executed \in Nat /\ client.serverCommandNum \in Nat /\ seq \in Nat
  BY <1>1, ReplayFacts
<1>3. /\ o \in {1, 2} /\ StatesOf(demo) \subseteq o .. Len(demo) /\ o \in StatesOf(demo)
      /\ Newest(demo) \in StatesOf(demo) /\ (\A q \in StatesOf(demo) : q <= Newest(demo))
      /\ \A q \in o .. Len(demo) : demo[q] \in Entry /\ Reaches(demo, q) \in Nat
  BY <1>2, DemoPlaces
<1>4. p \in StatesOf(demo)
  BY <1>1, <1>2 DEF StatesOf
<1>5. /\ p \in o .. Len(demo) /\ p <= Newest(demo) /\ Newest(demo) \in Nat /\ p \in Nat
  BY <1>3, <1>4 DEF StatesOf
<1>6. /\ demo[p].sequence \in Nat /\ demo[p].map \in DOMAIN Maps \cup {0} /\ demo[p].strings \in Strings
      /\ Reaches(demo, p) = demo[p].sequence
  BY <1>1, <1>3, <1>5, EntryFields DEF Reaches
<1>7. Reaches(demo, o) = demo[o].sequence /\ Reaches(demo, o) <= Reaches(demo, p)
  <2>1. \A q, r \in o .. Len(demo) : q <= r => Reaches(demo, q) <= Reaches(demo, r)
    BY <1>2 DEF Gapless
  <2>2. o \in o .. Len(demo) /\ o <= p /\ demo[o].kind = "gamestate"
    BY <1>3, <1>5 DEF StatesOf
  <2> QED BY <1>5, <2>1, <2>2 DEF Reaches
<1>8. demo[p].map \in Nat \ {0} /\ (p < Newest(demo) => demo[p].map < LastState.map)
  BY <1>2, <1>3, <1>4 DEF MapsRise, LastState
<1>9. CASE p = o
  <2>1. position < o /\ position <= o
    BY <1>2, <1>9
  <2>2. client.executed = 0 /\ \A slot \in 0 .. Slots - 1 : client.serverCommands[slot] = NoCommand
    BY <1>1, <1>2, <2>1 DEF ReplayPlace, ReplaySlots
  <2>3. position = 0 => OneBlock
    BY <1>1, <1>9 DEF Opening, OneBlock
  <2>4. ~ legacy \/ OneBlock
    BY <1>1, <1>2, <2>3 DEF ReplayPlace
  <2> QED BY <1>5, <1>6, <1>7, <1>8, <1>9, <2>2, <2>3, <2>4
<1>10. CASE p # o
  <2>1. position >= o /\ position # 0 /\ position \in o .. Len(demo)
    BY <1>2, <1>3, <1>5, <1>10
  <2>2. position # o
    <3>1. position = o => o < Len(demo) /\ o + 1 = p
      BY <1>1
    <3> QED BY <1>1, <1>2, <3>1 DEF Headed
  <2>3. position > o /\ p \in o + 2 .. Len(demo) /\ p - 1 = position
    BY <1>2, <1>3, <1>5, <2>1, <2>2
  <2>4. demo[p].sequence = Reaches(demo, position)
    <3>1. demo[p].kind # "message"
      BY <1>1
    <3>2. demo[p].sequence = Reaches(demo, p - 1)
      BY <1>2, <2>3, <3>1 DEF Gapless
    <3> QED BY <2>3, <3>2
  <2>5. /\ client.map # 0 /\ seq <= Reaches(demo, position)
        /\ client.executed <= client.serverCommandNum /\ client.serverCommandNum <= seq
        /\ ~ legacy \/ OneBlock
    BY <1>1, <1>2, <2>1 DEF ReplayPlace
  <2>6. client.executed = demo[p].sequence
    BY <1>1, <2>5
  <2>7. seq = demo[p].sequence
    <3> DEFINE x == client.executed
               n == client.serverCommandNum
               s == demo[p].sequence
               r == Reaches(demo, position)
    <3>1. x \in Nat /\ n \in Nat /\ seq \in Nat /\ x <= n /\ n <= seq /\ seq <= r /\ r = s /\ x = s
      BY <1>2, <2>4, <2>5, <2>6
    <3> HIDE DEF x, n, s, r, seq
    <3>2. seq = s
      BY <3>1
    <3> QED BY <3>2 DEF s
  <2>8. client.executed <= demo[p].sequence
    BY <1>6, <2>6
  <2> QED BY <1>5, <1>6, <1>7, <1>8, <1>10, <2>1, <2>3, <2>4, <2>5, <2>6, <2>7, <2>8
<1> QED BY <1>9, <1>10

\* A game state is read.
LEMMA ReadStateReplays ==
    ASSUME GameInv, ReplayInv, CL_ReadDemoMessage, demo[position + 1].kind = "gamestate"
    PROVE  ReplayInv'
<1> DEFINE p == position + 1
           o == Opening(demo)
           map == demo[p].map
           sequence == demo[p].sequence
           sent == demo[p].strings
           x == client.executed
<1>1. /\ mode = "replay" /\ position < Len(demo) /\ position' = p
      /\ UNCHANGED <<bigConfigString, svCommands, demo, shown>>
      /\ legacy' = legacy
      /\ CL_ParseGamestate(map, sequence, sent, FALSE)
      /\ server' = server
  BY ReadLeaves
<1>2. /\ GameTypes /\ DemoInv /\ OneBlockInv /\ ShownInv /\ ReplayPlace /\ ReplaySlots
      /\ demo # <<>> /\ demo \in Seq(Entry) /\ Headed(demo)
      /\ Len(demo) \in Nat /\ position \in Nat
      /\ client \in Client /\ x \in Nat /\ client.serverCommandSequence \in Nat /\ legacy \in BOOLEAN
      /\ \A n \in Carried(demo) : n > LastState.sequence
      /\ Carried(demo) \subseteq Nat /\ LastState.sequence \in Nat
  BY <1>1, ReplayFacts, DemoFacts
<1>3. /\ p \in o .. Len(demo) /\ p <= Newest(demo) /\ Newest(demo) \in Nat
      /\ sequence \in Nat /\ Reaches(demo, p) = sequence
      /\ demo[o].sequence <= sequence /\ x <= sequence
      /\ map \in Nat \ {0} /\ map \in DOMAIN Maps \cup {0} /\ sent \in Strings
      /\ p < Newest(demo) => map < LastState.map
      /\ p = o =>
           /\ x = 0
           /\ \A slot \in 0 .. Slots - 1 : client.serverCommands[slot] = NoCommand
      /\ p # o =>
           /\ position > o /\ x = sequence /\ client.serverCommandSequence = sequence
           /\ Reaches(demo, position) = sequence
      /\ ~ legacy \/ OneBlock
      /\ position = 0 => OneBlock
  BY StateRead
<1>4. o \in Nat \ {0} /\ p \in Nat /\ p # 0 /\ p <= Len(demo) /\ p >= o /\ ~ (p < o)
      /\ (p <= o => p = o) /\ (p >= Newest(demo) => p = Newest(demo)) /\ position >= 0
  <2>1. o \in {1, 2}
    BY <1>2, DemoPlaces
  <2> QED BY <1>2, <1>3, <2>1
<1>5. /\ mode' \in {"replay", "over"} /\ client' \in Client
      /\ mode' # "over" =>
           /\ client' = [client EXCEPT !.map = map, !.gameState = client'.gameState,
                           !.serverCommandSequence = sequence, !.serverCommandNum = client.executed]
           /\ \A i \in Index \ stale' : (legacy' => i < MaxConfigStrings) =>
                CL_GetConfigString(i)' =
                   IF i \in DOMAIN WithDefaults(sent) THEN WithDefaults(sent)[i] ELSE <<>>
           /\ legacy' => extGameState' = extGameState
  <2>1. mode \in {"menu", "live", "replay"} /\ legacy' \in BOOLEAN
    BY <1>1, <1>2
  <2>2. server'.local = FALSE
    BY <1>1 DEF GameInv, SystemInv
  <2> HIDE DEF map, sequence, sent
  <2> QED BY <1>1, <1>2, <1>3, <2>1, <2>2, GameStateParsed
<1>6. DemoInv' /\ LastState' = LastState /\ (OneBlock' <=> OneBlock)
  BY <1>1, <1>2, SameDemo
<1>7. CASE mode' = "over"
  BY <1>6, <1>7, EndsOver
<1>8. CASE mode' = "replay"
  <2>1. /\ client'.map = map /\ client'.executed = x /\ client'.serverCommandNum = x
        /\ client'.serverCommandSequence = sequence /\ client'.serverCommands = client.serverCommands
    BY <1>2, <1>5, <1>8 DEF Client
  <2>2. legacy' => extGameState' = extGameState
    BY <1>5, <1>8
  <2>3. (legacy <=> OneBlock)
    BY <1>1, <1>2, <1>3 DEF ReplayPlace
  <2>4. OneBlockInv'
    BY <1>1, <1>2, <1>6, <1>8, <2>1, <2>2, <2>3 DEF OneBlockInv
  <2>5. ShownInv'
    BY <1>1, <1>2, SameShown
  <2>6. p >= Newest(demo) => map = LastState.map /\ sequence = LastState.sequence /\ sent = LastState.strings
    BY <1>4 DEF LastState
  <2>7. ReplayPlace'
    <3>1. x <= x /\ x <= sequence /\ sequence <= sequence /\ map # 0
      BY <1>2, <1>3
    <3>2. p <= o => x = 0
      BY <1>3, <1>4
    <3>3. p >= Newest(demo) /\ Newest(demo) > o => LastState.sequence <= x
      <4>1. p >= Newest(demo) /\ Newest(demo) > o => p # o
        BY <1>3, <1>4
      <4> QED BY <1>3, <2>6, <4>1
    <3>4. p < Newest(demo) => map \in Nat /\ map < LastState.map
      BY <1>3
    <3>5. legacy' <=> p = 0 \/ OneBlock
      BY <1>1, <1>4, <2>3
    <3> HIDE DEF p, map, sequence, x
    <3> QED BY <1>1, <1>2, <1>3, <1>4, <1>6, <2>1, <2>6, <3>1, <3>2, <3>3, <3>4, <3>5 DEF ReplayPlace
  <2>8. ReplaySlots'
    <3>1. p <= o => \A slot \in 0 .. Slots - 1 : client.serverCommands[slot] = NoCommand
      BY <1>3, <1>4
    <3>2. p > o =>
            IF sequence < Lowest(demo) THEN Unfilled(client.serverCommands)
            ELSE FilledFrom(client.serverCommands, Lowest(demo), sequence)
      <4>1. p > o => p # o
        BY <1>4
      <4> QED BY <1>1, <1>2, <1>3, <4>1 DEF ReplaySlots, Unfilled, FilledFrom
    <3> HIDE DEF p, sequence
    <3> QED BY <1>1, <1>3, <2>1, <3>1, <3>2 DEF ReplaySlots, Unfilled, FilledFrom
  <2>9. ReplayStrings'
    <3> SUFFICES ASSUME p >= Newest(demo)
                 PROVE  /\ \A i \in Index \ (stale' \cup LastState.emptied) :
                             CL_GetConfigString(i)' =
                               IF OneBlock /\ ~ (i < MaxConfigStrings) THEN <<>>
                               ELSE After(svCommands, LastState.strings, i, {n \in Carried(demo) : n <= x})
                        /\ x \notin Carried(demo)
      <4> HIDE DEF p, x
      <4> QED BY <1>1, <1>6, <2>1 DEF ReplayStrings
    <3>1. x <= LastState.sequence
      BY <1>3, <2>6
    <3>2. {n \in Carried(demo) : n <= x} = {} /\ x \notin Carried(demo)
      <4>1. \A n \in Carried(demo) : ~ (n <= x)
        <5> SUFFICES ASSUME NEW n \in Carried(demo) PROVE ~ (n <= x)
          OBVIOUS
        <5>1. n \in Nat /\ n > LastState.sequence
          BY <1>2
        <5> HIDE DEF x
        <5> QED BY <1>2, <3>1, <5>1
      <4>2. x <= x
        BY <1>2
      <4> HIDE DEF x
      <4> QED BY <4>1, <4>2
    <3>3. ASSUME NEW i \in Index \ stale'
          PROVE  CL_GetConfigString(i)' =
                   IF OneBlock /\ ~ (i < MaxConfigStrings) THEN <<>>
                   ELSE IF i \in DOMAIN WithDefaults(sent) THEN WithDefaults(sent)[i] ELSE <<>>
      <4>1. CASE OneBlock /\ ~ (i < MaxConfigStrings)
        <5>1. extGameState' = EmptyGameState
          BY <1>6, <1>8, <2>4, <4>1 DEF OneBlockInv
        <5>2. CL_GetConfigString(i)' = StringAt(extGameState', extGameState'.stringOffsets[Place(i)])
          BY <4>1 DEF CL_GetConfigString, Block
        <5> QED BY <4>1, <5>1, <5>2, NoStrings
      <4>2. CASE ~ (OneBlock /\ ~ (i < MaxConfigStrings))
        <5>1. legacy' => i < MaxConfigStrings
          BY <1>1, <2>3, <4>2
        <5> HIDE DEF sent
        <5> QED BY <1>5, <1>8, <4>2, <5>1
      <4> QED BY <4>1, <4>2
    <3>4. sent = LastState.strings
      BY <2>6
    <3> HIDE DEF sent, x
    <3>5. \A i : After(svCommands, LastState.strings, i, {n \in Carried(demo) : n <= x}) =
                   IF i \in DOMAIN WithDefaults(sent) THEN WithDefaults(sent)[i] ELSE <<>>
      BY <3>2, <3>4, AfterNone
    <3> QED BY <3>2, <3>3, <3>5
  <2> QED BY <1>6, <1>8, <2>4, <2>5, <2>7, <2>8, <2>9, EndsInReplay
<1> QED BY <1>5, <1>7, <1>8

\* In a demo, a command that is skipped is remembered.
LEMMA ShownSkips ==
    ASSUME mode = "replay", ShownInv, UNCHANGED <<demo, svCommands>>, GameTypes,
           shown' = [shown EXCEPT !.skipped = @ \/ Asked \in Recorded.commands]
    PROVE  ShownInv' /\ (~ shown'.skipped => ~ shown.skipped /\ Asked \notin Carried(demo))
<1>1. /\ shown = [map |-> shown.map, executed |-> shown.executed, strings |-> shown.strings,
                  skipped |-> shown.skipped]
      /\ shown.skipped \in BOOLEAN /\ Recorded.commands = Carried(demo)
  BY RecordedIs DEF ShownInv
<1> DEFINE skips == shown.skipped \/ Asked \in Carried(demo)
<1>2. shown' = [map |-> shown.map, executed |-> shown.executed, strings |-> shown.strings, skipped |-> skips]
  BY <1>1
<1>3. skips \in BOOLEAN
  BY <1>1
<1>4. ~ skips => ~ shown.skipped /\ Asked \notin Carried(demo)
  OBVIOUS
<1> HIDE DEF skips
<1>5. /\ shown'.map = shown.map /\ shown'.executed = shown.executed /\ shown'.strings = shown.strings
      /\ shown'.skipped = skips
  BY <1>2
<1>6. ShownInv'
  BY <1>2, <1>3, <1>5 DEF ShownInv, LastState, OneBlock
<1> QED BY <1>4, <1>5, <1>6

\* What cgame asks for in a demo: a command since the first message is the server's.
LEMMA ReplayCommand ==
    ASSUME GameInv, ReplayInv, mode = "replay", Executes
    PROVE  /\ position > Opening(demo) /\ Opening(demo) < Len(demo) /\ Opening(demo) \in Nat
           /\ Asked = client.executed + 1 /\ Asked <= client.serverCommandNum
           /\ Asked \in 1 .. Len(svCommands) /\ Asked <= Reaches(demo, Len(demo))
           /\ Lowest(demo) \in Nat
           /\ ~ CycledOut => Command = IF Asked >= Lowest(demo) THEN svCommands[Asked] ELSE NoCommand
<1> DEFINE o == Opening(demo)
           x == client.executed
           num == client.serverCommandNum
           seq == client.serverCommandSequence
           low == Lowest(demo)
           here == Reaches(demo, position)
           end == Reaches(demo, Len(demo))
           n == Asked
<1>1. /\ GameTypes /\ DemoInv /\ ReplayPlace /\ ReplaySlots
      /\ demo \in Seq(Entry) /\ Headed(demo) /\ Gapless(demo)
      /\ Len(demo) \in Nat /\ position \in Nat /\ position <= Len(demo)
      /\ x \in Nat /\ num \in Nat /\ seq \in Nat /\ Len(svCommands) \in Nat
      /\ end <= Len(svCommands)
  BY ReplayFacts
<1>2. x < num /\ n = x + 1 /\ n % Slots \in 0 .. Slots - 1
  <2>1. x < num /\ n = x + 1
    BY DEF Executes, Asked
  <2>2. n \in Nat /\ Slots \in Nat \ {0}
    BY <1>1, <2>1, GameConstants
  <2> HIDE DEF n
  <2> QED BY <2>1, <2>2
<1>3. /\ o \in {1, 2} /\ \A q \in o .. Len(demo) : Reaches(demo, q) \in Nat
      /\ o < Len(demo) => low \in Nat
  BY <1>1, DemoPlaces
<1>4. position > o
  <2>1. position <= o => x = 0 /\ num = 0
    BY <1>1 DEF ReplayPlace
  <2>2. ~ (position <= o)
    BY <1>1, <1>2, <2>1
  <2> QED BY <1>1, <1>3, <2>2
<1>5. /\ o < Len(demo) /\ position >= o /\ o \in Nat /\ position \in o .. Len(demo) /\ Len(demo) \in o .. Len(demo)
  <2> HIDE DEF o
  <2> QED BY <1>1, <1>3, <1>4
<1>6. seq <= here /\ num <= seq
  BY <1>1, <1>5 DEF ReplayPlace
<1>7. here <= end /\ here \in Nat /\ end \in Nat /\ low \in Nat
  <2>1. \A q, r \in o .. Len(demo) : q <= r => Reaches(demo, q) <= Reaches(demo, r)
    BY <1>1 DEF Gapless
  <2> QED BY <1>1, <1>3, <1>5, <2>1
<1>8. n \in 1 .. Len(svCommands) /\ n <= end /\ n <= here /\ n <= num /\ n <= seq /\ n \in 1 .. seq
  <2>1. end <= Len(svCommands)
    BY <1>1
  <2> HIDE DEF n, x, num, seq, here, end
  <2> QED BY <1>1, <1>2, <1>6, <1>7, <2>1
<1>9. ASSUME ~ CycledOut
      PROVE  Command = IF n >= low THEN svCommands[n] ELSE NoCommand
  <2>1. IF here < low
        THEN \A slot \in 0 .. Slots - 1 : client.serverCommands[slot] = NoCommand
        ELSE \A k \in 1 .. seq : k > seq - Slots =>
                client.serverCommands[k % Slots] = IF k >= low THEN svCommands[k] ELSE NoCommand
    BY <1>1, <1>4 DEF ReplaySlots
  <2>2. n > seq - Slots
    <3>1. ~ (n <= seq - Slots) /\ Slots \in Nat
      BY <1>9, GameConstants DEF CycledOut
    <3> HIDE DEF n, seq
    <3> QED BY <1>1, <1>8, <3>1
  <2>3. Command = client.serverCommands[n % Slots]
    BY DEF Command
  <2>4. CASE here < low
    <3>1. ~ (n >= low)
      <4> HIDE DEF n, here, low
      <4> QED BY <1>7, <1>8, <2>4
    <3> QED BY <1>2, <2>1, <2>3, <2>4, <3>1
  <2>5. CASE ~ (here < low)
    BY <1>8, <2>1, <2>2, <2>3, <2>5
  <2> QED BY <2>4, <2>5
<1> QED BY <1>2, <1>4, <1>5, <1>7, <1>8, <1>9

\* After the last game state, these are the commands that the demo carries.
LEMMA ReplayCarries ==
    ASSUME GameInv, ReplayInv, mode = "replay", Executes, position >= Newest(demo)
    PROVE  Asked >= Lowest(demo) <=> Asked \in Carried(demo)
<1> DEFINE o == Opening(demo)
           low == Lowest(demo)
           end == Reaches(demo, Len(demo))
           n == Asked
           s == LastState.sequence
<1>1. /\ o < Len(demo) /\ n = client.executed + 1 /\ n \in 1 .. Len(svCommands) /\ n <= end /\ low \in Nat
      /\ o \in Nat
  BY ReplayCommand
<1>2. /\ GameTypes /\ DemoInv /\ ReplayPlace /\ demo # <<>> /\ demo \in Seq(Entry) /\ Headed(demo)
      /\ CarriedAll(demo) /\ client.executed \in Nat /\ Len(svCommands) \in Nat /\ Len(demo) \in Nat
  BY ReplayFacts
<1>3. s \in Nat /\ end \in Nat
  BY <1>2, DemoFacts
<1>4. n \in Carried(demo) <=> Len(demo) > o /\ n \in low .. end /\ n > s
  BY <1>2 DEF CarriedAll, LastState
<1>5. low <= n => n > s
  <2>1. CASE Newest(demo) = o
    <3>1. demo[o].sequence < low
      BY <1>1, <1>2, DemoPlaces
    <3>2. s < low
      BY <2>1, <3>1 DEF LastState
    <3> HIDE DEF n, low, s
    <3> QED BY <1>1, <1>3, <3>2
  <2>2. CASE Newest(demo) # o
    <3>1. Newest(demo) > o
      <4>1. Newest(demo) \in o .. Len(demo)
        BY <1>2, DemoPlaces
      <4> QED BY <1>1, <2>2, <4>1
    <3>2. s <= client.executed
      BY <1>2, <3>1 DEF ReplayPlace
    <3> HIDE DEF n, s
    <3> QED BY <1>1, <1>2, <1>3, <3>2
  <2> QED BY <2>1, <2>2
<1> HIDE DEF n, low, end, o, s
<1>6. n >= low <=> n \in Carried(demo)
  BY <1>1, <1>2, <1>3, <1>4, <1>5
<1> QED BY <1>6 DEF n, low

\* Every turn counts the command.
LEMMA TurnCounts ==
    ASSUME GameTypes, mode = "replay", CL_CGameNeedsServerCommand, mode' # "over"
    PROVE  client'.executed = Asked
<1>1. client \in Client /\ client.executed \in Nat /\ Asked = client.executed + 1
  BY DEF GameTypes, Client, Asked
<1>2. ASSUME client' = [client EXCEPT !.executed = Asked] PROVE client'.executed = Asked
  <2> DEFINE e == Asked
  <2>1. client' = [client EXCEPT !.executed = e]
    BY <1>2
  <2> HIDE DEF e
  <2> QED BY <1>1, <2>1 DEF Client, e
<1>3. ASSUME NEW i, NEW s, CL_ConfigstringModified(i, s) PROVE client'.executed = Asked
  <2> DEFINE block == Filled(EmptyGameState, Modified(i, s), FirstOf(i))
             executed == [client EXCEPT !.executed = @ + 1]
             e == client.executed + 1
  <2>1. executed = [client EXCEPT !.executed = e]
    BY <1>1 DEF Client
  <2>2. client' = executed \/ client' = [executed EXCEPT !.gameState = block]
    BY <1>3 DEF CL_ConfigstringModified
  <2> HIDE DEF block, executed
  <2>3. client'.executed = e
    <3> HIDE DEF e
    <3> QED BY <1>1, <2>1, <2>2 DEF Client
  <2> QED BY <1>1, <2>3
<1>4. \/ client' = [client EXCEPT !.executed = Asked]
      \/ \E i, s : CL_ConfigstringModified(i, s)
  BY DEF CL_CGameNeedsServerCommand, CommandIsLost, CommandIsEmpty, FirstPiece, PieceTooLong, NextPiece,
         LastPiece, WholeString
<1> QED BY <1>2, <1>3, <1>4

\* A command that the demo carries is taken as the server sent it.
LEMMA CarriedTaken ==
    ASSUME GameInv, ReplayInv, mode = "replay", CL_CGameNeedsServerCommand, mode' # "over",
           position >= Newest(demo), NothingMissed, ~ CycledOut, Asked \in Carried(demo)
    PROVE  Command = svCommands[Asked] /\ Takes(Command)
<1> DEFINE c == Command
           n == Asked
           x == client.executed
<1>1. /\ Executes /\ UNCHANGED <<legacy, server, svCommands, recording, demo, position>>
  BY TurnLeaves
<1>2. /\ n = x + 1 /\ n \in 1 .. Len(svCommands) /\ c = svCommands[n]
  BY <1>1, ReplayCommand, ReplayCarries
<1>3. /\ GameTypes /\ ServerInv /\ ReplayStrings /\ svCommands \in Seq(ServerCommand) /\ x \in Nat
      /\ bigConfigString \in [index : Index \cup {-1}, text : Text]
  BY ReplayFacts DEF GameInv, GameTypes
<1>4. c \in ServerCommand /\ Continues(svCommands, n)
  BY <1>2, <1>3, ServerContinues
<1>5. c.cmd \in {"d", "x"} => c.value = c.text
  BY <1>2, <1>4 DEF Continues
<1>6. ASSUME c.cmd \in {"y", "z"}
      PROVE  bigConfigString.index = c.index /\ Pieced = c.value
  <2>1. n - 1 = x
    <3> HIDE DEF n, x
    <3> QED BY <1>2, <1>3
  <2>2. n - 1 \in Carried(demo)
    <3>1. Recorded.commands = Carried(demo) /\ svCommands[n].cmd \in {"y", "z"}
      BY <1>2, <1>3, <1>6, RecordedIs
    <3> QED BY <3>1 DEF NothingMissed, Torn
  <2>3. /\ svCommands[n - 1].cmd \in {"x", "y"} /\ svCommands[n - 1].index = c.index
        /\ c.value = svCommands[n - 1].value \o c.text
    BY <1>2, <1>4, <1>6 DEF Continues
  <2>4. bigConfigString = [index |-> svCommands[x].index, text |-> svCommands[x].value]
    BY <1>3, <2>1, <2>2, <2>3 DEF ReplayStrings
  <2> HIDE DEF n, x, c
  <2>5. bigConfigString.index = svCommands[x].index /\ bigConfigString.text = svCommands[x].value
    BY <2>4
  <2>6. bigConfigString.text \o c.text = c.value /\ bigConfigString.index = c.index
    BY <2>1, <2>3, <2>5
  <2> QED BY <2>6 DEF Pieced, c
<1>7. Takes(c)
  BY <1>1, <1>3, <1>4, <1>5, <1>6, CommandTaken
<1> QED BY <1>2, <1>7

\* One that it does not carry changes nothing.
LEMMA OthersLeave ==
    ASSUME GameInv, ReplayInv, mode = "replay", CL_CGameNeedsServerCommand, mode' # "over",
           position >= Newest(demo), NothingMissed', Asked \notin Carried(demo) \/ CycledOut
    PROVE  /\ Asked \notin Carried(demo) /\ stale' = stale
           /\ \A i : CL_GetConfigString(i)' = CL_GetConfigString(i)
<1>1. Executes /\ UNCHANGED <<svCommands, demo>> /\ (CycledOut <=> CommandIsLost)
  BY TurnLeaves
<1>2. GameTypes /\ ShownInv /\ client \in Client
  BY ReplayFacts
<1>3. ASSUME UNCHANGED <<extGameState>>, client' = [client EXCEPT !.executed = Asked]
      PROVE  \A i : CL_GetConfigString(i)' = CL_GetConfigString(i)
  <2> DEFINE e == Asked
  <2>1. client' = [client EXCEPT !.executed = e]
    BY <1>3
  <2> HIDE DEF e
  <2>2. client'.gameState = client.gameState
    BY <1>2, <2>1 DEF Client
  <2> QED BY <1>3, <2>2, StringsKept
<1>4. CASE CycledOut
  <2>1. /\ client' = [client EXCEPT !.executed = Asked] /\ UNCHANGED <<extGameState, stale>>
        /\ shown' = [shown EXCEPT !.skipped = @ \/ Asked \in Recorded.commands]
    BY <1>1, <1>4 DEF CommandIsLost
  <2>2. ~ shown'.skipped
    BY DEF NothingMissed
  <2>3. Asked \notin Carried(demo)
    BY <1>1, <1>2, <2>1, <2>2, ShownSkips
  <2> QED BY <1>3, <2>1, <2>3
<1>5. CASE ~ CycledOut
  <2>1. Command = NoCommand /\ Asked \notin Carried(demo)
    BY <1>1, <1>5, ReplayCommand, ReplayCarries
  <2>2. CommandIsEmpty
    BY <1>1, <1>5, <2>1 DEF NoCommand, CL_CGameNeedsServerCommand, FirstPiece, PieceTooLong, NextPiece,
                            LastPiece, WholeString
  <2>3. client' = [client EXCEPT !.executed = Asked] /\ UNCHANGED <<extGameState, stale>>
    BY <2>2 DEF CommandIsEmpty
  <2> QED BY <1>3, <2>1, <2>3
<1> QED BY <1>4, <1>5

\* The strings after a turn in a demo.
LEMMA TurnStrings ==
    ASSUME GameInv, ReplayInv, mode = "replay", CL_CGameNeedsServerCommand, mode' # "over",
           client'.executed = Asked
    PROVE  ReplayStrings'
<1> DEFINE n == Asked
           x == client.executed
           one(i) == OneBlock /\ ~ (i < MaxConfigStrings)
           S == {k \in Carried(demo) : k <= x}
           T == {k \in Carried(demo) : k <= n}
           strings == LastState.strings
           emptied == LastState.emptied
           want(i, H) == IF one(i) THEN <<>> ELSE After(svCommands, strings, i, H)
<1>1. /\ Executes /\ UNCHANGED <<svCommands, demo, position>> /\ (~ CycledOut => shown' = shown)
      /\ (CycledOut <=> CommandIsLost)
  BY TurnLeaves
<1>2. /\ GameTypes /\ DemoInv /\ OneBlockInv /\ ShownInv /\ ReplayStrings /\ demo # <<>> /\ x \in Nat
  BY ReplayFacts
<1>3. LastState' = LastState /\ (OneBlock' <=> OneBlock)
  BY <1>1, <1>2, SameDemo
<1>4. n = x + 1 /\ n \in 1 .. Len(svCommands)
  BY <1>1, ReplayCommand
<1>5. SUFFICES ASSUME position >= Newest(demo), NothingMissed'
               PROVE  /\ \A i \in Index \ (stale' \cup emptied) : CL_GetConfigString(i)' = want(i, T)
                      /\ n \in Carried(demo) /\ svCommands[n].cmd \in {"x", "y"} =>
                           bigConfigString' = [index |-> svCommands[n].index,
                                               text |-> svCommands[n].value]
  BY <1>1, <1>3 DEF ReplayStrings
<1>6. NothingMissed
  <2>1. Torn' <=> Torn
    BY <1>1 DEF Torn, Recorded
  <2>2. ~ shown.skipped
    <3>1. CASE ~ CycledOut
      BY <1>1, <1>5, <3>1 DEF NothingMissed
    <3>2. CASE CycledOut
      <4>1. shown' = [shown EXCEPT !.skipped = @ \/ Asked \in Recorded.commands]
        BY <1>1, <3>2 DEF CommandIsLost
      <4> QED BY <1>1, <1>2, <1>5, <4>1, ShownSkips DEF NothingMissed
    <3> QED BY <3>1, <3>2
  <2> QED BY <1>5, <2>1, <2>2 DEF NothingMissed
<1>7. \A i \in Index \ (stale \cup emptied) : CL_GetConfigString(i) = want(i, S)
  BY <1>2, <1>5, <1>6 DEF ReplayStrings
<1>8. Carried(demo) \subseteq Nat
  BY <1>2, DemoFacts
<1>9. CASE n \in Carried(demo) /\ ~ CycledOut
  <2> DEFINE c == Command
             cs == svCommands
  <2>1. c = svCommands[n] /\ Takes(c)
    BY <1>1, <1>5, <1>6, <1>9, CarriedTaken
  <2>2. T = S \cup {n} /\ S \in SUBSET Nat /\ n \in Nat /\ \A k \in S : k < n
    <3>1. n \in Carried(demo)
      BY <1>9
    <3> HIDE DEF n, x
    <3>2. \A k \in Carried(demo) : k <= n <=> k <= x \/ k = n
      BY <1>2, <1>4, <1>8
    <3>3. \A k \in Carried(demo) : k <= x => k < n
      BY <1>2, <1>4, <1>8
    <3> QED BY <1>8, <3>1, <3>2, <3>3
  <2>3. /\ \A j \in Index : CL_GetConfigString(j)' = IF Sets(c, j) THEN c.value ELSE CL_GetConfigString(j)
        /\ \A j \in stale \ stale' : Sets(c, j)
        /\ c.cmd \in {"x", "y"} => bigConfigString' = [index |-> c.index, text |-> c.value]
    BY <2>1 DEF Takes
  <2>4. \A i : one(i) => ~ Sets(c, i)
    <3>1. OneBlock => svCommands[n].index < MaxConfigStrings
      BY <1>2, <1>4 DEF OneBlockInv
    <3> QED BY <2>1, <3>1 DEF Sets
  <2> HIDE DEF S, T, n, c, strings, emptied, cs, one
  <2>5. \A i : After(cs, strings, i, S \cup {n}) =
                 IF Sets(cs[n], i) THEN cs[n].value ELSE After(cs, strings, i, S)
    BY <2>2, AfterNext
  <2>6. cs[n] = c
    BY <2>1 DEF cs, n
  <2>7. ASSUME NEW i \in Index \ (stale' \cup emptied) PROVE CL_GetConfigString(i)' = want(i, T)
    <3>1. CASE Sets(c, i)
      <4>1. CL_GetConfigString(i)' = c.value /\ ~ one(i)
        BY <2>3, <2>4, <3>1
      <4> QED BY <2>2, <2>5, <2>6, <3>1, <4>1 DEF cs
    <3>2. CASE ~ Sets(c, i)
      <4>1. CL_GetConfigString(i)' = CL_GetConfigString(i) /\ i \in Index \ (stale \cup emptied)
        BY <2>3, <2>7, <3>2
      <4> QED BY <1>7, <2>2, <2>5, <2>6, <3>2, <4>1 DEF cs
    <3> QED BY <3>1, <3>2
  <2> HIDE DEF want
  <2> QED BY <2>1, <2>3, <2>7
<1>10. CASE n \notin Carried(demo) \/ CycledOut
  <2>1. n \notin Carried(demo) /\ stale' = stale /\ \A i : CL_GetConfigString(i)' = CL_GetConfigString(i)
    BY <1>5, <1>10, OthersLeave
  <2>2. T = S
    <3>1. n \notin Carried(demo)
      BY <2>1
    <3> HIDE DEF n, x
    <3>2. \A k \in Carried(demo) : k <= n <=> k <= x
      BY <1>2, <1>4, <1>8, <3>1
    <3> QED BY <3>2
  <2> HIDE DEF S, T, want, emptied
  <2> QED BY <1>7, <2>1, <2>2
<1> QED BY <1>9, <1>10

\* A turn, in a demo.
LEMMA ReplayTurnReplays ==
    ASSUME GameInv, ReplayInv, mode = "replay", CL_CGameNeedsServerCommand
    PROVE  ReplayInv'
<1> DEFINE x == client.executed
           o == Opening(demo)
<1>1. /\ Executes /\ UNCHANGED <<legacy, svCommands, demo, position>> /\ mode' \in {"replay", "over"}
      /\ (~ CycledOut => shown' = shown) /\ (CycledOut <=> CommandIsLost)
  BY TurnLeaves
<1>2. /\ GameTypes /\ DemoInv /\ OneBlockInv /\ ShownInv /\ ReplayPlace /\ ReplaySlots
      /\ demo # <<>> /\ demo \in Seq(Entry) /\ Headed(demo) /\ position \in Nat /\ x \in Nat
  BY ReplayFacts
<1>3. DemoInv' /\ LastState' = LastState /\ (OneBlock' <=> OneBlock)
  BY <1>1, <1>2, SameDemo
<1>4. CASE mode' = "over"
  BY <1>3, <1>4, EndsOver
<1>5. CASE mode' = "replay"
  <2>1. client'.executed = Asked
    BY <1>2, <1>5, TurnCounts
  <2>2. /\ client'.map = client.map /\ client'.serverCommands = client.serverCommands
        /\ client'.serverCommandSequence = client.serverCommandSequence
        /\ client'.serverCommandNum = client.serverCommandNum
        /\ OneBlockInv'
    BY <1>2, TurnOneBlock
  <2>3. ShownInv'
    <3>1. CASE ~ CycledOut
      BY <1>1, <1>2, <3>1, SameShown
    <3>2. CASE CycledOut
      <4>1. shown' = [shown EXCEPT !.skipped = @ \/ Asked \in Recorded.commands]
        BY <1>1, <3>2 DEF CommandIsLost
      <4> QED BY <1>1, <1>2, <4>1, ShownSkips
    <3> QED BY <3>1, <3>2
  <2>4. position > o /\ o \in Nat /\ Asked = x + 1 /\ Asked <= client.serverCommandNum
    BY <1>1, ReplayCommand
  <2>5. ~ (position <= o) /\ ~ (position < o)
    BY <1>2, <2>4
  <2>6. ReplayPlace'
    <3>1. position >= Newest(demo) /\ Newest(demo) > o => LastState.sequence <= Asked
      <4>1. LastState.sequence \in Nat
        BY <1>2, DemoFacts
      <4>2. position >= Newest(demo) /\ Newest(demo) > o => LastState.sequence <= x
        BY <1>2 DEF ReplayPlace
      <4>3. Asked = x + 1
        BY <2>4
      <4> HIDE DEF x, o
      <4> QED BY <1>2, <4>1, <4>2, <4>3
    <3> QED BY <1>1, <1>2, <1>3, <1>5, <2>1, <2>2, <2>4, <2>5, <3>1 DEF ReplayPlace
  <2>7. ReplaySlots'
    BY <1>1, <1>2, <1>5, <2>2 DEF ReplaySlots
  <2>8. ReplayStrings'
    BY <1>5, <2>1, TurnStrings
  <2> QED BY <1>3, <1>5, <2>2, <2>3, <2>6, <2>7, <2>8, EndsInReplay
<1> QED BY <1>1, <1>4, <1>5

\* At first there is no demo.
LEMMA InitReplays == GameInit => ReplayInv
<1> SUFFICES ASSUME GameInit PROVE ReplayInv
  OBVIOUS
<1>1. /\ mode = "menu" /\ client = NoClient /\ extGameState = EmptyGameState
      /\ bigConfigString = NoBigConfigString /\ demo = <<>> /\ recording = "no" /\ position = 0
      /\ server.map = 0
  BY DEF GameInit, NoServer
<1> QED BY <1>1 DEF ReplayInv, DemoInv, NothingInv, OneBlockInv, RecordingInv, RecordedStrings, ShownInv,
                    ReplayPlace, ReplaySlots, ReplayStrings

\* A step that leaves the game alone.
LEMMA ReplayKept == ReplayInv /\ UNCHANGED gameVars => ReplayInv'
<1> SUFFICES ASSUME ReplayInv, UNCHANGED gameVars PROVE ReplayInv'
  OBVIOUS
<1>1. \A i : CL_GetConfigString(i)' = CL_GetConfigString(i)
  BY StringsKept DEF gameVars
<1>2. DemoInv' /\ LastState' = LastState /\ (OneBlock' <=> OneBlock)
  BY SameDemo DEF ReplayInv, gameVars
<1>3. NothingInv' /\ OneBlockInv' /\ RecordingInv' /\ RecordedStrings'
  BY <1>1, <1>2 DEF gameVars, ReplayInv, NothingInv, OneBlockInv, RecordingInv, RecordedStrings
<1>4. ShownInv' /\ ReplayPlace' /\ ReplaySlots'
  BY <1>2 DEF gameVars, ReplayInv, ShownInv, ReplayPlace, ReplaySlots
<1>5. ReplayStrings'
  <2>1. NothingMissed' <=> NothingMissed
    BY DEF gameVars, NothingMissed, Torn, Recorded
  <2> QED BY <1>1, <1>2, <2>1 DEF gameVars, ReplayInv, ReplayStrings
<1> QED BY <1>2, <1>3, <1>4, <1>5 DEF ReplayInv

\* Any entry is read.
LEMMA ReadReplays == GameInv /\ ReplayInv /\ CL_ReadDemoMessage => ReplayInv'
<1> SUFFICES ASSUME GameInv, ReplayInv, CL_ReadDemoMessage PROVE ReplayInv'
  OBVIOUS
<1>1. mode = "replay" /\ position < Len(demo)
  BY ReadLeaves
<1>2. demo \in Seq(Entry) /\ Len(demo) \in Nat /\ position \in Nat
  BY <1>1, ReplayFacts
<1>3. position + 1 \in 1 .. Len(demo)
  BY <1>1, <1>2
<1>4. demo[position + 1].kind \in {"protocol", "gamestate", "message"}
  BY <1>2, <1>3, EntryFields
<1> QED BY <1>4, ReadProtocolReplays, ReadStateReplays, ReadMessageReplays

\* Every step.
LEMMA NextReplays == GameInv /\ ReplayInv /\ [GameNext]_<<gameVars, cvarVars>> => ReplayInv'
<1> SUFFICES ASSUME GameInv, ReplayInv, [GameNext]_<<gameVars, cvarVars>> PROVE ReplayInv'
  OBVIOUS
<1>1. CASE Variables
  BY <1>1, ReplayKept DEF Variables
<1>2. ASSUME NEW isLegacy \in BOOLEAN, NEW local \in BOOLEAN, NewMap(isLegacy, local) PROVE ReplayInv'
  BY <1>2, MapReplays
<1>3. ASSUME NEW c \in Changes, SV_SetConfigstring(c[1], c[2]) PROVE ReplayInv'
  <2>1. PICK i \in Index, text \in Text : i = c[1] /\ text = c[2]
    BY GameStateAssumption DEF Text
  <2> QED BY <1>3, <2>1, SetConfigstringReplays
<1>4. ASSUME NEW first \in 1 .. MaxCommands + 1, NEW full \in BOOLEAN, CL_PacketEvent(first, full)
      PROVE  ReplayInv'
  BY <1>4, PacketReplays
<1>5. CASE CL_CGameNeedsServerCommand
  <2>1. mode \in {"live", "replay"}
    BY <1>5, TurnLeaves DEF Executes
  <2> QED BY <1>5, <2>1, LiveTurnReplays, ReplayTurnReplays
<1>6. CASE CL_Record_f
  BY <1>6, RecordReplays
<1>7. ASSUME NEW newProcess \in BOOLEAN, CL_PlayDemo(newProcess) PROVE ReplayInv'
  BY <1>7, PlayReplays
<1>8. CASE CL_ReadDemoMessage
  BY <1>8, ReadReplays
<1>9. CASE UNCHANGED <<gameVars, cvarVars>>
  BY <1>9, ReplayKept
<1> QED BY <1>1, <1>2, <1>3, <1>4, <1>5, <1>6, <1>7, <1>8, <1>9 DEF GameNext

\* Where player and client have executed the same commands, they have the same strings.
LEMMA ReplayIsLive == GameInv /\ ReplayInv => ReplayShowsLive
<1> DEFINE e == shown.executed
           carried == Carried(demo)
           lost == {svCommands[n].index : n \in Lost}
           S == {n \in carried : n <= e}
           T == LastState.executed + 1 .. e
           one(i) == OneBlock /\ ~ (i < MaxConfigStrings)
           emptied == LastState.emptied
           strings == LastState.strings
<1> SUFFICES ASSUME GameInv, ReplayInv, mode = "replay",
                    client.map = shown.map, client.executed = e, ~ Torn, ~ shown.skipped,
                    NEW i \in Index \ (stale \cup Recorded.state.emptied \cup lost)
             PROVE  CL_GetConfigString(i) = shown.strings[i]
  BY DEF ReplayShowsLive
<1>1. /\ GameTypes /\ DemoInv /\ ShownInv /\ ReplayPlace /\ ReplayStrings /\ demo # <<>>
      /\ demo \in Seq(Entry) /\ Headed(demo) /\ position \in Nat /\ NothingMissed
  BY ReplayFacts DEF NothingMissed
<1>2. /\ Recorded.state = LastState /\ Recorded.commands = carried
      /\ LastState.map \in Nat /\ LastState.sequence \in Nat /\ LastState.executed \in Nat
      /\ LastState.executed <= LastState.sequence /\ carried \subseteq Nat
      /\ \A n \in carried : n > LastState.sequence
  BY <1>1, RecordedIs, DemoFacts
<1>3. /\ shown.map \in Nat /\ e \in Nat /\ LastState.map <= shown.map
  BY <1>1 DEF ShownInv
<1>4. position >= Newest(demo)
  <2>1. Newest(demo) \in Nat
    BY <1>1, DemoPlaces DEF StatesOf
  <2>2. ~ (position < Newest(demo))
    <3>1. position < Newest(demo) => client.map \in Nat /\ client.map < LastState.map
      BY <1>1 DEF ReplayPlace
    <3> QED BY <1>2, <1>3, <3>1
  <2> QED BY <1>1, <2>1, <2>2
<1>5. shown.map = LastState.map
  BY <1>1, <1>4 DEF ReplayPlace
<1>6. i \in Index /\ i \notin stale /\ i \notin emptied /\ i \notin lost
  BY <1>2
<1>7. CL_GetConfigString(i) = IF one(i) THEN <<>> ELSE After(svCommands, strings, i, S)
  BY <1>1, <1>4, <1>6 DEF ReplayStrings
<1>8. shown.strings[i] = IF one(i) THEN <<>> ELSE After(svCommands, strings, i, T)
  BY <1>1, <1>5, <1>6 DEF ShownInv
<1>9. SetAmong(svCommands, i, S) = SetAmong(svCommands, i, T)
  <2> DEFINE a == LastState.executed
  <2>1. S \subseteq T
    <3> SUFFICES ASSUME NEW n \in carried, n <= e PROVE n \in T
      OBVIOUS
    <3>1. n \in Nat /\ n > LastState.sequence
      BY <1>2
    <3> HIDE DEF carried, e
    <3> QED BY <1>2, <1>3, <3>1
  <2>2. ASSUME NEW n \in T, Sets(svCommands[n], i) PROVE n \in S
    <3>1. n <= e
      <4> HIDE DEF e
      <4> QED BY <1>2, <1>3
    <3>2. n \in Lost => i \in lost
      BY <2>2 DEF Sets
    <3>3. n \in carried
      BY <1>2, <1>6, <3>2 DEF Lost
    <3> QED BY <3>1, <3>3
  <2> HIDE DEF S, T
  <2> QED BY <2>1, <2>2 DEF SetAmong
<1>10. After(svCommands, strings, i, S) = After(svCommands, strings, i, T)
  <2> HIDE DEF S, T, strings
  <2> QED BY <1>9, AfterSame
<1> QED BY <1>7, <1>8, <1>10

-----------------------------------------------------------------------------
(* The specification *)

LEMMA NextKeeps == GameInv /\ [GameNext]_<<gameVars, cvarVars>> => GameInv'
<1> SUFFICES ASSUME GameInv, [GameNext]_<<gameVars, cvarVars>> PROVE GameInv'
  OBVIOUS
<1>1. CASE Variables
  BY <1>1, VariablesKeep
<1>2. ASSUME NEW isLegacy \in BOOLEAN, NEW local \in BOOLEAN, NewMap(isLegacy, local) PROVE GameInv'
  BY <1>2, MapKeeps
<1>3. ASSUME NEW c \in Changes, SV_SetConfigstring(c[1], c[2]) PROVE GameInv'
  <2>1. PICK i \in Index, text \in Text : i = c[1] /\ text = c[2]
    BY GameStateAssumption DEF Text
  <2> QED BY <1>3, <2>1, SetConfigstringKeeps
<1>4. ASSUME NEW first \in 1 .. MaxCommands + 1, NEW full \in BOOLEAN, CL_PacketEvent(first, full)
      PROVE  GameInv'
  BY <1>4, PacketKeeps
<1>5. CASE CL_CGameNeedsServerCommand
  BY <1>5, LostCommand, EmptyCommand, FirstPieceKeeps, TooLongPiece, NextPieceKeeps, LastPieceKeeps,
     WholeStringKeeps DEF CL_CGameNeedsServerCommand
<1>6. CASE CL_Record_f
  BY <1>6, RecordKeeps
<1>7. ASSUME NEW newProcess \in BOOLEAN, CL_PlayDemo(newProcess) PROVE GameInv'
  BY <1>7, PlayKeeps
<1>8. CASE CL_ReadDemoMessage
  BY <1>8, ReadKeeps
<1>9. CASE UNCHANGED <<gameVars, cvarVars>>
  BY <1>9, StutterKeeps
<1> QED BY <1>1, <1>2, <1>3, <1>4, <1>5, <1>6, <1>7, <1>8, <1>9 DEF GameNext

LEMMA GameInvAlways == GameSpec => []GameInv
  BY InitKeeps, NextKeeps, PTL DEF GameSpec

LEMMA ReplayInvAlways == GameSpec => []ReplayInv
<1>1. GameInit => GameInv /\ ReplayInv
  BY InitKeeps, InitReplays
<1>2. GameInv /\ ReplayInv /\ [GameNext]_<<gameVars, cvarVars>> => (GameInv /\ ReplayInv)'
  BY NextKeeps, NextReplays
<1> QED BY <1>1, <1>2, PTL DEF GameSpec

(* The client, its strings and buffers, the server's commands and the demo have their   *)
(* types at any time, also while a demo is played: every string that is read is a text, *)
(* and no entry of the demo is about commands that the server has not sent.             *)
THEOREM GameStateTypes == GameSpec => []GameTypes
<1>1. GameInv => GameTypes
  BY DEF GameInv
<1> QED BY <1>1, GameInvAlways, PTL

(* While connected, the client has the strings that the server had after the commands   *)
(* cgame has executed: CL_ParseGamestateX with its defaults, the pieces of bigConfigString *)
(* and CL_ConfigstringModified, which builds the block anew, mix up and lose nothing,    *)
(* whatever the number and the lengths of the strings, the slots and the pieces.         *)
THEOREM StringsAreTheServers == GameSpec => []StringsFollowServer
<1>1. GameInv => StringsFollowServer
  BY DEF GameInv
<1> QED BY <1>1, GameInvAlways, PTL

(* The variable has the value of the system information, however it is protected and     *)
(* whatever was latched, where the server is another process and in a demo; sv_cheats    *)
(* and sv_pure are what it says, but in a demo set and not set (CL_SystemInfoChanged).   *)
THEOREM SystemInfoStaysInForce == GameSpec => []SystemInfoInForce
<1>1. GameInv => SystemInfoInForce
  BY DEF GameInv, SystemInv
<1> QED BY <1>1, GameInvAlways, PTL

(* The strings of the variables are owned also where the system information sets one of  *)
(* them, live and in a demo (Cvar_Set in CL_SystemInfoChanged), if every text may be the  *)
(* value of a variable.                                                                  *)
THEOREM StringsAreOwnedInGame ==
    ASSUME Text \subseteq Texts
    PROVE  GameSpec => []StringsOwned
<1>1. GameInv => StringsOwned
  BY DEF GameInv, SystemInv, AllGood, StringsOwned, Good, RefsOf
<1> QED BY <1>1, GameInvAlways, PTL

(* And so do the values of an enumeration stay in its list.                              *)
THEOREM EnumsStayInDomainInGame ==
    ASSUME Text \subseteq Texts
    PROVE  GameSpec => []EnumsInDomain
<1>1. GameInv => EnumsInDomain
  BY DEF GameInv, SystemInv, AllGood, EnumsInDomain, Good, Fits, Values
<1> QED BY <1>1, GameInvAlways, PTL

(* A demo shows the strings that were seen when it was recorded: what                    *)
(* CL_Record_WriteGameState wrote and the messages that were kept bring back, through    *)
(* the same slots, pieces and blocks, what the client had when it had executed as many   *)
(* commands, wherever the recording began and however many maps it spans.                *)
THEOREM DemosShowWhatWasSeen == GameSpec => []ReplayShowsLive
<1>1. GameInv /\ ReplayInv => ReplayShowsLive
  BY ReplayIsLive
<1> QED BY <1>1, GameInvAlways, ReplayInvAlways, PTL
=============================================================================
