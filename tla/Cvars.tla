-------------------------------- MODULE Cvars --------------------------------
(***************************************************************************)
(* Console variables: cvar.c.                                              *)
(*                                                                         *)
(* A variable has a current, a latched and a reset value.  The values of a *)
(* string variable are interned, counted strings, and the three of them    *)
(* share one reference when they are equal: whether a string must be       *)
(* copied or freed is decided by comparing it with the other two.  An      *)
(* enumeration's values are indices into a list that a later registration  *)
(* may replace by a shorter one.                                           *)
(*                                                                         *)
(* Numbers with limits, colours and vectors have neither references nor a  *)
(* domain that changes, and are left out, as are the hash table and the    *)
(* texts themselves.                                                       *)
(***************************************************************************)
EXTENDS Integers

CONSTANTS
    Names,      \* the variables
    Texts,      \* the strings a string variable may hold
    Null,       \* no string
    EnumCounts, \* how many strings a registration of an enumeration may have
    Indices     \* what a command may be understood as for an enumeration, -1337 included

ASSUME CvarAssumption ==
    /\ Null \notin Texts
    /\ EnumCounts \subseteq Nat
    /\ Indices \subseteq Int

VARIABLES
    cvar,           \* cvar_storage, with the references that each variable holds
    cvar_cheats     \* cvar_cheats->boolean

cvarVars == <<cvar, cvar_cheats>>

\* CVAR_LATCH, CVAR_CHEAT, CVAR_ROM or CVAR_INIT, CVAR_USER_CREATED.
Flags == {"latch", "cheat", "rom", "user"}

NoReferences == [t \in Texts |-> 0]

\* A name that is not registered.
Unregistered ==
    [type |-> "none", flags |-> {}, string |-> Null, latched |-> Null, reset |-> Null,
     count |-> 0, refs |-> NoReferences]

-----------------------------------------------------------------------------
(* Strings: each operator gives the variable that it leaves behind. *)

\* CopyString and FreeString, of the host's string table.
CopyString(v, t) == [v EXCEPT !.refs[t] = @ + 1]
FreeString(v, t) == [v EXCEPT !.refs[t] = @ - 1]

Dvar_ShouldFreeCurrentString(v) ==
    v.string # Null /\ v.string # v.latched /\ v.string # v.reset

\* Mutant: the reset string is forgotten.
ShouldFreeLatchedAny(v) == v.latched # Null /\ v.latched # v.string

Dvar_ShouldFreeLatchedString(v) ==
    v.latched # Null /\ v.latched # v.string /\ v.latched # v.reset

\* Dvar_AssignCurrentStringValue: shared with the latched or the reset string, or copied.
Dvar_AssignCurrentString(v, t) ==
    LET w == IF t \in {v.latched, v.reset} THEN v ELSE CopyString(v, t)
    IN  [w EXCEPT !.string = t]

Dvar_AssignLatchedString(v, t) ==
    LET w == IF t \in {v.string, v.reset} THEN v ELSE CopyString(v, t)
    IN  [w EXCEPT !.latched = t]

\* The part of Dvar_UpdateValue that frees the latched string and shares the new one.
LatchCurrent(v) ==
    LET w == IF Dvar_ShouldFreeLatchedString(v) THEN FreeString(v, v.latched) ELSE v
    IN  [w EXCEPT !.latched = v.string]

\* Dvar_UpdateValue.  The old string is freed last: the new one may be the same.
Dvar_UpdateValue(v, x) ==
    IF v.type = "string"
    THEN LET w == LatchCurrent(Dvar_AssignCurrentString(v, x))
         IN  IF Dvar_ShouldFreeCurrentString(v) THEN FreeString(w, v.string) ELSE w
    ELSE [v EXCEPT !.string = x, !.latched = x]

\* Dvar_SetLatchedValue.  A value that is the latched string itself is skipped by the
\* code, with the result this has for it.
Dvar_SetLatchedValue(v, x) ==
    IF v.type = "string"
    THEN LET w == Dvar_AssignLatchedString(v, x)
         IN  IF Dvar_ShouldFreeLatchedString(v) THEN FreeString(w, v.latched) ELSE w
    ELSE [v EXCEPT !.latched = x]

-----------------------------------------------------------------------------
(* Setting a variable *)

\* Dvar_ValueInDomain; index 0 is in the domain of an empty list too.
Domain(n) == {i \in Nat : i < n \/ i = 0}

Dvar_ValueInDomain(v, x) == v.type = "enum" => x \in Domain(v.count)

Dvar_CanChangeValue(v, x) ==
    \/ x = v.string
    \/ "rom" \notin v.flags /\ ("cheat" \in v.flags => cvar_cheats)

\* Dvar_SetVariant with a value of the domain.
SetInDomain(v, x, external) ==
    IF external /\ ~Dvar_CanChangeValue(v, x) THEN v
    ELSE IF external /\ "latch" \in v.flags THEN Dvar_SetLatchedValue(v, x)
    ELSE IF x = v.string THEN Dvar_SetLatchedValue(v, v.string)
    ELSE Dvar_UpdateValue(v, x)

\* Dvar_SetVariant: for a value out of its domain an enumeration takes the reset value,
\* by a call of itself.
Dvar_SetVariant(v, x, external) ==
    SetInDomain(v, IF Dvar_ValueInDomain(v, x) THEN x ELSE v.reset, external)

-----------------------------------------------------------------------------
(* Registration *)

\* Cvar_RegisterNew: one reference for all three.
Cvar_RegisterNew(type, flags, x, n) ==
    [type |-> type, flags |-> flags, string |-> x, latched |-> x, reset |-> x,
     count |-> IF type = "enum" THEN n ELSE 0,
     refs |-> IF type = "string" THEN [NoReferences EXCEPT ![x] = 1] ELSE NoReferences]

\* The index i, or the last one of n, and not less than 0.
Clamped(i, n) == LET last == IF i >= n THEN n - 1 ELSE i IN IF last < 0 THEN 0 ELSE last

\* Mutant: the latched index is not looked at.
ApplyNewEnumDomainCurrent(v, x, n) ==
    [v EXCEPT !.count = n, !.string = Clamped(IF @ >= n THEN x ELSE @, n), !.reset = Clamped(x, n)]

Cvar_ApplyNewEnumDomain(v, x, n) ==
    LET current == Clamped(IF v.string >= n THEN x ELSE v.string, n)
    IN  [v EXCEPT !.count = n, !.string = current, !.reset = Clamped(x, n),
                  !.latched = IF @ >= n \/ @ < 0 THEN current ELSE @]

\* Cvar_MakeExplicitType of the host: the strings are given up, the current and the
\* latched value are what the string meant, y, and the reset value is the one registered.
Cvar_MakeExplicitType(v, type, y, x, n) ==
    IF type = "enum"
    THEN [Cvar_RegisterNew("enum", v.flags, y, n) EXCEPT !.reset = x]
    ELSE [v EXCEPT !.latched = v.string, !.reset = x,
                   !.refs = [t \in Texts |-> IF t \in {v.string, x} THEN 1 ELSE 0]]

\* Cvar_ReinterpretCvar: a variable that a "set" has created, a string, becomes the
\* program's (Cvar_PerformUnregistration has nothing to do then).
Cvar_ReinterpretCvar(v, type, y, x, n) ==
    IF "user" \in v.flags
    THEN Cvar_MakeExplicitType([v EXCEPT !.flags = @ \ {"user"}], type, y, x, n)
    ELSE v

\* The protected value goes back to its reset value, also the latched one.
CheatReset(v) ==
    IF "cheat" \in v.flags /\ ~cvar_cheats
    THEN Dvar_SetLatchedValue(Dvar_SetVariant(v, v.reset, FALSE), v.reset)
    ELSE v

\* What was latched takes effect.
Unlatch(v) == IF "latch" \in v.flags THEN Dvar_SetVariant(v, v.latched, FALSE) ELSE v

\* Cvar_Reregister.  A variable of another type that the program itself has registered
\* keeps its type.
Cvar_Reregister(v, type, flags, y, x, n) ==
    LET renewed == IF v.type = "enum" /\ type = "enum" THEN Cvar_ApplyNewEnumDomain(v, x, n) ELSE v
        owned == Cvar_ReinterpretCvar(renewed, type, y, x, n)
    IN  Unlatch(CheatReset([owned EXCEPT !.flags = @ \cup flags]))

-----------------------------------------------------------------------------
(* Actions *)

Becomes(c, v) == cvar' = [cvar EXCEPT ![c] = v] /\ UNCHANGED cvar_cheats

Registered(c) == cvar[c].type # "none"

\* Cvar_RegisterString.
Cvar_RegisterString(c, flags, t) ==
    Becomes(c, IF Registered(c)
               THEN Cvar_Reregister(cvar[c], "string", flags, cvar[c].string, t, 0)
               ELSE Cvar_RegisterNew("string", flags, t, 0))

\* Cvar_RegisterEnum: x, or 0 when x is no index; y is what the string of a variable
\* that a "set" has created means in the new list.
Cvar_RegisterEnum(c, flags, i, n) ==
    LET x == IF i < 0 \/ i >= n THEN 0 ELSE i
    IN  \E y \in Domain(n) \cap (Indices \cup {0}) :
            Becomes(c, IF Registered(c)
                       THEN Cvar_Reregister(cvar[c], "enum", flags, y, x, n)
                       ELSE Cvar_RegisterNew("enum", flags, x, n))

\* The values that a text may be understood as, by the host and Cvar_StringToEnum.
Meanings(c, t) == IF cvar[c].type = "enum" THEN Indices ELSE {t}

\* Cvar_SetFromStringByNameFromSource: a "set" from the console or a configuration file
\* is external (DVAR_SOURCE_EXTERNAL), Cvar_Set and the other setters of the program are
\* not.  A variable that does not exist is created.
Cvar_SetFromString(c, t, external) ==
    IF Registered(c)
    THEN \E x \in Meanings(c, t) : Becomes(c, Dvar_SetVariant(cvar[c], x, external))
    ELSE Becomes(c, Cvar_RegisterNew("string", {"user"}, t, 0))

Cvar_Reset(c) ==
    /\ Registered(c)
    /\ Becomes(c, Dvar_SetVariant(cvar[c], cvar[c].reset, FALSE))

SetCheats == cvar_cheats' = ~cvar_cheats /\ UNCHANGED cvar

CvarInit == cvar = [c \in Names |-> Unregistered] /\ cvar_cheats = FALSE

Registration(c) ==
    \E flags \in SUBSET (Flags \ {"user"}) :
        \/ \E t \in Texts : Cvar_RegisterString(c, flags, t)
        \/ \E i \in Indices, n \in EnumCounts : Cvar_RegisterEnum(c, flags, i, n)

CvarNext ==
    \/ SetCheats
    \/ \E c \in Names :
        \/ Registration(c)
        \/ Cvar_Reset(c)
        \/ \E t \in Texts, external \in BOOLEAN : Cvar_SetFromString(c, t, external)

CvarSpec == CvarInit /\ [][CvarNext]_cvarVars

-----------------------------------------------------------------------------
(* Properties *)

Values(v) == {v.string, v.latched, v.reset}

\* Each variable is unregistered, a string variable with three strings, or an
\* enumeration; only a string variable is one that a "set" has created.
CvarTypeOK ==
    /\ cvar_cheats \in BOOLEAN
    /\ \A c \in Names :
         /\ cvar[c].type \in {"none", "string", "enum"}
         /\ cvar[c].flags \subseteq Flags
         /\ cvar[c].refs \in [Texts -> Int]
         /\ cvar[c].type = "string" => Values(cvar[c]) \subseteq Texts
         /\ cvar[c].type = "enum" => cvar[c].count \in Nat
         /\ "user" \in cvar[c].flags => cvar[c].type = "string"

\* A string variable holds exactly one reference to each string that is one of its
\* values, and none to any other: no value dangles, nothing is freed twice and nothing
\* leaks, whichever of the three values are equal when one of them changes
\* (Dvar_UpdateValue, Dvar_SetLatchedValue).
StringsOwned ==
    \A c \in Names : \A t \in Texts :
        cvar[c].refs[t] = IF cvar[c].type = "string" /\ t \in Values(cvar[c]) THEN 1 ELSE 0

\* The values of an enumeration stay inside its list when a registration replaces it by
\* a shorter one.  For the reset value this is also why Dvar_SetVariant's call of itself
\* ends (Cvar_ApplyNewEnumDomain).
EnumsInDomain ==
    \A c \in Names : cvar[c].type = "enum" => Values(cvar[c]) \subseteq Domain(cvar[c].count)
=============================================================================
