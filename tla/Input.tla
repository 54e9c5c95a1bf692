-------------------------------- MODULE Input --------------------------------
(***************************************************************************)
(* The main thread's event loop and what feeds it: common.c, win_main.c,   *)
(* win_wndproc.c, win_input.c, win_syscon.c and the controller,            *)
(* gamepad*.c.                                                             *)
(*                                                                         *)
(* A key that goes down must come up again: the mouse, the buttons and the *)
(* left stick of the controller each send an event when what they see      *)
(* differs from what they saw before, and the engine holds the key down    *)
(* until it gets the other event.  Between the two the queue may overflow, *)
(* the window lose the focus, the controller be unplugged or switched off, *)
(* its settings change and the input be restarted.                         *)
(*                                                                         *)
(* The ring of events is the sequence of its pending events; a button is   *)
(* held or not (a trigger below its dead zone is not held); keyboard keys  *)
(* have no state here and are left out, as are the mouse's motion, the     *)
(* right stick, the bindings and which device is in use (inUse).  Times    *)
(* are left out: the check for newly plugged controllers, twice a second,  *)
(* happens in any frame or not.                                            *)
(***************************************************************************)
EXTENDS Naturals, Sequences, SequencesExt

CONSTANTS
    MouseButtons,   \* K_MOUSE1 ...
    PadButtons,     \* K_JOY1 ... K_JOY16
    Directions,     \* K_UPARROW ..., which the left stick sends
    MaxQueued,      \* MAX_QUEUED_EVENTS (256)
    MaxMessages,    \* bound: window messages handled at once, besides the lines typed
    MaxLines        \* bound: lines typed into the console window

ASSUME InputAssumption ==
    /\ IsFiniteSet(MouseButtons) /\ IsFiniteSet(PadButtons) /\ IsFiniteSet(Directions)
    /\ MaxQueued \in Nat \ {0}

VARIABLES
    pc,             \* where Com_Frame is: "events", "pump", "execute" or "input"
    polled,         \* this frame's IN_Frame is over
    messages,       \* how many messages this pump has handled
    events,         \* eventQueue, and the keys whose newest event was lost or never sent
    keysDown,       \* playerKeys.keys[].down
    oldButtonState, \* s_wmv.oldButtonState
    in_appactive,   \* the window has been told that it is active
    mouseInitialized, \* s_wmv.mouseInitialized: in_mouse was set at the last start of the input
    gp_state,       \* gp_state[0]
    s_stick,        \* what the left stick was seen to do
    settings,       \* cl_gamepad and cl_gamepad_legacy_sticks
    console,        \* consoleText, the command buffer and what was executed, as line numbers
    typed,          \* how many lines were typed
    pad,            \* the controller itself
    foreground      \* the window is in the foreground

frame == <<pc, polled, messages>>
window == <<oldButtonState, in_appactive, mouseInitialized>>
gamepad == <<gp_state, s_stick>>
world == <<pad, foreground>>
inputVars == <<frame, events, keysDown, window, gamepad, settings, console, typed, world>>

KeyEvent(k, down) == [type |-> "key", key |-> k, down |-> down]
ConsoleEvent(lines) == [type |-> "console", lines |-> lines]

KeysOf(e) == IF e.type = "key" THEN {e.key} ELSE {}

-----------------------------------------------------------------------------
(* The queue *)

\* Mutant: when the queue is full the new event is discarded.
QueueEventOrNot(ev, e) ==
    IF Len(ev.pending) >= MaxQueued THEN [ev EXCEPT !.lost = @ \cup KeysOf(e)]
    ELSE [pending |-> Append(ev.pending, e), lost |-> ev.lost \ KeysOf(e)]

\* When the queue is full its oldest event is discarded.
Com_QueueEvent(ev, e) ==
    IF Len(ev.pending) >= MaxQueued
    THEN [pending |-> Append(Tail(ev.pending), e),
          lost |-> (ev.lost \cup KeysOf(Head(ev.pending))) \ KeysOf(e)]
    ELSE [pending |-> Append(ev.pending, e), lost |-> ev.lost \ KeysOf(e)]

\* The events of these keys, one after the other.
QueueKeys(ev, keys, down) ==
    LET order == SetToSeq(keys)
        after[n \in 0 .. Len(order)] ==
            IF n = 0 THEN ev ELSE Com_QueueEvent(after[n - 1], KeyEvent(order[n], down))
    IN  after[Len(order)]

-----------------------------------------------------------------------------
(* The controller *)

\* gp_release_all: the buttons that were down before the newest poll come up; one that
\* came down with it gets no event.
gp_release_all(ev, gp) ==
    [events |-> [QueueKeys(ev, gp.lastDigitals, FALSE)
                    EXCEPT !.lost = @ \cup (gp.digitals \ gp.lastDigitals)],
     gp |-> [gp EXCEPT !.digitals = {}, !.lastDigitals = {}]]

Unplugged(ev, gp) == gp_release_all(ev, [gp EXCEPT !.enabled = FALSE])

\* gp_check of slot 0.  The other three slots, which gp_refresh_all looks at while
\* slot 0 is empty, lie beyond the array.
gp_check(ev, gp) ==
    IF gp.enabled /\ ~pad.plugged THEN Unplugged(ev, gp)
    ELSE [events |-> ev, gp |-> [gp EXCEPT !.enabled = pad.plugged]]

\* Mutant: a failing XInputGetState is left to the next gp_check, which sees no change.
PollKeepsButtons(ev, gp) ==
    IF ~pad.plugged THEN [events |-> ev, gp |-> [gp EXCEPT !.enabled = FALSE]]
    ELSE [events |-> ev, gp |-> [gp EXCEPT !.lastDigitals = gp.digitals, !.digitals = pad.buttons]]

\* XInputGetState, and gp_update_digitals and gp_update_analogs.
PollState(ev, gp) ==
    IF ~pad.plugged THEN Unplugged(ev, gp)
    ELSE [events |-> ev, gp |-> [gp EXCEPT !.lastDigitals = gp.digitals, !.digitals = pad.buttons]]

gp_poll_all(ev, gp, refresh) ==
    LET r == IF refresh THEN gp_check(ev, gp) ELSE [events |-> ev, gp |-> gp]
    IN  IF r.gp.enabled THEN PollState(r.events, r.gp) ELSE r

\* Edges only: what is down now and was not, and what was down and is not.
gp_dispatch_buttons(ev, gp) ==
    LET pressed == gp.digitals \ gp.lastDigitals
        released == gp.lastDigitals \ gp.digitals
    IN  QueueKeys(QueueKeys(ev, pressed, TRUE), released, FALSE)

Gamepad_ApplyLeftStick(ev, stick) ==
    [events |-> QueueKeys(QueueKeys(ev, pad.stick \ stick.prev, TRUE), stick.prev \ pad.stick, FALSE),
     stick |-> [stick EXCEPT !.prev = pad.stick]]

\* Mutant: the movement is forgotten without its events.
ReleaseMovementSilently(ev, stick) == [events |-> ev, stick |-> [was_enabled |-> FALSE, prev |-> {}]]

\* Gamepad_ReleaseMovement, of a controller that was there in the frame before.
Gamepad_ReleaseMovement(ev, stick) ==
    IF stick.was_enabled
    THEN [events |-> QueueKeys(ev, stick.prev, FALSE),
          stick |-> [was_enabled |-> FALSE, prev |-> {}]]
    ELSE [events |-> ev, stick |-> stick]

\* IN_GamepadsMove with cl_gamepad set.
IN_GamepadsMove(refresh) ==
    LET p == gp_poll_all(events, gp_state, refresh)
        d == gp_dispatch_buttons(p.events, p.gp)
        here == [s_stick EXCEPT !.was_enabled = TRUE]
        moved == IF settings.legacy THEN Gamepad_ApplyLeftStick(d, here)
                 ELSE [events |-> d, stick |-> here]
        gone == Gamepad_ReleaseMovement(p.events, s_stick)
    IN  IF p.gp.enabled
        THEN events' = moved.events /\ s_stick' = moved.stick /\ gp_state' = p.gp
        ELSE events' = gone.events /\ s_stick' = gone.stick /\ gp_state' = p.gp

-----------------------------------------------------------------------------
(* The main thread *)

\* IN_Frame, once in a frame.
IN_Frame ==
    /\ pc = "input"
    /\ pc' = "events"
    /\ polled' = TRUE
    /\ \/ /\ mouseInitialized /\ in_appactive /\ foreground /\ settings.gamepad
          /\ \E refresh \in BOOLEAN : IN_GamepadsMove(refresh)
       \/ /\ ~(mouseInitialized /\ in_appactive /\ foreground /\ settings.gamepad)
          /\ UNCHANGED <<events, gamepad>>
    /\ UNCHANGED <<messages, keysDown, window, settings, console, typed, world>>

\* Sys_In_Restart_f: in_mouse gets its latched value, and IN_StartupGamepads forgets the
\* directions of the left stick, whose releases are never sent.  The buttons of the mouse
\* and of the controller are kept.
Sys_In_Restart_f ==
    /\ mouseInitialized' \in BOOLEAN
    /\ events' = [events EXCEPT !.lost = @ \cup s_stick.prev]
    /\ s_stick' = [was_enabled |-> FALSE, prev |-> {}]

\* Cbuf_Execute: the lines of the console, and the commands of others, which may change
\* the settings and restart the input.  A latched raw_input restarts it after CL_Frame,
\* which is after the second Cbuf_Execute of the frame.
Cbuf_Execute ==
    /\ pc = "execute"
    /\ pc' = IF polled THEN "events" ELSE "input"
    /\ polled' = FALSE
    /\ settings' \in [gamepad : BOOLEAN, legacy : BOOLEAN]
    /\ console' = [console EXCEPT !.executed = @ \o console.buffer, !.buffer = <<>>]
    /\ Sys_In_Restart_f \/ UNCHANGED <<mouseInitialized, events, s_stick>>
    /\ UNCHANGED <<messages, keysDown, oldButtonState, in_appactive, gp_state, typed, world>>

\* gp_cl_keyevent, and CL_KeyEvent of the host.
gp_cl_keyevent(k, down) ==
    keysDown' = IF down THEN keysDown \cup {k} ELSE keysDown \ {k}

\* Com_EventLoop with an event of Com_GetEvent.
Com_EventLoop ==
    /\ pc = "events"
    /\ events.pending # <<>>
    /\ events' = [events EXCEPT !.pending = Tail(@)]
    /\ LET e == Head(events.pending)
       IN  \/ /\ e.type = "key"
              /\ gp_cl_keyevent(e.key, e.down)
              /\ UNCHANGED console
           \/ /\ e.type = "console"
              /\ console' = [console EXCEPT !.buffer = @ \o e.lines]
              /\ UNCHANGED keysDown
    /\ UNCHANGED <<frame, window, gamepad, settings, typed, world>>

\* Com_GetEvent with an empty queue calls Sys_EventLoop.
PumpBegins ==
    /\ pc = "events"
    /\ events.pending = <<>>
    /\ pc' = "pump"
    /\ messages' = 0
    /\ UNCHANGED <<polled, events, keysDown, window, gamepad, settings, console, typed, world>>

\* No message is left: what was typed becomes one event, after those of the messages
\* (Sys_ConsoleInput).  With no event Com_EventLoop ends.
PumpEnds ==
    /\ pc = "pump"
    /\ events' = IF console.text = <<>> THEN events
                 ELSE Com_QueueEvent(events, ConsoleEvent(console.text))
    /\ console' = [console EXCEPT !.text = <<>>]
    /\ pc' = IF events'.pending = <<>> THEN "execute" ELSE "events"
    /\ messages' = 0
    /\ UNCHANGED <<polled, keysDown, window, gamepad, settings, typed, world>>

-----------------------------------------------------------------------------
(* Window messages *)

Message ==
    /\ pc = "pump"
    /\ messages < MaxMessages
    /\ messages' = messages + 1
    /\ UNCHANGED <<pc, polled>>

\* IN_MouseEvent with the buttons that a mouse message tells.
IN_MouseEvent(mstate) ==
    /\ Message
    /\ mouseInitialized
    /\ mstate # oldButtonState
    /\ events' = QueueKeys(QueueKeys(events, mstate \ oldButtonState, TRUE),
                           oldButtonState \ mstate, FALSE)
    /\ oldButtonState' = mstate
    /\ UNCHANGED <<keysDown, in_appactive, mouseInitialized, gamepad, settings, console, typed, world>>

\* WM_ACTIVATE: Key_ClearStates, at once and past the queue, and IN_Activate.
VID_AppActivate ==
    /\ Message
    /\ in_appactive # foreground
    /\ in_appactive' = foreground
    /\ keysDown' = {}
    /\ UNCHANGED <<events, oldButtonState, mouseInitialized, gamepad, settings, console, typed, world>>

\* InputLineWndProc: return in the input line of the console window.
InputLineWndProc ==
    /\ pc = "pump"
    /\ typed < MaxLines
    /\ typed' = typed + 1
    /\ console' = [console EXCEPT !.text = Append(@, typed')]
    /\ UNCHANGED <<frame, events, keysDown, window, gamepad, settings, world>>

-----------------------------------------------------------------------------
(* The user *)

AtRest == [plugged |-> FALSE, buttons |-> {}, stick |-> {}]

MovePad ==
    /\ pad' \in [plugged : {TRUE}, buttons : SUBSET PadButtons, stick : SUBSET Directions] \cup {AtRest}
    /\ UNCHANGED <<frame, events, keysDown, window, gamepad, settings, console, typed, foreground>>

SwitchWindow ==
    /\ foreground' = ~foreground
    /\ UNCHANGED <<frame, events, keysDown, window, gamepad, settings, console, typed, pad>>

InputInit ==
    /\ pc = "events" /\ polled = FALSE /\ messages = 0
    /\ events = [pending |-> <<>>, lost |-> {}]
    /\ keysDown = {}
    /\ oldButtonState = {}
    /\ in_appactive = TRUE
    /\ mouseInitialized \in BOOLEAN
    /\ gp_state = [enabled |-> FALSE, digitals |-> {}, lastDigitals |-> {}]
    /\ s_stick = [was_enabled |-> FALSE, prev |-> {}]
    /\ settings = [gamepad |-> FALSE, legacy |-> TRUE]
    /\ console = [text |-> <<>>, buffer |-> <<>>, executed |-> <<>>]
    /\ typed = 0
    /\ pad = AtRest
    /\ foreground = TRUE

MainStep == IN_Frame \/ Cbuf_Execute \/ Com_EventLoop \/ PumpBegins \/ PumpEnds

InputNext ==
    \/ MainStep
    \/ \E mstate \in SUBSET MouseButtons : IN_MouseEvent(mstate)
    \/ VID_AppActivate \/ InputLineWndProc
    \/ MovePad \/ SwitchWindow

InputSpec == InputInit /\ [][InputNext]_inputVars

\* The main thread goes on: a pump ends when the messages do.
FairSpec == InputSpec /\ WF_inputVars(MainStep)

-----------------------------------------------------------------------------
(* Properties *)

\* The key as it will be when these events are handled: the newest one of the key tells.
DownAfter(q, down, k) ==
    LET SilentFrom(n) == \A i \in n .. Len(q) : k \notin KeysOf(q[i])
    IN  \/ k \in down /\ SilentFrom(1)
        \/ \E i \in 1 .. Len(q) : q[i] = KeyEvent(k, TRUE) /\ SilentFrom(i + 1)

\* What the sources believe to be held, and will release.
Held == oldButtonState \cup gp_state.digitals \cup s_stick.prev

\* A key that stays down is one whose source knows it and will send the release, however
\* the focus, the settings, the plug and restarts of the input came in between.  Three
\* things are excepted, until the key's next event: an event lost in a full queue, a
\* button whose first poll was the last before the controller was unplugged, and a
\* direction held by the left stick when the input was restarted (gp_release_all,
\* Gamepad_ReleaseMovement, IN_MouseEvent, IN_StartupGamepads).
DownIsHeld ==
    \A k \in MouseButtons \cup PadButtons \cup Directions :
        DownAfter(events.pending, keysDown, k) => k \in Held \cup events.lost

\* Every line typed into the console window is executed once and in order, however many
\* events the queue discards before (Com_GetEvent, Com_QueueEvent).
LinesInOrder ==
    LET queued == FlattenSeq([i \in 1 .. Len(events.pending) |->
                      IF events.pending[i].type = "console" THEN events.pending[i].lines ELSE <<>>])
    IN  console.executed \o console.buffer \o queued \o console.text = [i \in 1 .. typed |-> i]

\* The mouse and the controller are switched on, its left stick sends keys, the window has
\* the focus and nothing is held.
Settled ==
    /\ mouseInitialized /\ foreground /\ in_appactive
    /\ settings.gamepad /\ settings.legacy
    /\ pad.buttons = {} /\ pad.stick = {} /\ oldButtonState = {}

\* Once all that stays so, every key comes up and stays up, unplugged or not, with the
\* same three exceptions: for them "so no arrow key stays stuck down" (IN_GamepadsMove) is
\* not so.
KeysComeUp == <>[]Settled => <>[](keysDown \subseteq events.lost)
=============================================================================
