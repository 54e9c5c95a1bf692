------------------------ MODULE GlobalCriticalSection ------------------------
(***************************************************************************)
(* How another thread stops the main thread: win_main.c.                   *)
(*                                                                         *)
(* A thread that wants to do what only the main thread may do (the thread  *)
(* that fetches the server list, the one that downloads the client's       *)
(* configuration) calls Sys_EnterGlobalCriticalSection.  It raises         *)
(* mainthread_lock and waits; the main thread sees the flag at the start   *)
(* of a frame, signals, and waits in turn.  Both directions use the ONE    *)
(* auto-reset event mainThreadSuspended, and nothing protects the flag.    *)
(*                                                                         *)
(* A step is one access to the flag or one call of the operating system.   *)
(***************************************************************************)
EXTENDS Integers, FiniteSets

CONSTANTS
    Workers,    \* the threads that call Sys_EnterGlobalCriticalSection
    Main,       \* the main thread
    NoThread

ASSUME ThreadAssumption == Main \notin Workers /\ NoThread \notin Workers \cup {Main}

Thread == Workers \cup {Main}

VARIABLES
    mainthread_lock,
    signalled,          \* state of mainThreadSuspended
    criticalSection,    \* owner of CRIT_WAITFORMAINTHREADSUSPENDED
    pc                  \* where each thread is

vars == <<mainthread_lock, signalled, criticalSection, pc>>

MainLabels == {"check", "set", "wait", "blocked", "frame"}
WorkerLabels == {"idle", "trying", "entered", "wait", "blocked", "section", "leaving",
                 "unlocking", "fatal"}

Goto(t, label) == pc' = [pc EXCEPT ![t] = label]

-----------------------------------------------------------------------------
(* The auto-reset event, of the operating system *)

\* Where a thread goes on when its wait is over.
Resume(t) == IF t = Main THEN "frame" ELSE "section"

\* SetEvent by t, which goes on at label: it releases one waiting thread; with none
\* waiting, the event stays signalled.
SetEvent(t, label) ==
    \/ /\ \E u \in Thread :
             /\ pc[u] = "blocked"
             /\ pc' = [pc EXCEPT ![t] = label, ![u] = Resume(u)]
       /\ UNCHANGED signalled
    \/ /\ \A u \in Thread : pc[u] # "blocked"
       /\ Goto(t, label)
       /\ signalled' = TRUE

\* WaitForSingleObject by t: consumes the signal or blocks.
WaitForSingleObject(t) ==
    /\ Goto(t, IF signalled THEN Resume(t) ELSE "blocked")
    /\ signalled' = FALSE

-----------------------------------------------------------------------------
(* Sys_MainThreadCheckForGlobalCriticalSection, and the frame after it *)

MainCheck ==
    /\ pc[Main] = "check"
    /\ Goto(Main, IF mainthread_lock THEN "set" ELSE "frame")
    /\ UNCHANGED <<mainthread_lock, signalled, criticalSection>>

MainSetEvent ==
    /\ pc[Main] = "set"
    /\ SetEvent(Main, "wait")
    /\ UNCHANGED <<mainthread_lock, criticalSection>>

MainWait ==
    /\ pc[Main] = "wait"
    /\ WaitForSingleObject(Main)
    /\ UNCHANGED <<mainthread_lock, criticalSection>>

Com_Frame ==
    /\ pc[Main] = "frame"
    /\ Goto(Main, "check")
    /\ UNCHANGED <<mainthread_lock, signalled, criticalSection>>

-----------------------------------------------------------------------------
(* Sys_EnterGlobalCriticalSection *)

Call(w) ==
    /\ pc[w] = "idle"
    /\ Goto(w, "trying")
    /\ UNCHANGED <<mainthread_lock, signalled, criticalSection>>

EnterCriticalSection(w) ==
    /\ pc[w] = "trying" /\ criticalSection = NoThread
    /\ criticalSection' = w
    /\ Goto(w, "entered")
    /\ UNCHANGED <<mainthread_lock, signalled>>

\* Mutant: the flag is not raised.
RaiseLockNot(w) ==
    /\ pc[w] = "entered"
    /\ Goto(w, IF mainthread_lock THEN "fatal" ELSE "wait")
    /\ UNCHANGED <<mainthread_lock, signalled, criticalSection>>

RaiseLock(w) ==
    /\ pc[w] = "entered"
    /\ mainthread_lock' = TRUE
    /\ Goto(w, IF mainthread_lock THEN "fatal" ELSE "wait")
    /\ UNCHANGED <<signalled, criticalSection>>

WorkerWait(w) ==
    /\ pc[w] = "wait"
    /\ WaitForSingleObject(w)
    /\ UNCHANGED <<mainthread_lock, criticalSection>>

(* Sys_LeaveGlobalCriticalSection *)

DropLock(w) ==
    /\ pc[w] = "section"
    /\ mainthread_lock' = FALSE
    /\ Goto(w, "leaving")
    /\ UNCHANGED <<signalled, criticalSection>>

WorkerSetEvent(w) ==
    /\ pc[w] = "leaving"
    /\ SetEvent(w, "unlocking")
    /\ UNCHANGED <<mainthread_lock, criticalSection>>

LeaveCriticalSection(w) ==
    /\ pc[w] = "unlocking"
    /\ criticalSection' = NoThread
    /\ Goto(w, "idle")
    /\ UNCHANGED <<mainthread_lock, signalled>>

-----------------------------------------------------------------------------
\* Sys_InitializeGlobalCriticalSection.
Init ==
    /\ mainthread_lock = FALSE
    /\ signalled = FALSE
    /\ criticalSection = NoThread
    /\ pc = [t \in Thread |-> IF t = Main THEN "check" ELSE "idle"]

MainStep == MainCheck \/ MainSetEvent \/ MainWait \/ Com_Frame

WorkerStep(w) ==
    RaiseLock(w) \/ WorkerWait(w) \/ DropLock(w) \/ WorkerSetEvent(w) \/ LeaveCriticalSection(w)

Next == MainStep \/ \E w \in Workers : Call(w) \/ EnterCriticalSection(w) \/ WorkerStep(w)

Spec == Init /\ [][Next]_vars

\* The operating system runs every thread, frames and sections end.  A thread may
\* never want to enter.
FairSpec == Spec /\ WF_vars(MainStep) /\ \A w \in Workers : WF_vars(WorkerStep(w))

-----------------------------------------------------------------------------
(* Properties *)

\* Each thread is at one of its places, and the section is owned by a worker or nobody.
TypeOK ==
    /\ mainthread_lock \in BOOLEAN
    /\ signalled \in BOOLEAN
    /\ criticalSection \in Workers \cup {NoThread}
    /\ pc \in [Thread -> MainLabels \cup WorkerLabels]
    /\ pc[Main] \in MainLabels
    /\ \A w \in Workers : pc[w] \in WorkerLabels

\* "do thread unsafe operations the mainthread can usually do only": a thread inside
\* the section runs while no frame does and no other thread is inside, although the
\* main thread may consume its own signal and a signal may be left over from the
\* thread before.
Exclusive ==
    \A w \in Workers : pc[w] = "section" =>
        /\ pc[Main] \in {"wait", "blocked"}
        /\ \A v \in Workers : pc[v] = "section" => v = w

\* The ERR_FATAL of Sys_EnterGlobalCriticalSection, meant for a thread that enters
\* twice, never strikes when different threads enter.
NoFalseAlarm == \A w \in Workers : pc[w] # "fatal"

\* A thread that owns CRIT_WAITFORMAINTHREADSUSPENDED is let in: it does not lose the
\* main thread's signal, although the main thread waits on the same event right after
\* setting it (Sys_MainThreadCheckForGlobalCriticalSection).
EnteredIsServed == \A w \in Workers : pc[w] = "entered" ~> pc[w] = "section"

\* The main thread that has seen the flag runs its frame in the end: the signal of
\* Sys_LeaveGlobalCriticalSection is not taken by the next thread that enters.
MainResumes == pc[Main] \in {"set", "wait", "blocked"} ~> pc[Main] = "frame"

\* Nobody waits for ever: neither a thread that enters, for a signal the main thread took
\* itself, nor the main thread, for one that the next thread took.
HandOverIsLive == EnteredIsServed /\ MainResumes
=============================================================================
