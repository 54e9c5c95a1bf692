-------------------------- MODULE ServerList_proofs --------------------------
(***************************************************************************)
(* Theorems about GlobalCriticalSection and about ServerList, for any      *)
(* number of threads and any answers.  What is proved of the section for   *)
(* threads that do anything in it is carried over to CL_GetServersThread   *)
(* by the refinement.                                                      *)
(***************************************************************************)
EXTENDS ServerList, WellFoundedInduction, TLAPS

-----------------------------------------------------------------------------
(* The section *)

\* The labels between EnterCriticalSection and LeaveCriticalSection.
Holding == {"entered", "wait", "blocked", "section", "leaving", "unlocking"}

\* One thread holds CRIT_WAITFORMAINTHREADSUSPENDED.
OwnerInv ==
    \A w \in Workers : /\ pc[w] \in Holding <=> criticalSection = w
                       /\ pc[w] # "fatal"

\* The flag is up from RaiseLock to DropLock.
LockInv == mainthread_lock <=> \E w \in Workers : pc[w] \in {"wait", "blocked", "section"}

\* Whose turn it is: the signal, the main thread's wait and the section exclude each
\* other.
TurnInv ==
    /\ pc[Main] = "set" => \E w \in Workers : pc[w] \in {"wait", "blocked"}
    /\ signalled => /\ pc[Main] = "wait"
                    /\ \A w \in Workers : pc[w] \notin {"blocked", "section", "leaving"}
    /\ (pc[Main] \in {"wait", "blocked"} /\ ~ signalled) <=>
           \E w \in Workers : pc[w] \in {"section", "leaving"}
    /\ pc[Main] = "blocked" => ~ signalled

IInv == TypeOK /\ OwnerInv /\ LockInv /\ TurnInv

-----------------------------------------------------------------------------

\* After Sys_InitializeGlobalCriticalSection the invariant holds.
LEMMA InitInv == Init => IInv
BY ThreadAssumption
DEF Init, IInv, TypeOK, OwnerInv, LockInv, TurnInv, Thread, MainLabels, WorkerLabels, Holding

\* Two threads are never both between enter and leave.
LEMMA OneHolder ==
    ASSUME IInv, NEW v \in Workers, NEW w \in Workers, pc[v] \in Holding, pc[w] \in Holding
    PROVE  v = w
BY DEF IInv, OwnerInv

\* A thread that moves on its own leaves every other thread where it is.
LEMMA Moves ==
    ASSUME TypeOK, NEW t \in Thread, NEW label, Goto(t, label)
    PROVE  /\ pc'[t] = label
           /\ \A u \in Thread \ {t} : pc'[u] = pc[u]
           /\ pc' = [u \in Thread |-> IF u = t THEN label ELSE pc[u]]
BY DEF TypeOK, Goto

\* Sys_MainThreadCheckForGlobalCriticalSection and the frame.
LEMMA MainInv ==
    ASSUME IInv, MainStep
    PROVE  IInv'
<1>1. /\ Main \in Thread /\ \A w \in Workers : w \in Thread /\ w # Main
      /\ TypeOK /\ OwnerInv /\ LockInv /\ TurnInv
  BY ThreadAssumption DEF Thread, IInv
<1>2. CASE MainCheck
  <2>1. \A w \in Workers : pc'[w] = pc[w]
    BY <1>1, <1>2, Moves DEF MainCheck
  <2>2. /\ pc[Main] = "check" /\ pc'[Main] = IF mainthread_lock THEN "set" ELSE "frame"
        /\ UNCHANGED <<mainthread_lock, signalled, criticalSection>>
    BY <1>1, <1>2, Moves DEF MainCheck
  <2>3. TypeOK'
    BY <1>1, <1>2, <2>1, <2>2, Moves DEF TypeOK, MainCheck, MainLabels, Thread
  <2>4. OwnerInv' /\ LockInv'
    BY <1>1, <2>1, <2>2 DEF OwnerInv, LockInv
  <2>5. TurnInv'
    <3>1. ~ signalled /\ \A w \in Workers : pc[w] \notin {"section", "leaving"}
      BY <1>1, <2>2 DEF TurnInv
    <3>2. CASE mainthread_lock
      <4>1. \E w \in Workers : pc[w] \in {"wait", "blocked"}
        BY <1>1, <3>1, <3>2 DEF LockInv
      <4> QED BY <2>1, <2>2, <3>1, <3>2, <4>1 DEF TurnInv
    <3>3. CASE ~ mainthread_lock
      BY <2>1, <2>2, <3>1, <3>3 DEF TurnInv
    <3> QED BY <3>2, <3>3
  <2> QED BY <2>3, <2>4, <2>5 DEF IInv
<1>3. CASE MainSetEvent
  <2>0. pc[Main] = "set" /\ SetEvent(Main, "wait") /\ UNCHANGED <<mainthread_lock, criticalSection>>
    BY <1>3 DEF MainSetEvent
  <2>1. ~ signalled /\ \A w \in Workers : pc[w] \notin {"section", "leaving"}
    BY <1>1, <2>0 DEF TurnInv
  <2>2. CASE \E u \in Thread : /\ pc[u] = "blocked"
                               /\ pc' = [pc EXCEPT ![Main] = "wait", ![u] = Resume(u)]
                               /\ UNCHANGED signalled
    <3>1. PICK u \in Thread : /\ pc[u] = "blocked"
                              /\ pc' = [pc EXCEPT ![Main] = "wait", ![u] = Resume(u)]
                              /\ UNCHANGED signalled
      BY <2>2
    <3>2. u \in Workers
      BY <2>0, <3>1 DEF Thread
    <3>3. /\ pc'[Main] = "wait" /\ pc'[u] = "section" /\ signalled' = signalled
          /\ \A v \in Workers : v # u => pc'[v] = pc[v]
      BY <1>1, <3>1, <3>2 DEF TypeOK, Resume
    <3>4. TypeOK'
      BY <1>1, <2>0, <3>1, <3>2, <3>3 DEF TypeOK, Resume, MainLabels, WorkerLabels
    <3>5. OwnerInv'
      BY <1>1, <2>0, <3>1, <3>2, <3>3 DEF OwnerInv, Holding
    <3>6. LockInv'
      <4>1. mainthread_lock
        BY <1>1, <3>1, <3>2 DEF LockInv
      <4> QED BY <2>0, <3>2, <3>3, <4>1 DEF LockInv
    <3>7. TurnInv'
      BY <2>1, <3>2, <3>3 DEF TurnInv
    <3> QED BY <3>4, <3>5, <3>6, <3>7 DEF IInv
  <2>3. CASE /\ \A u \in Thread : pc[u] # "blocked"
             /\ Goto(Main, "wait")
             /\ signalled' = TRUE
    <3>1. pc'[Main] = "wait" /\ \A w \in Workers : pc'[w] = pc[w] /\ pc[w] # "blocked"
      BY <1>1, <2>3, Moves
    <3>2. TypeOK'
      BY <1>1, <2>0, <2>3, <3>1, Moves DEF TypeOK, MainLabels
    <3>3. OwnerInv' /\ LockInv'
      BY <1>1, <2>0, <3>1 DEF OwnerInv, LockInv
    <3>4. TurnInv'
      BY <2>1, <2>3, <3>1 DEF TurnInv
    <3> QED BY <3>2, <3>3, <3>4 DEF IInv
  <2> QED BY <2>0, <2>2, <2>3 DEF SetEvent
<1>4. CASE MainWait
  <2>0. /\ pc[Main] = "wait" /\ UNCHANGED <<mainthread_lock, criticalSection>> /\ signalled' = FALSE
        /\ Goto(Main, IF signalled THEN "frame" ELSE "blocked")
    BY <1>4 DEF MainWait, WaitForSingleObject, Resume
  <2>1. /\ \A w \in Workers : pc'[w] = pc[w]
        /\ pc'[Main] = IF signalled THEN "frame" ELSE "blocked"
    BY <1>1, <2>0, Moves
  <2>2. TypeOK'
    BY <1>1, <2>0, <2>1, Moves DEF TypeOK, MainLabels
  <2>3. OwnerInv' /\ LockInv'
    BY <1>1, <2>0, <2>1 DEF OwnerInv, LockInv
  <2>4. TurnInv'
    BY <1>1, <2>0, <2>1 DEF TurnInv
  <2> QED BY <2>2, <2>3, <2>4 DEF IInv
<1>5. CASE Com_Frame
  <2>1. /\ pc[Main] = "frame" /\ UNCHANGED <<mainthread_lock, signalled, criticalSection>>
        /\ Goto(Main, "check")
    BY <1>5 DEF Com_Frame
  <2>2. pc'[Main] = "check" /\ \A w \in Workers : pc'[w] = pc[w]
    BY <1>1, <2>1, Moves
  <2>3. TypeOK'
    BY <1>1, <2>1, <2>2, Moves DEF TypeOK, MainLabels
  <2>4. OwnerInv' /\ LockInv' /\ TurnInv'
    BY <1>1, <2>1, <2>2 DEF OwnerInv, LockInv, TurnInv
  <2> QED BY <2>3, <2>4 DEF IInv
<1> QED BY <1>2, <1>3, <1>4, <1>5 DEF MainStep

\* Sys_EnterGlobalCriticalSection.
LEMMA EnterInv ==
    ASSUME IInv, NEW w \in Workers,
           Call(w) \/ EnterCriticalSection(w) \/ RaiseLock(w) \/ WorkerWait(w)
    PROVE  IInv'
<1>1. /\ Main \in Thread /\ w # Main /\ \A v \in Workers : v \in Thread /\ v # Main
      /\ TypeOK /\ OwnerInv /\ LockInv /\ TurnInv
  BY ThreadAssumption DEF Thread, IInv
<1>2. CASE Call(w) \/ EnterCriticalSection(w)
  <2>1. PICK label \in {"trying", "entered"} :
          /\ Goto(w, label) /\ UNCHANGED <<mainthread_lock, signalled>>
          /\ IF label = "entered" THEN criticalSection = NoThread /\ criticalSection' = w
                                  ELSE criticalSection' = criticalSection
          /\ pc[w] \in {"idle", "trying"}
    BY <1>2 DEF Call, EnterCriticalSection
  <2>2. pc'[w] = label /\ pc'[Main] = pc[Main] /\ \A v \in Workers : v # w => pc'[v] = pc[v]
    BY <1>1, <2>1, Moves
  <2>3. TypeOK'
    BY <1>1, <2>1, <2>2, Moves DEF TypeOK, WorkerLabels
  <2>4. OwnerInv'
    BY <1>1, <2>1, <2>2, ThreadAssumption DEF OwnerInv, Holding
  <2>5. LockInv' /\ TurnInv'
    BY <1>1, <2>1, <2>2 DEF LockInv, TurnInv
  <2> QED BY <2>3, <2>4, <2>5 DEF IInv
<1>3. CASE RaiseLock(w)
  <2>1. ~ mainthread_lock
    <3>1. pc[w] = "entered"
      BY <1>3 DEF RaiseLock
    <3>2. ASSUME NEW v \in Workers, pc[v] \in {"wait", "blocked", "section"} PROVE FALSE
      BY <3>1, <3>2, OneHolder DEF Holding
    <3> QED BY <1>1, <3>2 DEF LockInv, TypeOK
  <2>2. pc[w] = "entered" /\ mainthread_lock' = TRUE /\ Goto(w, "wait")
        /\ UNCHANGED <<signalled, criticalSection>>
    BY <1>3, <2>1 DEF RaiseLock
  <2>3. pc'[w] = "wait" /\ pc'[Main] = pc[Main] /\ \A v \in Workers : v # w => pc'[v] = pc[v]
    BY <1>1, <2>2, Moves
  <2>4. TypeOK'
    BY <1>1, <2>2, <2>3, Moves DEF TypeOK, WorkerLabels
  <2>5. OwnerInv' /\ LockInv'
    BY <1>1, <2>2, <2>3 DEF OwnerInv, LockInv, Holding
  <2>6. TurnInv'
    BY <1>1, <2>2, <2>3 DEF TurnInv
  <2> QED BY <2>4, <2>5, <2>6 DEF IInv
<1>4. CASE WorkerWait(w)
  <2>1. /\ pc[w] = "wait" /\ UNCHANGED <<mainthread_lock, criticalSection>> /\ signalled' = FALSE
        /\ Goto(w, IF signalled THEN "section" ELSE "blocked")
    BY <1>1, <1>4 DEF WorkerWait, WaitForSingleObject, Resume
  <2>2. /\ pc'[w] = (IF signalled THEN "section" ELSE "blocked") /\ pc'[Main] = pc[Main]
        /\ \A v \in Workers : v # w => pc'[v] = pc[v]
    BY <1>1, <2>1, Moves
  <2>3. TypeOK'
    BY <1>1, <2>1, <2>2, Moves DEF TypeOK, WorkerLabels
  <2>4. OwnerInv' /\ LockInv'
    BY <1>1, <2>1, <2>2 DEF OwnerInv, LockInv, Holding
  <2>5. TurnInv'
    <3>1. ASSUME NEW v \in Workers, v # w PROVE pc[v] \notin Holding
      BY <2>1, <3>1, OneHolder DEF Holding
    <3> QED BY <1>1, <2>1, <2>2, <3>1 DEF TurnInv, Holding
  <2> QED BY <2>3, <2>4, <2>5 DEF IInv
<1> QED BY <1>2, <1>3, <1>4

\* Sys_LeaveGlobalCriticalSection.
LEMMA LeaveInv ==
    ASSUME IInv, NEW w \in Workers,
           DropLock(w) \/ WorkerSetEvent(w) \/ LeaveCriticalSection(w)
    PROVE  IInv'
<1>1. /\ Main \in Thread /\ w # Main /\ \A v \in Workers : v \in Thread /\ v # Main
      /\ TypeOK /\ OwnerInv /\ LockInv /\ TurnInv /\ pc[w] \in Holding
  BY ThreadAssumption
  DEF Thread, IInv, DropLock, WorkerSetEvent, LeaveCriticalSection, Holding
<1>2. \A v \in Workers : v # w => pc[v] \notin Holding
  BY <1>1, OneHolder
<1>3. CASE DropLock(w)
  <2>1. pc[w] = "section" /\ mainthread_lock' = FALSE /\ Goto(w, "leaving")
        /\ UNCHANGED <<signalled, criticalSection>>
    BY <1>3 DEF DropLock
  <2>2. pc'[w] = "leaving" /\ pc'[Main] = pc[Main] /\ \A v \in Workers : v # w => pc'[v] = pc[v]
    BY <1>1, <2>1, Moves
  <2>3. TypeOK'
    BY <1>1, <2>1, <2>2, Moves DEF TypeOK, WorkerLabels
  <2>4. OwnerInv' /\ LockInv'
    BY <1>1, <1>2, <2>1, <2>2 DEF OwnerInv, LockInv, Holding
  <2>5. TurnInv'
    BY <1>1, <1>2, <2>1, <2>2 DEF TurnInv, Holding
  <2> QED BY <2>3, <2>4, <2>5 DEF IInv
<1>4. CASE WorkerSetEvent(w)
  <2>0. pc[w] = "leaving" /\ SetEvent(w, "unlocking") /\ UNCHANGED <<mainthread_lock, criticalSection>>
    BY <1>4 DEF WorkerSetEvent
  <2>1. pc[Main] \in {"wait", "blocked"} /\ ~ signalled
    BY <1>1, <2>0 DEF TurnInv
  <2>2. CASE \E u \in Thread : /\ pc[u] = "blocked"
                               /\ pc' = [pc EXCEPT ![w] = "unlocking", ![u] = Resume(u)]
                               /\ UNCHANGED signalled
    <3>1. PICK u \in Thread : /\ pc[u] = "blocked"
                              /\ pc' = [pc EXCEPT ![w] = "unlocking", ![u] = Resume(u)]
                              /\ UNCHANGED signalled
      BY <2>2
    <3>2. u = Main
      BY <1>2, <2>0, <3>1 DEF Thread, Holding
    <3>3. /\ pc'[Main] = "frame" /\ pc'[w] = "unlocking" /\ signalled' = signalled
          /\ \A v \in Workers : v # w => pc'[v] = pc[v]
      BY <1>1, <3>1, <3>2 DEF TypeOK, Resume
    <3>4. TypeOK'
      BY <1>1, <2>0, <3>1, <3>2, <3>3 DEF TypeOK, Resume, MainLabels, WorkerLabels
    <3>5. OwnerInv' /\ LockInv'
      BY <1>1, <1>2, <2>0, <3>3 DEF OwnerInv, LockInv, Holding
    <3>6. TurnInv'
      BY <1>2, <2>1, <3>3 DEF TurnInv, Holding
    <3> QED BY <3>4, <3>5, <3>6 DEF IInv
  <2>3. CASE /\ \A u \in Thread : pc[u] # "blocked"
             /\ Goto(w, "unlocking")
             /\ signalled' = TRUE
    <3>1. /\ pc'[w] = "unlocking" /\ pc'[Main] = pc[Main] /\ pc[Main] = "wait"
          /\ \A v \in Workers : v # w => pc'[v] = pc[v]
      BY <1>1, <2>1, <2>3, Moves
    <3>2. TypeOK'
      BY <1>1, <2>0, <2>3, <3>1, Moves DEF TypeOK, WorkerLabels
    <3>3. OwnerInv' /\ LockInv'
      BY <1>1, <1>2, <2>0, <3>1 DEF OwnerInv, LockInv, Holding
    <3>4. TurnInv'
      BY <1>2, <2>3, <3>1 DEF TurnInv, Holding
    <3> QED BY <3>2, <3>3, <3>4 DEF IInv
  <2> QED BY <2>0, <2>2, <2>3 DEF SetEvent
<1>5. CASE LeaveCriticalSection(w)
  <2>1. pc[w] = "unlocking" /\ criticalSection' = NoThread /\ Goto(w, "idle")
        /\ UNCHANGED <<mainthread_lock, signalled>>
    BY <1>5 DEF LeaveCriticalSection
  <2>2. pc'[w] = "idle" /\ pc'[Main] = pc[Main] /\ \A v \in Workers : v # w => pc'[v] = pc[v]
    BY <1>1, <2>1, Moves
  <2>3. TypeOK'
    BY <1>1, <2>1, <2>2, Moves DEF TypeOK, WorkerLabels
  <2>4. OwnerInv'
    BY <1>1, <1>2, <2>1, <2>2, ThreadAssumption DEF OwnerInv, Holding
  <2>5. LockInv' /\ TurnInv'
    BY <1>1, <2>1, <2>2 DEF LockInv, TurnInv
  <2> QED BY <2>3, <2>4, <2>5 DEF IInv
<1> QED BY <1>3, <1>4, <1>5

\* The turn between the main thread and the others is kept in every state.
THEOREM Invariance == Spec => []IInv
<1>1. Init => IInv
  BY InitInv
<1>2. IInv /\ [Next]_vars => IInv'
  <2> SUFFICES ASSUME IInv, [Next]_vars PROVE IInv'
    OBVIOUS
  <2>1. CASE MainStep
    BY <2>1, MainInv
  <2>2. ASSUME NEW w \in Workers, Call(w) \/ EnterCriticalSection(w) \/ WorkerStep(w)
        PROVE  IInv'
    BY <2>2, EnterInv, LeaveInv DEF WorkerStep
  <2>3. CASE UNCHANGED vars
    BY <2>3 DEF vars, IInv, TypeOK, OwnerInv, LockInv, TurnInv
  <2> QED BY <2>1, <2>2, <2>3 DEF Next
<1> QED BY <1>1, <1>2, PTL DEF Spec

\* The flag, the event and the threads stay what they are declared to be.
THEOREM TypeCorrect == Spec => []TypeOK
<1>1. IInv => TypeOK
  BY DEF IInv
<1> QED BY <1>1, Invariance, PTL

\* However many threads ask for it, the section runs alone: no frame, no other thread
\* (Sys_EnterGlobalCriticalSection, Sys_MainThreadCheckForGlobalCriticalSection).
THEOREM MutualExclusion == Spec => []Exclusive
<1>1. IInv => Exclusive
  <2> SUFFICES ASSUME IInv, NEW w \in Workers, pc[w] = "section"
               PROVE  /\ pc[Main] \in {"wait", "blocked"}
                      /\ \A v \in Workers : pc[v] = "section" => v = w
    BY DEF Exclusive
  <2>1. pc[Main] \in {"wait", "blocked"}
    BY DEF IInv, TurnInv
  <2>2. \A v \in Workers : pc[v] = "section" => v = w
    BY OneHolder DEF Holding
  <2> QED BY <2>1, <2>2
<1> QED BY <1>1, Invariance, PTL

\* The "called twice without leaving" error never strikes an innocent thread.
THEOREM NoAlarm == Spec => []NoFalseAlarm
<1>1. IInv => NoFalseAlarm
  BY DEF IInv, OwnerInv, NoFalseAlarm
<1> QED BY <1>1, Invariance, PTL

-----------------------------------------------------------------------------
(* The server list *)

\* The lock holds back the next query for as long as one runs.
LockedInv ==
    /\ locked \in BOOLEAN
    /\ body \in [QueryThreads -> Bodies]
    /\ \A w \in QueryThreads : body[w] # "none" => locked

\* Where thread w is in CL_GetServersThread and where it is in the section agree.
PlaceInv(w) ==
    /\ body[w] \in {"none", "query", "free"} => pc[w] = "idle"
    /\ body[w] \in {"fill", "sort"} => pc[w] = "section"
    /\ pc[w] \in {"leaving", "unlocking"} => body[w] \in {"filled", "stamped"}

QueryInv == LockedInv /\ OneQueryThread /\ \A w \in QueryThreads : PlaceInv(w)

\* No frame runs between the purge of cls.globalServers and the step that makes
\* cls.numglobalservers count it again (CL_GetServersThread).
NoFrameInHalfList == InFrame => \A w \in QueryThreads : body[w] \notin {"fill", "sort"}

-----------------------------------------------------------------------------
(* The refinement *)

\* A thread's step in CL_GetServersThread is a step of the section or none.
LEMMA QueryInSection ==
    ASSUME NEW w \in QueryThreads, QueryStep(w)
    PROVE  [Next]_vars
<1>1. w \in Workers
  BY ServerListAssumption
<1>2. \/ Call(w) \/ EnterCriticalSection(w) \/ RaiseLock(w) \/ WorkerWait(w)
      \/ DropLock(w) \/ WorkerSetEvent(w) \/ LeaveCriticalSection(w) \/ UNCHANGED sectionVars
  BY DEF QueryStep, QueryWithoutMemory, Query, QueryEnters, QueryWaits, Purge, Fill, Sort,
         Stamp, QueryLeaves, Finish
<1> QED BY <1>1, <1>2 DEF Next, WorkerStep, sectionVars, vars

\* The lists do not touch the section.
LEMMA FrameOutsideSection == ASSUME FrameOperation PROVE UNCHANGED sectionVars
BY DEF FrameOperation, CL_GlobalServers_f, CL_MplayerServers_f, UI_StartServerRefresh,
       UI_StopServerRefresh, UI_DoServerRefresh, CL_ServersResponsePacket, CL_ServerInfoPacket

\* The threads use the section as it is meant: each enters only after it has left.
THEOREM ServersUseTheSection == ServersSpec => ImplementsSection
<1>1. ServersInit => Init
  BY DEF ServersInit
<1>2. [ServersNext]_serverVars => [Next]_vars
  <2> SUFFICES ASSUME [ServersNext]_serverVars PROVE [Next]_vars
    OBVIOUS
  <2>1. CASE MainSection \/ MainFrame
    BY <2>1 DEF MainSection, MainFrame, Next, MainStep
  <2>2. CASE FrameOperation
    BY <2>2, FrameOutsideSection DEF sectionVars, vars
  <2>3. ASSUME NEW w \in QueryThreads, QueryStep(w) PROVE [Next]_vars
    BY <2>3, QueryInSection
  <2>4. ASSUME NEW w \in Workers \ QueryThreads, OtherCall(w) \/ OtherStep(w)
        PROVE  [Next]_vars
    BY <2>4 DEF OtherCall, OtherStep, Next
  <2>5. CASE UNCHANGED serverVars
    BY <2>5 DEF serverVars, sectionVars, vars
  <2> QED BY <2>1, <2>2, <2>3, <2>4, <2>5 DEF ServersNext
<1> QED BY <1>1, <1>2, PTL DEF ServersSpec, ImplementsSection, Spec

-----------------------------------------------------------------------------
(* The query thread *)

\* The steps of thread t in the section.
StepsOf(t) ==
    IF t = Main THEN MainStep ELSE Call(t) \/ EnterCriticalSection(t) \/ WorkerStep(t)

\* A step of one thread moves another one at most from its wait into the section.
LEMMA OthersStay ==
    ASSUME TypeOK, NEW t \in Thread, StepsOf(t), NEW u \in Workers, u # t
    PROVE  pc'[u] = pc[u] \/ (pc[u] = "blocked" /\ pc'[u] = "section")
<1>1. u \in Thread /\ u # Main
  BY ThreadAssumption DEF Thread
<1>2. CASE \E label : Goto(t, label)
  BY <1>1, <1>2, Moves
<1>3. CASE \E label : SetEvent(t, label)
  <2>1. PICK label : SetEvent(t, label)
    BY <1>3
  <2>2. CASE Goto(t, label)
    BY <1>1, <2>2, Moves
  <2>3. CASE \E v \in Thread : /\ pc[v] = "blocked"
                               /\ pc' = [pc EXCEPT ![t] = label, ![v] = Resume(v)]
    <3>1. PICK v \in Thread : /\ pc[v] = "blocked"
                              /\ pc' = [pc EXCEPT ![t] = label, ![v] = Resume(v)]
      BY <2>3
    <3>2. pc'[u] = IF u = v THEN "section" ELSE pc[u]
      BY <1>1, <3>1 DEF TypeOK, Resume
    <3> QED BY <3>1, <3>2
  <2> QED BY <2>1, <2>2, <2>3 DEF SetEvent
<1> QED
  BY <1>2, <1>3
  DEF StepsOf, MainStep, MainCheck, MainSetEvent, MainWait, Com_Frame, Call,
      EnterCriticalSection, WorkerStep, RaiseLock, WorkerWait, DropLock, WorkerSetEvent,
      LeaveCriticalSection, WaitForSingleObject

\* A step of another thread does not disturb a query thread.
LEMMA OthersKeepPlace ==
    ASSUME TypeOK, NEW t \in Thread, StepsOf(t), NEW u \in QueryThreads, u # t, PlaceInv(u),
           body'[u] = body[u]
    PROVE  PlaceInv(u)'
BY OthersStay, ServerListAssumption DEF PlaceInv

\* CL_GlobalServers_f starts a query only when none is locked.
LEMMA RequestKeeps ==
    ASSUME QueryInv, CL_GlobalServers_f
    PROVE  QueryInv'
<1>1. UNCHANGED pc
  BY DEF CL_GlobalServers_f, sectionVars
<1>2. CASE UNCHANGED <<locked, body>>
  BY <1>1, <1>2 DEF QueryInv, LockedInv, OneQueryThread, PlaceInv
<1>3. CASE ~ locked /\ locked' = TRUE /\ CreateThread
  <2>1. \A w \in QueryThreads : body[w] = "none" /\ pc[w] = "idle"
    BY <1>3 DEF QueryInv, LockedInv, PlaceInv
  <2>2. CASE body' = body
    BY <1>1, <1>3, <2>2 DEF QueryInv, LockedInv, OneQueryThread, PlaceInv
  <2>3. CASE \E w \in QueryThreads : body' = [body EXCEPT ![w] = "query"]
    <3>1. PICK w \in QueryThreads : body' = [body EXCEPT ![w] = "query"]
      BY <2>3
    <3>2. /\ body' \in [QueryThreads -> Bodies] /\ body'[w] = "query"
          /\ \A v \in QueryThreads : v # w => body'[v] = "none"
      BY <2>1, <3>1 DEF QueryInv, LockedInv, Bodies
    <3> QED BY <1>1, <1>3, <2>1, <3>2 DEF QueryInv, LockedInv, OneQueryThread, PlaceInv
  <2> QED
    <3> DEFINE free == {w \in QueryThreads : body[w] = "none"}
    <3>1. free # {} => (CHOOSE w \in free : TRUE) \in QueryThreads
      OBVIOUS
    <3> QED BY <1>3, <2>2, <2>3, <3>1 DEF CreateThread
<1> QED BY <1>2, <1>3 DEF CL_GlobalServers_f

\* A query gives up the lock only when it ends, and no other one runs then.
LEMMA QueryKeepsLock ==
    ASSUME QueryInv, NEW w \in QueryThreads, QueryStep(w)
    PROVE  LockedInv' /\ OneQueryThread' /\ \A u \in QueryThreads \ {w} : body'[u] = body[u]
<1>1. CASE locked' = locked /\ UNCHANGED body
  BY <1>1 DEF QueryInv, LockedInv, OneQueryThread
<1>2. CASE body[w] # "none" /\ locked' = FALSE /\ GotoBody(w, "none")
  BY <1>2 DEF QueryInv, LockedInv, OneQueryThread, GotoBody, Bodies
<1>3. CASE /\ body[w] # "none" /\ locked' = locked
           /\ \E place \in Bodies \ {"none"} : GotoBody(w, place)
  <2>1. PICK place \in Bodies \ {"none"} : body' = [body EXCEPT ![w] = place]
    BY <1>3 DEF GotoBody
  <2> QED BY <1>3, <2>1 DEF QueryInv, LockedInv, OneQueryThread
<1>4. CASE QueryWithoutMemory(w) \/ Finish(w)
  BY <1>2, <1>4 DEF QueryWithoutMemory, Finish, At
<1>5. CASE Query(w) \/ Purge(w) \/ Fill(w) \/ Sort(w) \/ Stamp(w)
  BY <1>3, <1>5 DEF Query, Purge, Fill, Sort, Stamp, At, Bodies
<1>6. CASE QueryEnters(w) \/ QueryWaits(w)
  BY <1>1, <1>6 DEF QueryEnters, QueryWaits, threadVars
<1>7. CASE QueryLeaves(w)
  <2>1. CASE UNCHANGED body
    BY <1>1, <1>7, <2>1 DEF QueryLeaves
  <2>2. CASE LeaveCriticalSection(w) /\ GotoBody(w, IF At(w, "filled") THEN "stamp" ELSE "free")
    <3>1. body[w] # "none"
      BY <2>2 DEF LeaveCriticalSection, QueryInv, PlaceInv
    <3> QED BY <1>3, <1>7, <2>2, <3>1 DEF QueryLeaves, Bodies
  <2> QED BY <1>7, <2>1, <2>2 DEF QueryLeaves
<1> QED BY <1>4, <1>5, <1>6, <1>7 DEF QueryStep

\* A query thread fills its list inside the section and leaves it with the list whole.
LEMMA QueryKeepsPlace ==
    ASSUME TypeOK, QueryInv, NEW w \in QueryThreads, QueryStep(w)
    PROVE  PlaceInv(w)'
<1>1. w \in Thread /\ w \in Workers /\ w # Main /\ PlaceInv(w) /\ body \in [QueryThreads -> Bodies]
  BY ServerListAssumption, ThreadAssumption DEF Thread, QueryInv, LockedInv
<1>2. CASE \/ QueryWithoutMemory(w) \/ Query(w) \/ Finish(w)
           \/ Purge(w) \/ Fill(w) \/ Sort(w) \/ Stamp(w)
  <2>1. pc' = pc /\ pc[w] \notin {"leaving", "unlocking"}
    BY <1>1, <1>2
    DEF PlaceInv, QueryWithoutMemory, Query, Finish, Purge, Fill, Sort, Stamp, sectionVars,
        Inside, At
  <2>2. \A place : GotoBody(w, place) => body'[w] = place
    BY <1>1 DEF GotoBody
  <2>3. CASE QueryWithoutMemory(w) \/ Query(w) \/ Finish(w)
    <3>1. pc[w] = "idle" /\ body'[w] \in {"none", "purge", "stamp"}
      BY <1>1, <2>2, <2>3 DEF PlaceInv, QueryWithoutMemory, Query, Finish, At
    <3> QED BY <2>1, <3>1 DEF PlaceInv
  <2>4. CASE Purge(w) \/ Fill(w) \/ Sort(w) \/ Stamp(w)
    <3>1. pc[w] = "section" /\ body'[w] \in {"fill", "sort", "filled", "stamped"}
      BY <2>2, <2>4 DEF Purge, Fill, Sort, Stamp, Inside
    <3> QED BY <2>1, <3>1 DEF PlaceInv
  <2> QED BY <1>2, <2>3, <2>4
<1>3. CASE QueryEnters(w)
  <2>1. pc'[w] = "trying" /\ body'[w] \in {"purge", "stamp"}
    BY <1>1, <1>3, Moves DEF QueryEnters, Call, threadVars
  <2> QED BY <2>1 DEF PlaceInv
<1>4. CASE QueryWaits(w)
  <2>1. /\ pc[w] \in {"trying", "entered", "wait"} /\ body' = body
        /\ pc'[w] \in {"entered", "fatal", "wait", "blocked", "section"}
    <3>1. \A label : Goto(w, label) => pc'[w] = label
      BY <1>1, Moves
    <3> QED
      BY <1>1, <1>4, <3>1
      DEF QueryWaits, EnterCriticalSection, RaiseLock, WorkerWait, WaitForSingleObject, Resume,
          threadVars
  <2> QED BY <1>1, <2>1 DEF PlaceInv
<1>5. CASE QueryLeaves(w)
  <2>1. CASE body[w] \in {"filled", "stamped"} /\ DropLock(w) /\ UNCHANGED body
    <3>1. pc'[w] = "leaving"
      BY <1>1, <2>1, Moves DEF DropLock
    <3> QED BY <2>1, <3>1 DEF PlaceInv
  <2>2. CASE WorkerSetEvent(w) /\ UNCHANGED body
    <3>1. pc[w] = "leaving" /\ pc'[w] = "unlocking"
      BY <1>1, <2>2, Moves DEF WorkerSetEvent, SetEvent, TypeOK
    <3> QED BY <1>1, <2>2, <3>1 DEF PlaceInv
  <2>3. CASE /\ LeaveCriticalSection(w)
             /\ GotoBody(w, IF At(w, "filled") THEN "stamp" ELSE "free")
    <3>1. pc'[w] = "idle" /\ body'[w] \in {"stamp", "free"}
      BY <1>1, <2>3, Moves DEF LeaveCriticalSection, GotoBody
    <3> QED BY <3>1 DEF PlaceInv
  <2> QED BY <1>5, <2>1, <2>2, <2>3 DEF QueryLeaves
<1> QED BY <1>2, <1>3, <1>4, <1>5 DEF QueryStep

\* What each step of the program leaves true.
LEMMA QueryInvKept ==
    ASSUME TypeOK, QueryInv, [ServersNext]_serverVars
    PROVE  QueryInv'
<1>0. /\ Main \in Thread /\ \A w \in QueryThreads : w \in Workers /\ w # Main /\ w \in Thread
      /\ \A w \in Workers : w \in Thread /\ w # Main
  BY ServerListAssumption, ThreadAssumption DEF Thread
<1>1. ASSUME UNCHANGED <<locked, body>>, NEW t \in Thread \ QueryThreads, StepsOf(t)
      PROVE  QueryInv'
  <2>1. \A u \in QueryThreads : PlaceInv(u)'
    BY <1>1, OthersKeepPlace DEF QueryInv
  <2> QED BY <1>1, <2>1 DEF QueryInv, LockedInv, OneQueryThread
<1>2. CASE MainSection \/ MainFrame
  BY <1>0, <1>1, <1>2 DEF MainSection, MainFrame, threadVars, StepsOf, MainStep
<1>3. CASE FrameOperation
  <2>1. CASE CL_GlobalServers_f
    BY <2>1, RequestKeeps
  <2>2. CASE UNCHANGED <<sectionVars, threadVars>>
    BY <2>2 DEF sectionVars, threadVars, QueryInv, LockedInv, OneQueryThread, PlaceInv
  <2> QED
    BY <1>3, <2>1, <2>2
    DEF FrameOperation, CL_MplayerServers_f, UI_StartServerRefresh, UI_StopServerRefresh,
        UI_DoServerRefresh, CL_ServersResponsePacket, CL_ServerInfoPacket
<1>4. ASSUME NEW w \in QueryThreads, QueryStep(w) PROVE QueryInv'
  <2>1. LockedInv' /\ OneQueryThread' /\ \A u \in QueryThreads \ {w} : body'[u] = body[u]
    BY <1>4, QueryKeepsLock
  <2>2. PlaceInv(w)'
    BY <1>4, QueryKeepsPlace
  <2>3. ASSUME NEW u \in QueryThreads \ {w} PROVE PlaceInv(u)'
    <3>1. CASE StepsOf(w)
      BY <1>0, <2>1, <3>1, OthersKeepPlace DEF QueryInv
    <3>2. CASE UNCHANGED sectionVars
      BY <2>1, <3>2 DEF sectionVars, QueryInv, PlaceInv
    <3> QED
      BY <1>0, <1>4, <3>1, <3>2
      DEF StepsOf, WorkerStep, QueryStep, QueryWithoutMemory, Query, QueryEnters, QueryWaits,
          Purge, Fill, Sort, Stamp, QueryLeaves, Finish
  <2> QED BY <2>1, <2>2, <2>3 DEF QueryInv
<1>5. ASSUME NEW w \in Workers \ QueryThreads, OtherCall(w) \/ OtherStep(w) PROVE QueryInv'
  BY <1>0, <1>1, <1>5 DEF OtherCall, OtherStep, StepsOf, threadVars
<1>6. CASE UNCHANGED serverVars
  BY <1>6
  DEF serverVars, sectionVars, threadVars, QueryInv, LockedInv, OneQueryThread, PlaceInv
<1> QED BY <1>2, <1>3, <1>4, <1>5, <1>6 DEF ServersNext

\* The invariant of the query holds throughout.
THEOREM QueryInvariance == ServersSpec => []QueryInv
<1>1. ServersInit => QueryInv
  BY ServerListAssumption, ThreadAssumption
  DEF ServersInit, Init, QueryInv, LockedInv, OneQueryThread, PlaceInv, Bodies, Thread
<1>2. TypeOK /\ QueryInv /\ [ServersNext]_serverVars => QueryInv'
  BY QueryInvKept
<1> QED
  BY <1>1, <1>2, ServersUseTheSection, TypeCorrect, PTL DEF ServersSpec, ImplementsSection

\* "Preventing 2 querythreads to launch" (getservers_t.locked), for any number of commands.
THEOREM OneQueryAtATime == ServersSpec => []OneQueryThread
<1>1. QueryInv => OneQueryThread
  BY DEF QueryInv
<1> QED BY <1>1, QueryInvariance, PTL

\* A frame never looks at the list of servers while the thread replaces it: what the
\* section promises is carried over to its user.
THEOREM FramesSeeWholeLists == ServersSpec => []NoFrameInHalfList
<1>1. Exclusive /\ QueryInv => NoFrameInHalfList
  BY ServerListAssumption
  DEF Exclusive, QueryInv, PlaceInv, NoFrameInHalfList, InFrame
<1> QED
  BY <1>1, QueryInvariance, ServersUseTheSection, MutualExclusion, PTL DEF ImplementsSection

-----------------------------------------------------------------------------
(* The search *)

\* What induction is taken from: every set of numbers that is not empty has a least one.
LEMMA LeastNumber ==
    ASSUME NEW T \in SUBSET Nat, T # {}
    PROVE  \E x \in T : \A y \in T : x <= y
<1> DEFINE Less == {ss \in Nat \X Nat : ss[1] < ss[2]}
<1>1. IsWellFoundedOn(Less, Nat)
  <2>1. OpToRel(<, Nat) = Less
    BY DEF OpToRel
  <2> QED BY <2>1, NatLessThanWellFounded
<1> HIDE DEF Less
<1>2. PICK x \in T : \A y \in T : ~ (<<y, x>> \in Less)
  BY <1>1, WFMin
<1>3. ASSUME NEW y \in T PROVE x <= y
  <2>1. ~ (<<y, x>> \in Less) /\ <<y, x>> \in Nat \X Nat
    BY <1>2
  <2>2. y < x => <<y, x>> \in Less
    BY <2>1 DEF Less
  <2> QED BY <2>1, <2>2
<1> QED BY <1>3

\* Induction over a set of numbers: the prover takes no operator as an argument.
LEMMA Induct ==
    ASSUME NEW S \in SUBSET Nat, 0 \in S, \A n \in S : n + 1 \in S
    PROVE  S = Nat
<1> SUFFICES ASSUME Nat \ S # {} PROVE FALSE
  OBVIOUS
<1>1. PICK x \in Nat \ S : \A y \in Nat \ S : x <= y
  BY LeastNumber
<1>2. x # 0
  OBVIOUS
<1>3. x - 1 \in S
  BY <1>1, <1>2
<1> QED BY <1>1, <1>2, <1>3

Pairs(n) == (0..n) \X (0..n)

\* One comparison of CL_FindServerByAddr, whose search goes on with g.
Compare(l, a, g, r) ==
    LET mid == (r[1] + r[2]) \div 2 + 1
    IN  IF r[1] >= r[2] THEN 0
        ELSE IF a > l[mid].adr THEN g[<<mid, r[2]>>]
        ELSE IF a < l[mid].adr THEN g[<<r[1], mid - 1>>] ELSE mid

\* The place to look at lies in the part that is left, which gets shorter by it.
LEMMA Middle ==
    ASSUME NEW n \in Nat, NEW r \in Pairs(n), r[1] < r[2],
           NEW mid, mid = (r[1] + r[2]) \div 2 + 1
    PROVE  /\ mid \in 1..n /\ r[1] < mid /\ mid <= r[2]
           /\ <<mid, r[2]>> \in Pairs(n) /\ <<r[1], mid - 1>> \in Pairs(n)
<1>1. r[1] \in 0..n /\ r[2] \in 0..n
  BY DEF Pairs
<1>2. mid \in 1..n /\ r[1] < mid /\ mid <= r[2]
  BY <1>1
<1> QED BY <1>1, <1>2 DEF Pairs

\* A part of length d depends on shorter ones only.
LEMMA CompareShorter ==
    ASSUME NEW n \in Nat, NEW l, NEW a, NEW g, NEW h, NEW r \in Pairs(n),
           \A s \in Pairs(n) : s[2] - s[1] < r[2] - r[1] => g[s] = h[s]
    PROVE  Compare(l, a, g, r) = Compare(l, a, h, r)
<1>1. CASE r[1] >= r[2]
  BY <1>1 DEF Compare
<1>2. CASE r[1] < r[2]
  <2> DEFINE mid == (r[1] + r[2]) \div 2 + 1
  <2>1. /\ mid \in 1..n /\ r[1] < mid /\ mid <= r[2]
        /\ <<mid, r[2]>> \in Pairs(n) /\ <<r[1], mid - 1>> \in Pairs(n)
    BY <1>2, Middle
  <2>2. r[1] \in 0..n /\ r[2] \in 0..n
    BY DEF Pairs
  <2>3. g[<<mid, r[2]>>] = h[<<mid, r[2]>>]
    BY <2>1, <2>2
  <2>4. g[<<r[1], mid - 1>>] = h[<<r[1], mid - 1>>]
    BY <2>1, <2>2
  <2> QED BY <2>3, <2>4 DEF Compare
<1>3. r[1] \in 0..n /\ r[2] \in 0..n
  BY DEF Pairs
<1> QED BY <1>1, <1>2, <1>3

\* There is a function with the equation that defines the search.
LEMMA SearchExists ==
    ASSUME NEW n \in Nat, NEW l, NEW a
    PROVE  \E g : g = [r \in Pairs(n) |-> Compare(l, a, g, r)]
<1> DEFINE Searches(g, d) ==
        \A r \in Pairs(n) : r[2] - r[1] <= d => g[r] = Compare(l, a, g, r)
    Lengths == {d \in Nat : \E g : g = [r \in Pairs(n) |-> g[r]] /\ Searches(g, d)}
<1>0. \A r \in Pairs(n) : r[1] \in 0..n /\ r[2] \in 0..n
  BY DEF Pairs
<1>1. 0 \in Lengths
  <2> DEFINE g == [r \in Pairs(n) |-> 0]
  <2>1. Searches(g, 0)
    BY <1>0 DEF Compare
  <2>2. g = [r \in Pairs(n) |-> g[r]]
    OBVIOUS
  <2> HIDE DEF g
  <2> QED BY <2>1, <2>2
<1>2. ASSUME NEW d \in Lengths PROVE d + 1 \in Lengths
  <2>1. PICK g : g = [r \in Pairs(n) |-> g[r]] /\ Searches(g, d)
    BY <1>2
  <2> DEFINE h == [r \in Pairs(n) |-> Compare(l, a, g, r)]
  <2>2. \A r \in Pairs(n) : h[r] = Compare(l, a, g, r)
    OBVIOUS
  <2>3. h = [r \in Pairs(n) |-> h[r]]
    OBVIOUS
  <2> HIDE DEF h
  <2>4. \A r \in Pairs(n) : r[2] - r[1] <= d => g[r] = h[r]
    BY <2>1, <2>2
  <2>5. ASSUME NEW r \in Pairs(n), r[2] - r[1] <= d + 1 PROVE h[r] = Compare(l, a, h, r)
    <3>1. \A s \in Pairs(n) : s[2] - s[1] < r[2] - r[1] => g[s] = h[s]
      BY <1>0, <1>2, <2>4, <2>5
    <3> HIDE DEF Searches, Lengths
    <3> QED BY <2>2, <3>1, CompareShorter
  <2>6. Searches(h, d + 1)
    BY <2>5
  <2> HIDE DEF Searches
  <2> QED BY <1>2, <2>3, <2>6
<1>3. n \in Lengths
  <2> HIDE DEF Lengths
  <2>1. Lengths \in SUBSET Nat
    BY DEF Lengths
  <2> QED BY <1>1, <1>2, <2>1, Induct
<1>4. PICK g : g = [r \in Pairs(n) |-> g[r]] /\ Searches(g, n)
  BY <1>3
<1>5. \A r \in Pairs(n) : g[r] = Compare(l, a, g, r)
  BY <1>0, <1>4
<1> HIDE DEF Searches
<1>6. g = [r \in Pairs(n) |-> Compare(l, a, g, r)]
  BY <1>4, <1>5
<1> QED BY <1>6

\* CL_FindServerByAddr is the value of such a function.
LEMMA FindIsSearch ==
    ASSUME NEW n \in Nat, NEW l, NEW a
    PROVE  \E g : /\ \A r \in Pairs(n) : g[r] = Compare(l, a, g, r)
                  /\ CL_FindServerByAddr(l, n, a) = g[<<0, n>>]
<1> DEFINE g == CHOOSE search : search = [r \in Pairs(n) |-> Compare(l, a, search, r)]
<1>1. CL_FindServerByAddr(l, n, a) = g[<<0, n>>]
  BY DEF CL_FindServerByAddr, Pairs, Compare
<1>2. g = [r \in Pairs(n) |-> Compare(l, a, g, r)]
  BY SearchExists
<1> HIDE DEF g
<1>3. \A r \in Pairs(n) : g[r] = Compare(l, a, g, r)
  BY <1>2
<1> QED BY <1>1, <1>3

Entry == [adr : Nat, toAsk : BOOLEAN]
Ordered(l) == \A i, j \in 1..Len(l) : i <= j => l[i].adr <= l[j].adr

\* In a list in order the search keeps the place of every address it has.
LEMMA FindsListed ==
    ASSUME NEW l \in Seq(Entry), Ordered(l), NEW i \in 1..Len(l),
           NEW k, k = CL_FindServerByAddr(l, Len(l), l[i].adr)
    PROVE  k \in 1..Len(l) /\ l[k].adr = l[i].adr
<1> DEFINE n == Len(l)
    a == l[i].adr
<1>1. n \in Nat /\ a \in Nat /\ \A j \in 1..n : l[j].adr \in Nat
  <2>1. \A j \in 1..n : l[j] \in Entry
    OBVIOUS
  <2> QED BY <2>1 DEF Entry
<1>o. k = CL_FindServerByAddr(l, n, a) /\ a = l[i].adr /\ i \in 1..n
      /\ \A x, y \in 1..n : x <= y => l[x].adr <= l[y].adr
  BY DEF Ordered
<1> HIDE DEF n, a
<1>2. PICK g : /\ \A r \in Pairs(n) : g[r] = Compare(l, a, g, r)
               /\ CL_FindServerByAddr(l, n, a) = g[<<0, n>>]
  BY <1>1, FindIsSearch
<1> DEFINE Finds(d) ==
        \A r \in Pairs(n) : r[2] - r[1] <= d /\ r[1] < i /\ i <= r[2]
            => g[r] \in 1..n /\ l[g[r]].adr = a
    Lengths == {d \in Nat : Finds(d)}
<1>0. \A r \in Pairs(n) : r[1] \in 0..n /\ r[2] \in 0..n
  BY DEF Pairs
<1>3. 0 \in Lengths
  BY <1>0
<1>4. ASSUME NEW d \in Lengths PROVE d + 1 \in Lengths
  <2> SUFFICES ASSUME NEW r \in Pairs(n), r[2] - r[1] <= d + 1, r[1] < i, i <= r[2]
               PROVE  g[r] \in 1..n /\ l[g[r]].adr = a
    BY <1>4
  <2>0. d \in Nat /\ Finds(d)
    BY <1>4
  <2> HIDE DEF Finds
  <2>1. PICK mid : mid = (r[1] + r[2]) \div 2 + 1
    OBVIOUS
  <2>2. r[1] \in 0..n /\ r[2] \in 0..n /\ r[1] < r[2]
    BY <1>0
  <2>3. /\ mid \in 1..n /\ r[1] < mid /\ mid <= r[2]
        /\ <<mid, r[2]>> \in Pairs(n) /\ <<r[1], mid - 1>> \in Pairs(n)
    BY <1>1, <2>1, <2>2, Middle
  <2>4. g[r] = IF a > l[mid].adr THEN g[<<mid, r[2]>>]
               ELSE IF a < l[mid].adr THEN g[<<r[1], mid - 1>>] ELSE mid
    <3>1. g[r] = Compare(l, a, g, r) /\ ~ (r[1] >= r[2])
      BY <1>2, <2>2
    <3> QED BY ONLY <2>1, <3>1 DEF Compare
  <2>5. CASE a > l[mid].adr
    <3>1. mid < i
      BY <1>o, <1>1, <2>3, <2>5
    <3>2. r[2] - mid <= d
      BY <2>0, <2>2, <2>3
    <3>3. g[<<mid, r[2]>>] \in 1..n /\ l[g[<<mid, r[2]>>]].adr = a
      BY <2>0, <2>3, <3>1, <3>2 DEF Finds
    <3> QED BY <2>4, <2>5, <3>3
  <2>6. CASE a < l[mid].adr
    <3>1. i <= mid - 1
      BY <1>o, <1>1, <2>3, <2>6
    <3>2. (mid - 1) - r[1] <= d
      BY <2>0, <2>2, <2>3
    <3>3. g[<<r[1], mid - 1>>] \in 1..n /\ l[g[<<r[1], mid - 1>>]].adr = a
      BY <2>0, <2>3, <3>1, <3>2 DEF Finds
    <3>4. g[r] = g[<<r[1], mid - 1>>]
      <4>1. ~ (a > l[mid].adr)
        BY <1>1, <2>3, <2>6
      <4> QED BY ONLY <2>4, <2>6, <4>1
    <3> QED BY <3>3, <3>4
  <2>7. CASE a = l[mid].adr
    BY <1>1, <2>3, <2>4, <2>7
  <2> QED BY <1>1, <2>3, <2>5, <2>6, <2>7
<1>5. n \in Lengths
  <2> HIDE DEF Lengths
  <2>1. Lengths \in SUBSET Nat
    BY DEF Lengths
  <2> QED BY <1>1, <1>3, <1>4, <2>1, Induct
<1>6. <<0, n>> \in Pairs(n)
  BY <1>1 DEF Pairs
<1>7. Finds(n)
  BY <1>5
<1>8. g[<<0, n>>] \in 1..n /\ l[g[<<0, n>>]].adr = a
  BY <1>o, <1>1, <1>6, <1>7
<1> QED BY <1>o, <1>2, <1>8 DEF n, a

\* A server found is initialized anew where it is, one not found comes at the end.
LEMMA AddsAnEntry ==
    ASSUME NEW l \in Seq(Entry), NEW n, NEW a \in Nat
    PROVE  AddServer(l, n, a) \in Seq(Entry)
<1>1. ServerInfo(a) \in Entry
  BY DEF ServerInfo, Entry
<1>2. \A k : [l EXCEPT ![k] = ServerInfo(a)] \in Seq(Entry)
  <2> HIDE DEF Entry
  <2>1. l \in [1..Len(l) -> Entry] /\ Len(l) \in Nat
    OBVIOUS
  <2>2. \A k : [l EXCEPT ![k] = ServerInfo(a)] \in [1..Len(l) -> Entry]
    BY <1>1, <2>1, Zenon
  <2> QED BY <2>1, <2>2
<1>3. Append(l, ServerInfo(a)) \in Seq(Entry)
  BY <1>1
<1> HIDE DEF Entry
<1> QED BY <1>2, <1>3 DEF AddServer

\* The list after turn i of the loop over the addresses received, with the turns before
\* it in g.
Added(l, n, adrs, g, i) == IF i = 0 THEN l ELSE AddServer(g[i - 1], n, adrs[i])

\* There is a function with the equation that defines the loop.
LEMMA LoopExists ==
    ASSUME NEW l, NEW n, NEW adrs, Len(adrs) \in Nat
    PROVE  \E g : g = [i \in 0..Len(adrs) |-> Added(l, n, adrs, g, i)]
<1> DEFINE N == Len(adrs)
    Adds(g, k) == \A i \in 0..N : i <= k => g[i] = Added(l, n, adrs, g, i)
    Turns == {k \in Nat : \E g : g = [i \in 0..N |-> g[i]] /\ Adds(g, k)}
<1>1. N \in Nat
  OBVIOUS
<1> HIDE DEF N
<1>2. 0 \in Turns
  <2> DEFINE g == [i \in 0..N |-> l]
  <2>1. g = [i \in 0..N |-> g[i]] /\ Adds(g, 0)
    BY <1>1 DEF Added
  <2> HIDE DEF g
  <2> QED BY <2>1
<1>3. ASSUME NEW k \in Turns PROVE k + 1 \in Turns
  <2>1. PICK g : g = [i \in 0..N |-> g[i]] /\ Adds(g, k)
    BY <1>3
  <2> DEFINE h == [i \in 0..N |-> Added(l, n, adrs, g, i)]
  <2>2. h = [i \in 0..N |-> h[i]] /\ \A i \in 0..N : h[i] = Added(l, n, adrs, g, i)
    OBVIOUS
  <2> HIDE DEF h
  <2>3. \A i \in 0..N : i <= k => h[i] = g[i]
    BY <2>1, <2>2
  <2>4. ASSUME NEW i \in 0..N, i <= k + 1 PROVE h[i] = Added(l, n, adrs, h, i)
    <3>1. i # 0 => i - 1 \in 0..N /\ i - 1 <= k
      BY <1>1, <1>3, <2>4
    <3>2. i # 0 => h[i - 1] = g[i - 1]
      BY <2>3, <3>1
    <3> QED BY <2>2, <3>2 DEF Added
  <2>5. Adds(h, k + 1)
    BY <2>4
  <2>6. k + 1 \in Nat
    BY <1>3
  <2> HIDE DEF Adds
  <2> QED BY <2>2, <2>5, <2>6
<1>4. N \in Turns
  <2> HIDE DEF Turns
  <2>1. Turns \in SUBSET Nat
    BY DEF Turns
  <2> QED BY <1>1, <1>2, <1>3, <2>1, Induct
<1>5. PICK g : g = [i \in 0..N |-> g[i]] /\ Adds(g, N)
  BY <1>4
<1>6. \A i \in 0..N : g[i] = Added(l, n, adrs, g, i)
  BY <1>1, <1>5
<1> QED BY <1>5, <1>6 DEF N

\* The loop over the addresses received gives a list of servers.
LEMMA AddsEntries ==
    ASSUME NEW l \in Seq(Entry), NEW n, NEW adrs \in Seq(Nat)
    PROVE  AddServers(l, n, adrs) \in Seq(Entry)
<1> DEFINE N == Len(adrs)
    add == CHOOSE g : g = [i \in 0..N |-> Added(l, n, adrs, g, i)]
<1>1. N \in Nat /\ \A i \in 1..N : adrs[i] \in Nat
  OBVIOUS
<1>2. AddServers(l, n, adrs) = add[N]
  BY DEF AddServers, Added
<1>3. add = [i \in 0..N |-> Added(l, n, adrs, add, i)]
  <2>1. \E g : g = [i \in 0..N |-> Added(l, n, adrs, g, i)]
    <3>1. Len(adrs) \in Nat
      OBVIOUS
    <3> QED BY <3>1, LoopExists, Zenon
  <2> QED BY <2>1
<1> HIDE DEF add, N
<1>7. \A i \in 0..N : add[i] = Added(l, n, adrs, add, i)
  BY <1>3
<1> DEFINE Listed == {k \in Nat : k <= N => add[k] \in Seq(Entry)}
<1>4. 0 \in Listed
  BY <1>1, <1>7 DEF Added
<1>5. ASSUME NEW k \in Listed PROVE k + 1 \in Listed
  <2> SUFFICES ASSUME k + 1 <= N PROVE add[k + 1] \in Seq(Entry)
    BY <1>5
  <2>1. add[k] \in Seq(Entry) /\ k + 1 \in 1..N /\ k + 1 \in 0..N /\ (k + 1) - 1 = k
    BY <1>1, <1>5
  <2>2. add[k + 1] = AddServer(add[k], n, adrs[k + 1])
    BY <1>7, <2>1 DEF Added
  <2> QED BY <1>1, <2>1, <2>2, AddsAnEntry
<1>6. N \in Listed
  <2> HIDE DEF Listed
  <2>1. Listed \in SUBSET Nat
    BY DEF Listed
  <2> QED BY <1>1, <1>4, <1>5, <2>1, Induct
<1> QED BY <1>1, <1>2, <1>6

\* What qsort leaves.
LEMMA SortsEntries ==
    ASSUME NEW l \in Seq(Entry), NEW t \in SortedServers(l)
    PROVE  t \in Seq(Entry) /\ Len(t) = Len(l) /\ Ordered(t)
<1>1. PICK p \in [DOMAIN l -> DOMAIN l] :
         /\ \A i, j \in DOMAIN l : i < j => p[i] # p[j] /\ l[p[i]].adr <= l[p[j]].adr
         /\ t = [i \in DOMAIN l |-> l[p[i]]]
  BY DEF SortedServers
<1>2. DOMAIN l = 1..Len(l) /\ Len(l) \in Nat
  OBVIOUS
<1>3. t \in [1..Len(l) -> Entry]
  BY <1>1, <1>2
<1>4. t \in Seq(Entry) /\ Len(t) = Len(l)
  BY <1>2, <1>3
<1>5. \A i \in 1..Len(l) : t[i].adr = l[p[i]].adr /\ t[i].adr \in Nat
  BY <1>1, <1>2, <1>3 DEF Entry
<1>6. Ordered(t)
  <2> SUFFICES ASSUME NEW i \in 1..Len(l), NEW j \in 1..Len(l), i <= j
               PROVE  t[i].adr <= t[j].adr
    BY <1>4 DEF Ordered
  <2>1. CASE i < j
    BY <1>1, <1>2, <1>5, <2>1
  <2>2. CASE i = j
    BY <1>5, <2>2
  <2> QED BY <2>1, <2>2
<1> QED BY <1>4, <1>6

-----------------------------------------------------------------------------
(* The lists *)

\* What a list must be for the search to find its servers.
Whole(s) == num[s] = Len(list[s]) /\ Ordered(list[s])

ListTypes ==
    /\ list \in [Source -> Seq(Entry)]
    /\ num \in [Source -> Nat]
    /\ source \in Source
    /\ answer \in [QueryThreads -> Seq(Nat)]

\* Only the thread that fills cls.globalServers has it in pieces.
ListInv ==
    /\ ListTypes
    /\ Whole("mplayer")
    /\ (\A w \in QueryThreads : body[w] \notin {"fill", "sort"}) => Whole("global")

\* A change of other fields than the addresses leaves a list whole.
LEMMA StaysWhole ==
    ASSUME ListTypes, \A s \in Source : Whole(s),
           list' \in [Source -> Seq(Entry)], UNCHANGED num,
           \A s \in Source : /\ Len(list'[s]) = Len(list[s])
                             /\ \A i \in 1..Len(list[s]) : list'[s][i].adr = list[s][i].adr
    PROVE  \A s \in Source : Whole(s)'
BY DEF Whole, Ordered

\* A list whose entries were changed is one of the same length.
LEMMA SameLength ==
    ASSUME NEW l \in Seq(Entry), NEW t, t = [i \in DOMAIN t |-> t[i]], DOMAIN t = DOMAIN l,
           \A i \in 1 .. Len(l) : t[i] \in Entry
    PROVE  t \in Seq(Entry) /\ Len(t) = Len(l)
<1>1. Len(l) \in Nat /\ DOMAIN t = 1 .. Len(l)
  OBVIOUS
<1>2. t \in [1 .. Len(l) -> Entry]
  BY <1>1
<1> QED BY <1>1, <1>2

\* A frame works on whole lists and leaves them whole.
LEMMA FrameKeepsLists ==
    ASSUME ListTypes, \A s \in Source : Whole(s), FrameOperation
    PROVE  ListTypes' /\ \A s \in Source : Whole(s)'
<1>0. /\ "global" \in Source /\ "mplayer" \in Source
      /\ \A a \in Nat : ServerInfo(a) \in Entry /\ ServerInfo(a).adr = a
      /\ \A e \in Entry : e.adr \in Nat /\ [e EXCEPT !.toAsk = FALSE] \in Entry
      /\ \A e \in Entry : [e EXCEPT !.toAsk = FALSE].adr = e.adr
  BY DEF Source, ServerInfo, Entry
<1>1. CASE CL_GlobalServers_f \/ CL_MplayerServers_f
  <2>1. UNCHANGED <<list, num, answer>> /\ source' \in Source
    BY <1>0, <1>1 DEF CL_GlobalServers_f, CL_MplayerServers_f, threadVars
  <2> QED BY <2>1 DEF ListTypes, Whole
<1>2. ASSUME UNCHANGED <<num, answer>>, source' \in Source, NEW r \in Source,
             NEW t \in Seq(Entry), list' = [list EXCEPT ![r] = t],
             Len(t) = Len(list[r]),
             \A i \in 1..Len(t) : t[i].adr = list[r][i].adr
      PROVE  ListTypes' /\ \A s \in Source : Whole(s)'
  <2>1. list' \in [Source -> Seq(Entry)]
    BY <1>2 DEF ListTypes
  <2>2. \A s \in Source : list'[s] = IF s = r THEN t ELSE list[s]
    BY <1>2 DEF ListTypes
  <2>3. \A s \in Source : Whole(s)'
    BY <1>2, <2>1, <2>2, StaysWhole
  <2> QED BY <1>2, <2>1, <2>3 DEF ListTypes
<1>3. ASSUME NEW r \in Source, NEW l, l = list[r]
      PROVE  /\ l \in Seq(Entry) /\ Len(l) \in Nat /\ DOMAIN l = 1..Len(l)
             /\ \A i \in 1..Len(l) : l[i] \in Entry
  BY <1>3 DEF ListTypes
<1>4. ASSUME NEW r \in Source, UI_StartServerRefresh(r)
      PROVE  ListTypes' /\ \A s \in Source : Whole(s)'
  <2> DEFINE l == list[r]
             t == [i \in DOMAIN l |-> IF i <= num[r] THEN ServerInfo(l[i].adr) ELSE l[i]]
  <2>1. \A i \in 1..Len(l) : t[i] \in Entry /\ t[i].adr = l[i].adr
    BY <1>0, <1>3
  <2>2. t \in Seq(Entry) /\ Len(t) = Len(l)
    <3>1. l \in Seq(Entry) /\ DOMAIN t = DOMAIN l /\ t = [i \in DOMAIN t |-> t[i]]
      BY <1>0 DEF ListTypes
    <3> HIDE DEF t, l
    <3> QED BY <2>1, <3>1, SameLength
  <2>3. UNCHANGED <<num, source, answer>> /\ list' = [list EXCEPT ![r] = t]
    BY <1>4 DEF UI_StartServerRefresh, LAN_ResetPings, threadVars
  <2>4. source' \in Source
    BY <2>3 DEF ListTypes
  <2> HIDE DEF t
  <2> QED BY <1>2, <2>1, <2>2, <2>3, <2>4
<1>5. ASSUME NEW r \in Source, UI_DoServerRefresh(r)
      PROVE  ListTypes' /\ \A s \in Source : Whole(s)'
  <2>1. UNCHANGED <<num, answer>> /\ source' \in Source
    BY <1>5 DEF UI_DoServerRefresh, CL_UpdateDirtyPings, threadVars, ListTypes
  <2>2. CASE UNCHANGED list
    BY <2>1, <2>2 DEF ListTypes, Whole
  <2>3. CASE list' = Asked(r, StopsAt(r))
    <3> DEFINE l == list[r]
               stop == StopsAt(r)
               asked == Unasked(r)
               t == [i \in DOMAIN l |-> IF i \in asked /\ i <= stop
                                        THEN [l[i] EXCEPT !.toAsk = FALSE] ELSE l[i]]
    <3>1. list' = [list EXCEPT ![r] = t]
      BY <2>3 DEF Asked
    <3> HIDE DEF stop, asked
    <3>2. \A i \in 1..Len(l) : t[i] \in Entry /\ t[i].adr = l[i].adr
      <4>1. DOMAIN l = 1..Len(l) /\ \A i \in 1..Len(l) : l[i] \in Entry
        BY <1>3
      <4> HIDE DEF l
      <4> QED BY <1>0, <4>1
    <3>3. t \in Seq(Entry) /\ Len(t) = Len(l)
      <4>1. l \in Seq(Entry) /\ DOMAIN t = DOMAIN l /\ t = [i \in DOMAIN t |-> t[i]]
        BY <1>0 DEF ListTypes
      <4> HIDE DEF t, l
      <4> QED BY <3>2, <4>1, SameLength
    <3> HIDE DEF t
    <3> QED BY <1>2, <2>1, <3>1, <3>2, <3>3
  <2> QED BY <1>5, <2>2, <2>3 DEF UI_DoServerRefresh, CL_UpdateDirtyPings
<1>6. ASSUME NEW a \in Adr, CL_ServerInfoPacket(a)
      PROVE  ListTypes' /\ \A s \in Source : Whole(s)'
  <2> DEFINE k == CL_FindServerByAddr(list[source], num[source], a)
             l == list[source]
             t == [l EXCEPT ![k].toAsk = FALSE]
  <2>1. /\ UNCHANGED <<num, source, answer>> /\ list' = [list EXCEPT ![source] = t]
        /\ source \in Source
    BY <1>6 DEF CL_ServerInfoPacket, threadVars, ListTypes
  <2> HIDE DEF k
  <2>2. \A i \in 1..Len(l) : t[i] \in Entry /\ t[i].adr = l[i].adr
    <3>1. DOMAIN l = 1..Len(l) /\ \A i \in 1..Len(l) : l[i] \in Entry
      BY <1>3, <2>1
    <3> HIDE DEF l
    <3> QED BY <1>0, <3>1
  <2>3. t \in Seq(Entry) /\ Len(t) = Len(l)
    <3>1. l \in Seq(Entry) /\ DOMAIN t = DOMAIN l /\ t = [i \in DOMAIN t |-> t[i]]
      BY <1>0 DEF ListTypes
    <3> HIDE DEF t, l
    <3> QED BY <2>2, <3>1, SameLength
  <2> HIDE DEF t
  <2> QED BY <1>2, <2>1, <2>2, <2>3
<1>7. ASSUME NEW a \in Answers, CL_ServersResponsePacket(a)
      PROVE  ListTypes' /\ \A s \in Source : Whole(s)'
  <2> DEFINE purge == packets = 0 /\ a # <<>>
             old == IF purge THEN <<>> ELSE list["mplayer"]
             new == AddServers(old, IF purge THEN 0 ELSE num["mplayer"], a)
  <2>1. PICK t \in SortedServers(new) :
           /\ list' = [list EXCEPT !["mplayer"] = t]
           /\ num' = [num EXCEPT !["mplayer"] = Len(new)]
           /\ UNCHANGED <<source, answer>>
    BY <1>7 DEF CL_ServersResponsePacket, threadVars
  <2>2. a \in Seq(Nat)
    BY ServerListAssumption
  <2>3. old \in Seq(Entry)
    BY <1>0 DEF ListTypes
  <2> HIDE DEF old
  <2>4. new \in Seq(Entry)
    BY <2>2, <2>3, AddsEntries
  <2> HIDE DEF new
  <2>5. t \in Seq(Entry) /\ Len(t) = Len(new) /\ Ordered(t) /\ Len(new) \in Nat
    BY <2>4, SortsEntries
  <2>6. /\ list' \in [Source -> Seq(Entry)] /\ num' \in [Source -> Nat]
        /\ \A s \in Source : list'[s] = IF s = "mplayer" THEN t ELSE list[s]
        /\ \A s \in Source : num'[s] = IF s = "mplayer" THEN Len(new) ELSE num[s]
    BY <2>1, <2>5 DEF ListTypes
  <2>7. ListTypes'
    BY <2>1, <2>6 DEF ListTypes
  <2>8. \A s \in Source : Whole(s)'
    BY <2>5, <2>6 DEF Whole, Ordered
  <2> QED BY <2>7, <2>8
<1>8. CASE UI_StopServerRefresh
  BY <1>8 DEF UI_StopServerRefresh, threadVars, ListTypes, Whole
<1> QED BY <1>1, <1>4, <1>5, <1>6, <1>7, <1>8 DEF FrameOperation

\* A query thread has the list in pieces only between its purge and its sort.
LEMMA QueryKeepsLists ==
    ASSUME QueryInv, ListInv, NEW w \in QueryThreads, QueryStep(w)
    PROVE  ListInv'
<1>0. "global" \in Source /\ "mplayer" \in Source /\ body \in [QueryThreads -> Bodies]
  BY DEF Source, QueryInv, LockedInv
<1>1. \A place : GotoBody(w, place) =>
        \A u \in QueryThreads : body'[u] = IF u = w THEN place ELSE body[u]
  BY <1>0 DEF GotoBody
<1>2. ASSUME UNCHANGED listVars, answer' \in [QueryThreads -> Seq(Nat)],
             \A u \in QueryThreads : body[u] \in {"fill", "sort"} => body'[u] = body[u]
      PROVE  ListInv'
  BY <1>2 DEF ListInv, ListTypes, Whole, listVars
<1>3. CASE QueryWithoutMemory(w) \/ Stamp(w) \/ Finish(w)
  <2>1. UNCHANGED <<listVars, answer>> /\ body[w] \notin {"fill", "sort"}
    BY <1>3 DEF QueryWithoutMemory, Stamp, Finish, At
  <2>2. \A u \in QueryThreads : body[u] \in {"fill", "sort"} => body'[u] = body[u]
    BY <1>1, <1>3, <2>1 DEF QueryWithoutMemory, Stamp, Finish
  <2> QED BY <1>2, <2>1, <2>2 DEF ListInv, ListTypes
<1>4. CASE Query(w)
  <2>1. UNCHANGED listVars /\ body[w] \notin {"fill", "sort"}
    BY <1>4 DEF Query, At
  <2>2. \A u \in QueryThreads : body[u] \in {"fill", "sort"} => body'[u] = body[u]
    BY <1>1, <1>4, <2>1 DEF Query
  <2>3. answer' \in [QueryThreads -> Seq(Nat)]
    <3>1. \A a \in Answers : a \in Seq(Nat)
      BY ServerListAssumption
    <3> QED BY <1>4, <3>1 DEF Query, ListInv, ListTypes
  <2> QED BY <1>2, <2>1, <2>2, <2>3
<1>5. CASE QueryEnters(w) \/ QueryWaits(w)
  <2>1. UNCHANGED <<listVars, answer, body>>
    BY <1>5 DEF QueryEnters, QueryWaits, threadVars
  <2> QED BY <1>2, <2>1 DEF ListInv, ListTypes
<1>6. CASE QueryLeaves(w)
  <2>1. UNCHANGED <<listVars, answer>>
    BY <1>6 DEF QueryLeaves
  <2>2. \A u \in QueryThreads : body[u] \in {"fill", "sort"} => body'[u] = body[u]
    <3>1. CASE UNCHANGED body
      BY <3>1
    <3>2. CASE LeaveCriticalSection(w) /\ GotoBody(w, IF At(w, "filled") THEN "stamp" ELSE "free")
      <4>1. body[w] \notin {"fill", "sort"}
        BY <3>2 DEF LeaveCriticalSection, QueryInv, PlaceInv
      <4> QED BY <1>1, <3>2, <4>1
    <3> QED BY <1>6, <3>1, <3>2 DEF QueryLeaves
  <2> QED BY <1>2, <2>1, <2>2 DEF ListInv, ListTypes
<1>7. ASSUME NEW t \in Seq(Entry), list' = [list EXCEPT !["global"] = t],
             UNCHANGED <<source, answer>>,
             num' \in [Source -> Nat], num'["mplayer"] = num["mplayer"]
      PROVE  /\ ListTypes' /\ Whole("mplayer")' /\ list'["global"] = t
  BY <1>0, <1>7 DEF ListInv, ListTypes, Whole, Source, Ordered
<1>8. CASE Purge(w)
  <2>1. /\ list' = [list EXCEPT !["global"] = <<>>] /\ UNCHANGED <<source, answer>>
        /\ num' = [num EXCEPT !["global"] = 0] /\ body'[w] = "fill"
    BY <1>1, <1>8 DEF Purge
  <2>2. <<>> \in Seq(Entry) /\ num' \in [Source -> Nat] /\ num'["mplayer"] = num["mplayer"]
    BY <1>0, <2>1 DEF ListInv, ListTypes
  <2>3. ListTypes' /\ Whole("mplayer")'
    BY <1>7, <2>1, <2>2
  <2> QED BY <2>1, <2>3 DEF ListInv
<1>9. CASE Fill(w)
  <2> DEFINE t == AddServers(list["global"], num["global"], answer[w])
  <2>1. /\ list' = [list EXCEPT !["global"] = t] /\ UNCHANGED <<source, answer, num>>
        /\ body'[w] = "sort"
    BY <1>1, <1>9 DEF Fill
  <2>2. t \in Seq(Entry)
    BY <1>0, AddsEntries DEF ListInv, ListTypes
  <2> HIDE DEF t
  <2>3. ListTypes' /\ Whole("mplayer")'
    BY <1>7, <2>1, <2>2 DEF ListInv, ListTypes
  <2> QED BY <2>1, <2>3 DEF ListInv
<1>10. CASE Sort(w)
  <2>1. list["global"] \in Seq(Entry) /\ Len(list["global"]) \in Nat
    BY <1>0 DEF ListInv, ListTypes
  <2>2. PICK t \in SortedServers(list["global"]) :
           /\ list' = [list EXCEPT !["global"] = t] /\ UNCHANGED <<source, answer>>
           /\ num' = [num EXCEPT !["global"] = Len(list["global"])]
    BY <1>10 DEF Sort
  <2>3. t \in Seq(Entry) /\ Len(t) = Len(list["global"]) /\ Ordered(t)
    BY <2>1, <2>2, SortsEntries
  <2>4. /\ num' \in [Source -> Nat] /\ num'["mplayer"] = num["mplayer"]
        /\ num'["global"] = Len(t)
    BY <1>0, <2>1, <2>2, <2>3 DEF ListInv, ListTypes, Source
  <2>5. ListTypes' /\ Whole("mplayer")' /\ list'["global"] = t
    BY <1>7, <2>2, <2>3, <2>4
  <2>6. Whole("global")'
    BY <2>3, <2>4, <2>5 DEF Whole, Ordered
  <2> QED BY <2>5, <2>6 DEF ListInv
<1> QED BY <1>3, <1>4, <1>5, <1>6, <1>8, <1>9, <1>10 DEF QueryStep

\* Every step of the program keeps the lists.
LEMMA ListInvKept ==
    ASSUME QueryInv, NoFrameInHalfList, ListInv, [ServersNext]_serverVars
    PROVE  ListInv'
<1>1. CASE UNCHANGED <<listVars, answer, body>>
  BY <1>1 DEF ListInv, ListTypes, Whole, listVars
<1>2. CASE FrameOperation
  <2>1. InFrame
    BY <1>2
    DEF FrameOperation, CL_GlobalServers_f, CL_MplayerServers_f, UI_StartServerRefresh,
        UI_StopServerRefresh, UI_DoServerRefresh, CL_ServersResponsePacket, CL_ServerInfoPacket
  <2>2. \A s \in Source : Whole(s)
    BY <2>1 DEF ListInv, NoFrameInHalfList, Source
  <2>3. ListTypes' /\ \A s \in Source : Whole(s)'
    BY <1>2, <2>2, FrameKeepsLists DEF ListInv
  <2> QED BY <2>3 DEF ListInv, Source
<1>3. CASE \E w \in QueryThreads : QueryStep(w)
  BY <1>3, QueryKeepsLists
<1> QED
  BY <1>1, <1>2, <1>3
  DEF ServersNext, MainSection, MainFrame, OtherCall, OtherStep, serverVars, threadVars

\* The lists are in order, and counted right, but for the one a thread fills.
THEOREM ListInvariance == ServersSpec => []ListInv
<1>1. ServersInit => ListInv
  <2> SUFFICES ASSUME ServersInit PROVE ListInv
    OBVIOUS
  <2>1. <<>> \in Seq(Entry) /\ <<>> \in Seq(Nat) /\ Len(<<>>) = 0
    OBVIOUS
  <2>2. ListTypes
    BY <2>1 DEF ServersInit, ListTypes, Source
  <2>3. \A s \in Source : Whole(s)
    BY <2>1 DEF ServersInit, Whole, Ordered
  <2> QED BY <2>2, <2>3 DEF ListInv, Source
<1>2. QueryInv /\ NoFrameInHalfList /\ ListInv /\ [ServersNext]_serverVars => ListInv'
  BY ListInvKept
<1> QED BY <1>1, <1>2, QueryInvariance, FramesSeeWholeLists, PTL DEF ServersSpec

\* Every server that a frame has listed is found by its address (CL_FindServerByAddr), for
\* lists of any length, however often masters answer and threads replace the lists.
THEOREM FramesFindServers == ServersSpec => []FrameFindsEveryServer
<1>1. ListInv /\ NoFrameInHalfList => FrameFindsEveryServer
  <2> SUFFICES ASSUME ListInv, NoFrameInHalfList, InFrame, NEW s \in Source
               PROVE  /\ num[s] = Len(list[s])
                      /\ \A i \in 1..num[s] :
                           LET k == CL_FindServerByAddr(list[s], num[s], list[s][i].adr)
                           IN  k > 0 /\ list[s][k].adr = list[s][i].adr
    BY DEF FrameFindsEveryServer
  <2>1. list[s] \in Seq(Entry) /\ num[s] = Len(list[s]) /\ Ordered(list[s])
    <3>1. Whole("mplayer") /\ Whole("global")
      BY DEF ListInv, NoFrameInHalfList
    <3>2. list[s] \in Seq(Entry)
      BY DEF ListInv, ListTypes
    <3> QED BY <3>1, <3>2 DEF Source, Whole
  <2>2. ASSUME NEW i \in 1..num[s]
        PROVE  LET k == CL_FindServerByAddr(list[s], num[s], list[s][i].adr)
               IN  k > 0 /\ list[s][k].adr = list[s][i].adr
    <3> DEFINE k == CL_FindServerByAddr(list[s], Len(list[s]), list[s][i].adr)
    <3>1. k \in 1..Len(list[s]) /\ list[s][k].adr = list[s][i].adr
      BY <2>1, FindsListed
    <3> HIDE DEF k
    <3>2. k > 0
      BY <2>1, <3>1
    <3> QED BY <2>1, <3>1, <3>2 DEF k
  <2> QED BY <2>1, <2>2
<1> QED BY <1>1, ListInvariance, FramesSeeWholeLists, PTL
=============================================================================
