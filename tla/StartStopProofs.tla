-------------------------- MODULE StartStopProofs --------------------------
(***************************************************************************)
(* Machine-checked proofs about StartStop, for any number of check threads *)
(* and of processes and any Limit of at least 2.                           *)
(*                                                                         *)
(* IInv is the inductive invariant.  Its parts beyond the properties of    *)
(* StartStop say that threads are alone unless doubled, that no_kill comes *)
(* from an answer of the user, that no setting is written late before a    *)
(* monitor has met one, and what counter and posted are at the places the  *)
(* properties do not speak of.                                             *)
(***************************************************************************)
EXTENDS StartStop, TLAPS

SingleLive ==
  overlap \/ \A t, u \in Threads : pc[t] # "none" /\ pc[u] # "none" => t = u

NoKillLeft == no_kill => left

CounterStrong ==
  /\ CounterInv
  /\ \A t \in Threads : pc[t] \in {"create", "startup"} => counter[t] \in {0, 1}

StatusStrong ==
  ~overlap =>
    /\ \A t \in Threads :
         /\ pc[t] \in {"while", "ping"} =>
              (posted = UpOk <=> counter[t] = 0 \/ (counter[t] = 1 /\ fails[t] = 0))
         /\ pc[t] = "release" /\ ~left => posted = <<"down", "stopped">>
         /\ pc[t] = "unwind" /\ ~terminated => posted = <<"down", "stopped">>
    /\ ~terminated /\ ~left /\ ~busy => posted = <<"down", "stopped">>

\* A setter that has tested busy and not yet written leaves room for one late write.
LateStrong ==
  /\ (\A t \in Threads : pc[t] \notin Inside) => late = 0
  /\ ~overlap => late <= 1 /\ (ui = "setting" => late = 0)

IInv ==
  /\ TypeOK /\ SingleLive /\ NoKillLeft /\ BusyMeansInside /\ CounterStrong
  /\ HandleValid /\ ProcessOwned /\ StatusStrong /\ LateStrong
-----------------------------------------------------------------------------
(* What the steps come down to for these invariants.                       *)

\* A step of the user-interface thread that starts or kills no check thread.
Quiet ==
  /\ UNCHANGED <<busy, process, locals, posted, pc, overlap, terminated>>
  /\ left => left'
  /\ no_kill' => no_kill \/ left'

\* A step of the user-interface thread that starts check thread t.
Started(t) ==
  /\ Goto(t, "none", "entry")
  /\ overlap' = (overlap \/ \E u \in Threads : pc[u] # "none")
  /\ UNCHANGED <<busy, no_kill, process, locals, posted, terminated, left>>

LEMMA UICases ==
  ASSUME UI
  PROVE  Quiet \/ (\E t \in Threads : Started(t)) \/ WaitTimeout
<1> USE DEF uiVars, history, scVars, shared, process, locals, Quiet
<1>1. CASE OnBnClickedStart
  BY <1>1 DEF OnBnClickedStart, startServer, Started
<1>2. CASE OnStartAllServers
  BY <1>2 DEF OnStartAllServers, startServer, Started
<1>3. CASE TimerStart
  BY <1>3 DEF TimerStart, startServer, Started
<1>4. CASE NapOver
  BY <1>4 DEF NapOver
<1>5. CASE OnBnClickedStop \/ TimerStop
  BY <1>5 DEF OnBnClickedStop, TimerStop, stopServer
<1>6. CASE WaitOver
  BY <1>6 DEF WaitOver, WaitSignalled, WaitFailed
<1>7. CASE UpdateAllViews \/ SetterTest \/ SetterWrite \/ OnBnClickedTimecontrol
  BY <1>7 DEF UpdateAllViews, SetterTest, SetterWrite, OnBnClickedTimecontrol
<1>8. CASE OnCloseAsk \/ OnCloseCancel
  BY <1>8 DEF OnCloseAsk, OnCloseCancel
<1>9. ASSUME NEW dontStop \in BOOLEAN, stopAllServers(dontStop)
      PROVE  Quiet
  BY <1>9 DEF stopAllServers
<1>10. CASE DestroyDocument \/ Exited
  BY <1>10 DEF DestroyDocument, Exited, vars
<1> QED
  BY <1>1, <1>2, <1>3, <1>4, <1>5, <1>6, <1>7, <1>8, <1>9, <1>10 DEF UI

LEMMA NextCases ==
  ASSUME [Next]_vars
  PROVE  \/ Quiet \/ (\E t \in Threads : Started(t)) \/ WaitTimeout
         \/ (\E t \in Threads : Check(t)) \/ (\E p \in Procs : Child(p))
<1>1. CASE UNCHANGED vars
  BY <1>1 DEF vars, uiVars, history, scVars, shared, process, locals, Quiet
<1> QED
  BY <1>1, UICases DEF Next

\* A step of a check thread, and what it leaves to the user-interface thread.
LEMMA CheckCases ==
  ASSUME NEW t \in Threads, Check(t)
  PROVE  /\ UNCHANGED <<ui, overlap, terminated, left>>
         /\ \/ CheckEntry(t) \/ CheckLoop(t) \/ StartTest(t) \/ StartClaim(t)
            \/ CreateOk(t) \/ CreateFail(t, "char") \/ CreateFail(t, "path")
            \/ StartupOver(t) \/ WhileTest(t)
            \/ PingReply(t) \/ PingSilence(t) \/ PingError(t) \/ PingFault(t)
            \/ EndForRestart(t) \/ LeaveLoop(t) \/ Release(t) \/ Unwind(t)
            \/ MsgBoxClosed(t)
BY DEF Check, ThreadStep, Create, Ping, uiVars

-----------------------------------------------------------------------------
(* Type correctness.                                                       *)

LEMMA InitType == Init => TypeOK
<1> SUFFICES ASSUME Init PROVE TypeOK
  OBVIOUS
<1> USE DEF Init, scInit
<1>1. 0 \in 0..Limit
  BY ConstantsAssumption
<1>2. scTypeOK
  BY <1>1 DEF scTypeOK, UP, STATUS, Locations, Exceptions
<1>3. late \in 0..2
  OBVIOUS
<1>4. ui \in {"startup", "idle"} /\ asking \in BOOLEAN /\ shownActive \in BOOLEAN
  OBVIOUS
<1>5. handleOpen = FALSE /\ myHandle \in Threads \cup {NoThread} /\ timecontrol \in BOOLEAN
  OBVIOUS
<1>6. overlap \in BOOLEAN /\ terminated \in BOOLEAN /\ left \in BOOLEAN /\ refused \in BOOLEAN
  OBVIOUS
<1> HIDE DEF Init, scInit
<1> QED
  BY <1>2, <1>3, <1>4, <1>5, <1>6 DEF TypeOK

LEMMA TypeUI ==
  ASSUME TypeOK, UI
  PROVE  TypeOK'
<1> USE DEF TypeOK, scTypeOK, uiVars, history, scVars, shared, process, locals
<1>0. Waiting = {"wait", "timerwait", "closing", "destroying"} /\ \A w \in Waiting : AfterWait[w] \in {"idle", "nap", "closed", "exited"}
  BY DEF Waiting, AfterWait
<1>1. CASE OnBnClickedStart \/ OnStartAllServers \/ TimerStart
  <2>1. startServer
    BY <1>1 DEF OnBnClickedStart, OnStartAllServers, TimerStart
  <2>2. pc' \in [Threads -> Locations] /\ myHandle' \in Threads \cup {NoThread}
    BY <2>1 DEF startServer, Goto, Locations
  <2>3. handleOpen' \in BOOLEAN /\ (handleOpen' => myHandle' \in Threads)
    BY <2>1 DEF startServer
  <2>4. shownActive' \in BOOLEAN /\ overlap' \in BOOLEAN
    BY <2>1 DEF startServer
  <2>5. refused' \in BOOLEAN
    BY <1>1 DEF OnBnClickedStart, OnStartAllServers, TimerStart
  <2> QED
    BY <1>0, <1>1, <2>2, <2>3, <2>4, <2>5 DEF OnBnClickedStart, OnStartAllServers, TimerStart
<1>2. CASE NapOver
  BY <1>0, <1>2 DEF NapOver
<1>3. CASE OnBnClickedStop \/ TimerStop
  <2>1. go' \in BOOLEAN /\ ui' \in Waiting
    BY <1>0, <1>3 DEF OnBnClickedStop, TimerStop, stopServer
  <2> QED
    BY <1>3, <2>1 DEF OnBnClickedStop, TimerStop
<1>4. CASE WaitSignalled \/ WaitFailed
  <2>1. ui' \in {"idle", "nap", "closed", "exited"}
    BY <1>0, <1>4 DEF WaitSignalled, WaitFailed
  <2>2. handleOpen' \in BOOLEAN
    BY <1>4 DEF WaitSignalled, WaitFailed
  <2>3. handleOpen' => handleOpen
    BY <1>4 DEF WaitSignalled, WaitFailed
  <2> QED
    BY <1>4, <2>1, <2>2, <2>3 DEF WaitSignalled, WaitFailed
<1>5. CASE WaitTimeout
  <2>1. ui' \in {"idle", "nap", "closed", "exited"}
    BY <1>0, <1>5 DEF WaitTimeout
  <2>2. handleOpen' \in BOOLEAN /\ (handleOpen' => myHandle' \in Threads)
    BY <1>5 DEF WaitTimeout
  <2>3. pc' \in [Threads -> Locations] /\ exc' \in [Threads -> Exceptions]
    BY <1>5 DEF WaitTimeout, Locations, Exceptions
  <2>4. /\ counter' \in [Threads -> Nat] /\ misses' \in [Threads -> Nat]
        /\ fails' \in [Threads -> 0..Limit]
    BY <1>5, ConstantsAssumption DEF WaitTimeout, ForgetLocals
  <2>5. terminated' \in BOOLEAN /\ late' \in 0..2
    BY <1>5 DEF WaitTimeout, CountLate
  <2> QED
    BY <1>5, <2>1, <2>2, <2>3, <2>4, <2>5 DEF WaitTimeout
<1>6. CASE UpdateAllViews \/ OnBnClickedTimecontrol
  <2>1. timecontrol' \in BOOLEAN /\ shownActive' \in BOOLEAN
    BY <1>6 DEF UpdateAllViews, OnBnClickedTimecontrol
  <2> QED
    BY <1>6, <2>1 DEF UpdateAllViews, OnBnClickedTimecontrol
<1>11. CASE SetterTest \/ SetterWrite
  <2>1. /\ ui' \in {"setting", "idle"} /\ shownActive' \in BOOLEAN
        /\ ping_type' \in {"normal", "query"} /\ late' \in 0..2
    BY <1>11 DEF SetterTest, SetterWrite, CountLate
  <2> QED
    BY <1>11, <2>1 DEF SetterTest, SetterWrite
<1>7. CASE OnCloseAsk \/ OnCloseCancel
  <2>1. asking' \in BOOLEAN
    BY <1>7 DEF OnCloseAsk, OnCloseCancel
  <2> QED
    BY <1>7, <2>1 DEF OnCloseAsk, OnCloseCancel
<1>8. ASSUME NEW dontStop \in BOOLEAN, stopAllServers(dontStop)
      PROVE  TypeOK'
  <2>1. /\ asking' \in BOOLEAN /\ no_kill' \in BOOLEAN /\ left' \in BOOLEAN
        /\ ui' \in {"closing", "closed"}
        /\ go' \in BOOLEAN
    BY <1>8 DEF stopAllServers, stopServer
  <2> QED
    BY <1>0, <1>8, <2>1 DEF stopAllServers
<1>9. CASE DestroyDocument
  <2>1. /\ go' \in BOOLEAN /\ no_kill' \in BOOLEAN
        /\ ui' \in {"destroying", "exited"}
    BY <1>9 DEF DestroyDocument, stopServer
  <2> QED
    BY <1>0, <1>9, <2>1 DEF DestroyDocument
<1>10. CASE Exited
  BY <1>10 DEF Exited, vars
<1> QED
  BY <1>1, <1>2, <1>3, <1>4, <1>5, <1>6, <1>7, <1>8, <1>9, <1>10, <1>11 DEF UI, WaitOver

LEMMA TypeCheck ==
  ASSUME TypeOK, NEW t \in Threads, Check(t)
  PROVE  TypeOK'
<1>1. UNCHANGED uiVars /\ UNCHANGED <<overlap, terminated, left>>
     /\ refused' \in BOOLEAN /\ late' \in 0..2
  BY DEF Check, CountLate, TypeOK
<1>2. scTypeOK'
  <2> USE ConstantsAssumption DEF TypeOK, scTypeOK, shared, process, locals, Goto, Locations, Exceptions,
          updateStatus, UP, STATUS, UpOk
  <2>1. CASE CheckEntry(t)
    BY <2>1 DEF CheckEntry
  <2>2. CASE CheckLoop(t)
    BY <2>2 DEF CheckLoop
  <2>3. CASE StartTest(t)
    BY <2>3 DEF StartTest
  <2>4. CASE StartClaim(t)
    BY <2>4 DEF StartClaim
  <2>5. CASE CreateOk(t)
    BY <2>5 DEF CreateOk
  <2>6. CASE CreateFail(t, "char") \/ CreateFail(t, "path")
    BY <2>6 DEF CreateFail
  <2>7. CASE StartupOver(t)
    BY <2>7 DEF StartupOver
  <2>8. CASE WhileTest(t)
    BY <2>8 DEF WhileTest
  <2>9. CASE PingReply(t)
    BY <2>9 DEF PingReply
  <2>10. CASE PingSilence(t)
    BY <2>10 DEF PingSilence
  <2>11. CASE PingError(t)
    BY <2>11 DEF PingError
  <2>12. CASE PingFault(t)
    BY <2>12 DEF PingFault
  <2>13. CASE EndForRestart(t)
    BY <2>13 DEF EndForRestart, endProcess
  <2>14. CASE LeaveLoop(t)
    BY <2>14 DEF LeaveLoop, endProcess
  <2>15. CASE Release(t)
    <3>1. /\ counter' \in [Threads -> Nat] /\ misses' \in [Threads -> Nat]
          /\ fails' \in [Threads -> 0..Limit]
      BY <2>15 DEF Release, ForgetLocals
    <3>2. pc' \in [Threads -> Locations] /\ busy' \in BOOLEAN
      BY <2>15 DEF Release
    <3> QED
      BY <2>15, <3>1, <3>2 DEF Release
  <2>16. CASE Unwind(t)
    <3>1. /\ counter' \in [Threads -> Nat] /\ misses' \in [Threads -> Nat]
          /\ fails' \in [Threads -> 0..Limit]
      BY <2>16 DEF Unwind, ForgetLocals
    <3>2. pc' \in [Threads -> Locations] /\ busy' \in BOOLEAN
      BY <2>16 DEF Unwind
    <3> QED
      BY <2>16, <3>1, <3>2 DEF Unwind
  <2>17. CASE MsgBoxClosed(t)
    BY <2>17 DEF MsgBoxClosed
  <2> QED
    BY CheckCases, <2>1, <2>2, <2>3, <2>4, <2>5, <2>6, <2>7, <2>8, <2>9, <2>10, <2>11, <2>12, <2>13, <2>14, <2>15, <2>16, <2>17
<1> QED
  BY <1>1, <1>2 DEF TypeOK, uiVars

LEMMA TypeStep ==
  ASSUME TypeOK, [Next]_vars
  PROVE  TypeOK'
<1>1. ASSUME NEW p \in Procs, Child(p)
      PROVE  TypeOK'
  BY <1>1 DEF TypeOK, scTypeOK, Child, ChildExit, uiVars, history, shared, locals
<1>2. CASE UNCHANGED vars
  BY <1>2 DEF vars, uiVars, history, scVars, shared, process, locals, TypeOK, scTypeOK
<1> QED
  BY <1>1, <1>2, TypeUI, TypeCheck DEF Next

\* Every variable keeps its type, for any number of threads and processes: the counter of
\* start() in particular never goes below zero.
THEOREM TypeCorrect == Spec => []TypeOK
<1>1. Init => TypeOK
  BY InitType
<1>2. TypeOK /\ [Next]_vars => TypeOK'
  BY TypeStep
<1> QED
  BY <1>1, <1>2, PTL DEF Spec

-----------------------------------------------------------------------------
(* Threads, busy and the counter.                                          *)

\* A step of thread t moves no other thread and touches none of its locals.
LEMMA OneMoves ==
  ASSUME TypeOK, NEW t \in Threads, Check(t)
  PROVE  /\ UNCHANGED <<ui, overlap, terminated, no_kill, left>>
         /\ pc[t] # "none"
         /\ \A u \in Threads \ {t} :
              /\ pc'[u] = pc[u] /\ counter'[u] = counter[u] /\ exc'[u] = exc[u]
              /\ fails'[u] = fails[u] /\ misses'[u] = misses[u]
<1> USE DEF TypeOK, scTypeOK, shared, process, locals, Goto
<1>1. CASE CheckEntry(t) \/ CheckLoop(t) \/ StartTest(t) \/ StartClaim(t)
  BY <1>1, CheckCases DEF CheckEntry, CheckLoop, StartTest, StartClaim
<1>2. CASE CreateOk(t) \/ CreateFail(t, "char") \/ CreateFail(t, "path")
  BY <1>2, CheckCases DEF CreateOk, CreateFail
<1>3. CASE StartupOver(t) \/ WhileTest(t)
  BY <1>3, CheckCases DEF StartupOver, WhileTest
<1>4. CASE PingReply(t)
  BY <1>4, CheckCases DEF PingReply
<1>5. CASE PingSilence(t)
  BY <1>5, CheckCases DEF PingSilence
<1>6. CASE PingError(t) \/ PingFault(t)
  BY <1>6, CheckCases DEF PingError, PingFault
<1>7. CASE EndForRestart(t) \/ LeaveLoop(t)
  BY <1>7, CheckCases DEF EndForRestart, LeaveLoop
<1>8. CASE Release(t) \/ Unwind(t) \/ MsgBoxClosed(t)
  BY <1>8, CheckCases DEF Release, Unwind, MsgBoxClosed, ForgetLocals
<1> QED
  BY CheckCases, <1>1, <1>2, <1>3, <1>4, <1>5, <1>6, <1>7, <1>8

\* TerminateThread ends the thread of the latest startServer and no other.
LEMMA TimeoutKills ==
  ASSUME TypeOK, WaitTimeout
  PROVE  /\ myHandle \in Threads /\ pc'[myHandle] = "none"
         /\ \A u \in Threads \ {myHandle} :
              /\ pc'[u] = pc[u] /\ counter'[u] = counter[u] /\ exc'[u] = exc[u]
              /\ fails'[u] = fails[u] /\ misses'[u] = misses[u]
         /\ UNCHANGED <<busy, no_kill, process, posted, overlap, left>>
         /\ terminated' <=> (terminated \/ pc[myHandle] \in Inside)
BY DEF TypeOK, scTypeOK, WaitTimeout, ForgetLocals, shared, process

LEMMA SingleLiveStep ==
  ASSUME TypeOK, SingleLive, [Next]_vars
  PROVE  SingleLive'
<1> USE DEF SingleLive
<1>1. CASE Quiet
  BY <1>1 DEF Quiet
<1>2. ASSUME NEW t \in Threads, Started(t)
      PROVE  SingleLive'
  BY <1>2 DEF Started, Goto, TypeOK, scTypeOK
<1>3. CASE WaitTimeout
  BY <1>3, TimeoutKills
<1>4. ASSUME NEW t \in Threads, Check(t)
      PROVE  SingleLive'
  BY <1>4, OneMoves
<1>5. ASSUME NEW p \in Procs, Child(p)
      PROVE  SingleLive'
  BY <1>5 DEF Child, ChildExit, history
<1> QED
  BY <1>1, <1>2, <1>3, <1>4, <1>5, NextCases

LEMMA NoKillLeftStep ==
  ASSUME TypeOK, NoKillLeft, [Next]_vars
  PROVE  NoKillLeft'
<1> USE DEF NoKillLeft
<1>1. CASE Quiet
  BY <1>1 DEF Quiet
<1>2. ASSUME NEW t \in Threads, Started(t)
      PROVE  NoKillLeft'
  BY <1>2 DEF Started
<1>3. CASE WaitTimeout
  BY <1>3, TimeoutKills
<1>4. ASSUME NEW t \in Threads, Check(t)
      PROVE  NoKillLeft'
  BY <1>4, OneMoves
<1>5. ASSUME NEW p \in Procs, Child(p)
      PROVE  NoKillLeft'
  BY <1>5 DEF Child, ChildExit, history, shared
<1> QED
  BY <1>1, <1>2, <1>3, <1>4, <1>5, NextCases

LEMMA BusyMeansInsideStep ==
  ASSUME TypeOK, SingleLive, BusyMeansInside, [Next]_vars
  PROVE  BusyMeansInside'
<1> USE DEF BusyMeansInside
<1>1. CASE Quiet
  BY <1>1 DEF Quiet
<1>2. ASSUME NEW t \in Threads, Started(t)
      PROVE  BusyMeansInside'
  <2>1. \A u \in Threads : pc'[u] \in Inside <=> pc[u] \in Inside
    BY <1>2 DEF Started, Goto, Inside, TypeOK, scTypeOK
  <2>2. overlap => overlap'
    BY <1>2 DEF Started
  <2> QED
    BY <1>2, <2>1, <2>2 DEF Started
<1>3. CASE WaitTimeout
  <2>1. \A u \in Threads : pc'[u] \in Inside => pc[u] \in Inside
    BY <1>3, TimeoutKills DEF Inside
  <2>2. \A u \in Threads : pc[u] \in Inside => pc'[u] \in Inside \/ terminated'
    BY <1>3, TimeoutKills
  <2>3. terminated => terminated'
    BY <1>3, TimeoutKills
  <2> QED
    BY <1>3, <2>1, <2>2, <2>3, TimeoutKills
<1>4. ASSUME NEW t \in Threads, Check(t)
      PROVE  BusyMeansInside'
  <2>0. UNCHANGED <<overlap, terminated>> /\ \A u \in Threads \ {t} : pc'[u] = pc[u]
    BY <1>4, OneMoves
  <2>1. CASE busy' = busy /\ (pc'[t] \in Inside <=> pc[t] \in Inside)
    BY <2>0, <2>1
  <2>2. CASE busy /\ busy' = busy /\ pc'[t] \in Inside
    BY <2>0, <2>2
  <2>3. CASE busy' = TRUE /\ pc'[t] \in Inside
    BY <2>0, <2>3
  <2>4. CASE busy' = FALSE /\ pc'[t] \notin Inside
    <3>1. pc[t] # "none"
      BY <1>4, OneMoves
    <3>2. ~overlap => \A u \in Threads \ {t} : pc[u] = "none"
      BY <3>1 DEF SingleLive
    <3>3. ~overlap => \A u \in Threads : pc'[u] \notin Inside
      BY <2>0, <2>4, <3>2 DEF Inside
    <3> QED
      BY <2>0, <2>4, <3>3
  <2> USE DEF TypeOK, scTypeOK, Goto, Inside, shared
  <2>5. CASE CheckEntry(t) \/ CheckLoop(t) \/ MsgBoxClosed(t)
    BY <2>1, <2>5 DEF CheckEntry, CheckLoop, MsgBoxClosed
  <2>6. CASE StartTest(t)
    BY <2>1, <2>2, <2>6 DEF StartTest
  <2>7. CASE StartClaim(t)
    BY <2>3, <2>7 DEF StartClaim
  <2>8. CASE CreateOk(t) \/ CreateFail(t, "char") \/ CreateFail(t, "path") \/ StartupOver(t)
    BY <2>1, <2>8 DEF CreateOk, CreateFail, StartupOver
  <2>9. CASE WhileTest(t) \/ EndForRestart(t) \/ LeaveLoop(t)
    BY <2>1, <2>9 DEF WhileTest, EndForRestart, LeaveLoop
  <2>10. CASE PingReply(t) \/ PingSilence(t) \/ PingError(t) \/ PingFault(t)
    BY <2>1, <2>10 DEF PingReply, PingSilence, PingError, PingFault
  <2>11. CASE Release(t) \/ Unwind(t)
    BY <2>4, <2>11 DEF Release, Unwind
  <2> QED
    BY <1>4, CheckCases, <2>5, <2>6, <2>7, <2>8, <2>9, <2>10, <2>11
<1>5. ASSUME NEW p \in Procs, Child(p)
      PROVE  BusyMeansInside'
  BY <1>5 DEF Child, ChildExit, history, shared
<1> QED
  BY <1>1, <1>2, <1>3, <1>4, <1>5, NextCases

LEMMA CounterStrongStep ==
  ASSUME TypeOK, CounterStrong, [Next]_vars
  PROVE  CounterStrong'
<1> USE DEF CounterStrong, CounterInv
<1>1. CASE Quiet
  BY <1>1 DEF Quiet, locals
<1>2. ASSUME NEW t \in Threads, Started(t)
      PROVE  CounterStrong'
  BY <1>2 DEF Started, Goto, locals, TypeOK, scTypeOK
<1>3. CASE WaitTimeout
  BY <1>3, TimeoutKills
<1>4. ASSUME NEW t \in Threads, Check(t)
      PROVE  CounterStrong'
  <2> DEFINE CounterOf(u) ==
               /\ pc[u] \in {"while", "ping"} =>
                    /\ counter[u] < Limit /\ misses[u] <= counter[u]
                    /\ counter[u] <= fails[u] + 1
               /\ pc[u] = "end" => exc[u] = "char" \/ fails[u] >= Limit - 1
               /\ pc[u] \in {"create", "startup"} => counter[u] \in {0, 1}
  <2>1. \A u \in Threads : CounterOf(u)
    OBVIOUS
  <2>2. \A u \in Threads \ {t} : CounterOf(u)'
    BY <2>1, <1>4, OneMoves
  <2>3. CounterOf(t)'
    <3> USE <2>1, ConstantsAssumption DEF TypeOK, scTypeOK, Goto, locals
    <3>1. CASE CheckEntry(t) \/ CheckLoop(t) \/ StartTest(t) \/ MsgBoxClosed(t)
      BY <3>1 DEF CheckEntry, CheckLoop, StartTest, MsgBoxClosed
    <3>2. CASE StartClaim(t) \/ CreateOk(t) \/ CreateFail(t, "char") \/ CreateFail(t, "path")
      BY <3>2 DEF StartClaim, CreateOk, CreateFail
    <3>3. CASE StartupOver(t)
      BY <3>3 DEF StartupOver
    <3>4. CASE WhileTest(t)
      BY <3>4 DEF WhileTest
    <3>5. CASE PingReply(t)
      BY <3>5 DEF PingReply
    <3>6. CASE PingSilence(t)
      BY <3>6 DEF PingSilence
    <3>7. CASE PingError(t) \/ PingFault(t)
      BY <3>7 DEF PingError, PingFault
    <3>8. CASE EndForRestart(t) \/ LeaveLoop(t)
      BY <3>8 DEF EndForRestart, LeaveLoop
    <3>9. CASE Release(t) \/ Unwind(t)
      BY <3>9 DEF Release, Unwind
    <3> QED
      BY <1>4, CheckCases, <3>1, <3>2, <3>3, <3>4, <3>5, <3>6, <3>7, <3>8, <3>9
  <2> QED
    BY <2>2, <2>3
<1>5. ASSUME NEW p \in Procs, Child(p)
      PROVE  CounterStrong'
  BY <1>5 DEF Child, ChildExit, locals
<1> QED
  BY <1>1, <1>2, <1>3, <1>4, <1>5, NextCases

-----------------------------------------------------------------------------
(* Handles, processes and the status.                                      *)

\* Away from a doubled thread, the thread that takes a step is the only one.
LEMMA Alone ==
  ASSUME TypeOK, SingleLive, NEW t \in Threads, Check(t), ~overlap
  PROVE  \A u \in Threads \ {t} : pc[u] = "none" /\ pc'[u] = "none"
BY OneMoves DEF SingleLive

LEMMA HandleValidStep ==
  ASSUME TypeOK, SingleLive, HandleValid, [Next]_vars
  PROVE  HandleValid'
<1> USE DEF HandleValid
<1>1. CASE Quiet
  BY <1>1 DEF Quiet, process
<1>2. ASSUME NEW t \in Threads, Started(t)
      PROVE  HandleValid'
  <2>1. \A u \in Threads : pc'[u] \in Holding => pc[u] \in Holding
    BY <1>2 DEF Started, Goto, Holding, TypeOK, scTypeOK
  <2>2. overlap => overlap'
    BY <1>2 DEF Started
  <2> QED
    BY <1>2, <2>1, <2>2 DEF Started, process
<1>3. CASE WaitTimeout
  <2>1. \A u \in Threads : pc'[u] \in Holding => pc[u] \in Holding
    BY <1>3, TimeoutKills DEF Holding
  <2> QED
    BY <1>3, <2>1, TimeoutKills DEF process
<1>4. ASSUME NEW t \in Threads, Check(t)
      PROVE  HandleValid'
  <2> SUFFICES ASSUME ~overlap'
               PROVE  \A u \in Threads : pc'[u] \in Holding => processhandle' \in open'
    OBVIOUS
  <2>1. ~overlap /\ \A u \in Threads \ {t} : pc'[u] \notin Holding
    BY <1>4, OneMoves, Alone DEF Holding
  <2> SUFFICES pc'[t] \in Holding => processhandle' \in open'
    BY <2>1
  <2> USE <2>1 DEF TypeOK, scTypeOK, Goto, Holding, process
  <2>2. CASE CheckEntry(t) \/ CheckLoop(t) \/ StartTest(t) \/ StartClaim(t)
    BY <2>2 DEF CheckEntry, CheckLoop, StartTest, StartClaim
  <2>3. CASE CreateOk(t)
    BY <2>3 DEF CreateOk
  <2>4. CASE CreateFail(t, "char") \/ CreateFail(t, "path") \/ PingFault(t)
    BY <2>4 DEF CreateFail, PingFault
  <2>5. CASE StartupOver(t) \/ WhileTest(t)
    BY <2>5 DEF StartupOver, WhileTest
  <2>6. CASE PingReply(t) \/ PingSilence(t) \/ PingError(t)
    BY <2>6 DEF PingReply, PingSilence, PingError
  <2>7. CASE EndForRestart(t) \/ LeaveLoop(t)
    BY <2>7 DEF EndForRestart, LeaveLoop
  <2>8. CASE Release(t) \/ Unwind(t) \/ MsgBoxClosed(t)
    BY <2>8 DEF Release, Unwind, MsgBoxClosed
  <2> QED
    BY <1>4, CheckCases, <2>2, <2>3, <2>4, <2>5, <2>6, <2>7, <2>8
<1>5. ASSUME NEW p \in Procs, Child(p)
      PROVE  HandleValid'
  BY <1>5 DEF Child, ChildExit, history
<1> QED
  BY <1>1, <1>2, <1>3, <1>4, <1>5, NextCases

LEMMA ProcessOwnedStep ==
  ASSUME TypeOK, SingleLive, NoKillLeft, HandleValid, ProcessOwned, [Next]_vars
  PROVE  ProcessOwned'
<1> USE DEF ProcessOwned
<1>1. CASE Quiet
  BY <1>1 DEF Quiet, process
<1>2. ASSUME NEW t \in Threads, Started(t)
      PROVE  ProcessOwned'
  <2>1. \A u \in Threads : pc[u] \in Holding => pc'[u] \in Holding
    BY <1>2 DEF Started, Goto, Holding, TypeOK, scTypeOK
  <2>2. overlap => overlap'
    BY <1>2 DEF Started
  <2> QED
    BY <1>2, <2>1, <2>2 DEF Started, process
<1>3. CASE WaitTimeout
  <2>1. \A u \in Threads : pc[u] \in Holding => pc'[u] \in Holding \/ terminated'
    BY <1>3, TimeoutKills DEF Holding, Inside
  <2>2. terminated => terminated'
    BY <1>3, TimeoutKills
  <2> QED
    BY <1>3, <2>1, <2>2, TimeoutKills DEF process
<1>4. ASSUME NEW t \in Threads, Check(t)
      PROVE  ProcessOwned'
  <2> SUFFICES ASSUME ~overlap', ~terminated', ~left'
               PROVE  \A p \in running' \cup open' :
                        /\ p = processhandle' /\ p = processid' /\ p \in open'
                        /\ \E u \in Threads : pc'[u] \in Holding
    OBVIOUS
  <2>1. ~overlap /\ ~terminated /\ ~left /\ \A u \in Threads \ {t} : pc[u] \notin Holding
    BY <1>4, OneMoves, Alone DEF Holding
  <2>2. \A p \in running \cup open :
          p = processhandle /\ p = processid /\ p \in open /\ pc[t] \in Holding
    BY <2>1
  <2>3. pc[t] \in Holding => processhandle \in open
    BY <2>1 DEF HandleValid
  <2> USE DEF TypeOK, scTypeOK, Goto, Holding, process
  <2>4. CASE CheckEntry(t) \/ CheckLoop(t) \/ StartTest(t) \/ StartClaim(t)
    BY <2>2, <2>4 DEF CheckEntry, CheckLoop, StartTest, StartClaim
  <2>5. CASE CreateOk(t)
    BY <2>2, <2>5 DEF CreateOk
  <2>6. CASE CreateFail(t, "char") \/ CreateFail(t, "path")
    BY <2>2, <2>6 DEF CreateFail
  <2>7. CASE PingFault(t)
    BY <2>2, <2>3, <2>7 DEF PingFault, PingOutcomes
  <2>8. CASE StartupOver(t) \/ WhileTest(t)
    BY <2>2, <2>8 DEF StartupOver, WhileTest
  <2>9. CASE PingReply(t) \/ PingSilence(t) \/ PingError(t)
    BY <2>2, <2>9 DEF PingReply, PingSilence, PingError
  <2>10. CASE EndForRestart(t) \/ LeaveLoop(t)
    <3>1. endProcess
      BY <2>1, <2>10 DEF NoKillLeft, EndForRestart, LeaveLoop
    <3>2. running' \cup open' = {}
      BY <2>2, <3>1 DEF endProcess
    <3> QED
      BY <3>2
  <2>11. CASE Release(t) \/ Unwind(t) \/ MsgBoxClosed(t)
    BY <2>2, <2>11 DEF Release, Unwind, MsgBoxClosed
  <2> QED
    BY <1>4, CheckCases, <2>4, <2>5, <2>6, <2>7, <2>8, <2>9, <2>10, <2>11
<1>5. ASSUME NEW p \in Procs, Child(p)
      PROVE  ProcessOwned'
  BY <1>5 DEF Child, ChildExit, history, shared
<1> QED
  BY <1>1, <1>2, <1>3, <1>4, <1>5, NextCases

LEMMA StatusStrongStep ==
  ASSUME TypeOK, SingleLive, NoKillLeft, BusyMeansInside, CounterStrong, HandleValid,
         StatusStrong, [Next]_vars
  PROVE  StatusStrong'
<1> DEFINE DownStopped == posted = <<"down", "stopped">>
           StatusOf(u) ==
             /\ pc[u] \in {"while", "ping"} =>
                  (posted = UpOk <=> counter[u] = 0 \/ (counter[u] = 1 /\ fails[u] = 0))
             /\ pc[u] = "release" /\ ~left => DownStopped
             /\ pc[u] = "unwind" /\ ~terminated => DownStopped
           Inactive == ~terminated /\ ~left /\ ~busy => DownStopped
<1>0. ~overlap => Inactive /\ \A u \in Threads : StatusOf(u)
  BY DEF StatusStrong
<1>1. CASE Quiet
  BY <1>1 DEF Quiet, locals, StatusStrong
<1>2. ASSUME NEW t \in Threads, Started(t)
      PROVE  StatusStrong'
  <2>1. /\ UNCHANGED <<busy, no_kill, left, posted, terminated, counter, fails>>
        /\ overlap => overlap'
        /\ \A u \in Threads : pc'[u] = pc[u] \/ pc'[u] = "entry"
    BY <1>2 DEF Started, Goto, locals, TypeOK, scTypeOK
  <2> QED
    BY <2>1 DEF StatusStrong
<1>3. CASE WaitTimeout
  <2>1. terminated => terminated'
    BY <1>3, TimeoutKills
  <2> QED
    BY <1>3, <2>1, TimeoutKills DEF StatusStrong
<1>4. ASSUME NEW t \in Threads, Check(t)
      PROVE  StatusStrong'
  <2> SUFFICES ASSUME ~overlap'
               PROVE  Inactive' /\ \A u \in Threads : StatusOf(u)'
    BY DEF StatusStrong
  <2>1. ~overlap /\ UNCHANGED <<terminated, no_kill, left>>
    BY <1>4, OneMoves
  <2>2. \A u \in Threads \ {t} : pc[u] = "none" /\ pc'[u] = "none"
    BY <1>4, <2>1, Alone
  <2>3. Inactive /\ StatusOf(t)
    BY <1>0, <2>1
  <2>4. \A u \in Threads \ {t} : StatusOf(u)'
    BY <2>2
  <2>5. busy \/ pc[t] \notin Inside
    BY <2>1 DEF BusyMeansInside
  <2>6. ~terminated /\ busy => pc[t] \in Inside
    BY <2>2 DEF BusyMeansInside, Inside
  <2> SUFFICES Inactive' /\ StatusOf(t)'
    BY <2>4
  <2> USE <2>1, <2>3, ConstantsAssumption
          DEF TypeOK, scTypeOK, Goto, locals, shared, updateStatus, UpOk
  <2>7. CASE CheckEntry(t) \/ CheckLoop(t) \/ MsgBoxClosed(t)
    BY <2>7 DEF CheckEntry, CheckLoop, MsgBoxClosed
  <2>8. CASE StartTest(t)
    BY <2>6, <2>8 DEF StartTest, Inside
  <2>9. CASE StartClaim(t) \/ CreateOk(t) \/ CreateFail(t, "char") \/ CreateFail(t, "path")
    BY <2>5, <2>9 DEF StartClaim, CreateOk, CreateFail, Inside
  <2>10. CASE StartupOver(t)
    BY <2>5, <2>10 DEF StartupOver, Inside, CounterStrong
  <2>11. CASE WhileTest(t)
    BY <2>5, <2>11 DEF WhileTest, Inside
  <2>12. CASE PingReply(t)
    BY <2>5, <2>12 DEF PingReply, Inside, CounterStrong, CounterInv
  <2>13. CASE PingSilence(t)
    BY <2>5, <2>13 DEF PingSilence, Inside, CounterStrong, CounterInv
  <2>14. CASE PingError(t)
    BY <2>5, <2>14 DEF PingError, Inside
  <2>15. CASE PingFault(t)
    BY <2>15 DEF PingFault, PingOutcomes, HandleValid, Holding
  <2>16. CASE EndForRestart(t) \/ LeaveLoop(t)
    BY <2>5, <2>16 DEF NoKillLeft, EndForRestart, LeaveLoop, Inside
  <2>17. CASE Release(t) \/ Unwind(t)
    BY <2>17 DEF Release, Unwind
  <2> QED
    BY <1>4, CheckCases, <2>7, <2>8, <2>9, <2>10, <2>11, <2>12, <2>13, <2>14, <2>15, <2>16, <2>17
<1>5. ASSUME NEW p \in Procs, Child(p)
      PROVE  StatusStrong'
  BY <1>5 DEF Child, ChildExit, history, shared, locals, StatusStrong
<1> QED
  BY <1>1, <1>2, <1>3, <1>4, <1>5, NextCases

-----------------------------------------------------------------------------
(* Settings that change under a monitor.                                   *)

\* Only the two halves of a setter and a killed thread change late or lead to a setter.
LEMMA UILate ==
  ASSUME TypeOK, UI
  PROVE  SetterTest \/ SetterWrite \/ WaitTimeout \/ (ui' # "setting" /\ late' = late)
<1> USE DEF uiVars, history, TypeOK
<1>1. CASE OnBnClickedStart \/ OnStartAllServers \/ TimerStart \/ NapOver
  BY <1>1 DEF OnBnClickedStart, OnStartAllServers, TimerStart, NapOver
<1>2. CASE OnBnClickedStop \/ TimerStop
  BY <1>2 DEF OnBnClickedStop, TimerStop, stopServer
<1>3. CASE WaitSignalled \/ WaitFailed
  BY <1>3 DEF WaitSignalled, WaitFailed, Waiting, AfterWait
<1>4. CASE UpdateAllViews \/ OnBnClickedTimecontrol \/ OnCloseAsk \/ OnCloseCancel
  BY <1>4 DEF UpdateAllViews, OnBnClickedTimecontrol, OnCloseAsk, OnCloseCancel
<1>5. ASSUME NEW dontStop \in BOOLEAN, stopAllServers(dontStop)
      PROVE  ui' # "setting" /\ late' = late
  BY <1>5 DEF stopAllServers, stopServer
<1>6. CASE DestroyDocument \/ Exited
  BY <1>6 DEF DestroyDocument, stopServer, Exited, vars
<1> QED
  BY <1>1, <1>2, <1>3, <1>4, <1>5, <1>6 DEF UI, WaitOver

LEMMA LateStrongStep ==
  ASSUME TypeOK, BusyMeansInside, LateStrong, [Next]_vars
  PROVE  LateStrong'
<1> USE DEF LateStrong
<1>1. CASE UNCHANGED vars
  BY <1>1 DEF vars, uiVars, history, scVars
<1>2. CASE UI
  <2>1. CASE SetterTest
    <3>1. ~overlap => late = 0
      BY <2>1 DEF SetterTest, BusyMeansInside
    <3> QED
      BY <2>1, <3>1 DEF SetterTest, scVars, history
  <2>2. CASE SetterWrite
    <3>1. ui = "setting" /\ ui' = "idle" /\ pc' = pc /\ overlap' = overlap
      BY <2>2 DEF SetterWrite
    <3>2. ~overlap => late' <= 1
      BY <2>2, <3>1 DEF SetterWrite, CountLate
    <3>3. (\A t \in Threads : pc'[t] \notin Inside) => late' = 0
      BY <2>2 DEF SetterWrite, CountLate
    <3> QED
      BY <3>1, <3>2, <3>3
  <2>3. CASE WaitTimeout
    <3>1. ui' # "setting" /\ overlap' = overlap
      BY <2>3, TimeoutKills DEF WaitTimeout, Waiting, AfterWait
    <3>2. late' \in {0, late} /\ ((\A t \in Threads : pc'[t] \notin Inside) => late' = 0)
      BY <2>3 DEF WaitTimeout, CountLate
    <3> QED
      BY <3>1, <3>2
  <2>4. CASE ui' # "setting" /\ late' = late
    <3>1. CASE Quiet
      BY <2>4, <3>1 DEF Quiet
    <3>2. ASSUME NEW t \in Threads, Started(t)
          PROVE  LateStrong'
      <4>1. \A u \in Threads : pc'[u] \in Inside <=> pc[u] \in Inside
        BY <3>2 DEF Started, Goto, Inside, TypeOK, scTypeOK
      <4> QED
        BY <2>4, <3>2, <4>1 DEF Started
    <3> QED
      BY <1>2, <2>3, <2>4, <3>1, <3>2, UICases
  <2> QED
    BY <1>2, <2>1, <2>2, <2>3, <2>4, UILate
<1>3. ASSUME NEW t \in Threads, Check(t)
      PROVE  LateStrong'
  <2>1. late' \in {0, late} /\ ((\A u \in Threads : pc'[u] \notin Inside) => late' = 0)
    BY <1>3 DEF Check, CountLate
  <2> QED
    BY <1>3, <2>1, OneMoves
<1>4. ASSUME NEW p \in Procs, Child(p)
      PROVE  LateStrong'
  BY <1>4 DEF Child, ChildExit, uiVars, history
<1> QED
  BY <1>1, <1>2, <1>3, <1>4 DEF Next

-----------------------------------------------------------------------------
(* The invariant and what follows from it.                                 *)

LEMMA InitIInv == Init => IInv
<1> SUFFICES ASSUME Init PROVE IInv
  OBVIOUS
<1>1. TypeOK
  BY InitType
<1>2. SingleLive /\ NoKillLeft /\ BusyMeansInside
  BY DEF Init, scInit, SingleLive, NoKillLeft, BusyMeansInside, Inside
<1>3. CounterStrong /\ StatusStrong
  BY DEF Init, scInit, CounterStrong, CounterInv, StatusStrong
<1>4. HandleValid /\ ProcessOwned /\ LateStrong
  BY DEF Init, scInit, HandleValid, ProcessOwned, Holding, LateStrong
<1> QED
  BY <1>1, <1>2, <1>3, <1>4 DEF IInv

LEMMA IInvStep ==
  ASSUME IInv, [Next]_vars
  PROVE  IInv'
BY TypeStep, SingleLiveStep, NoKillLeftStep, BusyMeansInsideStep, CounterStrongStep,
   HandleValidStep, ProcessOwnedStep, StatusStrongStep, LateStrongStep DEF IInv

\* IInv holds in every state, for any number of threads and processes.
THEOREM Invariance == Spec => []IInv
<1>1. Init => IInv
  BY InitIInv
<1>2. IInv /\ [Next]_vars => IInv'
  BY IInvStep
<1> QED
  BY <1>1, <1>2, PTL DEF Spec

\* The monitor's counter is a faithful account of the pings, for every Limit of at least 2:
\* a server is restarted after at most Limit misses in a row and never for fewer than
\* Limit - 1 misses of its own process without an error.
THEOREM CounterCorrect == Spec => []CounterInv
<1>1. IInv => CounterInv
  BY DEF IInv, CounterStrong
<1> QED
  BY <1>1, Invariance, PTL

\* The status on display is UP/OK exactly while no miss is left to pay back, and
\* Down/Stopped whenever the server is inactive.
THEOREM StatusCorrect == Spec => []StatusTruth
<1>1. IInv => StatusTruth
  BY DEF IInv, StatusStrong, StatusTruth
<1> QED
  BY <1>1, Invariance, PTL

\* busy is set with nobody inside start() only after TerminateThread, and clear with
\* somebody inside only after a thread was doubled.
THEOREM BusyCorrect == Spec => []BusyMeansInside
<1>1. IInv => BusyMeansInside
  BY DEF IInv
<1> QED
  BY <1>1, Invariance, PTL

\* No spawned process runs, and no handle of one stays open, without the thread that
\* looks after it.
THEOREM ProcessesCorrect == Spec => []ProcessOwned
<1>1. IInv => ProcessOwned
  BY DEF IInv
<1> QED
  BY <1>1, Invariance, PTL

\* endProcess and GetExitCodeProcess are only given handles that are open.
THEOREM HandlesCorrect == Spec => []HandleValid
<1>1. IInv => HandleValid
  BY DEF IInv
<1> QED
  BY <1>1, Invariance, PTL

\* A monitor that is alone meets at most one setting that changes under it, however the
\* setters' tests and writes fall between the steps of starting, stopping and restarting.
THEOREM OneLateCorrect == Spec => []OneLateSetting
<1>1. IInv => OneLateSetting
  BY DEF IInv, LateStrong, OneLateSetting
<1> QED
  BY <1>1, Invariance, PTL
-----------------------------------------------------------------------------
(* A bad executable.                                                       *)

\* Once the executable was found bad, the thread that found it is on its way out, to its
\* message box or behind it; the start of the program with /startup came before that.
RefusedOut ==
  /\ ui = "startup" => ~refused /\ \A t \in Threads : pc[t] = "none"
  /\ refused /\ ~overlap =>
       \A t \in Threads : pc[t] = "none" \/ (pc[t] \in {"unwind", "msgbox"} /\ exc[t] = "path")

\* Nobody starts a thread without forgetting the refusal, but for the first start and
\* for a click on Start that finds the server active, which starts none.
LEMMA UIRefused ==
  ASSUME TypeOK, UI
  PROVE  /\ ui' # "startup"
         /\ refused' => refused
         /\ (\E t \in Threads : Started(t)) => ~refused' \/ ui = "startup" \/ UNCHANGED pc
<1> USE DEF uiVars, history, TypeOK
<1>1. CASE OnBnClickedStart \/ OnStartAllServers \/ TimerStart
  BY <1>1 DEF OnBnClickedStart, OnStartAllServers, TimerStart, startServer
<1>2. CASE NapOver \/ UpdateAllViews
  BY <1>2 DEF NapOver, UpdateAllViews, scVars
<1>3. CASE OnBnClickedStop \/ TimerStop
  BY <1>3 DEF OnBnClickedStop, TimerStop, stopServer
<1>4. CASE WaitSignalled \/ WaitFailed
  BY <1>4 DEF WaitSignalled, WaitFailed, scVars, Waiting, AfterWait
<1>5. CASE WaitTimeout
  <2>1. ui' # "startup" /\ refused' = refused
    BY <1>5 DEF WaitTimeout, Waiting, AfterWait
  <2>2. \A t \in Threads : pc[t] = "none" => pc'[t] = "none"
    BY <1>5, TimeoutKills
  <2>3. \A t \in Threads : Started(t) => pc[t] = "none" /\ pc'[t] = "entry"
    BY DEF Started, Goto, scTypeOK
  <2> QED
    BY <2>1, <2>2, <2>3
<1>6. CASE SetterTest \/ SetterWrite
  BY <1>6 DEF SetterTest, SetterWrite, scVars
<1>7. CASE OnBnClickedTimecontrol \/ OnCloseAsk \/ OnCloseCancel
  BY <1>7 DEF OnBnClickedTimecontrol, OnCloseAsk, OnCloseCancel, scVars
<1>8. ASSUME NEW dontStop \in BOOLEAN, stopAllServers(dontStop)
      PROVE  ui' # "startup" /\ UNCHANGED <<refused, pc>>
  BY <1>8 DEF stopAllServers, stopServer
<1>9. CASE DestroyDocument
  BY <1>9 DEF DestroyDocument, stopServer
<1>10. CASE Exited
  BY <1>10 DEF Exited, vars, scVars
<1> QED
  BY <1>1, <1>2, <1>3, <1>4, <1>5, <1>6, <1>7, <1>8, <1>9, <1>10 DEF UI, WaitOver

LEMMA RefusedOutStep ==
  ASSUME TypeOK, SingleLive, RefusedOut, [Next]_vars
  PROVE  RefusedOut'
<1> USE DEF RefusedOut
<1>1. CASE UNCHANGED vars
  BY <1>1 DEF vars, uiVars, history, scVars, locals
<1>2. CASE UI
  <2>1. ui' # "startup" /\ (refused' => refused)
    BY <1>2, UIRefused
  <2>2. CASE Quiet
    BY <2>1, <2>2 DEF Quiet, locals
  <2>3. ASSUME NEW t \in Threads, Started(t)
        PROVE  RefusedOut'
    <3>1. ~refused' \/ UNCHANGED pc
      BY <1>2, <2>1, <2>3, UIRefused
    <3> QED
      BY <2>1, <2>3, <3>1 DEF Started, locals
  <2>4. CASE WaitTimeout
    BY <2>1, <2>4, TimeoutKills
  <2> QED
    BY <1>2, <2>2, <2>3, <2>4, UICases
<1>3. ASSUME NEW t \in Threads, Check(t)
      PROVE  RefusedOut'
  <2>1. ui # "startup" /\ ui' # "startup" /\ UNCHANGED overlap
    BY <1>3, OneMoves
  <2> SUFFICES ASSUME refused', ~overlap
               PROVE  \A u \in Threads : \/ pc'[u] = "none"
                                         \/ pc'[u] \in {"unwind", "msgbox"} /\ exc'[u] = "path"
    BY <2>1
  <2>2. \A u \in Threads \ {t} : pc'[u] = "none"
    BY <1>3, Alone
  <2>3. CASE refused
    <3>1. pc[t] \in {"unwind", "msgbox"} /\ exc[t] = "path"
      BY <1>3, <2>3, OneMoves
    <3>2. Unwind(t) \/ MsgBoxClosed(t)
      BY <1>3, <3>1, CheckCases DEF CheckEntry, CheckLoop, StartTest, StartClaim, CreateOk, CreateFail,
         StartupOver, WhileTest, PingReply, PingSilence, PingError, PingFault, EndForRestart,
         LeaveLoop, Release, Goto
    <3>3. pc'[t] = "none" \/ (pc'[t] = "msgbox" /\ exc'[t] = exc[t])
      BY <3>1, <3>2 DEF Unwind, MsgBoxClosed, Goto, TypeOK, scTypeOK
    <3> QED
      BY <2>2, <3>1, <3>3
  <2>4. CASE ~refused
    BY <1>3, <2>2, <2>4 DEF Check
  <2> QED
    BY <2>3, <2>4
<1>4. ASSUME NEW p \in Procs, Child(p)
      PROVE  RefusedOut'
  BY <1>4 DEF Child, ChildExit, uiVars, history, locals
<1> QED
  BY <1>1, <1>2, <1>3, <1>4 DEF Next

\* Once the executable was found bad there is no thread but the one on its way out through
\* its message box, and no process unless a killed monitor or the answer "leave running"
\* orphaned one, whatever box, stop, save or close comes between, until the user or the
\* timer starts the server.
THEOREM GivesUpCorrect == Spec => []GivesUp
<1>1. Init => RefusedOut
  BY DEF Init, scInit, RefusedOut
<1>2. IInv /\ RefusedOut /\ [Next]_vars => RefusedOut'
  BY RefusedOutStep DEF IInv
<1>3. IInv /\ RefusedOut => GivesUp
  <2> SUFFICES ASSUME IInv, RefusedOut, refused, ~overlap
               PROVE  /\ \A t \in Threads : pc[t] \in {"none", "unwind", "msgbox"}
                      /\ ~terminated /\ ~left => running = {} /\ open = {}
    BY DEF GivesUp
  <2>1. \A t \in Threads : pc[t] \in {"none", "unwind", "msgbox"}
    BY DEF RefusedOut
  <2>2. ~terminated /\ ~left => running \cup open = {}
    BY <2>1 DEF IInv, ProcessOwned, Holding
  <2> QED
    BY <2>1, <2>2
<1> QED
  BY <1>1, <1>2, <1>3, Invariance, PTL DEF Spec

-----------------------------------------------------------------------------
(***************************************************************************)
(* StartStop implements Supervisor, for any number of check threads and    *)
(* processes: the initial states map to Supervisor's, and every step to    *)
(* one of its steps or to none.                                            *)
(*                                                                         *)
(* From a doubled, killed or left-alone monitor on Supervisor promises     *)
(* nothing; before that at most one check thread lives (IInv), so that     *)
(* mode follows the place of this thread.                                  *)
(***************************************************************************)

Lost == overlap \/ terminated \/ left

\* A monitor on its way out was asked to stop, and the request stands.
StopStands == ~Lost => \A t \in Threads : pc[t] = "exit" => ~go

\* mode for a thread in place p, and for threads in the places of f.
PlaceMode(p) ==
  IF p = "create" THEN "starting"
  ELSE IF p \in Holding THEN "watching"
  ELSE IF p \in {"unwind", "msgbox"} THEN "error"
  ELSE "off"

ModeOf(f) ==
  IF \E t \in Threads : f[t] \in {"create"} THEN "starting"
  ELSE IF \E t \in Threads : f[t] \in Holding THEN "watching"
  ELSE IF \E t \in Threads : f[t] \in {"unwind", "msgbox"} THEN "error"
  ELSE "off"

AbstractStep == [Sup!Next]_<<Mode, Handled, go, posted = UpOk>>

-----------------------------------------------------------------------------
(* The mapping of a state.                                                 *)

LEMMA ModeIs ==
  /\ ~Lost => Mode = ModeOf(pc)
  /\ ~Lost' => Mode' = ModeOf(pc')
  /\ Lost' => Mode' = "lost"
BY DEF Lost, Mode, ModeOf

LEMMA ModeOfOne ==
  ASSUME NEW f, NEW t \in Threads, \A u \in Threads \ {t} : f[u] = "none"
  PROVE  ModeOf(f) = PlaceMode(f[t])
BY DEF ModeOf, PlaceMode, Holding

LEMMA ModeOfNone ==
  ASSUME NEW f, \A u \in Threads : f[u] = "none"
  PROVE  ModeOf(f) = "off"
BY DEF ModeOf, Holding

\* The handle of a watched process is the only one that is open.
LEMMA OneHandle ==
  ASSUME IInv, ~Lost
  PROVE  /\ \A t \in Threads : pc[t] \in Holding => open = {processhandle}
         /\ (\A t \in Threads : pc[t] \notin Holding) => open = {} /\ running = {}
         /\ \A p \in running : p = processhandle /\ open = {processhandle}
BY DEF IInv, Lost, ProcessOwned, HandleValid

-----------------------------------------------------------------------------
(* Steps of the user interface.                                            *)

LEMMA UIGo ==
  ASSUME TypeOK, UI
  PROVE  go' \in {FALSE, go}
<1> USE DEF uiVars, scVars, shared, TypeOK, scTypeOK
<1>1. CASE OnBnClickedStart \/ OnStartAllServers \/ TimerStart \/ NapOver
  BY <1>1 DEF OnBnClickedStart, OnStartAllServers, TimerStart, NapOver
<1>2. CASE OnBnClickedStop \/ TimerStop
  BY <1>2 DEF OnBnClickedStop, TimerStop, stopServer
<1>3. CASE WaitOver \/ UpdateAllViews \/ SetterTest \/ SetterWrite \/ OnBnClickedTimecontrol
  BY <1>3 DEF WaitOver, WaitSignalled, WaitTimeout, WaitFailed, UpdateAllViews,
              SetterTest, SetterWrite, OnBnClickedTimecontrol
<1>4. CASE OnCloseAsk \/ OnCloseCancel \/ DestroyDocument \/ Exited
  BY <1>4 DEF OnCloseAsk, OnCloseCancel, DestroyDocument, stopServer, Exited, vars
<1>5. ASSUME NEW dontStop \in BOOLEAN, stopAllServers(dontStop)
      PROVE  go' \in {FALSE, go}
  BY <1>5 DEF stopAllServers, stopServer
<1> QED
  BY <1>1, <1>2, <1>3, <1>4, <1>5 DEF UI

LEMMA LostStands ==
  ASSUME TypeOK, [Next]_vars, Lost
  PROVE  Lost'
<1> USE DEF Lost
<1>1. CASE Quiet
  BY <1>1 DEF Quiet
<1>2. ASSUME NEW t \in Threads, Started(t)
      PROVE  Lost'
  BY <1>2 DEF Started
<1>3. CASE WaitTimeout
  BY <1>3, TimeoutKills
<1>4. ASSUME NEW t \in Threads, Check(t)
      PROVE  Lost'
  BY <1>4, OneMoves
<1>5. ASSUME NEW p \in Procs, Child(p)
      PROVE  Lost'
  BY <1>5 DEF Child, history
<1> QED
  BY <1>1, <1>2, <1>3, <1>4, <1>5, NextCases

LEMMA StopStandsStep ==
  ASSUME IInv, StopStands, [Next]_vars
  PROVE  StopStands'
<1> SUFFICES ASSUME ~Lost', ~Lost, NEW u \in Threads, pc'[u] = "exit"
             PROVE  ~go'
  BY LostStands DEF StopStands, IInv
<1>0. TypeOK /\ SingleLive /\ ~overlap /\ (pc[u] = "exit" => ~go)
  BY DEF IInv, StopStands, Lost
<1>1. CASE UNCHANGED vars
  BY <1>0, <1>1 DEF vars, scVars, shared
<1>2. CASE UI
  <2>1. pc[u] = "exit"
    <3>1. CASE Quiet
      BY <3>1 DEF Quiet
    <3>2. ASSUME NEW t \in Threads, Started(t)
          PROVE  pc[u] = "exit"
      BY <1>0, <3>2 DEF Started, Goto, TypeOK, scTypeOK
    <3>3. CASE WaitTimeout
      BY <1>0, <3>3, TimeoutKills
    <3> QED
      BY <1>2, <3>1, <3>2, <3>3, UICases
  <2> QED
    BY <1>0, <1>2, <2>1, UIGo
<1>3. ASSUME NEW t \in Threads, Check(t)
      PROVE  ~go'
  <2>1. t = u /\ (pc[u] = "exit" => ~go)
    BY <1>0, <1>3, Alone
  <2> USE <1>0, <2>1 DEF TypeOK, scTypeOK, Goto, shared
  <2>2. CASE CheckEntry(t) \/ CheckLoop(t) \/ StartTest(t) \/ StartClaim(t)
    BY <2>2 DEF CheckEntry, CheckLoop, StartTest, StartClaim
  <2>3. CASE CreateOk(t) \/ CreateFail(t, "char") \/ CreateFail(t, "path")
    BY <2>3 DEF CreateOk, CreateFail
  <2>4. CASE StartupOver(t) \/ WhileTest(t)
    BY <2>4 DEF StartupOver, WhileTest
  <2>5. CASE PingReply(t) \/ PingSilence(t) \/ PingError(t) \/ PingFault(t)
    BY <2>5 DEF PingReply, PingSilence, PingError, PingFault
  <2>6. CASE EndForRestart(t) \/ LeaveLoop(t)
    BY <2>6 DEF EndForRestart, LeaveLoop
  <2>7. CASE Release(t) \/ Unwind(t) \/ MsgBoxClosed(t)
    BY <2>7 DEF Release, Unwind, MsgBoxClosed
  <2> QED
    BY <1>3, CheckCases, <2>2, <2>3, <2>4, <2>5, <2>6, <2>7
<1>4. ASSUME NEW p \in Procs, Child(p)
      PROVE  ~go'
  BY <1>0, <1>4 DEF Child, ChildExit, shared
<1> QED
  BY <1>1, <1>2, <1>3, <1>4 DEF Next

\* Before anything is lost, the user interface only asks, or confirms an error by
\* killing the thread that waits in its message box.
LEMMA UIMaps ==
  ASSUME IInv, UI, ~Lost, ~Lost'
  PROVE  AbstractStep
<1>0. TypeOK /\ SingleLive /\ ~overlap
  BY DEF IInv, Lost
<1>1. go' \in {FALSE, go}
  BY <1>0, UIGo
<1>2. UNCHANGED <<Handled, posted>>
  <2>1. CASE Quiet
    BY <2>1 DEF Quiet, process, Handled
  <2>2. ASSUME NEW t \in Threads, Started(t)
        PROVE  UNCHANGED <<Handled, posted>>
    BY <2>2 DEF Started, process, Handled
  <2>3. CASE WaitTimeout
    BY <1>0, <2>3, TimeoutKills DEF process, Handled
  <2> QED
    BY <2>1, <2>2, <2>3, UICases
<1>3. CASE UNCHANGED Mode
  BY <1>1, <1>2, <1>3 DEF AbstractStep, Sup!Next, Sup!Request
<1>4. CASE Quiet
  BY <1>3, <1>4, ModeIs DEF Quiet
<1>5. ASSUME NEW t \in Threads, Started(t)
      PROVE  AbstractStep
  <2>1. \A u \in Threads : pc[u] = "none"
    BY <1>5 DEF Started, Lost
  <2>2. pc'[t] = "entry" /\ \A u \in Threads \ {t} : pc'[u] = "none"
    BY <1>0, <1>5, <2>1 DEF Started, Goto, TypeOK, scTypeOK
  <2>3. ModeOf(pc) = "off"
    BY <2>1, ModeOfNone
  <2>4. ModeOf(pc') = "off"
    BY <2>2, ModeOfOne DEF PlaceMode, Holding
  <2> QED
    BY <1>3, <2>3, <2>4, ModeIs
<1>6. CASE WaitTimeout
  <2>1. /\ myHandle \in Threads /\ pc[myHandle] # "none"
        /\ pc[myHandle] \notin Inside
    BY <1>0, <1>6, TimeoutKills DEF WaitTimeout, Lost
  <2>2. \A u \in Threads : pc'[u] = "none"
    BY <1>0, <1>6, <2>1, TimeoutKills DEF SingleLive
  <2>3. \A u \in Threads \ {myHandle} : pc[u] = "none"
    BY <1>0, <2>1 DEF SingleLive
  <2>4. Mode' = "off"
    BY <2>2, ModeOfNone, ModeIs
  <2>5. Mode = PlaceMode(pc[myHandle])
    BY <2>1, <2>3, ModeOfOne, ModeIs
  <2>6. Mode \in {"off", "error"}
    BY <2>1, <2>5 DEF PlaceMode, Inside, Holding
  <2>7. go' = go
    BY <1>6 DEF WaitTimeout, shared
  <2> QED
    BY <1>2, <1>3, <2>4, <2>6, <2>7 DEF AbstractStep, Sup!Next, Sup!Confirm
<1> QED
  BY <1>4, <1>5, <1>6, UICases

-----------------------------------------------------------------------------
(* Steps of a check thread.                                                *)

LEMMA CheckMaps ==
  ASSUME IInv, StopStands, NEW t \in Threads, Check(t), ~Lost, ~Lost'
  PROVE  AbstractStep
<1>0. TypeOK /\ SingleLive /\ ~overlap /\ NoKillLeft /\ ~left /\ ~terminated
  BY DEF IInv, Lost
<1>1. \A u \in Threads \ {t} : pc[u] = "none" /\ pc'[u] = "none"
  BY <1>0, Alone
<1>2. Mode = PlaceMode(pc[t]) /\ Mode' = PlaceMode(pc'[t])
  BY <1>1, ModeOfOne, ModeIs
<1>3. /\ pc[t] \in Holding => open = {processhandle}
      /\ pc[t] \notin Holding => open = {} /\ running = {}
  BY <1>1, OneHandle DEF Holding
<1>4. pc \in [Threads -> Locations] /\ processhandle \in Procs \cup {NoProc}
  BY <1>0 DEF TypeOK, scTypeOK
<1> USE <1>4 DEF Goto, PlaceMode, Holding, AbstractStep, Sup!Next
<1>5. CASE CheckEntry(t)
  <2>1. Mode = "off" /\ Mode' = "off"
    BY <1>2, <1>5 DEF CheckEntry
  <2>2. go' = TRUE /\ UNCHANGED <<Handled, posted>>
    BY <1>5 DEF CheckEntry, process, Handled
  <2> QED
    BY <2>1, <2>2 DEF Sup!Request
<1>6. CASE CheckLoop(t)
  <2>1. Mode = "off" /\ Mode' = "off"
    BY <1>2, <1>6 DEF CheckLoop
  <2>2. UNCHANGED <<go, Handled, posted>>
    BY <1>6 DEF CheckLoop, shared, process, Handled
  <2> QED
    BY <2>1, <2>2
<1>7. CASE StartTest(t)
  <2>1. ~busy
    BY <1>0, <1>1, <1>7 DEF StartTest, IInv, BusyMeansInside, Inside
  <2>2. Mode = "off" /\ Mode' = "off"
    BY <1>2, <1>7, <2>1 DEF StartTest
  <2>3. UNCHANGED <<go, Handled, posted>>
    BY <1>7 DEF StartTest, shared, process, Handled
  <2> QED
    BY <2>2, <2>3
<1>8. CASE StartClaim(t)
  <2>1. Mode = "off" /\ Mode' = "starting"
    BY <1>2, <1>8 DEF StartClaim
  <2>2. UNCHANGED <<go, Handled>> /\ posted' # UpOk
    BY <1>8 DEF StartClaim, updateStatus, UpOk, process, Handled
  <2> QED
    BY <2>1, <2>2 DEF Sup!Start
<1>9. CASE CreateOk(t)
  <2>1. Mode = "starting" /\ Mode' = "watching"
    BY <1>2, <1>9 DEF CreateOk
  <2>2. open = {} /\ running = {}
    BY <1>3, <1>9 DEF CreateOk
  <2>3. open' # {} /\ open' = running'
    BY <1>9, <2>2 DEF CreateOk
  <2>4. Handled = "none" /\ Handled' = "running"
    BY <2>2, <2>3 DEF Handled
  <2>5. UNCHANGED <<go, posted>>
    BY <1>9 DEF CreateOk, shared
  <2> QED
    BY <2>1, <2>4, <2>5 DEF Sup!Spawn
<1>10. ASSUME NEW e, CreateFail(t, e)
       PROVE  AbstractStep
  <2>1. Mode = "starting" /\ Mode' = "error"
    BY <1>2, <1>10 DEF CreateFail
  <2>2. UNCHANGED <<go, Handled>> /\ posted' # UpOk
    BY <1>10 DEF CreateFail, updateStatus, UpOk, shared, process, Handled
  <2> QED
    BY <2>1, <2>2 DEF Sup!Fail
<1>11. CASE StartupOver(t) \/ PingReply(t) \/ PingSilence(t) \/ PingError(t)
  <2>1. Mode = "watching" /\ Mode' = "watching"
    BY <1>2, <1>11 DEF StartupOver, PingReply, PingSilence, PingError
  <2>2. UNCHANGED <<go, Handled>>
    BY <1>11 DEF StartupOver, PingReply, PingSilence, PingError, shared, process, Handled
  <2> QED
    BY <2>1, <2>2 DEF Sup!Report
<1>12. CASE WhileTest(t)
  <2>1. Mode = "watching" /\ Mode' = "watching"
    BY <1>2, <1>12 DEF WhileTest
  <2>2. UNCHANGED <<go, Handled, posted>>
    BY <1>12 DEF WhileTest, shared, process, Handled
  <2> QED
    BY <2>1, <2>2
<1>13. CASE PingFault(t)
  \* It would need a handle that is not open.
  BY <1>3, <1>13 DEF PingFault, PingOutcomes
<1>14. ASSUME EndForRestart(t) \/ LeaveLoop(t)
       PROVE  Handled' = "none" /\ posted' # UpOk /\ go' = go
  <2>1. endProcess /\ posted' # UpOk /\ go' = go
    BY <1>0, <1>14 DEF EndForRestart, LeaveLoop, NoKillLeft, updateStatus, UpOk, shared
  <2>2. open' = {}
    BY <1>3, <1>14, <2>1 DEF endProcess, EndForRestart, LeaveLoop
  <2> QED
    BY <2>1, <2>2 DEF Handled
<1>15. CASE EndForRestart(t)
  <2>1. Mode = "watching" /\ Mode' = "starting"
    BY <1>2, <1>15 DEF EndForRestart
  <2> QED
    BY <1>14, <1>15, <2>1 DEF Sup!Replace
<1>16. CASE LeaveLoop(t)
  <2>1. Mode = "watching" /\ Mode' = "off" /\ ~go
    BY <1>2, <1>16 DEF LeaveLoop, StopStands
  <2> QED
    BY <1>14, <1>16, <2>1 DEF Sup!Stop
<1>17. CASE Release(t)
  <2>1. Mode = "off" /\ Mode' = "off"
    BY <1>2, <1>17 DEF Release
  <2>2. UNCHANGED <<go, Handled, posted>>
    BY <1>17 DEF Release, process, Handled
  <2> QED
    BY <2>1, <2>2
<1>18. CASE Unwind(t)
  <2>1. Mode = "error" /\ Mode' = "error"
    BY <1>2, <1>18 DEF Unwind
  <2>2. UNCHANGED <<go, Handled, posted>>
    BY <1>18 DEF Unwind, process, Handled
  <2> QED
    BY <2>1, <2>2
<1>19. CASE MsgBoxClosed(t)
  <2>1. Mode = "error" /\ Mode' = "off"
    BY <1>2, <1>19 DEF MsgBoxClosed
  <2>2. UNCHANGED <<go, Handled, posted>>
    BY <1>19 DEF MsgBoxClosed, shared, process, Handled
  <2> QED
    BY <2>1, <2>2 DEF Sup!Confirm
<1> QED
  BY CheckCases, <1>5, <1>6, <1>7, <1>8, <1>9, <1>10, <1>11, <1>12, <1>13, <1>15, <1>16,
     <1>17, <1>18, <1>19

-----------------------------------------------------------------------------
(* The refinement.                                                         *)

LEMMA StepMaps ==
  ASSUME IInv, StopStands, [Next]_vars
  PROVE  AbstractStep
<1>1. CASE Lost'
  BY <1>1, ModeIs DEF AbstractStep, Sup!Next, Sup!Lose
<1>2. CASE ~Lost'
  <2>1. ~Lost
    BY <1>2, LostStands DEF IInv
  <2>2. CASE UNCHANGED vars
    <3>1. UNCHANGED <<Mode, Handled, go, posted>>
      BY <2>2 DEF Mode, Handled, vars, scVars, shared, process, history
    <3> QED
      BY <3>1 DEF AbstractStep
  <2>3. ASSUME NEW p \in Procs, Child(p)
        PROVE  AbstractStep
    <3>1. UNCHANGED <<Mode, go, posted>>
      BY <2>3 DEF Child, ChildExit, Mode, shared, history
    <3>2. p \in running /\ running' = running \ {p} /\ open' = open
      BY <2>3 DEF Child, ChildExit
    <3>3. open = {p} /\ p \in running
      BY <2>1, <3>2, OneHandle
    <3>4. Handled = "running" /\ Handled' = "exited"
      BY <3>2, <3>3 DEF Handled
    <3> QED
      BY <3>1, <3>4 DEF AbstractStep, Sup!Next, Sup!Exit
  <2> QED
    BY <1>2, <2>1, <2>2, <2>3, UIMaps, CheckMaps DEF Next
<1> QED
  BY <1>1, <1>2

LEMMA InitMaps == Init => Sup!Init /\ StopStands
<1> SUFFICES ASSUME Init PROVE Sup!Init /\ StopStands
  OBVIOUS
<1>1. Mode = "off"
  BY DEF Init, scInit, Mode, Holding
<1> QED
  BY <1>1 DEF Init, scInit, Sup!Init, Handled, UpOk, StopStands

\* start, stop and monitoring, with all their threads, implement one supervisor of one
\* process (startServer, stopServer, check and start()), until the monitor is doubled,
\* terminated or told to leave the process.
THEOREM Supervised == Spec => Supervises
<1>1. Init => Sup!Init /\ StopStands
  BY InitMaps
<1>2. IInv /\ StopStands /\ [Next]_vars => StopStands'
  BY StopStandsStep
<1>3. IInv /\ StopStands /\ [Next]_vars => AbstractStep
  BY StepMaps
<1> QED
  BY <1>1, <1>2, <1>3, Invariance, PTL DEF Spec, Supervises, Sup!Spec, AbstractStep
=============================================================================
