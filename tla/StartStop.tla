----------------------------- MODULE StartStop -----------------------------
(***************************************************************************)
(* The user-interface thread against the check threads of one server:      *)
(* CServerDoc::startServer, stopServer and stopAllServers, and the         *)
(* handlers of CServerView, CDetailView and CMainFrame that call them.     *)
(*                                                                         *)
(* The handlers run on one thread, so a handler that waits (Sleep,         *)
(* WaitForSingleObject, a message box) holds every other handler back;     *)
(* ui says what it waits for.  The close question is a modal box, whose    *)
(* message loop still delivers WM_TIMER: asking is separate from ui.       *)
(***************************************************************************)
EXTENDS ServerControl

CONSTANT NoThread   \* the handle of no thread: startServer was never called

ASSUME NoThreadAssumption == NoThread \notin Threads

VARIABLES
  ui,           \* what the user-interface thread is doing
  asking,       \* OnClose is showing "Shut down servers?"
  myHandle,     \* the thread made by the latest startServer
  handleOpen,   \* stopServer has not closed myHandle yet
  shownActive,  \* isActive() as UpdateAllViews last saw it: it enables the buttons
  timecontrol,  \* this server is started and stopped by OnTimer
  overlap,      \* history: a thread was started while another was still alive
  terminated,   \* history: TerminateThread hit a thread that was Inside
  left,         \* history: the user answered No to "Shut down servers?"
  refused,      \* history: the executable was found bad; no user or timer has started it since
  late          \* history: settings written under the present monitor, capped at 2

uiVars == <<ui, asking, myHandle, handleOpen, shownActive, timecontrol>>
history == <<overlap, terminated, left, refused, late>>
vars == <<scVars, uiVars, history>>

\* What ui becomes when stopServer returns to the handler that called it.
AfterWait ==
  [wait |-> "idle", timerwait |-> "nap", closing |-> "closed", destroying |-> "exited"]

Waiting == DOMAIN AfterWait

TypeOK ==
  /\ scTypeOK
  /\ ui \in {"startup", "idle", "nap", "setting", "closed", "exited"} \cup Waiting
  /\ asking \in BOOLEAN
  /\ myHandle \in Threads \cup {NoThread}
  /\ handleOpen \in BOOLEAN /\ (handleOpen => myHandle \in Threads)
  /\ shownActive \in BOOLEAN /\ timecontrol \in BOOLEAN
  /\ overlap \in BOOLEAN /\ terminated \in BOOLEAN
  /\ left \in BOOLEAN /\ refused \in BOOLEAN
  /\ late \in 0..2

\* "startup" is a start with /startup on the command line.
Init ==
  /\ scInit
  /\ ui \in {"startup", "idle"}
  /\ asking = FALSE
  /\ myHandle = NoThread /\ handleOpen = FALSE
  /\ shownActive = FALSE
  /\ timecontrol \in BOOLEAN
  /\ overlap = FALSE /\ terminated = FALSE /\ left = FALSE /\ refused = FALSE
  /\ late = 0

\* The present monitor has met n settings written under it; a monitor that is gone
\* takes the count with it.
CountLate(n) == late' = IF \E t \in Threads : pc'[t] \in Inside THEN n ELSE 0

-----------------------------------------------------------------------------
\* startServer(): nothing when active, else CreateThread(check) and setHandle.
startServer ==
  IF busy
  THEN UNCHANGED <<pc, myHandle, handleOpen, shownActive, overlap>>
  ELSE \E t \in Threads :
         /\ Goto(t, "none", "entry")
         /\ myHandle' = t /\ handleOpen' = TRUE
         /\ shownActive' = FALSE
         /\ overlap' = (overlap \/ \E u \in Threads : pc[u] # "none")

\* The Start button; the handler sleeps a while before it refreshes the views.
OnBnClickedStart ==
  /\ ui = "idle" /\ ~asking /\ ~shownActive
  /\ startServer
  /\ ui' = "nap" /\ refused' = (refused /\ busy)
  /\ UNCHANGED <<shared, process, locals, posted, asking, timecontrol, terminated, left, late>>

\* InitInstance sends ID_START_ALL_SERVERS before any other handler runs.
OnStartAllServers ==
  /\ ui = "startup"
  /\ startServer
  /\ ui' = "idle"
  /\ UNCHANGED <<shared, process, locals, posted, asking, timecontrol, terminated, left,
                 refused, late>>

\* OnTimer inside the start-stop window of a server that is not active.
TimerStart ==
  /\ ui = "idle" /\ timecontrol /\ ~busy
  /\ startServer
  /\ ui' = "nap" /\ refused' = FALSE
  /\ UNCHANGED <<shared, process, locals, posted, asking, timecontrol, terminated, left, late>>

\* Sleep(250), then UpdateAllViews.
NapOver ==
  /\ ui = "nap" /\ ui' = "idle"
  /\ shownActive' = busy
  /\ UNCHANGED <<scVars, asking, myHandle, handleOpen, timecontrol, history>>

\* stopServer() of an active server, up to WaitForSingleObject.
stopServer(waiting) ==
  /\ busy
  /\ go' = FALSE
  /\ ui' = waiting

OnBnClickedStop ==
  /\ ui = "idle" /\ ~asking /\ shownActive
  /\ stopServer("wait")
  /\ UNCHANGED <<busy, no_kill, ping_type, process, locals, posted, pc, asking, myHandle,
                 handleOpen, shownActive, timecontrol, history>>

\* OnTimer outside the window of an active server.
TimerStop ==
  /\ ui = "idle" /\ timecontrol
  /\ stopServer("timerwait")
  /\ UNCHANGED <<busy, no_kill, ping_type, process, locals, posted, pc, asking, myHandle,
                 handleOpen, shownActive, timecontrol, history>>

\* WAIT_OBJECT_0: the thread has exited.
WaitSignalled ==
  /\ ui \in Waiting /\ handleOpen /\ pc[myHandle] = "none"
  /\ handleOpen' = FALSE
  /\ ui' = AfterWait[ui] /\ shownActive' = busy
  /\ UNCHANGED <<scVars, asking, myHandle, timecontrol, history>>

\* WAIT_TIMEOUT: TerminateThread, which runs no handler of the thread: busy, the
\* handles and the process stay as they are.
WaitTimeout ==
  /\ ui \in Waiting /\ handleOpen
  /\ pc[myHandle] # "none" /\ pc' = [pc EXCEPT ![myHandle] = "none"]
  /\ terminated' = (terminated \/ pc[myHandle] \in Inside)
  /\ handleOpen' = FALSE
  /\ ui' = AfterWait[ui] /\ shownActive' = busy
  /\ ForgetLocals(myHandle) /\ exc' = [exc EXCEPT ![myHandle] = "none"]
  /\ CountLate(late)
  /\ UNCHANGED <<shared, process, posted, asking, myHandle, timecontrol, overlap, left,
                 refused>>

\* WAIT_FAILED: an earlier stopServer closed the handle.
WaitFailed ==
  /\ ui \in Waiting /\ ~handleOpen
  /\ ui' = AfterWait[ui] /\ shownActive' = busy
  /\ UNCHANGED <<scVars, asking, myHandle, handleOpen, timecontrol, history>>

\* Every other handler (a click on the list, a priority change) ends in UpdateAllViews.
UpdateAllViews ==
  /\ ui = "idle" /\ shownActive' = busy
  /\ UNCHANGED <<scVars, ui, asking, myHandle, handleOpen, timecontrol, history>>

\* As SetterTest without the test.
SetterUntested ==
  /\ ui = "idle" /\ ~asking
  /\ ui' = "setting"
  /\ UNCHANGED <<scVars, asking, myHandle, handleOpen, shownActive, timecontrol, history>>

\* Save in the detail view calls the setters one after the other.  A setter throws when
\* the server is active (UpdateAllViews is the rest of that Save) and writes afterwards:
\* the test and the assignment are two accesses, and a check thread may claim between.
SetterTest ==
  /\ ui = "idle" /\ ~asking /\ ~busy
  /\ ui' = "setting"
  /\ UNCHANGED <<scVars, asking, myHandle, handleOpen, shownActive, timecontrol, history>>

SetterWrite ==
  /\ ui = "setting" /\ ui' = "idle"
  /\ ping_type' \in {"normal", "query"}
  /\ shownActive' = busy
  /\ UNCHANGED <<go, busy, no_kill, process, locals, posted, pc, asking, myHandle,
                 handleOpen, timecontrol, overlap, terminated, left, refused>>
  /\ CountLate(IF late < 2 THEN late + 1 ELSE late)

OnBnClickedTimecontrol ==
  /\ ui = "idle" /\ ~asking
  /\ timecontrol' = ~timecontrol /\ shownActive' = busy
  /\ UNCHANGED <<scVars, ui, asking, myHandle, handleOpen, history>>

\* OnClose asks only when runningServers() # 0.
OnCloseAsk ==
  /\ ui = "idle" /\ ~asking /\ busy
  /\ asking' = TRUE
  /\ UNCHANGED <<scVars, ui, myHandle, handleOpen, shownActive, timecontrol, history>>

OnCloseCancel ==
  /\ ui = "idle" /\ asking
  /\ asking' = FALSE
  /\ UNCHANGED <<scVars, ui, myHandle, handleOpen, shownActive, timecontrol, history>>

\* stopAllServers(dontStop) from OnClose, after the answer or with nothing to ask.
stopAllServers(dontStop) ==
  /\ ui = "idle" /\ (asking \/ (~busy /\ ~dontStop))
  /\ no_kill' = dontStop /\ left' = (left \/ dontStop)
  /\ asking' = FALSE
  /\ IF busy THEN stopServer("closing") ELSE ui' = "closed" /\ UNCHANGED go
  /\ UNCHANGED <<busy, ping_type, process, locals, posted, pc, myHandle, handleOpen,
                 shownActive, timecontrol, overlap, terminated, refused, late>>

\* ~CServerDoc: stopAllServers() again, with dontStop = false; then the server is
\* deleted, and the model ends: a thread still there would run on freed memory.
DestroyDocument ==
  /\ ui = "closed"
  /\ no_kill' = FALSE
  /\ IF busy THEN stopServer("destroying") ELSE ui' = "exited" /\ UNCHANGED go
  /\ UNCHANGED <<busy, ping_type, process, locals, posted, pc, asking, myHandle, handleOpen,
                 shownActive, timecontrol, history>>

Exited == ui = "exited" /\ UNCHANGED vars

-----------------------------------------------------------------------------
\* A thread step leaves the user interface alone; a refusal is remembered.
Check(t) ==
  /\ ui # "exited"
  /\ ThreadStep(t) \/ MsgBoxClosed(t)
  /\ refused' = (refused \/ (pc'[t] = "unwind" /\ exc'[t] = "path"))
  /\ CountLate(late)
  /\ UNCHANGED <<uiVars, overlap, terminated, left>>

Child(p) == ChildExit(p) /\ UNCHANGED <<uiVars, history>>

WaitOver == WaitSignalled \/ WaitTimeout \/ WaitFailed

UI ==
  \/ OnBnClickedStart \/ OnStartAllServers \/ TimerStart \/ NapOver
  \/ OnBnClickedStop \/ TimerStop \/ WaitOver
  \/ UpdateAllViews \/ SetterTest \/ SetterWrite \/ OnBnClickedTimecontrol
  \/ OnCloseAsk \/ OnCloseCancel \/ (\E dontStop \in BOOLEAN : stopAllServers(dontStop))
  \/ DestroyDocument \/ Exited

Next == UI \/ (\E t \in Threads : Check(t)) \/ (\E p \in Procs : Child(p))

\* The scheduler runs every ready thread, a Sleep ends, and a wait sees an exited
\* thread.  The user and the spawned process owe nothing, and a wait need not time
\* out: its limit is longer than the monitor takes when the settings are sensible.
Fairness ==
  /\ \A t \in Threads : WF_vars(ThreadStep(t) /\ Check(t))
  /\ WF_vars(NapOver) /\ WF_vars(WaitSignalled \/ WaitFailed)

Spec == Init /\ [][Next]_vars

FairSpec == Spec /\ Fairness

-----------------------------------------------------------------------------
\* The counter of the monitor loop (start(), Control.cpp) is a faithful account of
\* the pings: it never understates the misses in a row, so a server that stays
\* silent is restarted after at most Limit of them, and it never overstates the
\* misses by more than the one it starts with, so a process is restarted only
\* after an error or at least Limit - 1 unanswered pings of its own.
CounterInv ==
  \A t \in Threads :
    /\ pc[t] \in {"while", "ping"} =>
         /\ counter[t] < Limit
         /\ misses[t] <= counter[t]
         /\ counter[t] <= fails[t] + 1
    /\ pc[t] = "end" => exc[t] = "char" \/ fails[t] >= Limit - 1

\* The status last posted (updateStatus calls of start() and createProcess()) is
\* UP/OK exactly while the monitor has no miss left to pay back, and Down/Stopped
\* whenever the server is inactive: a server that failed a ping is not shown as OK,
\* one that recovered does not stay on No Reply, and a stopped one is never shown up.
StatusTruth ==
  ~overlap =>
    /\ \A t \in Threads :
         pc[t] = "while" =>
           (posted = UpOk <=> counter[t] = 0 \/ (counter[t] = 1 /\ fails[t] = 0))
    /\ ~terminated /\ ~left /\ ~busy => posted = <<"down", "stopped">>

\* busy, which startServer, stopServer and every setter trust, says whether a
\* thread is inside start() past the test: set with nobody there only after
\* TerminateThread, clear with somebody there only after a second thread was
\* started beside a live one.
BusyMeansInside ==
  LET occupied == \E t \in Threads : pc[t] \in Inside IN
  (busy => occupied \/ terminated) /\ (occupied => busy \/ overlap)

\* No spawned server is forgotten: a process that runs, or whose handles are open,
\* is the one behind processhandle and processid and has a thread looking after it,
\* whatever sequence of starts, stops, errors, crashes and restarts led here; only
\* the answer "leave running" and a killed or doubled monitor can orphan it.
ProcessOwned ==
  ~overlap /\ ~terminated /\ ~left =>
    \A p \in running \cup open :
      /\ p = processhandle /\ p = processid /\ p \in open
      /\ \E t \in Threads : pc[t] \in Holding

\* endProcess and GetExitCodeProcess are only ever given a handle that is open:
\* the handle the terminating branch leaves behind is overwritten before it is used.
HandleValid ==
  ~overlap => \A t \in Threads : pc[t] \in Holding => processhandle \in open

\* A monitor meets at most one setting that changes under it, by the setter that tested
\* busy (Control.h) before start() set it, whatever starts, stops, restarts and saves
\* follow, as long as busy can be trusted: every later Save finds the server active.
OneLateSetting == ~overlap => late <= 1

\* The monitor obeys a stop request: once stopServer waits for it, the server becomes
\* inactive without the help of the timeout, or its thread was killed or one of two.
StopCompletes == ui \in Waiting ~> (~busy \/ terminated \/ overlap)

\* A normal program that exits under a running monitor is started again, unless
\* the monitor is stopped or the game changed meanwhile, or the attempt ends in an error box.
CrashRecovery ==
  (\E t \in Threads : pc[t] \in {"while", "ping"})
     /\ ping_type = "normal" /\ processhandle \notin running
  ~> (\/ processhandle \in running \/ ~go \/ terminated \/ overlap
      \/ ping_type # "normal"
      \/ \E t \in Threads : pc[t] = "msgbox")

\* What Supervisor calls the places of a thread, the handles and the display.
Mode ==
  LET at(places) == \E t \in Threads : pc[t] \in places IN
  IF overlap \/ terminated \/ left THEN "lost"
  ELSE IF at({"create"}) THEN "starting"
  ELSE IF at(Holding) THEN "watching"
  ELSE IF at({"unwind", "msgbox"}) THEN "error"
  ELSE "off"

Handled == IF open = {} THEN "none" ELSE IF open \subseteq running THEN "running" ELSE "exited"

Sup == INSTANCE Supervisor
         WITH mode <- Mode, child <- Handled, wanted <- go, shown <- (posted = UpOk)

\* The start and stop code of three classes and two threads is one supervisor: a single
\* process at a time, replaced only when it is gone, none left behind by an error or a
\* stop, a stop request that no later step takes back, and no UP/OK without a process.
Supervises == Sup!Spec

\* start(): "Server is already being monitored" - no two threads ever look after a
\* process of this server at once.
OneMonitor ==
  \A t, u \in Threads : pc[t] \in Holding /\ pc[u] \in Holding => t = u

\* check(): "would be dumb trying to start a bad executable over and over again": whatever
\* box, stop, save or close comes between, the thread goes no further than its message box,
\* no other is there, and no process is, but for one that a killed monitor or the answer
\* "leave running" orphaned.  Only the user and the timer (every 30 seconds) start it again.
GivesUp ==
  refused /\ ~overlap =>
    /\ \A t \in Threads : pc[t] \in {"none", "unwind", "msgbox"}
    /\ ~terminated /\ ~left => running = {} /\ open = {}
=============================================================================
