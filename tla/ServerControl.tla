--------------------------- MODULE ServerControl ---------------------------
(***************************************************************************)
(* One ServerControl object (Control.h, Control.cpp): the fields its check *)
(* threads share, the operating-system processes it spawned, and the steps *)
(* of a check() thread (ServerDoc.cpp) running ServerControl::start().     *)
(*                                                                         *)
(* Nothing here is protected by a lock: every shared field is read and     *)
(* written by any check thread and by the user-interface thread (module    *)
(* StartStop).  An action is the code between two accesses that another    *)
(* thread can tell apart, so each action is named after the place a thread *)
(* is waiting at: a Sleep, a wait, a message box, a test of go or busy.    *)
(***************************************************************************)
EXTENDS Integers

CONSTANTS
  Threads,   \* slots for threads running check(); a slot is reused once its thread has exited
  Procs,     \* slots for spawned processes; reused once exited and closed
  NoProc,    \* the NULL handle, and process id 0
  Limit      \* start() restarts the server when counter > Limit; the code has 10

\* Limit = 1 would restart on the very first miss, because counter starts at 1.
ASSUME ConstantsAssumption ==
  /\ NoProc \notin Procs
  /\ Limit \in Nat /\ Limit >= 2

VARIABLES
  go,             \* *go : the monitor loop may continue
  busy,           \* isActive()
  no_kill,        \* leave the process running when the monitor stops
  ping_type,      \* "normal" for NORMAL_PROGRAM_INDEX, "query" for the game protocols
  processhandle,  \* never reset by the branch of endProcess that terminates
  processid,
  posted,         \* the pair passed to the latest updateStatus
  pc,             \* where each check thread is
  counter,        \* start()'s local counter
  exc,            \* what the thread threw last
  running,        \* processes the operating system still runs
  open,           \* processes whose handles this program has not closed
  fails,          \* history: unanswered pings since the process was created, capped at Limit
  misses          \* history: unanswered pings in a row

shared == <<go, busy, no_kill, ping_type>>
process == <<processhandle, processid, running, open>>
locals == <<counter, exc, fails, misses>>
scVars == <<shared, process, locals, posted, pc>>

UP == {"up", "down", "unknown"}
STATUS == {"ok", "start", "no_reply", "stop", "stopped"}
UpOk == <<"up", "ok">>

Locations == {"none", "entry", "loop", "enter", "claim", "create", "startup", "while",
              "ping", "end", "exit", "release", "unwind", "msgbox"}

\* The thread is past the test of busy and has yet to clear busy on its way out.
Inside == {"create", "startup", "while", "ping", "end", "exit", "release", "unwind"}

\* The thread has a process of its own to look after.
Holding == {"startup", "while", "ping", "end", "exit"}

Exceptions == {"none", "char", "path", "normal"}

scTypeOK ==
  /\ go \in BOOLEAN /\ busy \in BOOLEAN /\ no_kill \in BOOLEAN
  /\ ping_type \in {"normal", "query"}
  /\ processhandle \in Procs \cup {NoProc}
  /\ processid \in Procs \cup {NoProc}
  /\ posted \in UP \X STATUS
  /\ pc \in [Threads -> Locations]
  /\ counter \in [Threads -> Nat]
  /\ exc \in [Threads -> Exceptions]
  /\ running \subseteq Procs /\ open \subseteq Procs
  /\ fails \in [Threads -> 0..Limit]
  /\ misses \in [Threads -> Nat]

\* The constructors, and the "Down" / "Stopped" that OnInitialUpdate shows.
scInit ==
  /\ go = FALSE /\ busy = FALSE /\ no_kill = FALSE
  /\ ping_type \in {"normal", "query"}
  /\ processhandle = NoProc /\ processid = NoProc
  /\ posted = <<"down", "stopped">>
  /\ pc = [t \in Threads |-> "none"]
  /\ counter = [t \in Threads |-> 0]
  /\ exc = [t \in Threads |-> "none"]
  /\ running = {} /\ open = {}
  /\ fails = [t \in Threads |-> 0]
  /\ misses = [t \in Threads |-> 0]

Goto(t, from, to) == pc[t] = from /\ pc' = [pc EXCEPT ![t] = to]

updateStatus(up, status) == posted' = <<up, status>>

\* start()'s frame is gone: its locals are forgotten.
ForgetLocals(t) ==
  /\ counter' = [counter EXCEPT ![t] = 0]
  /\ fails' = [fails EXCEPT ![t] = 0]
  /\ misses' = [misses EXCEPT ![t] = 0]

-----------------------------------------------------------------------------
\* check(): *control = true, then while (*control) start().
CheckEntry(t) ==
  /\ Goto(t, "entry", "loop")
  /\ go' = TRUE
  /\ UNCHANGED <<busy, no_kill, ping_type, process, locals, posted>>

CheckLoop(t) ==
  /\ Goto(t, "loop", IF go THEN "enter" ELSE "none")
  /\ UNCHANGED <<shared, process, locals, posted>>

\* start(): if (busy) throw; the test and the assignment are two accesses.
StartTest(t) ==
  /\ Goto(t, "enter", IF busy THEN "unwind" ELSE "claim")
  /\ exc' = [exc EXCEPT ![t] = IF busy THEN "char" ELSE @]
  /\ UNCHANGED <<shared, process, counter, fails, misses, posted>>

StartClaim(t) ==
  /\ Goto(t, "claim", "create")
  /\ busy' = TRUE
  /\ counter' = [counter EXCEPT ![t] = 1]
  /\ updateStatus("unknown", "start")
  /\ UNCHANGED <<go, no_kill, ping_type, process, exc, fails, misses>>

\* createProcess(): CreateProcess succeeded; the handles overwrite the old ones.
CreateOk(t) ==
  /\ Goto(t, "create", "startup")
  /\ \E p \in Procs \ (running \cup open) :
       /\ processhandle' = p /\ processid' = p
       /\ running' = running \cup {p} /\ open' = open \cup {p}
  /\ UNCHANGED <<shared, locals, posted>>

\* createProcess(): error 2 or 3 (the executable or its path), or any other error.
CreateFail(t, e) ==
  /\ Goto(t, "create", "unwind")
  /\ updateStatus("down", "stopped")
  /\ exc' = [exc EXCEPT ![t] = e]
  /\ UNCHANGED <<shared, process, counter, fails, misses>>

\* The start-up wait is over (or go was cleared) and start() reports the server up.
StartupOver(t) ==
  /\ Goto(t, "startup", "while")
  /\ updateStatus("up", "ok")
  /\ exc' = [exc EXCEPT ![t] = "none"]
  /\ fails' = [fails EXCEPT ![t] = 0]
  /\ misses' = [misses EXCEPT ![t] = 0]
  /\ UNCHANGED <<shared, process, counter>>

\* As WhileTest in a while (true).
WhileForever(t) ==
  /\ Goto(t, "while", "ping")
  /\ UNCHANGED <<shared, process, locals, posted>>

\* while (*go), and the Sleep(time_pause) before the ping.
WhileTest(t) ==
  /\ Goto(t, "while", IF go THEN "ping" ELSE "exit")
  /\ UNCHANGED <<shared, process, locals, posted>>

\* As PingOutcomes with an exit code other than STILL_ACTIVE taken for a reply.
PingOutcomesBlind ==
  IF ping_type = "query" THEN {"reply", "silence", "error"}
  ELSE IF processhandle \notin open THEN {"fault"} ELSE {"reply"}

\* What pingOnce() can do: a game query can meet any answer, silence or socket
\* error; for a normal program the process handle decides.
PingOutcomes ==
  IF ping_type = "query" THEN {"reply", "silence", "error"}
  ELSE IF processhandle \notin open THEN {"fault"}
  ELSE IF processhandle \in running THEN {"reply"} ELSE {"error"}

\* As PingReply without the test counter > 0.
PingReplyUntested(t) ==
  /\ Goto(t, "ping", "while")
  /\ "reply" \in PingOutcomes
  /\ counter' = [counter EXCEPT ![t] = @ - 1]
  /\ posted' = IF counter[t] = 1 THEN UpOk ELSE posted
  /\ misses' = [misses EXCEPT ![t] = 0]
  /\ UNCHANGED <<shared, process, exc, fails>>

\* As PingReply with the counter lowered before it is compared with 1.
PingReplyLate(t) ==
  /\ Goto(t, "ping", "while")
  /\ "reply" \in PingOutcomes
  /\ counter' = [counter EXCEPT ![t] = IF @ > 0 THEN @ - 1 ELSE @]
  /\ posted' = IF counter'[t] = 1 THEN UpOk ELSE posted
  /\ misses' = [misses EXCEPT ![t] = 0]
  /\ UNCHANGED <<shared, process, exc, fails>>

\* A reply pays one miss back; the last one paid back reports the server up again.
PingReply(t) ==
  /\ Goto(t, "ping", "while")
  /\ "reply" \in PingOutcomes
  /\ counter' = [counter EXCEPT ![t] = IF @ > 0 THEN @ - 1 ELSE @]
  /\ posted' = IF counter[t] = 1 THEN UpOk ELSE posted
  /\ misses' = [misses EXCEPT ![t] = 0]
  /\ UNCHANGED <<shared, process, exc, fails>>

\* As PingSilence without the subtraction at the end of the loop.
PingSilenceDouble(t) ==
  LET missed == counter[t] + 2 IN
  /\ Goto(t, "ping", IF missed > Limit THEN "end" ELSE "while")
  /\ "silence" \in PingOutcomes
  /\ updateStatus("unknown", "no_reply")
  /\ counter' = [counter EXCEPT ![t] = missed]
  /\ fails' = [fails EXCEPT ![t] = IF @ < Limit THEN @ + 1 ELSE @]
  /\ misses' = [misses EXCEPT ![t] = @ + 1]
  /\ UNCHANGED <<shared, process, exc>>

\* A miss adds two and the end of the loop takes one back, unless the limit is passed.
PingSilence(t) ==
  LET missed == counter[t] + 2 IN
  /\ Goto(t, "ping", IF missed > Limit THEN "end" ELSE "while")
  /\ "silence" \in PingOutcomes
  /\ updateStatus("unknown", "no_reply")
  /\ counter' = [counter EXCEPT ![t] = IF missed > Limit THEN missed ELSE missed - 1]
  /\ fails' = [fails EXCEPT ![t] = IF @ < Limit THEN @ + 1 ELSE @]
  /\ misses' = [misses EXCEPT ![t] = @ + 1]
  /\ UNCHANGED <<shared, process, exc>>

\* As PingError with the exception not caught in the loop.
PingErrorThrows(t) ==
  /\ Goto(t, "ping", "unwind")
  /\ "error" \in PingOutcomes
  /\ updateStatus("down", "no_reply")
  /\ exc' = [exc EXCEPT ![t] = "char"]
  /\ UNCHANGED <<shared, process, counter, fails, misses>>

\* catch (char*): respawn immediately.
PingError(t) ==
  /\ Goto(t, "ping", "end")
  /\ "error" \in PingOutcomes
  /\ updateStatus("down", "no_reply")
  /\ counter' = [counter EXCEPT ![t] = Limit + 1]
  /\ exc' = [exc EXCEPT ![t] = "char"]
  /\ UNCHANGED <<shared, process, fails, misses>>

\* NORMAL_PROGRAM_ERROR is not a char*: it leaves start() with the process as it is.
PingFault(t) ==
  /\ Goto(t, "ping", "unwind")
  /\ "fault" \in PingOutcomes
  /\ exc' = [exc EXCEPT ![t] = "normal"]
  /\ UNCHANGED <<shared, process, counter, fails, misses, posted>>

\* endProcess(): terminate if still active, close; only the other branches forget the handle.
endProcess ==
  /\ processid' = NoProc
  /\ processhandle' = IF processhandle \in open \cap running THEN processhandle ELSE NoProc
  /\ running' = running \ ({processhandle} \cap open)
  /\ open' = open \ {processhandle}

\* As EndForRestart with the call of endProcess left out.
RestartBesideOld(t) ==
  /\ Goto(t, "end", "create")
  /\ updateStatus("unknown", "start")
  /\ counter' = [counter EXCEPT ![t] = 0]
  /\ UNCHANGED <<shared, process, exc, fails, misses>>

\* As EndForRestart with the call of createProcess left out.
RestartNothing(t) ==
  /\ Goto(t, "end", "startup")
  /\ endProcess
  /\ updateStatus("unknown", "start")
  /\ counter' = [counter EXCEPT ![t] = 0]
  /\ UNCHANGED <<shared, exc, fails, misses>>

\* counter > 10: stop the process and start another.
EndForRestart(t) ==
  /\ Goto(t, "end", "create")
  /\ endProcess
  /\ updateStatus("unknown", "start")
  /\ counter' = [counter EXCEPT ![t] = 0]
  /\ UNCHANGED <<shared, exc, fails, misses>>

\* After the loop: if (!no_kill) stop the process.
LeaveLoop(t) ==
  /\ Goto(t, "exit", "release")
  /\ IF no_kill THEN UNCHANGED <<process, posted>>
                ELSE endProcess /\ updateStatus("down", "stopped")
  /\ UNCHANGED <<shared, locals>>

\* As Release with busy left set.
ReleaseBusy(t) ==
  /\ Goto(t, "release", "loop")
  /\ ForgetLocals(t)
  /\ UNCHANGED <<shared, process, exc, posted>>

\* start() returns.
Release(t) ==
  /\ Goto(t, "release", "loop")
  /\ busy' = FALSE /\ ForgetLocals(t)
  /\ UNCHANGED <<go, no_kill, ping_type, process, exc, posted>>

\* catch (...) { busy = false; throw; } and check()'s handlers open a message box.
Unwind(t) ==
  /\ Goto(t, "unwind", "msgbox")
  /\ busy' = FALSE /\ ForgetLocals(t)
  /\ UNCHANGED <<go, no_kill, ping_type, process, exc, posted>>

\* As MsgBoxClosed with a bad executable treated like any other error.
MsgBoxLoops(t) ==
  /\ Goto(t, "msgbox", "loop")
  /\ exc' = [exc EXCEPT ![t] = "none"]
  /\ UNCHANGED <<shared, process, counter, fails, misses, posted>>

\* The user dismissed the box (and Sleep(10000) passed): a bad executable or path
\* ends the thread, with go left as it is; anything else goes round the loop again.
MsgBoxClosed(t) ==
  /\ Goto(t, "msgbox", IF exc[t] = "path" THEN "none" ELSE "loop")
  /\ exc' = [exc EXCEPT ![t] = "none"]
  /\ UNCHANGED <<shared, process, counter, fails, misses, posted>>

\* The spawned process exits or crashes by itself.
ChildExit(p) ==
  /\ p \in running
  /\ running' = running \ {p}
  /\ UNCHANGED <<shared, processhandle, processid, open, locals, posted, pc>>

-----------------------------------------------------------------------------
Create(t) == CreateOk(t) \/ \E e \in {"char", "path"} : CreateFail(t, e)

Ping(t) == PingReply(t) \/ PingSilence(t) \/ PingError(t) \/ PingFault(t)

\* Everything a check thread does without waiting for the user.
ThreadStep(t) ==
  \/ CheckEntry(t) \/ CheckLoop(t) \/ StartTest(t) \/ StartClaim(t)
  \/ Create(t) \/ StartupOver(t) \/ WhileTest(t) \/ Ping(t)
  \/ EndForRestart(t) \/ LeaveLoop(t) \/ Release(t) \/ Unwind(t)
=============================================================================
