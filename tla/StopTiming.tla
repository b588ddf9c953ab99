----------------------------- MODULE StopTiming -----------------------------
(***************************************************************************)
(* The time a stop takes.  stopServer waits for the check thread, start-up *)
(* time and two pauses at most, and then terminates it; the thread looks   *)
(* at go between its own waits: the seconds of start-up, WaitForInputIdle, *)
(* the pause, and the select of a ping.                                    *)
(*                                                                         *)
(* Time is counted in units of 1 / Second.  Code between two waits takes   *)
(* none, CreateProcess and TerminateProcess included, and a ping is one    *)
(* select: no datagram fills the buffer (PingSocket has those).            *)
(***************************************************************************)
EXTENDS Integers

CONSTANTS
  Second,       \* units of a second
  Settings      \* the settings a server may have: pause, timeout, startup, in units

ASSUME TimingAssumption ==
  /\ Second \in Nat \ {0}
  /\ Settings \subseteq [pause : Nat, timeout : Nat, startup : Nat]
  /\ \A set \in Settings : set.pause >= Second /\ set.timeout >= Second /\ set.startup >= Second

VARIABLES
  set,          \* time_pause, tval and time_startup
  go,
  at,           \* the wait the check thread is in, or "while" before the test of go, or "done"
  left,         \* time left in it
  i,            \* the counters i and j of createProcess
  ui,           \* stopServer: not called, waiting, over
  waited,       \* time it has waited
  from,         \* history: the thread's wait when stopServer was called
  killed        \* history: WAIT_TIMEOUT, and TerminateThread

monitor == <<at, left, i>>
stop == <<ui, waited, from, killed>>
vars == <<set, go, monitor, stop>>

Waits == {"startup", "inputidle", "pause", "select"}

\* int t = (int)(time_startup*2.0/3000)
t == (2 * set.startup) \div (3 * Second)

\* As WaitTime with one pause instead of two.
WaitTimeShort == set.startup + set.pause

\* int time = server->getStartup() + 2* server->getPause()
WaitTime == set.startup + 2 * set.pause

TypeOK ==
  /\ set \in Settings
  /\ go \in BOOLEAN
  /\ at \in Waits \cup {"while", "done"}
  /\ left \in Nat
  /\ i \in Nat /\ i <= t
  /\ ui \in {"idle", "waiting", "over"}
  /\ waited \in Nat /\ waited <= WaitTime
  /\ from \in Waits \cup {"while"}
  /\ killed \in BOOLEAN

\* start() has just called createProcess.
Init ==
  /\ set \in Settings
  /\ go = TRUE
  /\ at = "startup" /\ left = 0 /\ i = 0
  /\ ui = "idle" /\ waited = 0 /\ from = "while" /\ killed = FALSE

-----------------------------------------------------------------------------
Enter(wait, time, count) == at' = wait /\ left' = time /\ i' = count

\* As StartupSleep without a look at go.
StartupSleepDeaf ==
  /\ at = "startup" /\ left = 0
  /\ IF i < t THEN Enter("startup", Second, i + 1) ELSE Enter("inputidle", Second, 0)
  /\ UNCHANGED <<set, go, stop>>

\* for (int i = 0; *go && i<t; i++) Sleep(1000);  WaitForInputIdle follows.
StartupSleep ==
  /\ at = "startup" /\ left = 0
  /\ IF go /\ i < t THEN Enter("startup", Second, i + 1) ELSE Enter("inputidle", Second, 0)
  /\ UNCHANGED <<set, go, stop>>

\* WaitForInputIdle times out: up to t/2 more calls.
InputTimeout ==
  /\ at = "inputidle" /\ left = 0
  /\ IF go /\ i < t \div 2 THEN Enter("inputidle", Second, i + 1) ELSE Enter("while", 0, 0)
  /\ UNCHANGED <<set, go, stop>>

\* The process waits for input, or WaitForInputIdle fails at once.
InputIdle ==
  /\ at = "inputidle"
  /\ Enter("while", 0, 0)
  /\ UNCHANGED <<set, go, stop>>

\* while (*go) Sleep(time_pause)
WhileTest ==
  /\ at = "while"
  /\ IF go THEN Enter("pause", set.pause, 0) ELSE Enter("done", 0, 0)
  /\ UNCHANGED <<set, go, stop>>

\* pingOnce: a select, or for a normal program a look at its exit code.
PauseOver ==
  /\ at = "pause" /\ left = 0
  /\ \E time \in {0, set.timeout} : Enter("select", time, 0)
  /\ UNCHANGED <<set, go, stop>>

\* The ping is over, answered or not; the server may have been gone for too long, and
\* createProcess is called again.
PingOver ==
  /\ at = "select"
  /\ Enter("while", 0, 0) \/ Enter("startup", 0, 0)
  /\ UNCHANGED <<set, go, stop>>

Monitor ==
  StartupSleep \/ InputTimeout \/ InputIdle \/ WhileTest \/ PauseOver \/ PingOver

-----------------------------------------------------------------------------
stopServer ==
  /\ ui = "idle" /\ at # "done"
  /\ go' = FALSE
  /\ ui' = "waiting" /\ waited' = 0 /\ from' = at
  /\ UNCHANGED <<set, monitor, killed>>

WaitSignalled ==
  /\ ui = "waiting" /\ at = "done"
  /\ ui' = "over"
  /\ UNCHANGED <<set, go, monitor, waited, from, killed>>

WaitTimeout ==
  /\ ui = "waiting" /\ waited = WaitTime /\ at # "done"
  /\ ui' = "over" /\ killed' = TRUE
  /\ UNCHANGED <<set, go, monitor, waited, from>>

\* A unit of time passes while everybody waits.
Tick ==
  /\ at \in Waits /\ left > 0 /\ ~killed
  /\ left' = left - 1
  /\ IF ui = "waiting" THEN waited < WaitTime /\ waited' = waited + 1 ELSE UNCHANGED waited
  /\ UNCHANGED <<set, go, at, i, ui, from, killed>>

Next == (~killed /\ Monitor) \/ stopServer \/ WaitSignalled \/ WaitTimeout \/ Tick

Spec == Init /\ [][Next]_vars

-----------------------------------------------------------------------------
\* stopServer terminates the thread, which leaves busy set and the process running, only
\* for settings with a long time-out: a ping and one WaitForInputIdle take at least the
\* start-up time and a pause.
KilledIfSlow == killed => set.timeout + Second >= set.startup + set.pause

\* "waiting behaviour updated to allow stopping while starting up" (createProcess): a
\* stop in the start-up takes two seconds at most, however long the start-up time is.
StartupHeeded == from \in {"startup", "inputidle"} => waited <= 2 * Second
=============================================================================
