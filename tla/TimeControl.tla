---------------------------- MODULE TimeControl ----------------------------
(***************************************************************************)
(* Time control: the comparison of times of day (operator<, operator>),    *)
(* the window test of CServerView::OnTimer, and the timer at work: one     *)
(* reading of the clock for a whole round over the servers, in which every *)
(* stop blocks the window's thread until the server has stopped.           *)
(* Time passes in whole seconds; everything that does not wait is          *)
(* instantaneous.                                                          *)
(***************************************************************************)
EXTENDS Integers

CONSTANTS
  Hours, Minutes, Seconds, \* 24, 60 and 60 on a clock
  N,         \* the servers, in the order of the list
  Windows,   \* the start-stop times a user may enter
  Period,    \* of the timer, 30 seconds in setTimer
  MaxWait    \* how long stopServer waits at most

SYSTEMTIME ==
  [wHour: 0..(Hours - 1), wMinute: 0..(Minutes - 1), wSecond: 0..(Seconds - 1)]

ASSUME ClockAssumption ==
  Hours \in Nat \ {0} /\ Minutes \in Nat \ {0} /\ Seconds \in Nat \ {0}
ASSUME TimerAssumption ==
  /\ N \in Nat \ {0} /\ Period \in Nat \ {0} /\ MaxWait \in Nat
  /\ Windows \subseteq SYSTEMTIME \X SYSTEMTIME

Servers == 1..N

-----------------------------------------------------------------------------
\* As operator< with the hours compared with <=.
LessSloppy(first, second) ==
  \/ first.wHour <= second.wHour /\ first.wMinute < second.wMinute
  \/ first.wHour < second.wHour

\* operator<: by hour, then by minute, then by second.
Less(first, second) ==
  \/ first.wHour < second.wHour
  \/ /\ first.wHour = second.wHour
     /\ \/ first.wMinute < second.wMinute
        \/ first.wMinute = second.wMinute /\ first.wSecond < second.wSecond

\* operator>
Greater(first, second) ==
  \/ first.wHour > second.wHour
  \/ /\ first.wHour = second.wHour
     /\ \/ first.wMinute > second.wMinute
        \/ first.wMinute = second.wMinute /\ first.wSecond > second.wSecond

\* As ToStop without the window that passes midnight.
ToStopSameDay(now, start, stop) ==
  Less(start, stop) /\ (Greater(now, stop) \/ Less(now, start))

\* OnTimer stops an active server.
ToStop(now, start, stop) ==
  \/ Greater(start, stop) /\ Greater(now, stop) /\ Less(now, start)
  \/ Less(start, stop) /\ (Greater(now, stop) \/ Less(now, start))

\* OnTimer starts an inactive server.
ToStart(now, start, stop) ==
  \/ Greater(start, stop) /\ (Less(now, stop) \/ Greater(now, start))
  \/ Less(start, stop) /\ Less(now, stop) /\ Greater(now, start)

\* What it is compared with: the seconds since midnight, and since another time.
SecondOfDay(t) == (t.wHour * Minutes + t.wMinute) * Seconds + t.wSecond
Day == Hours * Minutes * Seconds
Since(t, from) ==
  LET d == SecondOfDay(t) - SecondOfDay(from) IN IF d < 0 THEN d + Day ELSE d

\* Strictly between start and stop, and strictly between stop and the next start.
Within(now, start, stop) == 0 < Since(now, start) /\ Since(now, start) < Since(stop, start)
Outside(now, start, stop) == start # stop /\ Since(now, start) > Since(stop, start)

-----------------------------------------------------------------------------
VARIABLES
  clock,        \* the local time
  left,         \* seconds until the timer elapses; 0 before setTimer (m_Timer = NULL)
  posted,       \* a WM_TIMER is waiting
  ui,           \* "idle", or what the window's thread is at
  now, nr,      \* OnTimer: the time it has read, and the server it looks at
  waiting,      \* seconds until the wait in stopServer times out
  window,       \* [Servers -> Windows], starttime and stoptime
  timecontrol,
  active,       \* "off", "on", or "stuck": busy left behind by TerminateThread
  over, under   \* history: seconds active outside, inactive within the window,
                \* counted from the latest change of the server or of its settings

settings == <<window, timecontrol>>
history == <<over, under>>
vars == <<clock, left, posted, ui, now, nr, waiting, settings, active, history>>

TypeOK ==
  /\ clock \in SYSTEMTIME /\ now \in SYSTEMTIME
  /\ left \in 0..Period /\ posted \in BOOLEAN
  /\ ui \in {"idle", "round", "roundwait", "userwait"}
  /\ nr \in 1..(N + 1) /\ waiting \in 0..MaxWait
  /\ window \in [Servers -> Windows]
  /\ timecontrol \in [Servers -> BOOLEAN]
  /\ active \in [Servers -> {"off", "on", "stuck"}]
  /\ over \in [Servers -> Nat] /\ under \in [Servers -> Nat]
  \* A wait is for a server that is up.
  /\ ui = "roundwait" => nr - 1 \in Servers /\ active[nr - 1] = "on"
  /\ ui = "userwait" => nr \in Servers /\ active[nr] = "on"

Midnight == [wHour |-> 0, wMinute |-> 0, wSecond |-> 0]

\* No server is under time control yet, none runs.
Init ==
  /\ clock \in SYSTEMTIME /\ now = Midnight /\ nr = 1
  /\ left = 0 /\ posted = FALSE /\ ui = "idle" /\ waiting = 0
  /\ window \in [Servers -> Windows]
  /\ timecontrol = [s \in Servers |-> FALSE]
  /\ active = [s \in Servers |-> "off"]
  /\ over = [s \in Servers |-> 0] /\ under = [s \in Servers |-> 0]

\* isActive()
Busy(s) == active[s] # "off"

TurnsOn(s) ==
  /\ active' = [active EXCEPT ![s] = "on"]
  /\ under' = [under EXCEPT ![s] = 0] /\ UNCHANGED over
TurnsOff(s) ==
  /\ active' = [active EXCEPT ![s] = "off"]
  /\ over' = [over EXCEPT ![s] = 0] /\ UNCHANGED under

-----------------------------------------------------------------------------
\* The window's thread takes the timer's message when it has nothing else to do.
OnTimer ==
  /\ ui = "idle" /\ posted
  /\ posted' = FALSE
  /\ ui' = "round" /\ nr' = 1 /\ now' = clock
  /\ UNCHANGED <<clock, left, waiting, settings, active, history>>

\* stopServer(): waits for the thread; the handle of a thread that was killed is
\* closed, so that its wait fails at once.
stopServer(s, where) ==
  /\ Busy(s)
  /\ IF active[s] = "stuck" THEN UNCHANGED <<ui, waiting>>
     ELSE ui' = where /\ waiting' = MaxWait

LookAt(s) == ui = "round" /\ nr = s /\ nr' = s + 1

RoundStop(s) ==
  /\ LookAt(s)
  /\ timecontrol[s] /\ ToStop(now, window[s][1], window[s][2])
  /\ stopServer(s, "roundwait")
  /\ UNCHANGED <<clock, left, posted, now, settings, active, history>>

\* startServer(): the check thread takes no time to set busy.
RoundStart(s) ==
  /\ LookAt(s)
  /\ timecontrol[s] /\ ~Busy(s) /\ ToStart(now, window[s][1], window[s][2])
  /\ TurnsOn(s)
  /\ UNCHANGED <<clock, left, posted, ui, now, waiting, settings>>

\* Neither: not under time control, or as its window wants it.
RoundSkip(s) ==
  /\ LookAt(s)
  /\ timecontrol[s] =>
       ~IF Busy(s) THEN ToStop(now, window[s][1], window[s][2])
                   ELSE ToStart(now, window[s][1], window[s][2])
  /\ UNCHANGED <<clock, left, posted, ui, now, waiting, settings, active, history>>

RoundOver ==
  /\ ui = "round" /\ nr = N + 1
  /\ ui' = "idle" /\ nr' = 1 /\ now' = Midnight
  /\ UNCHANGED <<clock, left, posted, waiting, settings, active, history>>

\* The wait ends with the thread, or kills it when the time is over.  In a round the
\* server waited for is the one before nr; otherwise nr holds the user's.
WaitOver ==
  /\ ui \in {"roundwait", "userwait"}
  /\ LET s == IF ui = "roundwait" THEN nr - 1 ELSE nr IN
     \/ TurnsOff(s)
     \/ waiting = 0 /\ active' = [active EXCEPT ![s] = "stuck"] /\ UNCHANGED history
  /\ ui' = IF ui = "roundwait" THEN "round" ELSE "idle"
  /\ nr' = IF ui = "roundwait" THEN nr ELSE 1
  /\ waiting' = 0
  /\ UNCHANGED <<clock, left, posted, now, settings>>

\* The user, while no timer message is waiting.
User == ui = "idle" /\ ~posted

OnBnClickedStart(s) ==
  /\ User /\ ~Busy(s)
  /\ TurnsOn(s)
  /\ UNCHANGED <<clock, left, posted, ui, now, nr, waiting, settings>>

OnBnClickedStop(s) ==
  /\ User /\ active[s] = "on"
  /\ stopServer(s, "userwait") /\ nr' = s
  /\ UNCHANGED <<clock, left, posted, now, settings, active, history>>

\* As OnBnClickedTimecontrol with the timer set again although it runs.
TimecontrolRestarts(s) ==
  /\ User
  /\ timecontrol' = [timecontrol EXCEPT ![s] = ~@]
  /\ left' = IF ~timecontrol[s] THEN Period ELSE left
  /\ over' = [over EXCEPT ![s] = 0] /\ under' = [under EXCEPT ![s] = 0]
  /\ UNCHANGED <<clock, posted, ui, now, nr, waiting, window, active>>

\* SetTimeControlled(), and the timer that OnUpdate sets for the first such server and
\* never ends.
OnBnClickedTimecontrol(s) ==
  /\ User
  /\ timecontrol' = [timecontrol EXCEPT ![s] = ~@]
  /\ left' = IF left = 0 /\ ~timecontrol[s] THEN Period ELSE left
  /\ over' = [over EXCEPT ![s] = 0] /\ under' = [under EXCEPT ![s] = 0]
  /\ UNCHANGED <<clock, posted, ui, now, nr, waiting, window, active>>

\* SetStartStopTime() of an inactive server.
OnBnClickedUpdate(s) ==
  /\ User /\ ~Busy(s)
  /\ \E w \in Windows : window' = [window EXCEPT ![s] = w]
  /\ under' = [under EXCEPT ![s] = 0]
  /\ UNCHANGED <<clock, left, posted, ui, now, nr, waiting, timecontrol, active, over>>

\* A monitor that ends by itself (a bad executable, an address that does not resolve).
MonitorEnds(s) ==
  /\ active[s] = "on"
  /\ ~(ui = "userwait" /\ nr = s) /\ ~(ui = "roundwait" /\ nr - 1 = s)
  /\ TurnsOff(s)
  /\ UNCHANGED <<clock, left, posted, ui, now, nr, waiting, settings>>

-----------------------------------------------------------------------------
NextSecond(t) ==
  IF t.wSecond + 1 < Seconds
    THEN [wHour |-> t.wHour, wMinute |-> t.wMinute, wSecond |-> t.wSecond + 1]
  ELSE IF t.wMinute + 1 < Minutes
    THEN [wHour |-> t.wHour, wMinute |-> t.wMinute + 1, wSecond |-> 0]
  ELSE IF t.wHour + 1 < Hours
    THEN [wHour |-> t.wHour + 1, wMinute |-> 0, wSecond |-> 0]
  ELSE Midnight

\* A second passes, except where the window's thread has something to do at once.
Tick ==
  /\ \/ ui = "idle" /\ ~posted
     \/ ui \in {"roundwait", "userwait"} /\ waiting > 0
  /\ clock' = NextSecond(clock)
  /\ waiting' = IF waiting = 0 THEN 0 ELSE waiting - 1
  /\ left' = IF left = 1 THEN Period ELSE IF left = 0 THEN 0 ELSE left - 1
  /\ posted' = (posted \/ left = 1)
  /\ over' = [s \in Servers |->
                IF timecontrol[s] /\ active[s] = "on"
                   /\ Outside(clock, window[s][1], window[s][2])
                THEN over[s] + 1 ELSE 0]
  /\ under' = [s \in Servers |->
                IF timecontrol[s] /\ active[s] = "off"
                   /\ Within(clock, window[s][1], window[s][2])
                THEN under[s] + 1 ELSE 0]
  /\ UNCHANGED <<ui, now, nr, settings, active>>

Round == OnTimer \/ RoundOver \/ \E s \in Servers : RoundStop(s) \/ RoundStart(s) \/ RoundSkip(s)

Next ==
  \/ Round \/ WaitOver \/ Tick
  \/ \E s \in Servers : \/ OnBnClickedStart(s) \/ OnBnClickedStop(s)
                        \/ OnBnClickedTimecontrol(s) \/ OnBnClickedUpdate(s)
                        \/ MonitorEnds(s)

Spec == Init /\ [][Next]_vars

-----------------------------------------------------------------------------
\* OnTimer's tests mean what the settings mean, whatever the order of start and stop
\* and wherever midnight is (operator<, operator>, OnTimer).
WindowTests ==
  \A s \in Servers :
    LET start == window[s][1]
        stop == window[s][2] IN
    /\ ToStart(clock, start, stop) <=> Within(clock, start, stop)
    /\ ToStop(clock, start, stop) <=> Outside(clock, start, stop)

\* A server under time control runs on outside its window for at most a period and one
\* stop of every server, its own included: a round that looked at the clock too early, or
\* was held up by other stops, is made up for by the next.
StopsInTime == \A s \in Servers : over[s] <= Period + N * MaxWait

\* ... and it is left off within its window for at most a period and the others' stops.
StartsInTime == \A s \in Servers : under[s] <= Period + (N - 1) * MaxWait
=============================================================================
