# ServerChecker, verified

TLA+ models, model-checking runs and machine-checked proofs about ServerChecker, an MFC program
that starts game servers (or any program), pings them, restarts the ones that stop answering and
shows their status. Everything in the models is translated from the source; source references
are `file:line` of this repository.

## 1. The system

| component | state it keeps | operations | who else touches the state |
|---|---|---|---|
| `ServerControl` (`Control.cpp`, `Control.h`) | `*go`, `busy`, `no_kill`, process and thread handle, process id, settings (type, address, executable, pause, start-up, timeout, priority, times), queues `up` and `status` | `start`, `createProcess`, `endProcess`, `pingOnce`, `updateStatus`, setters and getters | its check thread and the window's thread, **without any lock** |
| `check()` (`ServerDoc.cpp:31`) | a thread per start of a server | loops over `start()`, shows an error box for what it throws | created by `startServer`, awaited or killed by `stopServer` |
| `CServerDoc` (`ServerDoc.cpp`) | server list, selected index, ping booster value and state | start/stop one or all, add, delete, select, load, save, boost | window thread only, but `check` threads hold pointers to list elements |
| `CServerView` (`ServerView.cpp`) | list control, 30 s timer, log file | New/Delete/Start/Stop, `OnTimer`, `OnServerUpdate` | messages posted by check threads |
| `CDetailView` (`DetailView.cpp`) | the edit fields | Save (chain of setters), priority, time control | - |
| `CMainFrame`, application (`MainFrm.cpp`, `ServerCheckerGUI.cpp`) | menus, tray icon, taskbar button | `OnClose`, `OnSize`, `OnIconCallback`, ping booster menu, `/startup` | - |
| `UDPClient` | one socket per server | send, receive, select | check thread |
| `servers.sch` | the persisted list | written by add, delete, exit; read at start | - |
| remote control (`Remote`, `TCPClient`, `TCPListener`) | sockets | compiled, but its only use is commented out (`ServerDoc.cpp:87-104`, `157-168`) | - |

How they interact: the window's thread runs all handlers, one at a time; a handler that waits
(`Sleep(250)`, `WaitForSingleObject`, a message box) holds the others back, except that a modal
box still delivers `WM_TIMER`. `startServer` creates a check thread. The check thread reads and
writes the `ServerControl` fields directly, posts `ID_SERVER_UPDATE`, and spawns and terminates
the server process. `stopServer` clears `*go`, waits for the thread and, after the wait times
out, terminates it.

The hard behaviour is there: unsynchronised fields between two or more threads, a wait with a
timeout that kills, exceptions that leave `start()` at any point, the spawned process crashing,
the 30-second timer acting on its own, and a shutdown in two stages (`OnClose`, `~CServerDoc`).

What makes each part correct:

* monitor: restarts a dead server and only a dead one; reports the truth; owns exactly the
  process it started; leaves no handle or process behind; obeys a stop;
* start/stop: at most one monitor per server; `busy` means what its readers take it to mean;
  at most one setting changes under a monitor, by a setter that had tested `busy` before;
* list: labels, selection and pointers stay consistent; no access to a deleted server;
* persistence: what was saved comes back; a failure does not destroy the list;
* ping booster: `timeBeginPeriod` and `timeEndPeriod` pair up;
* time control: a server is never both to be started and to be stopped, and the window may wrap
  past midnight;
* status queue: what is shown last is what was posted last.

## 2. Modules

| module | models |
|---|---|
| `ServerControl` | the fields of one `ServerControl`, the processes it spawned, and the steps of its check threads |
| `StartStop` (extends `ServerControl`) | the window's thread: start, stop, timer, save, close; the specification, its fairness and its properties |
| `MCStartStop` | symmetry and the search bound for TLC |
| `Supervisor` | the abstract specification of one supervised server |
| `StartStopProofs` (extends `StartStop`, `TLAPS`) | the inductive invariant and the theorems, and that `StartStop` implements `Supervisor` |
| `StatusQueue` (theorems in `QueueProofs`) | a report on its way from the check thread to the list: two queues and a message, without a lock |
| `ServerList`, `ServerListProofs` | the list, the selection, the rows and the pane; New and Delete; who still points to a freed server |
| `ServerStore`, `Persistence`, `PersistenceProofs` | what saving promises; the file value by value, with crashes and errors |
| `PingSocket` (theorems in `QueueProofs`) | one ping as datagrams: late, lost, foreign, too large, resets |
| `Settings`, `SettingsProofs` | the fields of the lower pane and Update's chain of setters against the monitor |
| `Priority`, `PriorityProofs` | `setPriority` against `createProcess`, and handles that are used again |
| `StopTiming`, `StopTimingProofs` | real time in `stopServer` and in the monitor |
| `TimeControl`, `TimeControlProofs` | times of day and the 30-second timer |
| `PingBooster` (theorems in `PriorityProofs`) | the timer periods, the menu and the settings of the booster |
| `MC...` | one per model: the values of its constants for TLC, symmetry and search bounds |

How they belong together: `StartStop` extends `ServerControl` and composes the window's thread
with the check threads of one server; `Supervisor` is its abstraction. The others each take one
more piece of state and reduce the monitor to what that piece needs of it, which their comments
name: a thread that is starting, running or gone (`ServerList`, `Settings`, `Priority`), the
counter of `start()` (`PingSocket`), its waits (`StopTiming`), its reports (`StatusQueue`). In
the core the same pieces are left open: a ping meets any outcome, the wait of `stopServer` may
end at any moment, a save may come at any time.

### ServerControl

Every shared field of the class is a variable of the same name (`go`, `busy`, `no_kill`,
`ping_type`, `processhandle`, `processid`); `posted` is the argument pair of the latest
`updateStatus`. `running` and `open` belong to the operating system: the processes it runs and
the processes this program holds open handles of. `pc[t]` says where thread `t` is, `counter[t]`
is the local of `start()`, `exc[t]` what it threw last. `fails` and `misses` are history: the
unanswered pings of the current process and the ones in a row.

An action is the code between two places where another thread can interfere:

| `pc` | the thread is about to | actions |
|---|---|---|
| `entry` | set `*control` (`ServerDoc.cpp:36`) | `CheckEntry` |
| `loop` | test `*control` (`:37`) | `CheckLoop` |
| `enter`, `claim` | test `busy` (`Control.cpp:72`), set it (`:74`) - two steps | `StartTest`, `StartClaim` |
| `create` | call `CreateProcess` | `CreateOk`, `CreateFail` |
| `startup` | finish the start-up wait (`:214-226`) | `StartupOver` |
| `while`, `ping` | test `*go` and sleep; ping and account for the result | `WhileTest`, `PingReply`, `PingSilence`, `PingError`, `PingFault` |
| `end` | stop the process that is to be replaced | `EndForRestart` |
| `exit`, `release` | stop the process after the loop; clear `busy` | `LeaveLoop`, `Release` |
| `unwind`, `msgbox` | run `catch (...)`; wait in the error box and `Sleep(10000)` | `Unwind`, `MsgBoxClosed` |

`unwind` and the box carry the kind of exception: `path` ends the thread (a bad executable or
path), `char` and `normal` go round the loop. A string literal thrown is caught by
`catch (char*)`, as the compiler of this project does it.

Abstractions. A game query may meet a reply, silence or a socket error at any ping; a normal
program is decided by its process handle, as the code does. `Limit` stands for the 10 of
`Control.cpp:97`. A child that exits with code 259 (`STILL_ACTIVE`) is not told apart from a
running one by the code; the model leaves that code out. `TerminateProcess` on an open handle
of an own child succeeds. Intermediate statuses that are overwritten in the same step
(`Stopping Server...`) are not kept. Affinity, priority, tracing and the log are left out.
A slot of `Procs` is reused only when its process has exited and its handle was closed, and a
slot of `Threads` when its thread has exited; a start with no slot free is outside the bounds.

### StartStop

`ui` is what the window's thread is doing, named for what it waits for: `nap` is the
`Sleep(250)` of the Start button and of `OnTimer`; `wait`, `timerwait`, `closing` and
`destroying` are `WaitForSingleObject` in `stopServer`, called from the Stop button, the timer,
`OnClose` and `~CServerDoc`; `AfterWait` says where each returns to. `asking` is the modal
question of `OnClose`. `shownActive` is `isActive()` at the last `UpdateAllViews`: it is what
enables the Start and Stop buttons, and it may be stale. `myHandle`/`handleOpen` are the thread
handle that `stopServer` waits for; after `WAIT_TIMEOUT` or `WAIT_OBJECT_0` it is closed but
kept, so a later wait fails (`WaitFailed`). `isActive()` followed by `CreateThread`, and
`isActive()` followed by `*go = false`, are one step each: what other threads do in between
commutes with them or is covered by the step taken a moment earlier. Save is not: `SetterTest` and
`SetterWrite` are the two halves of a setter, between which a check thread may set `busy`. The type is
the only setting the core has; the chain of all eight is in `Settings`.
After `DestroyDocument` the object is deleted and the model ends (`exited`).

`overlap`, `terminated`, `left`, `refused` and `late` are history variables: a thread was started beside
a live one; `TerminateThread` hit a thread inside `start()`; the user answered No to
"Shut down servers?"; an executable was refused and neither the user nor the timer has started it since; settings were
written under the present monitor. Properties
that are only true without such an event say so with these variables, so that each exception is
stated and not hidden. Run `double` shows the first of them. A server whose executable was refused
is left alone until the user or the timer starts it again (`GivesUp`).

### Supervisor

The abstract specification of starting, stopping and monitoring one server: `mode` (off,
starting, watching, in an error box, or lost: nothing is promised any more), the process that
is handled, what was asked for, and whether the display says UP/OK. `StartStop` defines `Mode`
and `Handled` and states `Supervises == Sup!Spec`, with `Sup` the instance of `Supervisor` on
them. The mode is lost from the moment a thread was doubled, terminated, or told to leave its
process running: those are the three things that break the promise, and `double` shows the first.

### PingBooster

`PingBooster` stands alone: the core never reads the booster. `begun[v]` counts the
`timeBeginPeriod(v)` calls without their `timeEndPeriod(v)`; `checked` and `canChange` are the
state of the two menu items, which Windows holds and `OnPingboosterRun` reads back; `menuDue` is
a posted `ID_UPDATE_MENU`; `file` is the booster's part of `servers.sch`. `kept` is history: the
settings at the last orderly end. The frame sets `m_bAutoMenuEnable` to false, so MFC does not
enable the items by itself. A modal dialog keeps the menu and the other buttons away, but not
posted messages. `writeFile` may throw, in the destructor too (`DestroyThrows`), which then does not
turn boosting off; the system ends the period with the process. The model lets a menu command come before a posted menu update, which Windows
would rather deliver first: more behaviours than there are. The file is written as a whole here;
a crash in the middle of `writeFile` is in `Persistence`.

### TimeControl

`Less`, `Greater`, `ToStart` and `ToStop` are `operator<`, `operator>` and the two conditions of
`OnTimer`; `Since`, `Within` and `Outside` say the same with seconds on a circle, the reference
they are compared with. Around them runs the timer: `left` and `posted` are `SetTimer` and the
one `WM_TIMER` that can be waiting, `now` and `nr` the locals of `OnTimer`, `waiting` the
`WaitForSingleObject` of `stopServer`, during which nothing else is handled. `Tick` is a second;
it cannot pass while the window's thread has a waiting timer message or is between two servers of
a round: **real-time assumption**, that the code between two waits takes no time worth counting
(`Sleep(250)` included) and that the user does not keep the thread busy so well that
the low-priority `WM_TIMER` never comes. A server is `on`, `off`, or `stuck`: killed in the wait,
so that `busy` stays set and the next wait fails at once. `over` and `under` are history: the
seconds for which a server under time control has been on outside or off within its window.
They do not count a `stuck` server, whose process may run on for good (see `ProcessOwned`).
Exactly at `start` nothing is started and exactly at `stop` nothing is stopped; with equal times
neither ever happens.

### StatusQueue

How a report gets from the check thread to the list. A report is its number; `reports` is the
latest; what it says is left out. `updateStatus` is three steps (`PushUp`, `PushStatus`, and
`PostMessage`, which may fail at any time: `dropped` says that the latest did),
`OnServerUpdate` four (take the message, `GetUp`, `GetStatus`, `Show`); a `Killed` thread stops
between any two of them. A push and a pop of one `std::queue` at the same time are a data race:
`RaceUp` and `RaceStatus` lose or invent an element, and `races` counts them, so that the
properties say what holds until one happens. `shown` is the pair of report numbers in the row.

### ServerList

The document's list and selection, the rows of the list view, the server the lower pane shows,
the enabled buttons, and the memory behind them all. A server is its address and `new` may
return one that was freed, so that a stale pointer can meet a stranger. Check threads and
messages hold addresses. `OnBnClickedNew` is split where the dialog is open and where its error
box is; `OnBnClickedDelete` where `stopServer` waits. `fault` is the first use of freed memory
(by a view, a message, a thread, or an index), after which nothing more is modelled; `past`
records a New that could not save, a Delete that could not save, and the two kinds of free too
early. `NewUnresolved` is the constructor throwing for a host without an address.

### ServerStore and Persistence

`ServerStore` is the abstract promise: between two runs the list comes back whole or is lost
whole, never in part and never mixed. `Persistence` has the archive value by value: `StoreOrder`
and `LoadOrder` are the fields in the order in which `Serialize` and the `SYSTEMTIME` operators
write and read them, a value names the field, the server and the revision it was written for,
and the file may hold any prefix of what is being written, because `CFile::modeCreate` truncates
first and `CArchive` flushes in pieces. `Load` is `OnNewDocument`: it reads
objects up to the stored upper bound (`i <= nr`), drops everything when an object cannot be read, and
keeps the servers when only the booster's two values are missing. `OldFile` is a file of version
0x200, with `CTime` values, in the order in which that version stored them (`OldStoreOrder`, which is
not in this source any more); `OldOrder` is how it is read. `Refines == Store!Spec` maps the abstract store to what a start
would read from the file now. A version tag is a value of its own; MFC's class and object tags
are part of it.

### PingSocket

`pingOnce` with the socket underneath. `inbox` is the receive buffer, which survives pings and
restarts; `asked` the pings a server has still to answer. `sendTo`, `SelectTimeout`, `RecvFull`,
`RecvLast`, `RecvError` and `SendError` are the ways through the loop of `pingOnce`: a datagram that fills
`buff` goes round again, a foreign one is read but is no reply, one larger than the buffer, a
connection reset and a failing `sendto` throw. `Finish` is the counter of `start()` and `Restart` what follows it. Late
answers, foreign datagrams, resets from a port that is not open, and losses (a full buffer, a
ping that is never answered) are the network's. `hung` is history.

### Settings

The fields of the lower pane, `OnUpdate` that fills them, the buttons that `OnEnChange...`
enables, and Update: its tests, the box about the port, which runs a message loop in the middle
of the handler (`PortBox`: the game was read before it and is in `save`, the other fields are read
behind it), and the chain of eight setters, each a step that tests `busy` (`Test`) and one
that writes (`Write`), so that a check thread may set `busy` between the two. Numbers have the
width of an `int` (`Word` values), an `unsigned short` wraps at `PortMax + 1`, and the fields
show what a division by `Thousand` gives back. `edited` and `last` are history: what the user
typed since the fields were filled, and how the last Update went.

### Priority

`setPriority` in its three steps against `createProcess` in its: read the priority, create the
process with it, store the handle. `Handles` is what Windows hands out; a closed value may come
back as the handle of another server's process while the first server still holds it.
`OnCbnSelchangeCombo1` is the caller, and `failed` is its error box. `Refused` is a second check
thread of the server, which clears `busy` under the first.

### StopTiming

Time in units of `1/Second`: the check thread is in one of its four waits with `left` units to
go, `stopServer` has waited `waited` of `WaitTime` units, and `Tick` passes one for both. It
stops when the thread has something to do, as in `TimeControl`. `t` is the loop bound of
`createProcess`, with its integer division. A ping is one `select`. What the restart path adds
(`endProcess`, `CreateProcess`) is taken to cost no time.

## 3. Runs

| run | instance | shows |
|---|---|---|
| `single` | 1 thread slot, 2 processes, `Limit` 10, fair | `CounterInv`, `StatusTruth`, `ProcessOwned`, `HandleValid`, `GivesUp`, `OneLateSetting`, `StopCompletes`, `CrashRecovery`, and that `StartStop` implements `Supervisor` (`Supervises`) |
| `overlap` | 2 threads, 2 processes, `Limit` 2 | `BusyMeansInside`, one thread at a time or doubled |
| `double` | as `overlap` | **violation** of `OneMonitor` (section 4) |
| `booster` | 3 values | `PeriodsPaired`, `MenuTruth`, `Restored` |
| `round` | a day of 3 x 3 x 3, 2 servers, windows within the day, through midnight, empty; period 2, waits up to 2 | `WindowTests`, `StopsInTime`, `StartsInTime` |
| `queue` | 6 reports, 3 messages, posts that fail, 1 collision, fair | `HalvesNearby`, `NothingStranded`, `HalvesTaken` |
| `list` | 3 addresses, lists up to 3, 2 loaded, 1 thread, 1 message | `ListOwned`, `RowsMatch`, `SelectedValid`, `FaultHasCause`, `DeleteHitsShown` |
| `file` | 3 names, lists up to 2, 2 revisions | `ListSaved`, `ExitRestored`, `Refines` |
| `socket` | `Limit` 10, 2 datagrams fit, any number of foreign ones, fair | `HangNoticed`, `HangEnds` |
| `settings` | 1 server, hosts with and without address, 4 ports with `PortMax` 7, pauses that overflow with `Word` 16 and `Thousand` 3, 2 fields edited | `AllOrNothing`, `OneLateWrite`, `OnlyEdited`, `PaneTruth` |
| `priority` | 2 servers, 2 classes, 3 handles | `PriorityInForce` |
| `timing` | half seconds; pause 1-2 s, time-out and start-up 1-4 s | `KilledIfSlow`, `StartupHeeded` |

The runs `single`, `list`, `file` and `settings` also check the `TypeOK` of their models; those of
the other models are proved for every instance.

Bounds. A second process slot is what makes an orphan visible: the first may still run or be
open while the next one is created, and a monitor never holds more than one. `Limit = 10` is the
code's own value, so the single run goes through the whole of the restart counter; the doubled
runs use 2, the least value at which a miss is not at once a restart. Two threads are enough for
a doubling; the proofs cover any number. The `overlap` run has a search bound, `Doubled` in
`MCStartStop`: once a thread was doubled it does not also explore a kill, a save or the closing of
the program. Thread and process slots are interchangeable, hence the symmetry in the runs without
liveness properties; so are the addresses of `ServerList`.

The queue run needs a second report behind a first whose halves are taken apart, posts that fail
before and after one that succeeds, and a kill between two pushes: six reports and three messages
have all of it. `MsgLimit` only bounds the messages of this server; `PostMessage` may fail with none
of them waiting, because the queue is the one of the window's thread, shared with the threads of all
servers and with `ID_UPDATE_MENU`. Three
addresses for lists of up to three make Delete from the middle and a reuse of a freed address
possible; one thread and one message outlive the server they point to. A file of
two servers already has a first, a last and a truncated one in between. The socket run has the
code's own limit of 10; a buffer of two holds an answer of the process before and one of this
process at once. An `int` of 16 values with a factor of 3 overflows at 3 seconds as the real one
does at 2147484; ports 7 and -1 are its 65535 and the negative ones. Half seconds are what makes the
division in `createProcess` round. Bounds in the constants (`MaxReports`, `MaxRaces`,
`MaxServers`, `MaxMsgs`, `MaxRevision`, `MaxEdits`, `Buffer`) are in
the guards of the environment's and the user's actions, as the comments at the constants say.
`CHECK_DEADLOCK FALSE` stands where the program really may stop: nothing left to report, a fault,
a file that is not read again, a stop that is over.

Fairness, in the runs `single`, `queue` and `socket`. Weak fairness on every step a check thread
takes by itself (the scheduler runs a ready thread, `Sleep` and `select` return), on the end of
the `Sleep(250)`, and on a wait whose thread has exited. None for the user, the error box, the
spawned process, or the timeout of `stopServer`: `StopCompletes` must not be achieved by killing
the thread. `StatusQueue` has weak fairness of each of the two threads once it is inside its
handler, and of the message loop; none for making a report. `PingSocket` has it for the monitor
only: neither the server nor the network need ever do anything. `HangEnds` names the assumption it
rests on in the property itself: other hosts do not fill the buffer exactly, again and again for
ever. Without that disjunct TLC finds the behaviour in which they do: `pingOnce` goes round its loop
(`Control.cpp:145`) and looks at neither the counter nor `*go`.

## 4. Findings

1. **Two monitors on one server.** `start()` throws "Server is already being monitored"
   (`Control.cpp:73`), but `busy` is tested and set in two steps and `startServer` looks at
   `isActive()` only (`ServerDoc.cpp:273`). Run `double`: two starts before the first thread has
   set `busy` give two threads that both spawn and monitor a process; the second overwrites the
   handle of the first, whose process is then nobody's. The window is short after a press of
   Start, but ten seconds and an open message box wide after an error, when the timer alone
   can do it.

What the passing properties have to except. Modelling showed more places where the code does less
than its comments say; each is a disjunct or a precondition of a property that holds, so that the
exception is exact:

* `GivesUp`: `check()` ends the thread because it "would be dumb trying to start a bad executable
  over and over again" (`ServerDoc.cpp:55`). So it does, but the timer then starts a
  time-controlled server again every 30 seconds (`ServerView.cpp:502`).
* `GivesUp` does not speak of a process that was there before: a killed monitor or the answer No to
  "Shut down servers?" leaves one behind.
* `OneLateSetting`, `OneLateWrite`: a setter tests `busy` and then writes, `setServer` after a name
  lookup. A check thread that sets `busy` in between has one setting changed under it; the next
  setter throws, so it is one at most.
* `CrashRecovery`: the game may have been changed to a query in that way, and a query does not look
  at the exit code.
* `NothingStranded`, `HalvesTaken`: a report whose post failed waits for a later post that succeeds.
  If it was the last one, the row goes on showing the one before (`Control.cpp:297`).
* `HalvesNearby`: the row may show the halves of two reports, Up with No Reply among them, but
  never further apart than one report.
* `HangNoticed` is about a server that hangs. One whose answer is larger than the buffer is
  restarted for it, for the flush of `Control.cpp:145` is for a full buffer and not for
  `WSAEMSGSIZE`; and a reset may be about an earlier ping (`Control.cpp:147`), before the port was
  open or of the process before, and then costs a running process a restart. A `sendto` that fails
  restarts it, too.
* `HangEnds`: foreign datagrams of exactly `BSIZE` bytes, one within every time-out, hold `pingOnce`
  for as long as they come.
* `OnlyEdited`: a positive wait may be stored negative, because `setPause` and `setStartUp`
  multiply by 1000 in an `int` (`Control.h:190`); port 65535 becomes 0, and port 0 is stored after
  the box "Invalid port" (`DetailView.cpp:266`).
* `PaneTruth`: after a failed Update the button is enabled (`DetailView.cpp:313`), and the
  `UpdateAllViews` in the next line disables it again and takes the typed texts away.
* `OnlyEdited`: when the timer updates the views behind the box "Invalid port", the fields are filled
  from the server again, but the game was read before the box (`DetailView.cpp:253`): an edited game
  is saved beside fields that lost their edits.
* `PriorityInForce`: a refused second thread clears `busy` under its monitor (`Control.cpp:127`);
  `setPriority` then stores the priority and reports success without telling Windows.
* `FaultHasCause`: `Delete` of an inactive server whose thread sits in its error box frees it at once.

## 5. Proofs

`StartStopProofs` proves, for any sets `Threads` and `Procs` and any `Limit >= 2` (assumptions
`ConstantsAssumption` and `NoThreadAssumption`; `Limit = 1` would restart at the first miss,
because `counter` starts at 1):

* `TypeCorrect`: `Spec => []TypeOK`;
* `Invariance`: `Spec => []IInv`, and from it `CounterCorrect`, `StatusCorrect`, `BusyCorrect`,
  `ProcessesCorrect`, `HandlesCorrect` and `OneLateCorrect`, which are properties of the runs `single`
  and `overlap`.

`IInv` adds to the properties what makes them inductive. `SingleLive`: unless a thread was
doubled, at most one is alive - this is what lets a step of one thread be compared with the
whole state (`Alone`). `CounterStrong`: a monitor that is still creating its process has counter
0 or 1, the only values for which the report `UP/OK` after start-up is right. `StatusStrong`: the
claim of `StatusTruth` also while the ping is under way, and `Down/Stopped` at the two places
that are about to clear `busy`. `LateStrong`: nothing was written under a monitor while a setter is
between its test and its write, and what was is forgotten with the monitor. `NoKillLeft`: `no_kill` comes from the user's answer. The lemma
`NextCases` sorts the steps into five kinds (quiet steps of the window's thread, a start, a
timeout, a step of a thread, a step of a process), so that each part of the invariant has one
short lemma; `OneMoves` and `TimeoutKills` say what these leave alone.

The second half of `StartStopProofs` proves `GivesUpCorrect` and `Supervised`. `GivesUp` needs to
know where the exception of a refused executable is on its way (`RefusedOut`). `Supervised` is
`Spec => Supervises`: `InitMaps` for the initial states, `UIMaps` for the steps of the window's
thread, `CheckMaps` for those of a check thread, a case per action, and one step that cites the
lot. It uses the inductive invariant (a lone thread, an open handle while one is held) and adds
one fact of its own, `StopStands`: a thread that has left its loop has been asked to stop, and
nobody takes that back, because the Start button and the timer only start what is inactive.

`PriorityProofs` also extends `PingBooster`, whose `BoosterInit`, `BoosterNext` and `BoosterSpec`
carry a prefix so that both models fit into one module, and proves `BoosterTypeCorrect`,
`BoosterCorrect` (`PeriodsPaired`), `MenuCorrect` and `SettingsRestored` for any set of values. The
invariant adds that boosting is off while the program is not running and that the file then holds
what was kept; `BoostPairs` is the one fact about `boost`.

`TimeControlProofs` proves `WindowCorrect`, about any clock and any three times, from
`OrderOfTimes`: the operators compare the seconds of the day, which `TwoDigits` reduces to the
comparison of a number of two digits, used once for hours and minutes and once for seconds.
`TestsCorrect` and `TimeTypeCorrect` are theorems of the specification for any number of servers.
`StopsInTimeCorrect` and `StartsInTimeCorrect` need an account of where the seconds went, `Lag`.
Before the timer a server is no later than the period has run; once the timer has gone off, or
while a round is still to come to the server, its lateness and the waits still ahead of it
(`Charge`, at most one stop for each server that is on) fit into the bound; and behind the place
of the round it is no later than the waits since the round passed it. `LagTick` and its kin
(`LagTimer`, `LagStop`, `LagEnds`, `LagPasses`, `LagUser`) say how a step moves the account, and
`DueKept` why a round that has passed a server does not leave it due. The same lemmas serve both
theorems: a server that is to be started is never one of those that are waited for.

`QueueProofs` is about two queues, `StatusQueue` and `PingSocket` (whose `PingInit`, `PingNext`,
`PingSpec` carry a prefix, so that both fit into one module). It proves `QueueTypeCorrect`, `HalvesCorrect` and `NothingStrandedCorrect` for
any bound on the messages and any number of reports, whichever posts fail. Its invariant, `Clean`, holds while no
two threads have collided: each queue is a chain of consecutive report numbers that ends with the
last one pushed, the lead of one over the other is what the place of the two threads allows
(`Balanced`), and with no message to come and the latest post no failure, what the reader found empty
is empty (`Drained`). `ChainAppend` and `ChainPop` are the
facts about a queue, `NextClean` has one step per queue operation.

About the socket `QueueProofs` proves `SocketTypeCorrect` and `HangCorrect` (`HangNoticed`) for any limit and
any receive buffer. The invariant, `HangCounted`, is the account behind the bound: the pings since
the server began to hang are at most the counter plus two for every reply that was read meanwhile.
`UnreadTail` (a bijection) and `UnreadStrange` say what reading and receiving do to the number of
replies in the buffer, `FinishHolds` is the sum at the end of a ping.

`PriorityProofs` proves `PriorityTypeCorrect` and `PriorityCorrect` for any servers, classes and
handles. The two parts of the invariant that carry the argument are `ArgCurrent` (a priority that
`createProcess` has already read is still the current one, unless a `setPriority` is under way
behind it or `busy` was cleared) and `ClassCurrent` (so is the class of a process).

`StopTimingProofs` proves `TimingTypeCorrect`, `KillsCorrect` and `StartupStopCorrect` for every
set of settings with waits of at least a second and every unit of time. The invariant bounds
`left` by the wait it belongs to, and `waited` plus what the thread may still need, from the wait
in which the stop found it (`StopInStartup`, `StopInLoop`); `KillAtEnd` says that the whole of
`WaitTime` has gone by when a thread is terminated.

`ServerListProofs` proves six properties of `ServerList` for any addresses, threads and lists of
any length. The lemmas come first that say what the operators on rows and lists do (`RemoveAtIs`,
`InsertAtIs`, `NumberIs`, `RowsAgain`), then `StepIs` sorts the handlers by their effect on list,
rows and pane, and each part of the invariant has a lemma with one step per effect. Beyond the
properties the invariant says what the rows are while Delete waits for a monitor (`RowsStrong`),
that no row has a number beyond the list (`RowNumbers`), what `stopServer` waits for (`WaitsFor`),
what threads and messages point to (`Living`), what is wrong after a New that could not save
(`FailedNew`) and what the pane shows (`PaneShows`). `DeleteHitsShownCorrect` is
about steps and follows from it.

`SettingsProofs` proves every property of `Settings`, for any servers, hosts, texts, an `int` of
any even number of values and an `unsigned short` of any size. `MsecOfSeconds` and `PortIs` are
the arithmetic: whole seconds within an `int` survive division and multiplication, a port other
than `PortMax` the two divisions of the handler. `ShownIs` says that filling the fields twice
changes nothing more, `SetIs` that a setter leaves every setting as it was or as the texts mean
it. The invariant follows an Update: what is not edited shows what is stored (`Faithful`), the
locals belong to the selected server, and behind the box the game is its own unless it was edited
(`Locals`), every setting that was not edited is, and is
meant to be, what it was before (`Restores`), nothing has changed before the first write
(`Untouched`), a monitor that is busy after the first test has become so since (`Noticed`), and a
second late write is impossible because the test before it fails (`LateOnce`).

`PersistenceProofs` proves `FileTypeCorrect`, `ListSavedCorrect`, `ExitCorrect` and
`StoreImplemented` (`Spec => Refines`) for any servers and lists of any length. What a file holds
is defined by `FlattenSeq`, a fold, and by concatenation; the prover has no induction, so
`FlattensExists` and `FlattensIs` argue from the least number for which the claim would fail
(`LeastExists`), and `FlattenSeqIs` gives the result for blocks of one size, which is all an
archive is made of. `WrittenIs` and `OldFileIs` then say place by place what a file of this and of
the old version holds (`OldOrderSame`: its reader follows the order of its writer), `ReadNew` and `ReadOld` what one object is read as, and `LoadWritten` and
`LoadOld` what `OnNewDocument` makes of any beginning of a file: all the servers, or none. The
invariant follows a write (`Pending`: what is in the file and what is still to come make up what
is being written), and says that the file is always the beginning of an archive of a list
(`KnownFile`), what is left over between two saves (`NotWriting`, `Ended`) and what the last exit
left (`LeftFile`). `StepMaps` maps New, Delete, changes of a server and `~CServerDoc` to `Change`,
`OnNewDocument` to `Start`, the flush of the last value a start needs to `Save`, the ways a run
ends to `End`, and everything else to a stutter.

Only model-checked: the liveness properties (`StopCompletes`, `CrashRecovery`, `HalvesTaken`,
`HangEnds`), because fairness and `ENABLED` are beyond the prover, and the violation. Every
invariant and action property of a passing run, and both refinements, are theorems.

## 6. The plan

Everything the plan listed is modelled, checked and, where the prover reaches, proved. What is left
is outside the program's own logic (section 7) or liveness, which stays with TLC.

## 7. Not modelled

* Remote control (`Remote`, `TCPClient`, `TCPListener`): compiled, but the only code that makes a
  `CRemote` is commented out (`ServerDoc.cpp:88-104`, `157-168`), so no state of the program
  reaches it.
* `NewServerDialog`'s question about empty fields and its Browse button: no state outlives the
  dialog; what it hands to `OnBnClickedNew` is in `ServerList`.
* The tray icon and the taskbar button (`MainFrm.cpp:282-330`): presentation; no other component
  depends on whether the window is minimised.
* The log file and its viewer, the About box, window layout, the splitter, the resources and
  `WSAStartup`: output and start-up without behaviour of their own.
* Processor affinity: `createProcess` binds the process to one processor and unbinds it in the next
  line (`Control.cpp:230-231`), and nothing reads it. `setServerMode`, `Bind` and the reverse
  lookup of `UDPClient`: nothing calls them.
* Memory that runs out, and `CreateThread` that fails: the code does not look.
