---------------------------- MODULE StatusQueue ----------------------------
(***************************************************************************)
(* How a report travels from the check thread of a server to the list the  *)
(* user sees: updateStatus (Control.cpp) pushes the two halves of a report *)
(* into two std::queues and posts ID_SERVER_UPDATE; OnServerUpdate         *)
(* (ServerView.cpp) pops them one by one.  There is no lock anywhere: the  *)
(* two threads interleave between the queue operations, and a push and a   *)
(* pop of one queue that collide may lose or invent an element (a data     *)
(* race).  A report is its number here, whatever its halves say.           *)
(***************************************************************************)
EXTENDS Integers, Sequences

CONSTANTS
  MsgLimit,     \* bound: messages of this server that wait; the window thread's queue holds 10000
  MaxReports,   \* bound: reports the check thread makes
  MaxRaces      \* bound: collisions on a queue

ASSUME BoundsAssumption ==
  /\ MsgLimit \in Nat \ {0}
  /\ MaxReports \in Nat /\ MaxRaces \in Nat

VARIABLES
  up, status,     \* the two queues
  reports,        \* the number of the latest updateStatus call
  wpc,            \* the check thread: idle, about to push up, to push status, to post; or dead
  msgs,           \* ID_SERVER_UPDATE messages waiting for the window
  rpc,            \* OnServerUpdate: idle, about to call getUp, to call getStatus, to show
  rup, rstatus,   \* its locals
  shown,          \* the numbers of the two halves in the list; 0 is "Down" / "Stopped"
  races,          \* history: collisions so far
  dropped         \* history: the latest PostMessage failed

queues == <<up, status>>
reader == <<rpc, rup, rstatus, shown>>
vars == <<queues, reports, wpc, msgs, reader, races, dropped>>

INVALID_STATUS_UP == -1
Garbage == -2   \* what a pop reads beyond the last push

TypeOK ==
  /\ up \in Seq(Int) /\ status \in Seq(Int)
  /\ reports \in 0..MaxReports
  /\ wpc \in {"idle", "up", "status", "post", "dead"}
  /\ msgs \in 0..MsgLimit
  /\ rpc \in {"idle", "up", "status", "show"}
  /\ rup \in Int /\ rstatus \in Int
  /\ shown \in Int \X Int
  /\ races \in 0..MaxRaces /\ dropped \in BOOLEAN

Init ==
  /\ up = <<>> /\ status = <<>> /\ reports = 0
  /\ wpc = "idle" /\ msgs = 0
  /\ rpc = "idle" /\ rup = INVALID_STATUS_UP /\ rstatus = INVALID_STATUS_UP
  /\ shown = <<0, 0>>
  /\ races = 0 /\ dropped = FALSE

-----------------------------------------------------------------------------
\* start() calls updateStatus.
Report ==
  /\ wpc = "idle" /\ reports < MaxReports
  /\ wpc' = "up"
  /\ reports' = reports + 1
  /\ UNCHANGED <<queues, msgs, reader, races, dropped>>

PushUp ==
  /\ wpc = "up" /\ wpc' = "status"
  /\ up' = Append(up, reports)
  /\ UNCHANGED <<status, reports, msgs, reader, races, dropped>>

PushStatus ==
  /\ wpc = "status" /\ wpc' = "post"
  /\ status' = Append(status, reports)
  /\ UNCHANGED <<up, reports, msgs, reader, races, dropped>>

\* As PostMessage, posted only when the window has nothing to read yet.
PostIfIdle ==
  /\ wpc = "post" /\ wpc' = "idle"
  /\ \/ msgs = 0 /\ rpc = "idle" /\ msgs' = 1 /\ dropped' = FALSE
     \/ ~(msgs = 0 /\ rpc = "idle") /\ UNCHANGED <<msgs, dropped>>
     \/ UNCHANGED msgs /\ dropped' = TRUE
  /\ UNCHANGED <<queues, reports, reader, races>>

\* PostMessage fails when the window thread's queue is full, which is shared with the
\* threads of other servers: at any time, whatever waits of this server.  The result is
\* not looked at: the report stays in the queues unannounced.
PostMessage ==
  /\ wpc = "post" /\ wpc' = "idle"
  /\ \/ msgs < MsgLimit /\ msgs' = msgs + 1 /\ dropped' = FALSE
     \/ UNCHANGED msgs /\ dropped' = TRUE
  /\ UNCHANGED <<queues, reports, reader, races>>

\* TerminateThread: called by the window's thread, so never inside OnServerUpdate.
\* busy stays set, so no other thread will report for this server.
Killed ==
  /\ rpc = "idle" /\ wpc # "dead" /\ wpc' = "dead"
  /\ UNCHANGED <<queues, reports, msgs, reader, races, dropped>>

-----------------------------------------------------------------------------
\* The window's thread takes the message and enters OnServerUpdate.
OnServerUpdate ==
  /\ rpc = "idle" /\ msgs > 0
  /\ rpc' = "up" /\ msgs' = msgs - 1
  /\ UNCHANGED <<queues, reports, wpc, rup, rstatus, shown, races, dropped>>

Front(q) == IF q = <<>> THEN INVALID_STATUS_UP ELSE Head(q)
Popped(q) == IF q = <<>> THEN q ELSE Tail(q)

GetUp ==
  /\ rpc = "up" /\ rpc' = "status"
  /\ rup' = Front(up) /\ up' = Popped(up)
  /\ UNCHANGED <<status, reports, wpc, msgs, rstatus, shown, races, dropped>>

\* As GetStatus with || for && in the loop condition.
GetStatusEither ==
  /\ rpc = "status"
  /\ rstatus' = Front(status) /\ status' = Popped(status)
  /\ rpc' = IF rup # INVALID_STATUS_UP \/ rstatus' # INVALID_STATUS_UP THEN "show" ELSE "idle"
  /\ UNCHANGED <<up, reports, wpc, msgs, rup, shown, races, dropped>>

\* As GetStatus with the handler leaving after one pair.
GetStatusOnce ==
  /\ rpc = "status"
  /\ rstatus' = Front(status) /\ status' = Popped(status)
  /\ rpc' = "idle"
  /\ shown' = IF rup # INVALID_STATUS_UP /\ rstatus' # INVALID_STATUS_UP
              THEN <<rup, rstatus'>> ELSE shown
  /\ UNCHANGED <<up, reports, wpc, msgs, rup, races, dropped>>

\* Both queues are popped before the loop condition looks at either value.
GetStatus ==
  /\ rpc = "status"
  /\ rstatus' = Front(status) /\ status' = Popped(status)
  /\ rpc' = IF rup # INVALID_STATUS_UP /\ rstatus' # INVALID_STATUS_UP THEN "show" ELSE "idle"
  /\ UNCHANGED <<up, reports, wpc, msgs, rup, shown, races, dropped>>

\* The body of the loop: the list, and the same pair in the log file.
Show ==
  /\ rpc = "show" /\ rpc' = "up"
  /\ shown' = <<rup, rstatus>>
  /\ UNCHANGED <<queues, reports, wpc, msgs, rup, rstatus, races, dropped>>

-----------------------------------------------------------------------------
\* A pop and a push of the same std::queue at once: each reads and writes its
\* element count, and one of the two writes is lost.  Without the push's, the new
\* element is gone; without the pop's, the count is one too high.
Collided(q) == {Tail(q), Tail(q) \o <<reports, Garbage>>}

RaceUp ==
  /\ wpc = "up" /\ rpc = "up" /\ up # <<>> /\ races < MaxRaces
  /\ wpc' = "status" /\ rpc' = "status"
  /\ rup' = Head(up) /\ up' \in Collided(up)
  /\ races' = races + 1
  /\ UNCHANGED <<status, reports, msgs, rstatus, shown, dropped>>

RaceStatus ==
  /\ wpc = "status" /\ rpc = "status" /\ status # <<>> /\ races < MaxRaces
  /\ wpc' = "post" /\ rpc' = IF rup # INVALID_STATUS_UP THEN "show" ELSE "idle"
  /\ rstatus' = Head(status) /\ status' \in Collided(status)
  /\ races' = races + 1
  /\ UNCHANGED <<up, reports, msgs, rup, shown, dropped>>

Writer == Report \/ PushUp \/ PushStatus \/ PostMessage

Reader == OnServerUpdate \/ GetUp \/ GetStatus \/ Show

Next == Writer \/ Killed \/ Reader \/ RaceUp \/ RaceStatus

\* Both threads are scheduled; start() need not report anything more.
Fairness == WF_vars(PushUp \/ PushStatus \/ PostMessage) /\ WF_vars(Reader)

Spec == Init /\ [][Next]_vars

FairSpec == Spec /\ Fairness

-----------------------------------------------------------------------------
\* The two halves shown side by side (OnServerUpdate, ServerView.cpp:392) come from
\* the same report or from neighbouring ones: the threads may interleave in any way
\* and reports may be dropped, but the queues never drift apart further.
HalvesNearby == races = 0 => shown[1] - shown[2] \in -1..1

\* No report waits without a message to announce it, unless the latest message could not
\* be posted: once the window has handled its last message and no report is under way, both
\* queues are empty.  The handler's loop takes along what earlier failed posts left behind.
NothingStranded ==
  races = 0 /\ rpc = "idle" /\ msgs = 0 /\ wpc \in {"idle", "up"} /\ ~dropped
    => up = <<>> /\ status = <<>>

\* Whatever the two threads do, a half that was pushed leaves its queue again, however many
\* posts fail, unless no later one succeeds or the thread was killed before it could post.
HalvesTaken == \A n \in 1..MaxReports :
  (\E i \in DOMAIN status : status[i] = n)
     ~> (wpc = "dead" \/ races > 0 \/ []dropped \/ \A i \in DOMAIN status : status[i] # n)
=============================================================================
