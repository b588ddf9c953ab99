------------------------------ MODULE Priority ------------------------------
(***************************************************************************)
(* Changing the priority of a server while its monitor runs.  setPriority  *)
(* stores the priority, looks at busy, and passes the process handle to    *)
(* SetPriorityClass; the check thread reads the priority when it creates   *)
(* the process, and stores the handle after that.  There is no lock.       *)
(*                                                                         *)
(* endProcess closes the handle and may leave its value behind; Windows    *)
(* gives that value to the next handle it opens, of any server's process.  *)
(***************************************************************************)
EXTENDS Integers, FiniteSets

CONSTANTS
  Servers,
  Classes,      \* HIGH, ABOVE_NORMAL, NORMAL, LOW
  Handles,      \* values of process handles
  NORMAL, None

ASSUME PriorityAssumption ==
  /\ NORMAL \in Classes /\ None \notin Classes \cup Servers \cup Handles

VARIABLES
  priority,     \* ServerControl's priority
  busy,
  pc, arg, new, \* the check thread: where it is, CreateProcess's argument and result
  handle,       \* processhandle
  owner,        \* whose process an open handle is for
  class,        \* the priority class of the server's process, None when it has none
  call,         \* the setPriority under way in the window's thread
  failed,       \* history: the last setPriority of the server was reported as failed
  stray         \* history: a setPriority reached the process of another server

thread == <<pc, arg, new>>
history == <<failed, stray>>
vars == <<priority, busy, thread, handle, owner, class, call, history>>

TypeOK ==
  /\ priority \in [Servers -> Classes]
  /\ busy \in [Servers -> BOOLEAN]
  /\ pc \in [Servers -> {"idle", "begin", "create", "assign", "run", "quit", "dead"}]
  /\ arg \in [Servers -> Classes]
  /\ new \in [Servers -> Handles \cup {None}]
  /\ handle \in [Servers -> Handles \cup {None}]
  /\ owner \in [Handles -> Servers \cup {None}]
  /\ class \in [Servers -> Classes \cup {None}]
  /\ call \in {"none", "test", "set"} \X (Servers \cup {None})
  /\ failed \in [Servers -> BOOLEAN]
  /\ stray \in [Servers -> BOOLEAN]

Init ==
  /\ priority \in [Servers -> Classes]
  /\ busy = [s \in Servers |-> FALSE]
  /\ pc = [s \in Servers |-> "idle"]
  /\ arg = [s \in Servers |-> NORMAL]
  /\ new = [s \in Servers |-> None] /\ handle = [s \in Servers |-> None]
  /\ owner = [h \in Handles |-> None]
  /\ class = [s \in Servers |-> None]
  /\ call = <<"none", None>>
  /\ failed = [s \in Servers |-> FALSE] /\ stray = [s \in Servers |-> FALSE]

-----------------------------------------------------------------------------
\* The check thread.
GoTo(s, from, to) == pc[s] = from /\ pc' = [pc EXCEPT ![s] = to]

\* start() sets busy first.
Begin(s) ==
  /\ GoTo(s, "idle", "begin")
  /\ busy' = [busy EXCEPT ![s] = TRUE]
  /\ UNCHANGED <<priority, arg, new, handle, owner, class, call, history>>

\* A second thread of the server, started before this one had set busy, is refused and
\* clears busy on its way out.  The monitor goes on; what a further Start makes of that
\* is in StartStop.
Refused(s) ==
  /\ busy[s] /\ pc[s] \notin {"idle", "dead"}
  /\ busy' = [busy EXCEPT ![s] = FALSE]
  /\ UNCHANGED <<priority, thread, handle, owner, class, call, history>>

\* createProcess evaluates the arguments of CreateProcess ...
ReadPriority(s) ==
  /\ GoTo(s, "begin", "create")
  /\ arg' = [arg EXCEPT ![s] = priority[s]]
  /\ failed' = [failed EXCEPT ![s] = FALSE] /\ stray' = [stray EXCEPT ![s] = FALSE]
  /\ UNCHANGED <<priority, busy, new, handle, owner, class, call>>

\* ... the process exists ...
CreateProcess(s) ==
  /\ GoTo(s, "create", "assign")
  /\ \E h \in Handles :
       /\ owner[h] = None
       /\ owner' = [owner EXCEPT ![h] = s] /\ new' = [new EXCEPT ![s] = h]
  /\ class' = [class EXCEPT ![s] = arg[s]]
  /\ UNCHANGED <<priority, busy, arg, handle, call, history>>

\* ... (or does not: start() clears busy and throws) ...
CreateFails(s) ==
  /\ GoTo(s, "create", "idle")
  /\ busy' = [busy EXCEPT ![s] = FALSE]
  /\ UNCHANGED <<priority, arg, new, handle, owner, class, call, history>>

\* ... and its handle is stored.
Assign(s) ==
  /\ GoTo(s, "assign", "run")
  /\ handle' = [handle EXCEPT ![s] = new[s]]
  /\ UNCHANGED <<priority, busy, arg, new, owner, class, call, history>>

\* endProcess closes the handle; processhandle becomes 0 only when the process had ended
\* by itself.  A restart or the end of start() follows.
EndProcess(s) ==
  /\ \E to \in {"begin", "quit"} : GoTo(s, "run", to)
  /\ owner' = [owner EXCEPT ![handle[s]] = None]
  /\ handle' = [handle EXCEPT ![s] = IF class[s] = None THEN None ELSE @]
  /\ class' = [class EXCEPT ![s] = None]
  /\ UNCHANGED <<priority, busy, arg, new, call, history>>

Quit(s) ==
  /\ GoTo(s, "quit", "idle")
  /\ busy' = [busy EXCEPT ![s] = FALSE]
  /\ UNCHANGED <<priority, arg, new, handle, owner, class, call, history>>

\* The process ends by itself; its handle stays open.
Exit(s) ==
  /\ class[s] # None
  /\ class' = [class EXCEPT ![s] = None]
  /\ UNCHANGED <<priority, busy, thread, handle, owner, call, history>>

\* stopServer has waited long enough: TerminateThread, wherever the thread is.
TerminateThread(s) ==
  /\ call = <<"none", None>>
  /\ busy[s] /\ pc[s] # "dead"
  /\ pc' = [pc EXCEPT ![s] = "dead"]
  /\ UNCHANGED <<priority, busy, arg, new, handle, owner, class, call, history>>

-----------------------------------------------------------------------------
\* OnCbnSelchangeCombo1 for the selected server, and setPriority's first assignment; no
\* selection in the box is a failure at once.
SetPriority(s, prior) ==
  /\ call = <<"none", None>>
  /\ IF prior = None
     THEN failed' = [failed EXCEPT ![s] = TRUE] /\ UNCHANGED <<priority, call>>
     ELSE /\ priority' = [priority EXCEPT ![s] = prior]
          /\ call' = <<"test", s>>
          /\ UNCHANGED failed
  /\ UNCHANGED <<busy, thread, handle, owner, class, stray>>

\* As TestBusy with the handle looked at, which is stored later than busy.
TestHandle(s) ==
  /\ call = <<"test", s>>
  /\ IF handle[s] # None
     THEN call' = <<"set", s>> /\ UNCHANGED failed
     ELSE call' = <<"none", None>> /\ failed' = [failed EXCEPT ![s] = FALSE]
  /\ UNCHANGED <<priority, busy, thread, handle, owner, class, stray>>

TestBusy(s) ==
  /\ call = <<"test", s>>
  /\ IF busy[s]
     THEN call' = <<"set", s>> /\ UNCHANGED failed
     ELSE call' = <<"none", None>> /\ failed' = [failed EXCEPT ![s] = FALSE]
  /\ UNCHANGED <<priority, busy, thread, handle, owner, class, stray>>

Behind(h) == IF h = None THEN None ELSE owner[h]

\* SetPriorityClass through whatever processhandle is by now.
SetPriorityClass(s) ==
  /\ call = <<"set", s>> /\ call' = <<"none", None>>
  /\ LET t == Behind(handle[s])
     IN /\ failed' = [failed EXCEPT ![s] = (t = None)]
        /\ class' = [u \in Servers |-> IF u = t /\ class[u] # None THEN priority[s] ELSE class[u]]
        /\ stray' = [u \in Servers |-> IF t \in {s, None} THEN stray[u] ELSE
                                         stray[u] \/ u \in {s, t}]
  /\ UNCHANGED <<priority, busy, thread, handle, owner>>

Next ==
  \E s \in Servers :
    \/ Begin(s) \/ Refused(s) \/ ReadPriority(s) \/ CreateProcess(s) \/ CreateFails(s)
    \/ Assign(s) \/ EndProcess(s) \/ Quit(s) \/ Exit(s) \/ TerminateThread(s)
    \/ \E prior \in Classes \cup {None} : SetPriority(s, prior)
    \/ TestBusy(s) \/ SetPriorityClass(s)

Spec == Init /\ [][Next]_vars

-----------------------------------------------------------------------------
\* Storing before looking at busy is what makes it work without a lock: a process that
\* runs has the priority of its server, unless the user was told that the change failed,
\* the change of one server went to the process of another through a stale handle, or
\* busy was cleared under its monitor, which setPriority then takes for stopped.
PriorityInForce ==
  \A s \in Servers :
    class[s] # None /\ busy[s] /\ call[2] # s /\ ~failed[s] /\ ~stray[s] => class[s] = priority[s]
=============================================================================
