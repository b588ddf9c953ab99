----------------------------- MODULE ServerList -----------------------------
(***************************************************************************)
(* The list of servers in CServerDoc, the list the user sees (CServerView),*)
(* the server in the lower pane (CDetailView), and the memory they all     *)
(* point into.  Check threads and ID_SERVER_UPDATE messages hold raw       *)
(* pointers to ServerControl objects, New and Delete allocate and free     *)
(* them, and both save the file, which may throw half way.                 *)
(*                                                                         *)
(* A server is its address; new may reuse a freed one.  The monitor is     *)
(* only starting, running, or out of start() with its thread still alive   *)
(* (StartStop has the rest); its reports are only messages (StatusQueue).  *)
(***************************************************************************)
EXTENDS Integers, Sequences, SequencesExt, FiniteSets

CONSTANTS
  Addr,      \* addresses new may return
  Threads,   \* bound: threads alive at once
  MaxMsgs,   \* bound: messages of these servers in the window's queue
  MaxServers, \* bound: entries of the list
  Loaded,    \* servers read from the file at the start
  None       \* no server, no thread

ASSUME ListAssumption ==
  /\ None \notin Addr \cup Threads
  /\ MaxMsgs \in Nat \ {0} /\ Loaded \in Nat /\ MaxServers \in Nat

VARIABLES
  servers,    \* m_Servers
  selected,   \* m_SelectedServer, from 0; -1 is none
  rows,       \* the list view: the number, whose address and name, whose status it shows
  pane,       \* the server whose settings the lower pane shows
  buttons,    \* what is enabled: Start and Delete, Stop, or nothing
  heap,       \* addresses of the servers that exist
  busy, go,   \* of each address
  handle,     \* the thread stopServer would wait for; None when it has ended
  th,         \* the check threads: place and server
  msgs,       \* the pointers in the ID_SERVER_UPDATE messages that wait
  ui,         \* what the window's thread is in
  fault,      \* the first use of freed memory; nothing is known after it
  past        \* history: what went wrong before

list == <<servers, selected>>
views == <<rows, pane, buttons>>
control == <<busy, go, handle, th>>
vars == <<list, views, heap, control, msgs, ui, fault, past>>

Idle == [at |-> "idle", sc |-> None]
Off == [pc |-> "none", sc |-> None]

TypeOK ==
  /\ servers \in Seq(Addr) /\ selected \in Int
  /\ rows \in Seq([nr : Int, text : Addr, status : Addr])
  /\ pane \in Addr \cup {None} /\ buttons \in {"none", "start", "stop"}
  /\ heap \subseteq Addr
  /\ busy \in [Addr -> BOOLEAN] /\ go \in [Addr -> BOOLEAN]
  /\ handle \in [Addr -> Threads \cup {None}]
  /\ th \in [Threads -> [pc : {"none", "starting", "running", "left"}, sc : Addr \cup {None}]]
  /\ msgs \in Seq(Addr) /\ Len(msgs) <= MaxMsgs
  /\ ui \in [at : {"idle", "dialog", "failed", "stopping", "deleting"}, sc : Addr \cup {None}]
  /\ fault \in {"none", "view", "message", "thread", "index"}
  /\ past \in [addFailed : BOOLEAN, stale : BOOLEAN, freedLive : BOOLEAN, freedQueued : BOOLEAN]

-----------------------------------------------------------------------------
\* The index of the first match, from 0; -1 when there is none.
getServerNumber(s, sc) ==
  IF \E i \in DOMAIN s : s[i] = sc
  THEN (CHOOSE i \in DOMAIN s : s[i] = sc /\ \A j \in 1..(i - 1) : s[j] # sc) - 1
  ELSE -1

\* The test accepts the index behind the last one; reading there is a fault.
getSelectedServer(s, n) == IF n \in 0..(Len(s) - 1) THEN s[n + 1] ELSE None

\* OnInitialUpdate: one row for each server that was loaded.
OnInitialUpdate(s) == [i \in DOMAIN s |-> [nr |-> i, text |-> s[i], status |-> s[i]]]

\* OnUpdate of the list view: every server writes its address and name into the row
\* that has its index; a row that does not exist is passed over.
Texts(rs, s) ==
  [i \in DOMAIN rs |->
     IF i \in DOMAIN s /\ getServerNumber(s, s[i]) = i - 1
     THEN [rs[i] EXCEPT !.text = s[i]] ELSE rs[i]]

Buttons(sc, bz) == IF sc = None THEN "none" ELSE IF bz[sc] THEN "stop" ELSE "start"

\* OnUpdate of both views, after the list became what it is now.
UpdateAllViews(rs) ==
  LET sc == getSelectedServer(servers', selected')
  IN /\ rows' = Texts(rs, servers')
     /\ pane' = sc /\ buttons' = Buttons(sc, busy')
     /\ fault' = IF ~(ToSet(servers') \subseteq heap') THEN "view"
                 ELSE IF selected' = Len(servers') THEN "index" ELSE "none"

Init ==
  /\ servers \in [1..Loaded -> Addr] /\ IsInjective(servers)
  /\ selected = -1 /\ rows = OnInitialUpdate(servers)
  /\ pane = None /\ buttons = "none"
  /\ heap = ToSet(servers)
  /\ busy = [a \in Addr |-> FALSE] /\ go = [a \in Addr |-> FALSE]
  /\ handle = [a \in Addr |-> None] /\ th = [t \in Threads |-> Off]
  /\ msgs = <<>> /\ ui = Idle /\ fault = "none"
  /\ past = [addFailed |-> FALSE, stale |-> FALSE, freedLive |-> FALSE, freedQueued |-> FALSE]

-----------------------------------------------------------------------------
\* As OnNMClickServerlist with the index stored but the views not told.
ClickNoUpdate(i) ==
  /\ ui = Idle
  /\ selected' = (IF i \in DOMAIN rows THEN rows[i].nr ELSE 0) - 1
  /\ UNCHANGED <<servers, views, heap, control, msgs, ui, fault, past>>

\* NM_CLICK: the number in the marked row, or nothing when no row is marked.
OnNMClickServerlist(i) ==
  /\ ui = Idle
  /\ selected' = (IF i \in DOMAIN rows THEN rows[i].nr ELSE 0) - 1
  /\ UNCHANGED <<servers, heap, control, msgs, ui>>
  /\ past' = [past EXCEPT !.stale = FALSE]
  /\ UpdateAllViews(rows)

\* startServer, then the views.
OnBnClickedStart(t) ==
  LET sc == getSelectedServer(servers, selected)
  IN /\ ui = Idle /\ buttons = "start"
     /\ IF sc = None \/ busy[sc] THEN UNCHANGED control
        ELSE /\ th[t] = Off
             /\ th' = [th EXCEPT ![t] = [pc |-> "starting", sc |-> sc]]
             /\ handle' = [handle EXCEPT ![sc] = t]
             /\ UNCHANGED <<busy, go>>
     /\ past' = [past EXCEPT !.stale = FALSE]
     /\ UNCHANGED <<list, heap, msgs, ui>>
     /\ UpdateAllViews(rows)

OnBnClickedStop ==
  LET sc == getSelectedServer(servers, selected)
  IN /\ ui = Idle /\ buttons = "stop"
     /\ UNCHANGED <<list, heap, msgs, busy, handle, th>>
     /\ IF sc # None /\ busy[sc]
        THEN /\ go' = [go EXCEPT ![sc] = FALSE]
             /\ ui' = [at |-> "stopping", sc |-> sc]
             /\ UNCHANGED <<views, fault, past>>
        ELSE /\ past' = [past EXCEPT !.stale = FALSE]
             /\ UNCHANGED <<go, ui>> /\ UpdateAllViews(rows)

\* The wait of stopServer ends: the thread has ended, or it is terminated after the
\* time is up, which leaves busy set.
WaitOver ==
  /\ th' = IF handle[ui.sc] = None THEN th ELSE [th EXCEPT ![handle[ui.sc]] = Off]
  /\ handle' = [handle EXCEPT ![ui.sc] = None]
  /\ ui' = Idle
  /\ UNCHANGED <<busy, go, msgs>>

Stopped ==
  /\ ui.at = "stopping" /\ WaitOver
  /\ past' = [past EXCEPT !.stale = FALSE]
  /\ UNCHANGED <<list, heap>> /\ UpdateAllViews(rows)

-----------------------------------------------------------------------------
\* As DeleteRow with the numbers left as they are.
DeleteRowOnly(rs, nr) == IF nr + 1 \in DOMAIN rs THEN RemoveAt(rs, nr + 1) ELSE rs

\* DeleteItem, and the numbers behind it one lower.
DeleteRow(rs, nr) ==
  LET kept == IF nr + 1 \in DOMAIN rs THEN RemoveAt(rs, nr + 1) ELSE rs
  IN [i \in DOMAIN kept |->
        IF kept[i].nr > nr THEN [kept[i] EXCEPT !.nr = @ - 1] ELSE kept[i]]

\* As delSelectedServer with m_SelectedServer left as it is.
DelKeepSelected(sc, rs, shown, enabled, threads) ==
  /\ servers' = RemoveAt(servers, selected + 1)
  /\ heap' = heap \ {sc}
  /\ selected' = selected
  /\ past' = [past EXCEPT !.stale = FALSE]
  /\ UpdateAllViews(rs)

\* As delSelectedServer without the delete.
DelLeak(sc, rs, shown, enabled, threads) ==
  /\ servers' = RemoveAt(servers, selected + 1)
  /\ heap' = heap
  /\ selected' = selected - 1
  /\ past' = [past EXCEPT !.stale = FALSE]
  /\ UpdateAllViews(rs)

\* As delSelectedServer with the object freed but left in the list.
DelFreeOnly(sc, rs, shown, enabled, threads) ==
  /\ servers' = servers
  /\ heap' = heap \ {sc}
  /\ selected' = selected - 1
  /\ past' = [past EXCEPT !.stale = FALSE]
  /\ UpdateAllViews(rs)

\* The rest of delSelectedServer after stopServer has returned.  When writing the file
\* throws, the exception leaves the handler and the views are not updated again.
\* rs, shown and enabled are what the views show at that point.
delSelectedServer(sc, rs, shown, enabled, threads) ==
  /\ servers' = RemoveAt(servers, selected + 1)
  /\ heap' = heap \ {sc}
  /\ selected' = selected - 1
  /\ \E thrown \in BOOLEAN :
       /\ past' = [past EXCEPT
            !.stale = thrown,
            !.freedLive = @ \/ \E t \in Threads : threads[t].pc # "none" /\ threads[t].sc = sc,
            !.freedQueued = @ \/ sc \in ToSet(msgs)]
       /\ IF thrown
          THEN rows' = rs /\ pane' = shown /\ buttons' = enabled /\ UNCHANGED fault
          ELSE UpdateAllViews(rs)

\* Delete: the row goes first, then stopServer, which returns at once for a server that
\* is not active, even when one of its threads still lives.
OnBnClickedDelete ==
  LET sc == getSelectedServer(servers, selected)
      rs == DeleteRow(rows, getServerNumber(servers, sc))
  IN /\ ui = Idle /\ buttons = "start"
     /\ UNCHANGED <<busy, handle, th, msgs>>
     /\ \/ /\ sc = None
           /\ past' = [past EXCEPT !.stale = FALSE]
           /\ UNCHANGED <<list, heap, go, ui>> /\ UpdateAllViews(rows)
        \/ /\ sc # None /\ ~busy[sc]
           /\ UNCHANGED <<go, ui>>
           /\ delSelectedServer(sc, rs, pane, buttons, th)
        \/ /\ sc # None /\ busy[sc]
           /\ go' = [go EXCEPT ![sc] = FALSE]
           /\ ui' = [at |-> "deleting", sc |-> sc]
           /\ rows' = rs /\ UNCHANGED <<list, pane, buttons, heap, fault, past>>

\* stopServer updates the views before it returns, while the list has one entry more
\* than there are rows.
Deleted ==
  /\ ui.at = "deleting" /\ WaitOver
  /\ delSelectedServer(ui.sc, Texts(rows, servers), ui.sc, Buttons(ui.sc, busy), th')

-----------------------------------------------------------------------------
\* New opens the dialog; until it closes the window handles only messages.
OnBnClickedNew ==
  /\ ui = Idle /\ ui' = [at |-> "dialog", sc |-> None]
  /\ UNCHANGED <<list, views, heap, control, msgs, fault, past>>

\* Cancel; or OK with fields empty, and No to completing them.
OnCancel ==
  /\ ui.at = "dialog" /\ ui' = Idle
  /\ UNCHANGED <<list, views, heap, control, msgs, fault, past>>

\* The host cannot be resolved: the constructor throws, and nothing was allocated.
NewUnresolved ==
  /\ ui.at = "dialog" /\ ui' = [at |-> "failed", sc |-> None]
  /\ UNCHANGED <<list, views, heap, control, msgs, fault, past>>

\* new, for an address that is free: the members the constructor sets.
Construct(sc) ==
  /\ sc \in Addr \ heap
  /\ heap' = heap \cup {sc}
  /\ busy' = [busy EXCEPT ![sc] = FALSE] /\ go' = [go EXCEPT ![sc] = FALSE]
  /\ UNCHANGED <<handle, th>>

\* addServer, the new row, and the new server selected.
NewAdded(sc) ==
  LET nr == getServerNumber(servers', sc)
      at == IF nr <= Len(rows) THEN nr + 1 ELSE Len(rows) + 1
  IN /\ ui.at = "dialog" /\ ui' = Idle /\ Len(servers) < MaxServers
     /\ Construct(sc)
     /\ servers' = Append(servers, sc)
     /\ selected' = nr
     /\ past' = [past EXCEPT !.stale = FALSE]
     /\ UNCHANGED msgs
     /\ UpdateAllViews(InsertAt(rows, at, [nr |-> nr + 1, text |-> sc, status |-> sc]))

\* addServer throws when it writes the file, with the server already in the list.
NewUnsaved(sc) ==
  /\ ui.at = "dialog" /\ ui' = [at |-> "failed", sc |-> sc]
  /\ Len(servers) < MaxServers
  /\ Construct(sc)
  /\ servers' = Append(servers, sc)
  /\ past' = [past EXCEPT !.addFailed = TRUE]
  /\ UNCHANGED <<selected, views, msgs, fault>>

\* catch (...): after the error box the object is deleted; it stays in the list.
NewCaught ==
  /\ ui.at = "failed" /\ ui' = Idle
  /\ heap' = heap \ {ui.sc}
  /\ past' = [past EXCEPT !.freedQueued = @ \/ ui.sc \in ToSet(msgs)]
  /\ UNCHANGED <<list, views, control, msgs, fault>>

-----------------------------------------------------------------------------
\* A message is handled whenever the window's thread runs a message loop.  The number is
\* looked up in the list, but the object is used in any case.
OnServerUpdate ==
  LET sc == Head(msgs)
      nr == getServerNumber(servers, sc)
  IN /\ ui.at \in {"idle", "dialog", "failed"} /\ msgs # <<>>
     /\ msgs' = Tail(msgs)
     /\ fault' = IF sc \in heap THEN fault ELSE "message"
     /\ rows' = IF sc \in heap /\ nr + 1 \in DOMAIN rows
                THEN [rows EXCEPT ![nr + 1].status = sc] ELSE rows
     /\ UNCHANGED <<list, pane, buttons, heap, control, ui, past>>

\* Thread t of server sc ends, which its handle tells.
Ended(t, sc) ==
  /\ th' = [th EXCEPT ![t] = Off]
  /\ handle' = [handle EXCEPT ![sc] = IF @ = t THEN None ELSE @]

\* As Post on a queue without a limit.
PostUnlimited(sc) == msgs' = Append(msgs, sc)

\* PostMessage fails when the window thread's queue is full, whoever filled it.
Post(sc) == UNCHANGED msgs \/ (Len(msgs) < MaxMsgs /\ msgs' = Append(msgs, sc))

\* check() at the head of its loop, which reads the object: it ends when go is clear,
\* start() throws when the server is busy and clears busy on its way out, otherwise a
\* monitor runs.
ThreadLoop(t) ==
  LET sc == th[t].sc
      goes == th[t].pc = "starting" \/ go[sc]
  IN /\ th[t].pc \in {"starting", "left"}
     /\ \/ /\ sc \notin heap
           /\ fault' = "thread" /\ UNCHANGED <<control, msgs>>
        \/ /\ sc \in heap /\ ~goes
           /\ Ended(t, sc) /\ UNCHANGED <<busy, go, msgs, fault>>
        \/ /\ sc \in heap /\ goes
           /\ go' = [go EXCEPT ![sc] = TRUE] /\ busy' = [busy EXCEPT ![sc] = ~busy[sc]]
           /\ th' = [th EXCEPT ![t].pc = IF busy[sc] THEN "left" ELSE "running"]
           /\ IF busy[sc] THEN UNCHANGED msgs ELSE Post(sc)
           /\ UNCHANGED <<handle, fault>>
     /\ UNCHANGED <<list, views, heap, ui, past>>

\* start() reports, or leaves with a last report and busy clear: when go is clear, or by
\* an error, after which check() returns or tries again once the error box is closed.
ThreadRuns(t) ==
  LET sc == th[t].sc
  IN /\ th[t].pc = "running"
     /\ \/ /\ sc \notin heap
           /\ fault' = "thread" /\ UNCHANGED <<control, msgs>>
        \/ /\ sc \in heap
           /\ Post(sc) /\ UNCHANGED <<go, fault>>
           /\ \/ UNCHANGED <<busy, handle, th>>
              \/ /\ busy' = [busy EXCEPT ![sc] = FALSE]
                 /\ \/ th' = [th EXCEPT ![t].pc = "left"] /\ UNCHANGED handle
                    \/ Ended(t, sc)
     /\ UNCHANGED <<list, views, heap, ui, past>>

Next ==
  /\ fault = "none"
  /\ \/ \E i \in 0..Len(rows) : OnNMClickServerlist(i)
     \/ \E t \in Threads : OnBnClickedStart(t)
     \/ OnBnClickedStop \/ Stopped
     \/ OnBnClickedDelete \/ Deleted
     \/ OnBnClickedNew \/ OnCancel \/ NewUnresolved \/ NewCaught
     \/ \E sc \in Addr : NewAdded(sc) \/ NewUnsaved(sc)
     \/ OnServerUpdate
     \/ \E t \in Threads : ThreadLoop(t) \/ ThreadRuns(t)

Spec == Init /\ [][Next]_vars

-----------------------------------------------------------------------------
\* As long as no New failed to save: the list holds every server that exists, once, and
\* none that was freed, whatever else went wrong.
ListOwned ==
  ~past.addFailed => ToSet(servers) = heap /\ IsInjective(servers)

\* Row i has number i, shows the reports of server i, and its address and name too unless
\* the last Delete could not save; except while Delete waits for a monitor to stop.
RowsMatch ==
  ~past.addFailed /\ ui.at # "deleting" =>
    /\ Len(rows) = Len(servers)
    /\ \A i \in DOMAIN rows : rows[i].nr = i /\ rows[i].status = servers[i]
    /\ ~past.stale => \A i \in DOMAIN rows : rows[i].text = servers[i]

\* The index getSelectedServer accepts although nothing is there is never selected.
SelectedValid == selected < Len(servers)

\* Freed memory is used for one of three reasons only: New kept a server in the list that
\* it deleted, Delete freed a server with a thread alive, or one with a message waiting.
FaultHasCause ==
  /\ fault = "view" => past.addFailed
  /\ fault = "thread" => past.freedLive
  /\ fault = "message" => past.freedQueued

\* Delete removes the server whose settings the lower pane shows, unless the last Delete
\* could not save.
DeleteHitsShown ==
  [][(Len(servers') < Len(servers) /\ ~past.stale) => servers[selected + 1] = pane]_vars
=============================================================================
