------------------------------ MODULE Settings ------------------------------
(***************************************************************************)
(* Editing the settings of the selected server: the fields of the detail   *)
(* view (DetailView.cpp), Update's chain of setters (Control.h), which     *)
(* test busy one by one, and the check threads that set busy meanwhile.    *)
(*                                                                         *)
(* Every UpdateAllViews fills the fields from the server again, whatever   *)
(* the user has typed.  A monitor is reduced to whether its thread runs,   *)
(* and has set busy.  Numbers keep their width: a long has Word values.    *)
(***************************************************************************)
EXTENDS Integers, Sequences, FiniteSets

CONSTANTS
  Servers,
  Address,      \* gethostbyname: the address of a host text, or "" when it has none
  Texts,        \* what a user types into a field, and the starting values of servers
  PortMax,      \* USHRT_MAX, 65535 in the code
  Thousand,     \* milliseconds in a second
  Word,         \* an int has the values -(Word \div 2)..(Word \div 2) - 1
  MaxEdits      \* bound: fields that differ from the server at a time

Fields == {"ip", "port", "game", "executable", "timeout", "pause", "startup", "name", "times"}
Waits == {"timeout", "pause", "startup"}
Hosts == DOMAIN Address
Resolved == {Address[h] : h \in Hosts} \ {""}
Program == "program"     \* NORMAL_PROGRAM_INDEX
Unset == "unset"         \* start and stop as the constructor leaves them

ASSUME SettingsAssumption ==
  /\ "none" \notin Servers
  /\ Fields = DOMAIN Texts /\ \A f \in Fields : Texts[f] # {}
  /\ Texts["ip"] \subseteq Hosts /\ \A a \in Resolved : a \in Hosts /\ Address[a] = a
  /\ {PortMax, Thousand, Word} \subseteq Nat \ {0} /\ PortMax > 1
  /\ Word % 2 = 0 /\ Word > 2
  /\ \A f \in Waits \cup {"port"} : Texts[f] \subseteq -(Word \div 2)..(Word \div 2) - 1
  /\ Unset \notin Texts["times"] /\ MaxEdits \in Nat

VARIABLES
  stored,       \* the settings of the servers
  timecontrol,  \* IsTimeControlled
  monitor,      \* the check thread: none, busy, or up to set busy at any moment
  sel,          \* the selected server
  pane,         \* the texts in the fields
  button,       \* Update is enabled
  ui,           \* the window's thread: idle, in the port's box, before a setter, inside one
  save,         \* OnBnClickedUpdate's locals: sc, the texts (the game alone in the box), the setter
  edited,       \* history: fields the user changed since they were filled
  last          \* history: how the last Update ended, from what, for which edits

vars == <<stored, timecontrol, monitor, sel, pane, button, ui, save, edited, last>>

-----------------------------------------------------------------------------
\* Conversions.  An int product wraps; a division rounds towards zero.
Int32(n) == ((n + Word \div 2) % Word) - Word \div 2

Quotient(n, d) == IF n >= 0 THEN n \div d ELSE -((-n) \div d)
Msec(sec) == Int32(sec * Thousand)
Seconds(msec) == Quotient(msec, Thousand)

\* As PortOf without the conversion to unsigned short.
PortOfLong(n) == n - PortMax * Quotient(n, PortMax)

\* (unsigned short)(strtol(tmp)%USHRT_MAX)
PortOf(n) == (n - PortMax * Quotient(n, PortMax)) % (PortMax + 1)

\* As Chain with setServer, which may throw, at the end.
ChainServerLast ==
  <<"game", "executable", "timeout", "pause", "startup", "name", "times", "server">>

\* The setters in OnBnClickedUpdate's order.
Chain == <<"server", "game", "executable", "timeout", "pause", "startup", "name", "times">>

\* What one setter of the chain makes of the settings st, given the texts.
Set(st, setter, text) ==
  CASE setter = "server" -> [st EXCEPT !["ip"] = Address[text["ip"]], !["port"] = text["port"]]
    [] setter \in {"pause", "startup"} -> [st EXCEPT ![setter] = Msec(text[setter])]
    [] OTHER -> [st EXCEPT ![setter] = text[setter]]

\* As Shown without SetCurSel for the type.
ShownNoType(st, texts) ==
  [f \in Fields |->
     CASE f \in {"pause", "startup"} -> Seconds(st[f])
       [] f = "game" \/ (f = "times" /\ st[f] = Unset) -> texts[f]
       [] OTHER -> st[f]]

\* What OnUpdate puts into the fields; a control refuses a time that is none.
Shown(st, texts) ==
  [f \in Fields |->
     CASE f \in {"pause", "startup"} -> Seconds(st[f])
       [] f = "times" /\ st[f] = Unset -> texts[f]
       [] OTHER -> st[f]]

\* The fields when no server is selected; the time controls keep theirs.
Blank(texts) ==
  [f \in Fields |-> IF f = "times" THEN texts[f] ELSE IF f \in Waits \cup {"port"} THEN 0 ELSE ""]

-----------------------------------------------------------------------------
TypeOK ==
  /\ \A s \in Servers :
       /\ DOMAIN stored[s] = Fields
       /\ stored[s]["ip"] \in Resolved /\ stored[s]["port"] \in 0..PortMax
       /\ \A f \in Waits : stored[s][f] \in -(Word \div 2)..(Word \div 2) - 1
       /\ \A f \in {"game", "executable", "name"} : stored[s][f] \in Texts[f]
       /\ stored[s]["times"] \in Texts["times"] \cup {Unset}
  /\ timecontrol \in [Servers -> BOOLEAN]
  /\ monitor \in [Servers -> {"none", "thread", "busy"}]
  /\ sel \in Servers \cup {"none"}
  /\ DOMAIN pane = Fields /\ button \in BOOLEAN
  /\ ui \in {"idle", "portbox", "test", "write"}
  /\ save.sc \in Servers \cup {"none"} /\ save.step \in 1..Len(Chain)
  /\ DOMAIN save.text = Fields
  /\ edited \subseteq Fields
  /\ last.outcome \in {"none", "saved", "failed"} /\ last.late \in 0..Len(Chain)
  /\ last.edits \subseteq Fields /\ last.raced \in BOOLEAN /\ DOMAIN last.before = Fields

AnyTime == [f \in Fields |-> CHOOSE t \in Texts["times"] : TRUE]
NoSave == [sc |-> "none", text |-> Blank(AnyTime), step |-> 1]
NoOutcome ==
  [outcome |-> "none", before |-> Blank(AnyTime), edits |-> {}, late |-> 0, raced |-> FALSE]

\* A server as the New dialog makes it, default waits and no times, or as it was loaded.
Made(address, port, times) ==
  [f \in Fields |->
     CASE f = "ip" -> address [] f = "port" -> port [] f = "times" -> times
       [] f = "timeout" -> 1 [] f \in {"pause", "startup"} -> Msec(1)
       [] OTHER -> CHOOSE x \in Texts[f] : TRUE]

Init ==
  /\ stored \in [Servers -> {Made(a, p, t) : a \in Resolved \cap Texts["ip"],
                   p \in Texts["port"] \cap 0..PortMax, t \in Texts["times"] \cup {Unset}}]
  /\ timecontrol = [s \in Servers |-> FALSE]
  /\ monitor = [s \in Servers |-> "none"]
  /\ sel = "none" /\ pane = Blank(AnyTime) /\ button = FALSE
  /\ ui = "idle" /\ save = NoSave /\ edited = {}
  /\ last = NoOutcome

-----------------------------------------------------------------------------
\* UpdateAllViews fills the pane for the selected server as it is then.
UpdateAllViews(s, st) ==
  /\ pane' = IF s = "none" THEN Blank(pane) ELSE Shown(st[s], pane)
  /\ button' = FALSE
  /\ edited' = {}

\* Whatever the user does next ends the interest in the last Update.
Forget == last' = NoOutcome

SelectServer(s) ==
  /\ ui = "idle"
  /\ sel' = s
  /\ UpdateAllViews(s, stored)
  /\ Forget
  /\ UNCHANGED <<stored, timecontrol, monitor, ui, save>>

\* OnEnChange..., OnCbnSelchangeType, OnDtnDatetimechange...: OnUpdate has disabled the
\* fields a normal program does not use, and the times without time control.
Edit(f, text) ==
  /\ ui = "idle"
  /\ sel # "none" /\ stored[sel]["game"] = Program => f \notin Waits \cup {"ip", "port"}
  /\ f = "times" => sel # "none" /\ timecontrol[sel]
  /\ f \in edited \/ Cardinality(edited) < MaxEdits
  /\ text # pane[f]
  /\ pane' = [pane EXCEPT ![f] = text]
  /\ button' = TRUE
  /\ edited' = edited \cup {f}
  /\ Forget
  /\ UNCHANGED <<stored, timecontrol, monitor, sel, ui, save>>

OnBnClickedTimecontrol ==
  /\ ui = "idle"
  /\ timecontrol' = [s \in Servers |-> IF s = sel THEN ~timecontrol[s] ELSE timecontrol[s]]
  /\ UpdateAllViews(sel, stored)
  /\ Forget
  /\ UNCHANGED <<stored, monitor, sel, ui, save>>

\* Start and stop of any server, by the buttons or, in the port's box too, by OnTimer.
StartStop(s) ==
  /\ ui \in {"idle", "portbox"}
  /\ \/ monitor[s] = "none" /\ monitor' = [monitor EXCEPT ![s] = "thread"]
     \/ monitor[s] = "busy" /\ monitor' = [monitor EXCEPT ![s] = "none"]
  /\ UpdateAllViews(sel, stored)
  /\ IF ui = "portbox" THEN UNCHANGED last ELSE Forget
  /\ UNCHANGED <<stored, timecontrol, sel, ui, save>>

\* check: start() sets busy at any moment; it fails into a message, or for good.
Check(s) ==
  /\ \/ /\ monitor[s] = "thread" /\ monitor' = [monitor EXCEPT ![s] = "busy"]
        /\ last' = [last EXCEPT !.raced = @ \/ (s = save.sc /\ (ui = "write" \/ save.step > 1))]
     \/ /\ monitor[s] = "busy" /\ \E m \in {"thread", "none"} : monitor' = [monitor EXCEPT ![s] = m]
        /\ last' = IF s = save.sc THEN [last EXCEPT !.late = 0] ELSE last
  /\ UNCHANGED <<stored, timecontrol, sel, pane, button, ui, save, edited>>

-----------------------------------------------------------------------------
\* As SaveOver with the fields left as they are.
SaveOverNoUpdate(outcome, st) ==
  /\ ui' = "idle" /\ save' = NoSave
  /\ button' = FALSE /\ edited' = {} /\ UNCHANGED pane
  /\ last' = [last EXCEPT !.outcome = outcome]

\* The end of OnBnClickedUpdate, after the message of what was thrown if anything was:
\* EnableWindow(updateable), and UpdateAllViews, which disables the button again.
SaveOver(outcome, st) ==
  /\ ui' = "idle" /\ save' = NoSave
  /\ UpdateAllViews(sel, st)
  /\ last' = [last EXCEPT !.outcome = outcome]

\* The game and the port are known, the other texts are in the fields; non-positive waits
\* throw at once.
ReadFields(port, game, edits) ==
  LET text == [pane EXCEPT !["port"] = port, !["game"] = game]
      tried == [NoOutcome EXCEPT !.before = stored[sel], !.edits = edits]
  IN IF \A f \in Waits : text[f] > 0
     THEN /\ ui' = "test" /\ save' = [sc |-> sel, text |-> text, step |-> 1]
          /\ last' = tried
          /\ UNCHANGED <<pane, button, edited>>
     ELSE /\ ui' = "idle" /\ save' = NoSave
          /\ UpdateAllViews(sel, stored)
          /\ last' = [tried EXCEPT !.outcome = "failed"]

\* For a game, port 0 brings a box, which does not end the handler.  The game has been
\* read by then, and so is the only edit that outlives what refills the fields meanwhile.
PortBox ==
  /\ ui' = "portbox"
  /\ save' = [sc |-> sel, text |-> pane, step |-> 1]
  /\ last' = [NoOutcome EXCEPT !.edits = edited \cap {"game"}]
  /\ UNCHANGED <<pane, button, edited>>

\* Update is clicked.
OnBnClickedUpdate ==
  /\ ui = "idle" /\ button
  /\ LET port == PortOf(pane["port"])
     IN IF sel = "none"
        THEN UpdateAllViews(sel, stored) /\ Forget /\ UNCHANGED <<ui, save>>
        ELSE IF pane["game"] # Program /\ port = 0
             THEN PortBox
             ELSE ReadFields(port, pane["game"], edited)
  /\ UNCHANGED <<stored, timecontrol, monitor, sel>>

\* After the box the other fields are read as they are by then.
PortBoxClosed ==
  /\ ui = "portbox"
  /\ ReadFields(0, save.text["game"], edited \cup {"port"} \cup last.edits)
  /\ UNCHANGED <<stored, timecontrol, monitor, sel>>

\* As Test with busy looked at by the first setter only.
TestFirst ==
  /\ ui = "test"
  /\ IF monitor[save.sc] = "busy" /\ save.step = 1
     THEN SaveOver("failed", stored)
     ELSE ui' = "write" /\ UNCHANGED <<pane, button, save, edited, last>>
  /\ UNCHANGED <<stored, timecontrol, monitor, sel>>

\* A setter tests busy ...
Test ==
  /\ ui = "test"
  /\ IF monitor[save.sc] = "busy"
     THEN SaveOver("failed", stored)
     ELSE ui' = "write" /\ UNCHANGED <<pane, button, save, edited, last>>
  /\ UNCHANGED <<stored, timecontrol, monitor, sel>>

\* ... and writes; setServer first looks up the host, for seconds, and may throw.
SetterThrows == Chain[save.step] = "server" /\ Address[save.text["ip"]] = ""

Write ==
  /\ ui = "write" /\ ~SetterThrows
  /\ stored' = [stored EXCEPT ![save.sc] = Set(@, Chain[save.step], save.text)]
  /\ LET late == last.late + IF monitor[save.sc] = "busy" THEN 1 ELSE 0
     IN IF save.step < Len(Chain)
        THEN /\ ui' = "test" /\ save' = [save EXCEPT !.step = @ + 1]
             /\ last' = [last EXCEPT !.late = late]
             /\ UNCHANGED <<pane, button, edited>>
        ELSE /\ ui' = "idle" /\ save' = NoSave
             /\ UpdateAllViews(sel, stored')
             /\ last' = [last EXCEPT !.late = late, !.outcome = "saved"]
  /\ UNCHANGED <<timecontrol, monitor, sel>>

WriteThrows ==
  /\ ui = "write" /\ SetterThrows
  /\ SaveOver("failed", stored)
  /\ UNCHANGED <<stored, timecontrol, monitor, sel>>

Next ==
  \/ \E s \in Servers : SelectServer(s) \/ StartStop(s) \/ Check(s)
  \/ \E f \in Fields : \E text \in Texts[f] : Edit(f, text)
  \/ OnBnClickedTimecontrol \/ OnBnClickedUpdate \/ PortBoxClosed
  \/ Test \/ Write \/ WriteThrows

Spec == Init /\ [][Next]_vars

-----------------------------------------------------------------------------
\* The handler tests everything it can before the chain, and host names resolve in its
\* first setter: an Update that fails has changed nothing, unless the server's monitor
\* set busy in the middle of it.
AllOrNothing ==
  last.outcome = "failed" /\ ~last.raced => stored[sel] = last.before

\* A setter may write although busy was set after its test (in setServer the time of a
\* DNS lookup lies between them), but the next one then throws: a monitor that has
\* set busy meets at most one setting of an Update that changes under it.
OneLateWrite == last.late <= 1

\* While Update is disabled the fields show the settings of the selected server,
\* whatever failed or was cut short; a server without times shows somebody else's.
PaneTruth ==
  ui = "idle" /\ ~button =>
    pane = IF sel = "none" THEN Blank(pane) ELSE Shown(stored[sel], pane)

\* A successful Update changes what the user had edited of the fields when it read them
\* (the game before the port's box, the others behind it, where a timer may have refilled
\* them with the server's settings) and nothing else, except for three
\* settings that do not survive being shown and read: port USHRT_MAX (the handler takes
\* it modulo USHRT_MAX), times that were never set, waits that overflowed.
OnlyEdited ==
  last.outcome = "saved" =>
    \A f \in Fields \ last.edits :
      \/ stored[sel][f] = last.before[f]
      \/ f = "port" /\ last.before[f] = PortMax
      \/ f = "times" /\ last.before[f] = Unset
      \/ f \in {"pause", "startup"} /\ last.before[f] % Thousand # 0
=============================================================================
