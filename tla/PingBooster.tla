---------------------------- MODULE PingBooster ----------------------------
(***************************************************************************)
(* The ping booster: a period passed to timeBeginPeriod while boosting is  *)
(* on (CServerDoc::boost), the value of that period (setBoosterValue), the *)
(* menu and the value dialog (CMainFrame), and how both settings survive   *)
(* in servers.sch from one run of the program to the next.                 *)
(***************************************************************************)
EXTENDS Integers

CONSTANTS
  Values,    \* what the value dialog can deliver: any integer, atoi of the text
  Default,   \* the constructor's value
  NoPair     \* nothing was saved

ASSUME ValuesAssumption == Default \in Values /\ NoPair \notin Values \X BOOLEAN

VARIABLES
  running,            \* the program runs
  pingboostervalue,
  pingboost,
  begun,              \* per value, timeBeginPeriod calls without their timeEndPeriod
  checked,            \* the Run item of the menu is checked
  canChange,          \* the Change Value item of the menu is enabled
  menuDue,            \* an ID_UPDATE_MENU is posted and not handled
  dialog,             \* the modal value dialog is open
  file,               \* the booster's part of servers.sch, or NoPair
  kept                \* history: the settings when the program last closed in order

boosterVars == <<running, pingboostervalue, pingboost, begun, checked, canChange, menuDue, dialog,
          file, kept>>

Pair == Values \X BOOLEAN

BoosterTypeOK ==
  /\ running \in BOOLEAN /\ pingboost \in BOOLEAN
  /\ pingboostervalue \in Values
  /\ begun \in [Values -> Nat]
  /\ checked \in BOOLEAN /\ canChange \in BOOLEAN
  /\ menuDue \in BOOLEAN /\ dialog \in BOOLEAN
  /\ file \in Pair \cup {NoPair} /\ kept \in Pair \cup {NoPair}

\* No servers.sch yet, and the program is not running.
BoosterInit ==
  /\ running = FALSE /\ pingboost = FALSE
  /\ pingboostervalue = Default
  /\ begun = [v \in Values |-> 0]
  /\ checked = FALSE /\ canChange = TRUE
  /\ menuDue = FALSE /\ dialog = FALSE
  /\ file = NoPair /\ kept = NoPair

-----------------------------------------------------------------------------
\* The system counts the calls of each period.
timeBeginPeriod(v) == begun' = [begun EXCEPT ![v] = @ + 1]
timeEndPeriod(v) == begun' = [begun EXCEPT ![v] = @ - 1]

\* boost(on): only a change of pingboost calls the one function or the other.
boost(on) ==
  /\ pingboost' = on
  /\ IF pingboost = on THEN UNCHANGED begun
     ELSE IF on THEN timeBeginPeriod(pingboostervalue)
     ELSE timeEndPeriod(pingboostervalue)

\* A new document loads servers.sch: the constructor's values give way to what was
\* saved, and boosting starts again if it was on.  Showing the views posts the menu update,
\* the first message of a queue that is still empty.
OnNewDocument ==
  /\ ~running /\ running' = TRUE
  /\ LET saved == IF file = NoPair THEN <<Default, FALSE>> ELSE file IN
     /\ pingboostervalue' = saved[1]
     /\ pingboost' = saved[2]
     /\ begun' = IF saved[2] THEN [begun EXCEPT ![saved[1]] = @ + 1] ELSE begun
  /\ checked' = FALSE /\ canChange' = TRUE
  /\ menuDue' = TRUE /\ dialog' = FALSE
  /\ UNCHANGED <<file, kept>>

\* OnUpdateMenu: checks the item when boosting is on, and does nothing else.
OnUpdateMenu ==
  /\ running /\ menuDue
  /\ menuDue' = FALSE
  /\ checked' = (checked \/ pingboost)
  /\ canChange' = (canChange /\ ~pingboost)
  /\ UNCHANGED <<running, pingboostervalue, pingboost, begun, dialog, file, kept>>

\* Any handler that calls UpdateAllViews.
UpdateAllViews ==
  /\ running /\ menuDue' = TRUE
  /\ UNCHANGED <<running, pingboostervalue, pingboost, begun, checked, canChange, dialog,
                 file, kept>>

\* As OnPingboosterRun with boosts() asked for boosting and the menu for the mark.
RunByBoosts ==
  /\ running /\ ~dialog
  /\ boost(~pingboost)
  /\ checked' = ~checked /\ canChange' = checked
  /\ UNCHANGED <<running, pingboostervalue, menuDue, dialog, file, kept>>

\* The Run item switches by what the menu shows, not by boosts().
OnPingboosterRun ==
  /\ running /\ ~dialog
  /\ boost(~checked)
  /\ checked' = ~checked /\ canChange' = checked
  /\ UNCHANGED <<running, pingboostervalue, menuDue, dialog, file, kept>>

OpenChangevalue ==
  /\ running /\ ~dialog /\ canChange
  /\ dialog' = TRUE
  /\ UNCHANGED <<running, pingboostervalue, pingboost, begun, checked, canChange, menuDue,
                 file, kept>>

\* As setBoosterValue without the test of pingboost.
SetValueAlways(value) == pingboostervalue' = value

\* setBoosterValue(): the value stays while boosting is on.
setBoosterValue(value) ==
  pingboostervalue' = IF pingboost THEN pingboostervalue ELSE value

\* The dialog is left with OK (a value) or Cancel.
OnPingboosterChangevalue ==
  /\ running /\ dialog
  /\ dialog' = FALSE
  /\ (\E value \in Values : setBoosterValue(value)) \/ UNCHANGED pingboostervalue
  /\ UNCHANGED <<running, pingboost, begun, checked, canChange, menuDue, file, kept>>

\* What a writeFile that throws leaves: the file as it was, no booster's part, or one that
\* ends behind the value, which loads as boosting turned off (Persistence has the steps).
Unwritten == {file, NoPair, <<pingboostervalue, FALSE>>}

\* writeFile(): also called when a server is added or deleted.
writeFile ==
  /\ running /\ ~dialog
  /\ file' \in {<<pingboostervalue, pingboost>>} \cup Unwritten
  /\ UNCHANGED <<running, pingboostervalue, pingboost, begun, checked, canChange, menuDue,
                 dialog, kept>>

\* As Destroy with boost(false) before writeFile(true).
DestroyUnboosted ==
  /\ running /\ ~dialog
  /\ running' = FALSE
  /\ boost(FALSE)
  /\ file' = <<pingboostervalue, FALSE>>
  /\ kept' = <<pingboostervalue, pingboost>>
  /\ UNCHANGED <<pingboostervalue, checked, canChange, menuDue, dialog>>

\* ~CServerDoc: writeFile(true), then boost(false).
Destroy ==
  /\ running /\ ~dialog
  /\ running' = FALSE
  /\ file' = <<pingboostervalue, pingboost>>
  /\ kept' = <<pingboostervalue, pingboost>>
  /\ boost(FALSE)
  /\ UNCHANGED <<pingboostervalue, checked, canChange, menuDue, dialog>>

\* ~CServerDoc when writeFile throws: boost(false) is passed over, so the period lasts
\* until the process ends and the system ends it.
DestroyThrows ==
  /\ running /\ ~dialog
  /\ running' = FALSE /\ pingboost' = FALSE
  /\ file' \in Unwritten
  /\ begun' = [v \in Values |-> 0]
  /\ kept' = NoPair
  /\ UNCHANGED <<pingboostervalue, checked, canChange, menuDue, dialog>>

\* The program is killed: the system ends its periods, and the file stays.
Crash ==
  /\ running
  /\ running' = FALSE /\ pingboost' = FALSE
  /\ begun' = [v \in Values |-> 0]
  /\ kept' = NoPair
  /\ UNCHANGED <<pingboostervalue, checked, canChange, menuDue, dialog, file>>

BoosterNext ==
  \/ OnNewDocument \/ OnUpdateMenu \/ UpdateAllViews \/ OnPingboosterRun
  \/ OpenChangevalue \/ OnPingboosterChangevalue \/ writeFile \/ Destroy
  \/ DestroyThrows \/ Crash

BoosterSpec == BoosterInit /\ [][BoosterNext]_boosterVars

-----------------------------------------------------------------------------
\* boost(): "prevent from 1 function being called without the other".  Whatever the
\* menu, the dialog, loading and closing do, the periods begun and not ended are the one
\* of the present value while boosting is on, and none otherwise or after the end.
PeriodsPaired ==
  begun = [v \in Values |-> IF pingboost /\ v = pingboostervalue THEN 1 ELSE 0]

\* The menu tells the truth: a checked Run item means boosting is on, and boosting that
\* is on without a checked item is about to be shown by a posted menu update.
MenuTruth ==
  running =>
    /\ checked => pingboost
    /\ pingboost => checked \/ menuDue
    /\ checked => ~canChange

\* Closing the program in order and starting it again brings back both settings
\* (~CServerDoc saves before it turns boosting off).
Restored ==
  [][~running /\ running' /\ kept # NoPair => <<pingboostervalue', pingboost'>> = kept]_boosterVars
=============================================================================
