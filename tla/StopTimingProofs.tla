-------------------------- MODULE StopTimingProofs --------------------------
(***************************************************************************)
(* Proofs about StopTiming: for every start-up time, pause and time-out.   *)
(***************************************************************************)
EXTENDS StopTiming, TLAPS

(* What the settings are, as numbers.                                      *)
LEMMA SettingsAreNumbers ==
  ASSUME set \in Settings
  PROVE  /\ set.pause \in Nat /\ set.timeout \in Nat /\ set.startup \in Nat
         /\ Second \in Nat \ {0} /\ set.pause >= Second /\ set.startup >= Second
         /\ WaitTime \in Nat
<1>1. set \in [pause : Nat, timeout : Nat, startup : Nat]
  BY TimingAssumption
<1> QED BY <1>1, TimingAssumption DEF WaitTime

(* The number of seconds of the start-up loop, of which the second loop    *)
(* makes at most half.                                                     *)
LEMMA LoopsAreNumbers == ASSUME set \in Settings PROVE t \in Nat /\ t \div 2 <= t
<1>1. set.startup \in Nat /\ Second \in Nat \ {0}
  BY SettingsAreNumbers
<1>2. ASSUME NEW a \in Nat, NEW b \in Nat \ {0} PROVE a \div b \in Nat
  BY <1>2
<1>3. t \in Nat
  <2>1. 2 * set.startup \in Nat /\ 3 * Second \in Nat \ {0}
    BY <1>1
  <2> QED BY <1>2, <2>1 DEF t
<1>4. ASSUME NEW n \in Nat PROVE n \div 2 <= n
  BY <1>4
<1> QED BY <1>3, <1>4

-----------------------------------------------------------------------------
(* No wait of the thread is longer than the settings say.                  *)
LeftBounded ==
  /\ at \in {"startup", "inputidle"} => left <= Second
  /\ at = "pause" => left <= set.pause
  /\ at = "select" => left <= set.timeout
  /\ at \in {"while", "done"} => left = 0

(* While stopServer waits for a thread that was starting up, it does not   *)
(* come to a pause any more.                                               *)
StopInStartup ==
  ui # "idle" /\ from \in {"startup", "inputidle"} =>
    /\ at \notin {"pause", "select"}
    /\ at = "startup" => waited + left <= Second
    /\ at = "inputidle" => waited + left <= 2 * Second
    /\ at \in {"while", "done"} => waited <= 2 * Second

(* Otherwise it has the rest of a pause, a ping and one WaitForInputIdle   *)
(* before it, each at most once.                                           *)
StopInLoop ==
  ui # "idle" /\ from \notin {"startup", "inputidle"} =>
    /\ at = "pause" => waited + left <= set.pause
    /\ at = "select" => waited + left <= set.pause + set.timeout
    /\ at = "startup" => left = 0 /\ waited <= set.pause + set.timeout
    /\ at = "inputidle" => waited + left <= set.pause + set.timeout + Second
    /\ at \in {"while", "done"} => waited <= set.pause + set.timeout + Second

(* A kill is a wait that took all of its time.                             *)
KillAtEnd == killed = TRUE => ui = "over" /\ waited = WaitTime /\ at # "done"

GoOff == (go = FALSE) <=> (ui # "idle")

NotYet == ui = "idle" => waited = 0 /\ from = "while" /\ killed = FALSE

(* Nothing happens to the wait once it is over.                            *)
Over == ui = "over" => killed = TRUE \/ at = "done"

IInv ==
  TypeOK /\ LeftBounded /\ StopInStartup /\ StopInLoop /\ KillAtEnd /\ GoOff /\ NotYet /\ Over

LEMMA InitEstablishes == Init => IInv
<1> SUFFICES ASSUME Init PROVE IInv
  OBVIOUS
<1>1. t \in Nat /\ WaitTime \in Nat
  BY LoopsAreNumbers, SettingsAreNumbers DEF Init
<1>2. TypeOK
  <2>1. i \in Nat /\ i <= t /\ waited \in Nat /\ waited <= WaitTime /\ left \in Nat
    BY <1>1 DEF Init
  <2>2. set \in Settings /\ go \in BOOLEAN /\ killed \in BOOLEAN
    BY DEF Init
  <2>3. at \in Waits /\ ui = "idle" /\ from = "while"
    BY DEF Init, Waits
  <2> QED BY <2>1, <2>2, <2>3 DEF TypeOK
<1>3. LeftBounded
  BY TimingAssumption DEF Init, LeftBounded
<1>4. StopInStartup /\ StopInLoop /\ KillAtEnd /\ GoOff /\ NotYet /\ Over
  BY DEF Init, StopInStartup, StopInLoop, KillAtEnd, GoOff, NotYet, Over
<1> QED BY <1>2, <1>3, <1>4 DEF IInv

(* The settings, and what is computed from them, stay as they are.         *)
LEMMA SettingsStay == [Next]_vars => set' = set /\ t' = t /\ WaitTime' = WaitTime
<1>1. [Next]_vars => set' = set
  BY DEF Next, vars, Monitor, StartupSleep, InputTimeout, InputIdle, WhileTest, PauseOver,
       PingOver, stopServer, WaitSignalled, WaitTimeout, Tick
<1> QED BY <1>1 DEF WaitTime, t

-----------------------------------------------------------------------------
(* One lemma per part of the invariant, each with one step per action.     *)

LEMMA TypeOKStep == ASSUME IInv, [Next]_vars PROVE TypeOK'
<1> USE DEF IInv
<1>a. set' = set /\ t' = t /\ WaitTime' = WaitTime BY SettingsStay
<1>b. /\ set.pause \in Nat /\ set.timeout \in Nat /\ set.startup \in Nat
      /\ Second \in Nat \ {0} /\ set.pause >= Second /\ set.startup >= Second
      /\ WaitTime \in Nat /\ t \in Nat /\ t \div 2 <= t
  BY SettingsAreNumbers, LoopsAreNumbers DEF TypeOK
<1>1. CASE UNCHANGED vars
  BY <1>1, <1>a DEF TypeOK, vars, monitor, stop
<1>2. ASSUME ~killed, StartupSleep PROVE TypeOK'
  BY <1>2, <1>a, <1>b DEF TypeOK, Waits, StartupSleep, stop, Enter
<1>3. ASSUME ~killed, InputTimeout PROVE TypeOK'
  BY <1>3, <1>a, <1>b DEF TypeOK, InputTimeout, stop, Enter
<1>4. ASSUME ~killed, InputIdle PROVE TypeOK'
  BY <1>4, <1>a, <1>b DEF TypeOK, InputIdle, stop, Enter
<1>5. ASSUME ~killed, WhileTest PROVE TypeOK'
  BY <1>5, <1>a, <1>b DEF TypeOK, Waits, WhileTest, stop, Enter
<1>6. ASSUME ~killed, PauseOver PROVE TypeOK'
  BY <1>6, <1>a, <1>b DEF TypeOK, Waits, PauseOver, stop, Enter
<1>7. ASSUME ~killed, PingOver PROVE TypeOK'
  BY <1>7, <1>a, <1>b DEF TypeOK, Waits, PingOver, stop, Enter
<1>8. ASSUME stopServer PROVE TypeOK'
  <2>1. UNCHANGED <<at, left, i, killed>>
    BY <1>8 DEF stopServer, monitor
  <2>2. go' = FALSE /\ ui' = "waiting" /\ waited' = 0 /\ from' \in Waits \cup {"while"}
    BY <1>8 DEF TypeOK, stopServer
  <2>3. waited' \in Nat /\ waited' <= WaitTime' /\ i' <= t'
    BY <2>1, <2>2, <1>a, <1>b DEF TypeOK
  <2> QED BY <2>1, <2>2, <2>3, <1>a DEF TypeOK
<1>9. ASSUME WaitSignalled PROVE TypeOK'
  BY <1>9, <1>a, <1>b DEF TypeOK, WaitSignalled, monitor
<1>10. ASSUME WaitTimeout PROVE TypeOK'
  BY <1>10, <1>a, <1>b DEF TypeOK, WaitTimeout, monitor
<1>11. ASSUME Tick PROVE TypeOK'
  BY <1>11, <1>a, <1>b DEF TypeOK, Tick
<1> QED BY <1>1, <1>2, <1>3, <1>4, <1>5, <1>6, <1>7, <1>8, <1>9, <1>10, <1>11
  DEF Next, Monitor

LEMMA LeftBoundedStep == ASSUME IInv, [Next]_vars PROVE LeftBounded'
<1> USE DEF IInv
<1>a. set' = set /\ t' = t /\ WaitTime' = WaitTime BY SettingsStay
<1>b. /\ set.pause \in Nat /\ set.timeout \in Nat /\ set.startup \in Nat
      /\ Second \in Nat \ {0} /\ set.pause >= Second /\ set.startup >= Second
      /\ WaitTime \in Nat /\ t \in Nat /\ t \div 2 <= t
  BY SettingsAreNumbers, LoopsAreNumbers DEF TypeOK
<1>1. CASE UNCHANGED vars
  BY <1>1, <1>a DEF TypeOK, LeftBounded, vars, monitor
<1>2. ASSUME ~killed, StartupSleep PROVE LeftBounded'
  BY <1>2, <1>a, <1>b DEF TypeOK, LeftBounded, StartupSleep, Enter
<1>3. ASSUME ~killed, InputTimeout PROVE LeftBounded'
  BY <1>3, <1>a, <1>b DEF TypeOK, LeftBounded, InputTimeout, Enter
<1>4. ASSUME ~killed, InputIdle PROVE LeftBounded'
  BY <1>4, <1>a, <1>b DEF TypeOK, LeftBounded, InputIdle, Enter
<1>5. ASSUME ~killed, WhileTest PROVE LeftBounded'
  BY <1>5, <1>a, <1>b DEF TypeOK, LeftBounded, WhileTest, Enter
<1>6. ASSUME ~killed, PauseOver PROVE LeftBounded'
  BY <1>6, <1>a, <1>b DEF TypeOK, LeftBounded, PauseOver, Enter
<1>7. ASSUME ~killed, PingOver PROVE LeftBounded'
  BY <1>7, <1>a, <1>b DEF TypeOK, LeftBounded, PingOver, Enter
<1>8. ASSUME stopServer PROVE LeftBounded'
  BY <1>8, <1>a, <1>b DEF TypeOK, LeftBounded, stopServer, monitor
<1>9. ASSUME WaitSignalled PROVE LeftBounded'
  BY <1>9, <1>a, <1>b DEF TypeOK, LeftBounded, WaitSignalled, monitor
<1>10. ASSUME WaitTimeout PROVE LeftBounded'
  BY <1>10, <1>a, <1>b DEF TypeOK, LeftBounded, WaitTimeout, monitor
<1>11. ASSUME Tick PROVE LeftBounded'
  BY <1>11, <1>a, <1>b DEF TypeOK, LeftBounded, Tick
<1> QED BY <1>1, <1>2, <1>3, <1>4, <1>5, <1>6, <1>7, <1>8, <1>9, <1>10, <1>11
  DEF Next, Monitor

LEMMA StopInStartupStep == ASSUME IInv, [Next]_vars PROVE StopInStartup'
<1> USE DEF IInv
<1>a. set' = set /\ t' = t /\ WaitTime' = WaitTime BY SettingsStay
<1>b. /\ set.pause \in Nat /\ set.timeout \in Nat /\ set.startup \in Nat
      /\ Second \in Nat \ {0} /\ set.pause >= Second /\ set.startup >= Second
      /\ WaitTime \in Nat /\ t \in Nat /\ t \div 2 <= t
  BY SettingsAreNumbers, LoopsAreNumbers DEF TypeOK
<1>1. CASE UNCHANGED vars
  BY <1>1, <1>a DEF TypeOK, StopInStartup, vars, monitor, stop
<1>2. ASSUME ~killed, StartupSleep PROVE StopInStartup'
  BY <1>2, <1>a, <1>b DEF TypeOK, StopInStartup, GoOff, StartupSleep, stop, Enter
<1>3. ASSUME ~killed, InputTimeout PROVE StopInStartup'
  BY <1>3, <1>a, <1>b DEF TypeOK, StopInStartup, GoOff, InputTimeout, stop, Enter
<1>4. ASSUME ~killed, InputIdle PROVE StopInStartup'
  BY <1>4, <1>a, <1>b DEF TypeOK, StopInStartup, InputIdle, stop, Enter
<1>5. ASSUME ~killed, WhileTest PROVE StopInStartup'
  BY <1>5, <1>a, <1>b DEF TypeOK, StopInStartup, GoOff, WhileTest, stop, Enter
<1>6. ASSUME ~killed, PauseOver PROVE StopInStartup'
  BY <1>6, <1>a, <1>b DEF TypeOK, StopInStartup, PauseOver, stop
<1>7. ASSUME ~killed, PingOver PROVE StopInStartup'
  BY <1>7, <1>a, <1>b DEF TypeOK, StopInStartup, PingOver, stop
<1>8. ASSUME stopServer PROVE StopInStartup'
  BY <1>8, <1>a, <1>b DEF TypeOK, LeftBounded, StopInStartup, stopServer, monitor
<1>9. ASSUME WaitSignalled PROVE StopInStartup'
  BY <1>9, <1>a, <1>b DEF TypeOK, StopInStartup, WaitSignalled, monitor
<1>10. ASSUME WaitTimeout PROVE StopInStartup'
  BY <1>10, <1>a, <1>b DEF TypeOK, StopInStartup, WaitTimeout, monitor
<1>11. ASSUME Tick PROVE StopInStartup'
  BY <1>11, <1>a, <1>b DEF TypeOK, LeftBounded, StopInStartup, Tick
<1> QED BY <1>1, <1>2, <1>3, <1>4, <1>5, <1>6, <1>7, <1>8, <1>9, <1>10, <1>11
  DEF Next, Monitor

LEMMA StopInLoopStep == ASSUME IInv, [Next]_vars PROVE StopInLoop'
<1> USE DEF IInv
<1>a. set' = set /\ t' = t /\ WaitTime' = WaitTime BY SettingsStay
<1>b. /\ set.pause \in Nat /\ set.timeout \in Nat /\ set.startup \in Nat
      /\ Second \in Nat \ {0} /\ set.pause >= Second /\ set.startup >= Second
      /\ WaitTime \in Nat /\ t \in Nat /\ t \div 2 <= t
  BY SettingsAreNumbers, LoopsAreNumbers DEF TypeOK
<1>1. CASE UNCHANGED vars
  BY <1>1, <1>a DEF TypeOK, StopInLoop, vars, monitor, stop
<1>2. ASSUME ~killed, StartupSleep PROVE StopInLoop'
  BY <1>2, <1>a, <1>b DEF TypeOK, StopInLoop, GoOff, StartupSleep, stop, Enter
<1>3. ASSUME ~killed, InputTimeout PROVE StopInLoop'
  BY <1>3, <1>a, <1>b DEF TypeOK, StopInLoop, GoOff, InputTimeout, stop, Enter
<1>4. ASSUME ~killed, InputIdle PROVE StopInLoop'
  BY <1>4, <1>a, <1>b DEF TypeOK, StopInLoop, InputIdle, stop, Enter
<1>5. ASSUME ~killed, WhileTest PROVE StopInLoop'
  BY <1>5, <1>a, <1>b DEF TypeOK, StopInLoop, GoOff, WhileTest, stop, Enter
<1>6. ASSUME ~killed, PauseOver PROVE StopInLoop'
  BY <1>6, <1>a, <1>b DEF TypeOK, StopInLoop, PauseOver, stop, Enter
<1>7. ASSUME ~killed, PingOver PROVE StopInLoop'
  BY <1>7, <1>a, <1>b DEF TypeOK, StopInLoop, PingOver, stop, Enter
<1>8. ASSUME stopServer PROVE StopInLoop'
  BY <1>8, <1>a, <1>b DEF TypeOK, LeftBounded, StopInLoop, stopServer, monitor
<1>9. ASSUME WaitSignalled PROVE StopInLoop'
  BY <1>9, <1>a, <1>b DEF TypeOK, StopInLoop, WaitSignalled, monitor
<1>10. ASSUME WaitTimeout PROVE StopInLoop'
  BY <1>10, <1>a, <1>b DEF TypeOK, StopInLoop, WaitTimeout, monitor
<1>11. ASSUME Tick PROVE StopInLoop'
  BY <1>11, <1>a, <1>b DEF TypeOK, LeftBounded, StopInLoop, Tick
<1> QED BY <1>1, <1>2, <1>3, <1>4, <1>5, <1>6, <1>7, <1>8, <1>9, <1>10, <1>11
  DEF Next, Monitor

LEMMA KillAtEndStep == ASSUME IInv, [Next]_vars PROVE KillAtEnd'
<1> USE DEF IInv
<1>a. set' = set /\ t' = t /\ WaitTime' = WaitTime BY SettingsStay
<1>b. /\ set.pause \in Nat /\ set.timeout \in Nat /\ set.startup \in Nat
      /\ Second \in Nat \ {0} /\ set.pause >= Second /\ set.startup >= Second
      /\ WaitTime \in Nat /\ t \in Nat /\ t \div 2 <= t
  BY SettingsAreNumbers, LoopsAreNumbers DEF TypeOK
<1>1. CASE UNCHANGED vars
  BY <1>1, <1>a DEF TypeOK, KillAtEnd, vars, monitor, stop
<1>2. ASSUME ~killed, StartupSleep PROVE KillAtEnd'
  BY <1>2, <1>a, <1>b DEF TypeOK, KillAtEnd, StartupSleep, stop
<1>3. ASSUME ~killed, InputTimeout PROVE KillAtEnd'
  BY <1>3, <1>a, <1>b DEF TypeOK, KillAtEnd, InputTimeout, stop
<1>4. ASSUME ~killed, InputIdle PROVE KillAtEnd'
  BY <1>4, <1>a, <1>b DEF TypeOK, KillAtEnd, InputIdle, stop
<1>5. ASSUME ~killed, WhileTest PROVE KillAtEnd'
  BY <1>5, <1>a, <1>b DEF TypeOK, KillAtEnd, WhileTest, stop
<1>6. ASSUME ~killed, PauseOver PROVE KillAtEnd'
  BY <1>6, <1>a, <1>b DEF TypeOK, KillAtEnd, PauseOver, stop
<1>7. ASSUME ~killed, PingOver PROVE KillAtEnd'
  BY <1>7, <1>a, <1>b DEF TypeOK, KillAtEnd, PingOver, stop
<1>8. ASSUME stopServer PROVE KillAtEnd'
  BY <1>8, <1>a, <1>b DEF TypeOK, KillAtEnd, stopServer
<1>9. ASSUME WaitSignalled PROVE KillAtEnd'
  BY <1>9, <1>a, <1>b DEF TypeOK, KillAtEnd, WaitSignalled
<1>10. ASSUME WaitTimeout PROVE KillAtEnd'
  BY <1>10, <1>a, <1>b DEF TypeOK, KillAtEnd, WaitTimeout, monitor
<1>11. ASSUME Tick PROVE KillAtEnd'
  BY <1>11, <1>a, <1>b DEF TypeOK, KillAtEnd, Tick
<1> QED BY <1>1, <1>2, <1>3, <1>4, <1>5, <1>6, <1>7, <1>8, <1>9, <1>10, <1>11
  DEF Next, Monitor

LEMMA GoOffStep == ASSUME IInv, [Next]_vars PROVE GoOff'
<1> USE DEF IInv
<1>a. set' = set /\ t' = t /\ WaitTime' = WaitTime BY SettingsStay
<1>b. /\ set.pause \in Nat /\ set.timeout \in Nat /\ set.startup \in Nat
      /\ Second \in Nat \ {0} /\ set.pause >= Second /\ set.startup >= Second
      /\ WaitTime \in Nat /\ t \in Nat /\ t \div 2 <= t
  BY SettingsAreNumbers, LoopsAreNumbers DEF TypeOK
<1>1. CASE UNCHANGED vars
  BY <1>1, <1>a DEF TypeOK, GoOff, vars, stop
<1>2. ASSUME ~killed, StartupSleep PROVE GoOff'
  BY <1>2, <1>a, <1>b DEF TypeOK, GoOff, StartupSleep, stop
<1>3. ASSUME ~killed, InputTimeout PROVE GoOff'
  BY <1>3, <1>a, <1>b DEF TypeOK, GoOff, InputTimeout, stop
<1>4. ASSUME ~killed, InputIdle PROVE GoOff'
  BY <1>4, <1>a, <1>b DEF TypeOK, GoOff, InputIdle, stop
<1>5. ASSUME ~killed, WhileTest PROVE GoOff'
  BY <1>5, <1>a, <1>b DEF TypeOK, GoOff, WhileTest, stop
<1>6. ASSUME ~killed, PauseOver PROVE GoOff'
  BY <1>6, <1>a, <1>b DEF TypeOK, GoOff, PauseOver, stop
<1>7. ASSUME ~killed, PingOver PROVE GoOff'
  BY <1>7, <1>a, <1>b DEF TypeOK, GoOff, PingOver, stop
<1>8. ASSUME stopServer PROVE GoOff'
  BY <1>8, <1>a, <1>b DEF TypeOK, GoOff, stopServer
<1>9. ASSUME WaitSignalled PROVE GoOff'
  BY <1>9, <1>a, <1>b DEF TypeOK, GoOff, WaitSignalled
<1>10. ASSUME WaitTimeout PROVE GoOff'
  BY <1>10, <1>a, <1>b DEF TypeOK, GoOff, WaitTimeout
<1>11. ASSUME Tick PROVE GoOff'
  BY <1>11, <1>a, <1>b DEF TypeOK, GoOff, Tick
<1> QED BY <1>1, <1>2, <1>3, <1>4, <1>5, <1>6, <1>7, <1>8, <1>9, <1>10, <1>11
  DEF Next, Monitor

LEMMA NotYetStep == ASSUME IInv, [Next]_vars PROVE NotYet'
<1> USE DEF IInv
<1>a. set' = set /\ t' = t /\ WaitTime' = WaitTime BY SettingsStay
<1>b. /\ set.pause \in Nat /\ set.timeout \in Nat /\ set.startup \in Nat
      /\ Second \in Nat \ {0} /\ set.pause >= Second /\ set.startup >= Second
      /\ WaitTime \in Nat /\ t \in Nat /\ t \div 2 <= t
  BY SettingsAreNumbers, LoopsAreNumbers DEF TypeOK
<1>1. CASE UNCHANGED vars
  BY <1>1, <1>a DEF TypeOK, NotYet, vars, stop
<1>2. ASSUME ~killed, StartupSleep PROVE NotYet'
  BY <1>2, <1>a, <1>b DEF TypeOK, NotYet, StartupSleep, stop
<1>3. ASSUME ~killed, InputTimeout PROVE NotYet'
  BY <1>3, <1>a, <1>b DEF TypeOK, NotYet, InputTimeout, stop
<1>4. ASSUME ~killed, InputIdle PROVE NotYet'
  BY <1>4, <1>a, <1>b DEF TypeOK, NotYet, InputIdle, stop
<1>5. ASSUME ~killed, WhileTest PROVE NotYet'
  BY <1>5, <1>a, <1>b DEF TypeOK, NotYet, WhileTest, stop
<1>6. ASSUME ~killed, PauseOver PROVE NotYet'
  BY <1>6, <1>a, <1>b DEF TypeOK, NotYet, PauseOver, stop
<1>7. ASSUME ~killed, PingOver PROVE NotYet'
  BY <1>7, <1>a, <1>b DEF TypeOK, NotYet, PingOver, stop
<1>8. ASSUME stopServer PROVE NotYet'
  BY <1>8, <1>a, <1>b DEF TypeOK, NotYet, stopServer
<1>9. ASSUME WaitSignalled PROVE NotYet'
  BY <1>9, <1>a, <1>b DEF TypeOK, NotYet, WaitSignalled
<1>10. ASSUME WaitTimeout PROVE NotYet'
  BY <1>10, <1>a, <1>b DEF TypeOK, NotYet, WaitTimeout
<1>11. ASSUME Tick PROVE NotYet'
  BY <1>11, <1>a, <1>b DEF TypeOK, NotYet, Tick
<1> QED BY <1>1, <1>2, <1>3, <1>4, <1>5, <1>6, <1>7, <1>8, <1>9, <1>10, <1>11
  DEF Next, Monitor

LEMMA OverStep == ASSUME IInv, [Next]_vars PROVE Over'
<1> USE DEF IInv
<1>a. set' = set /\ t' = t /\ WaitTime' = WaitTime BY SettingsStay
<1>b. /\ set.pause \in Nat /\ set.timeout \in Nat /\ set.startup \in Nat
      /\ Second \in Nat \ {0} /\ set.pause >= Second /\ set.startup >= Second
      /\ WaitTime \in Nat /\ t \in Nat /\ t \div 2 <= t
  BY SettingsAreNumbers, LoopsAreNumbers DEF TypeOK
<1>1. CASE UNCHANGED vars
  BY <1>1, <1>a DEF TypeOK, Over, vars, monitor, stop
<1>2. ASSUME ~killed, StartupSleep PROVE Over'
  BY <1>2, <1>a, <1>b DEF TypeOK, Over, StartupSleep, stop
<1>3. ASSUME ~killed, InputTimeout PROVE Over'
  BY <1>3, <1>a, <1>b DEF TypeOK, Over, InputTimeout, stop
<1>4. ASSUME ~killed, InputIdle PROVE Over'
  BY <1>4, <1>a, <1>b DEF TypeOK, Over, InputIdle, stop
<1>5. ASSUME ~killed, WhileTest PROVE Over'
  BY <1>5, <1>a, <1>b DEF TypeOK, Over, WhileTest, stop
<1>6. ASSUME ~killed, PauseOver PROVE Over'
  BY <1>6, <1>a, <1>b DEF TypeOK, Over, PauseOver, stop
<1>7. ASSUME ~killed, PingOver PROVE Over'
  BY <1>7, <1>a, <1>b DEF TypeOK, Over, PingOver, stop
<1>8. ASSUME stopServer PROVE Over'
  BY <1>8, <1>a, <1>b DEF TypeOK, Over, stopServer
<1>9. ASSUME WaitSignalled PROVE Over'
  BY <1>9, <1>a, <1>b DEF TypeOK, Over, WaitSignalled, monitor
<1>10. ASSUME WaitTimeout PROVE Over'
  BY <1>10, <1>a, <1>b DEF TypeOK, Over, WaitTimeout
<1>11. ASSUME Tick PROVE Over'
  BY <1>11, <1>a, <1>b DEF TypeOK, Over, Tick
<1> QED BY <1>1, <1>2, <1>3, <1>4, <1>5, <1>6, <1>7, <1>8, <1>9, <1>10, <1>11
  DEF Next, Monitor

LEMMA IInvInductive == IInv /\ [Next]_vars => IInv'
<1> SUFFICES ASSUME IInv, [Next]_vars PROVE IInv'
  OBVIOUS
<1> QED
  BY TypeOKStep, LeftBoundedStep, StopInStartupStep, StopInLoopStep, KillAtEndStep,
       GoOffStep, NotYetStep, OverStep
    DEF IInv

LEMMA IInvCorrect == Spec => []IInv
BY InitEstablishes, IInvInductive, PTL DEF Spec

-----------------------------------------------------------------------------
(* The counters of the start-up loops stay below t, and stopServer waits   *)
(* no longer than it says.                                                 *)
THEOREM TimingTypeCorrect == Spec => []TypeOK
<1>1. IInv => TypeOK BY DEF IInv
<1> QED BY IInvCorrect, <1>1, PTL

(* For any settings: the check thread is killed only if its time-out is so *)
(* long that a ping and one WaitForInputIdle outlast start-up and pause.   *)
THEOREM KillsCorrect == Spec => []KilledIfSlow
<1>1. ASSUME IInv PROVE KilledIfSlow
  <2> SUFFICES ASSUME killed = TRUE PROVE set.timeout + Second >= set.startup + set.pause
    BY <1>1 DEF TypeOK, KilledIfSlow
  <2>1. /\ set.pause \in Nat /\ set.timeout \in Nat /\ set.startup \in Nat
        /\ Second \in Nat \ {0} /\ set.pause >= Second /\ set.startup >= Second
    BY <1>1, SettingsAreNumbers DEF TypeOK, IInv
  <2>2. ui # "idle" /\ waited = set.startup + 2 * set.pause /\ at # "done"
    BY <1>1 DEF WaitTime, KillAtEnd, IInv
  <2>3. left \in Nat /\ at \in Waits \cup {"while", "done"}
    BY <1>1 DEF TypeOK, IInv
  <2>4. CASE from \in {"startup", "inputidle"}
    <3>1. waited <= 2 * Second
      BY <1>1, <2>1, <2>2, <2>3, <2>4 DEF Waits, StopInStartup, IInv
    <3> QED BY <2>1, <2>2, <3>1
  <2>5. CASE from \notin {"startup", "inputidle"}
    <3>1. waited <= set.pause + set.timeout + Second
      BY <1>1, <2>1, <2>2, <2>3, <2>5 DEF Waits, StopInLoop, IInv
    <3> QED BY <2>1, <2>2, <3>1
  <2> QED BY <2>4, <2>5
<1> QED BY IInvCorrect, <1>1, PTL

(* For any settings: a stop that comes during start-up takes two seconds   *)
(* at most.                                                                *)
THEOREM StartupStopCorrect == Spec => []StartupHeeded
<1>1. ASSUME IInv PROVE StartupHeeded
  <2> SUFFICES ASSUME from \in {"startup", "inputidle"} PROVE waited <= 2 * Second
    BY DEF StartupHeeded
  <2>1. ui # "idle"
    BY <1>1 DEF NotYet, IInv
  <2>2. left \in Nat /\ waited \in Nat /\ Second \in Nat /\ at \in Waits \cup {"while", "done"}
    BY <1>1, TimingAssumption DEF TypeOK, IInv
  <2> QED BY <1>1, <2>1, <2>2 DEF Waits, StopInStartup, IInv
<1> QED BY IInvCorrect, <1>1, PTL
=============================================================================
