------------------------- MODULE TimeControlProofs -------------------------
(***************************************************************************)
(* Machine-checked proofs about TimeControl, for a day of any length, any  *)
(* number of servers and any Period and MaxWait: the window tests of       *)
(* OnTimer, the types, and how late a round may stop or start a server.    *)
(*                                                                         *)
(* The argument for the last is an account of seconds.  A server that is   *)
(* late while no timer message waits has been so since the last one; and   *)
(* from the message to the end of the round that answers it, the seconds   *)
(* are paid by the servers that were waited for, each of them once.        *)
(***************************************************************************)
EXTENDS TimeControl, FiniteSets, FiniteSetTheorems, TLAPS

(* The step from a digit to the next is at least a whole unit. *)
LEMMA WholeUnit ==
  ASSUME NEW a \in Nat, NEW b \in Nat, NEW unit \in Nat, a < b
  PROVE  a * unit + unit <= b * unit
<1> DEFINE d == b - a - 1
<1>1. d \in Nat /\ b = a + 1 + d
  OBVIOUS
<1>2. d * unit \in Nat
  BY <1>1
<1>3. (a + 1 + d) * unit = a * unit + unit + d * unit
  BY <1>1
<1> QED  BY <1>1, <1>2, <1>3

(* Two digits compare like the number they form. *)
LEMMA TwoDigits ==
  ASSUME NEW unit \in Nat \ {0}, NEW a \in Nat, NEW b \in Nat,
         NEW x \in 0..(unit - 1), NEW y \in 0..(unit - 1)
  PROVE  /\ a * unit + x \in Nat
         /\ a * unit + x < b * unit + y <=> a < b \/ (a = b /\ x < y)
         /\ a * unit + x = b * unit + y <=> a = b /\ x = y
<1>1. a * unit \in Nat /\ b * unit \in Nat
  OBVIOUS
<1>2. CASE a < b
  BY <1>1, <1>2, WholeUnit
<1>3. CASE b < a
  BY <1>1, <1>3, WholeUnit
<1>4. CASE a = b
  BY <1>1, <1>4
<1> QED  BY <1>2, <1>3, <1>4

(* A number of two digits is below the product of their ranges. *)
LEMMA TwoDigitsBound ==
  ASSUME NEW range \in Nat, NEW unit \in Nat \ {0},
         NEW a \in 0..(range - 1), NEW x \in 0..(unit - 1)
  PROVE  a * unit + x < range * unit
<1>1. a * unit \in Nat /\ range * unit \in Nat /\ a * unit + unit <= range * unit
  BY WholeUnit
<1> QED  BY <1>1

(* operator< and operator> compare the seconds since midnight, which tell two times
   of day apart.                                                                     *)
LEMMA OrderOfTimes ==
  ASSUME NEW first \in SYSTEMTIME, NEW second \in SYSTEMTIME
  PROVE  /\ SecondOfDay(first) \in 0..(Day - 1)
         /\ Less(first, second) <=> SecondOfDay(first) < SecondOfDay(second)
         /\ Greater(first, second) <=> SecondOfDay(first) > SecondOfDay(second)
         /\ first = second <=> SecondOfDay(first) = SecondOfDay(second)
<1> USE ClockAssumption
<1> DEFINE Min(t) == t.wHour * Minutes + t.wMinute
<1>1. ASSUME NEW t \in SYSTEMTIME
      PROVE  /\ t.wHour \in 0..(Hours - 1) /\ t.wMinute \in 0..(Minutes - 1)
             /\ t.wSecond \in 0..(Seconds - 1)
             /\ SecondOfDay(t) = Min(t) * Seconds + t.wSecond
  BY DEF SYSTEMTIME, SecondOfDay
<1>2. ASSUME NEW s \in SYSTEMTIME, NEW t \in SYSTEMTIME
      PROVE  /\ Min(s) \in Nat
             /\ Min(s) < Min(t)
                  <=> s.wHour < t.wHour \/ (s.wHour = t.wHour /\ s.wMinute < t.wMinute)
             /\ Min(s) = Min(t) <=> s.wHour = t.wHour /\ s.wMinute = t.wMinute
  <2> DEFINE a == s.wHour
             b == t.wHour
             x == s.wMinute
             y == t.wMinute
  <2>1. a \in Nat /\ b \in Nat /\ x \in 0..(Minutes - 1) /\ y \in 0..(Minutes - 1)
    BY <1>1
  <2>2. Min(s) = a * Minutes + x /\ Min(t) = b * Minutes + y
    OBVIOUS
  <2> HIDE DEF a, b, x, y, Min
  <2>3. /\ a * Minutes + x \in Nat
        /\ a * Minutes + x < b * Minutes + y <=> a < b \/ (a = b /\ x < y)
        /\ a * Minutes + x = b * Minutes + y <=> a = b /\ x = y
    BY <2>1, TwoDigits
  <2> QED  BY <2>2, <2>3 DEF a, b, x, y
<1>3. Min(first) < Hours * Minutes
  BY <1>1, TwoDigitsBound
<1> HIDE DEF Min
<1>4. /\ SecondOfDay(first) \in Nat
      /\ SecondOfDay(first) < SecondOfDay(second)
           <=> \/ Min(first) < Min(second)
               \/ Min(first) = Min(second) /\ first.wSecond < second.wSecond
      /\ SecondOfDay(second) < SecondOfDay(first)
           <=> \/ Min(second) < Min(first)
               \/ Min(first) = Min(second) /\ second.wSecond < first.wSecond
      /\ SecondOfDay(first) = SecondOfDay(second)
           <=> Min(first) = Min(second) /\ first.wSecond = second.wSecond
  BY <1>1, <1>2, TwoDigits
<1>5. SecondOfDay(first) < Day
  <2>1. Min(first) \in 0..(Hours * Minutes - 1) /\ Hours * Minutes \in Nat
    BY <1>2, <1>3
  <2> QED  BY <1>1, <2>1, TwoDigitsBound DEF Day
<1>6. Day \in Nat
  BY DEF Day
<1>7. first = second
      <=> /\ first.wHour = second.wHour /\ first.wMinute = second.wMinute
          /\ first.wSecond = second.wSecond
  BY DEF SYSTEMTIME
<1>8. SecondOfDay(first) \in 0..(Day - 1)
  BY <1>4, <1>5, <1>6
<1>9. Less(first, second) <=> SecondOfDay(first) < SecondOfDay(second)
  BY <1>2, <1>4 DEF Less
<1>10. Greater(first, second) <=> SecondOfDay(second) < SecondOfDay(first)
  BY <1>1, <1>2, <1>4 DEF Greater
<1>11. SecondOfDay(second) \in Nat
  BY <1>1, <1>2, TwoDigits
<1> QED  BY <1>2, <1>4, <1>7, <1>8, <1>9, <1>10, <1>11

(* For every time and every window, through midnight or not, OnTimer starts strictly
   within it and stops strictly outside, and so never wants both.                    *)
THEOREM WindowCorrect ==
  ASSUME NEW t \in SYSTEMTIME, NEW start \in SYSTEMTIME, NEW stop \in SYSTEMTIME
  PROVE  /\ ToStart(t, start, stop) <=> Within(t, start, stop)
         /\ ToStop(t, start, stop) <=> Outside(t, start, stop)
         /\ ~(ToStart(t, start, stop) /\ ToStop(t, start, stop))
<1> DEFINE n == SecondOfDay(t)
           a == SecondOfDay(start)
           z == SecondOfDay(stop)
<1>1. n \in 0..(Day - 1) /\ a \in 0..(Day - 1) /\ z \in 0..(Day - 1) /\ Day \in Nat
  BY OrderOfTimes, ClockAssumption DEF Day
<1>2. /\ ToStart(t, start, stop)
           <=> \/ a > z /\ (n < z \/ n > a)
               \/ a < z /\ n < z /\ n > a
      /\ ToStop(t, start, stop)
           <=> \/ a > z /\ n > z /\ n < a
               \/ a < z /\ (n > z \/ n < a)
      /\ start # stop <=> a # z
  BY OrderOfTimes DEF ToStart, ToStop
<1>3. /\ Since(t, start) = IF n - a < 0 THEN n - a + Day ELSE n - a
      /\ Since(stop, start) = IF z - a < 0 THEN z - a + Day ELSE z - a
  BY DEF Since
<1> HIDE DEF n, a, z
<1>4. ToStart(t, start, stop) <=> Within(t, start, stop)
  BY <1>1, <1>2, <1>3 DEF Within
<1>5. ToStop(t, start, stop) <=> Outside(t, start, stop)
  BY <1>1, <1>2, <1>3 DEF Outside
<1>6. ~(ToStart(t, start, stop) /\ ToStop(t, start, stop))
  BY <1>1, <1>2
<1> QED  BY <1>4, <1>5, <1>6

LEMMA MidnightInDay == Midnight \in SYSTEMTIME
BY ClockAssumption DEF Midnight, SYSTEMTIME

LEMMA NextSecondInDay == ASSUME NEW t \in SYSTEMTIME PROVE NextSecond(t) \in SYSTEMTIME
<1> USE ClockAssumption DEF SYSTEMTIME
<1>1. CASE t.wSecond + 1 < Seconds
  BY <1>1 DEF NextSecond
<1>2. CASE ~(t.wSecond + 1 < Seconds) /\ t.wMinute + 1 < Minutes
  BY <1>2 DEF NextSecond
<1>3. CASE ~(t.wSecond + 1 < Seconds) /\ ~(t.wMinute + 1 < Minutes)
  BY <1>3, MidnightInDay DEF NextSecond
<1> QED  BY <1>1, <1>2, <1>3

(* What the steps of a server have in common. *)
LEMMA TurnsType ==
  ASSUME TypeOK, NEW s \in Servers, TurnsOn(s) \/ TurnsOff(s)
  PROVE  /\ active' \in [Servers -> {"off", "on", "stuck"}]
         /\ over' \in [Servers -> Nat] /\ under' \in [Servers -> Nat]
         /\ \A u \in Servers \ {s} : active'[u] = active[u]
         /\ TurnsOn(s) => active'[s] = "on"
BY DEF TypeOK, TurnsOn, TurnsOff

LEMMA TimeTypeInit == Init => TypeOK
<1> SUFFICES ASSUME Init PROVE TypeOK
  OBVIOUS
<1> USE TimerAssumption
<1>0. posted \in BOOLEAN /\ ui = "idle"
  BY DEF Init
<1>1. left \in 0..Period /\ waiting \in 0..MaxWait /\ nr \in 1..(N + 1)
  BY DEF Init
<1>2. /\ timecontrol \in [Servers -> BOOLEAN] /\ active \in [Servers -> {"off", "on", "stuck"}]
      /\ over \in [Servers -> Nat] /\ under \in [Servers -> Nat]
  BY DEF Init
<1>3. clock \in SYSTEMTIME /\ now \in SYSTEMTIME /\ window \in [Servers -> Windows]
  BY MidnightInDay DEF Init
<1> QED  BY <1>0, <1>1, <1>2, <1>3 DEF TypeOK

LEMMA TimeTypeStep == TypeOK /\ [Next]_vars => TypeOK'
<1> SUFFICES ASSUME TypeOK, [Next]_vars PROVE TypeOK'
  OBVIOUS
<1> USE TimerAssumption
<1>1. CASE OnTimer
  <2>1. nr' \in 1..(N + 1) /\ now' \in SYSTEMTIME
    BY <1>1 DEF OnTimer, TypeOK
  <2>2. posted' \in BOOLEAN /\ ui' = "round"
    BY <1>1 DEF OnTimer
  <2> QED  BY <1>1, <2>1, <2>2 DEF OnTimer, TypeOK, settings, history
<1>2. ASSUME NEW s \in Servers, RoundStop(s) PROVE TypeOK'
  BY <1>2 DEF RoundStop, LookAt, stopServer, Busy, TypeOK, settings, history, Servers
<1>3. ASSUME NEW s \in Servers, RoundStart(s) PROVE TypeOK'
  <2>1. /\ active' \in [Servers -> {"off", "on", "stuck"}]
        /\ over' \in [Servers -> Nat] /\ under' \in [Servers -> Nat]
    BY <1>3, TurnsType DEF RoundStart
  <2>2. nr' \in 1..(N + 1) /\ ui' = "round"
    BY <1>3 DEF RoundStart, LookAt, Servers
  <2> QED  BY <1>3, <2>1, <2>2 DEF RoundStart, TypeOK, settings
<1>4. ASSUME NEW s \in Servers, RoundSkip(s) PROVE TypeOK'
  BY <1>4 DEF RoundSkip, LookAt, TypeOK, settings, history, Servers
<1>5. CASE RoundOver
  BY <1>5, MidnightInDay DEF RoundOver, TypeOK, settings, history
<1>6. CASE WaitOver
  <2> DEFINE s == IF ui = "roundwait" THEN nr - 1 ELSE nr
  <2>1. s \in Servers
    BY <1>6 DEF WaitOver, TypeOK
  <2>2. TurnsOff(s) \/ (active' = [active EXCEPT ![s] = "stuck"] /\ UNCHANGED history)
    BY <1>6 DEF WaitOver
  <2>3. /\ active' \in [Servers -> {"off", "on", "stuck"}]
        /\ over' \in [Servers -> Nat] /\ under' \in [Servers -> Nat]
    BY <2>1, <2>2, TurnsType DEF TypeOK, history
  <2> QED
    BY <1>6, <2>3 DEF WaitOver, TypeOK, settings
<1>7. CASE Tick
  <2>1. waiting' \in 0..MaxWait /\ left' \in 0..Period /\ posted' \in BOOLEAN
    BY <1>7 DEF Tick, TypeOK
  <2>2. over' \in [Servers -> Nat] /\ under' \in [Servers -> Nat]
    BY <1>7 DEF Tick, TypeOK
  <2>3. clock' \in SYSTEMTIME
    BY <1>7, NextSecondInDay DEF Tick, TypeOK
  <2> QED
    BY <1>7, <2>1, <2>2, <2>3 DEF Tick, TypeOK, settings
<1>8. ASSUME NEW s \in Servers, OnBnClickedStart(s) \/ MonitorEnds(s) PROVE TypeOK'
  BY <1>8, TurnsType DEF OnBnClickedStart, MonitorEnds, User, TypeOK, settings
<1>9. ASSUME NEW s \in Servers, OnBnClickedStop(s) PROVE TypeOK'
  BY <1>9 DEF OnBnClickedStop, User, stopServer, Busy, TypeOK, settings, history, Servers
<1>10. ASSUME NEW s \in Servers, OnBnClickedTimecontrol(s) PROVE TypeOK'
  BY <1>10 DEF OnBnClickedTimecontrol, User, TypeOK
<1>11. ASSUME NEW s \in Servers, OnBnClickedUpdate(s) PROVE TypeOK'
  BY <1>11 DEF OnBnClickedUpdate, User, TypeOK
<1>12. CASE UNCHANGED vars
  BY <1>12 DEF vars, TypeOK, settings, history
<1> QED
  BY <1>1, <1>2, <1>3, <1>4, <1>5, <1>6, <1>7, <1>8, <1>9, <1>10, <1>11, <1>12
  DEF Next, Round

(* Every variable keeps its type, and a wait is for a server that is up. *)
THEOREM TimeTypeCorrect == Spec => []TypeOK
BY TimeTypeInit, TimeTypeStep, PTL DEF Spec

(* In every state, OnTimer's tests agree with the windows of all servers. *)
THEOREM TestsCorrect == Spec => []WindowTests
<1>1. TypeOK => WindowTests
  <2> SUFFICES ASSUME TypeOK, NEW s \in Servers
               PROVE  /\ ToStart(clock, window[s][1], window[s][2])
                           <=> Within(clock, window[s][1], window[s][2])
                      /\ ToStop(clock, window[s][1], window[s][2])
                           <=> Outside(clock, window[s][1], window[s][2])
    BY DEF WindowTests
  <2>1. window[s][1] \in SYSTEMTIME /\ window[s][2] \in SYSTEMTIME /\ clock \in SYSTEMTIME
    BY TimerAssumption DEF TypeOK
  <2> QED  BY <2>1, WindowCorrect
<1> QED  BY <1>1, TimeTypeCorrect, PTL

-----------------------------------------------------------------------------
(* How late a round may be.                                                *)

\* The seconds that a server is late and stays late when the next one passes.
Late(s) ==
  IF timecontrol[s] /\ active[s] = "on" /\ Outside(clock, window[s][1], window[s][2])
  THEN over[s] ELSE 0
Early(s) ==
  IF timecontrol[s] /\ active[s] = "off" /\ Within(clock, window[s][1], window[s][2])
  THEN under[s] ELSE 0

InRound == ui \in {"round", "roundwait"}

On == {u \in Servers : active[u] = "on"}

\* The server that stopServer is waiting for.
Waited ==
  {u \in Servers : (ui = "roundwait" /\ u = nr - 1) \/ (ui = "userwait" /\ u = nr)}

\* Servers the round may still wait for, and those it has waited for.
Ahead == {u \in On : u >= nr}
Behind == {u \in Servers : u < nr /\ (u \in Waited \/ u \notin On)}

\* The round will stop s, or is stopping it; the round will start it.
DueStop(s) ==
  /\ timecontrol[s] /\ active[s] = "on" /\ ToStop(now, window[s][1], window[s][2])
  /\ s >= nr \/ s \in Waited
DueStart(s) ==
  timecontrol[s] /\ active[s] = "off" /\ ToStart(now, window[s][1], window[s][2]) /\ s >= nr

\* The time it takes to wait for a set of servers.
Charge(S) == MaxWait * Cardinality(S)

\* x is how late a server is, K holds it when it cannot be one of those waited for, and
\* due tells whether the round will see to it.
Lag(K, x, due) ==
  /\ ~InRound /\ ~posted => x <= Period - left
  /\ ~InRound /\ posted => x + waiting + Charge(On \ Waited) <= Period + Charge(Servers \ K)
  /\ InRound /\ due => x + waiting + Charge(Ahead) <= Period + Charge(Servers \ K)
  /\ InRound /\ ~due => x + waiting <= Charge(Behind \ K) /\ (~posted => x <= Period - left)

\* The timer runs for a server under time control, and the counts are of servers that
\* may be late.
Basics ==
  /\ left = 0 => \A s \in Servers : ~timecontrol[s]
  /\ waiting > 0 => ui \in {"roundwait", "userwait"}
  /\ \A s \in Servers : /\ active[s] = "off" => over[s] = 0
                        /\ active[s] # "off" => under[s] = 0

IInv ==
  /\ TypeOK /\ Basics /\ StopsInTime /\ StartsInTime
  /\ \A s \in Servers : /\ Lag({}, Late(s), DueStop(s))
                        /\ active[s] = "off" => Lag({s}, Early(s), DueStart(s))

LEMMA Distribute ==
  ASSUME NEW m \in Nat, NEW a \in Nat, NEW b \in Nat
  PROVE  m * (a + b) = m * a + m * b /\ m * a \in Nat /\ m * b \in Nat
OBVIOUS

(* What is charged for two sets that share no server. *)
LEMMA ChargeAdds ==
  ASSUME NEW S, NEW T, S \subseteq Servers, T \subseteq Servers, S \cap T = {}
  PROVE  /\ Charge(S) \in Nat /\ Charge(T) \in Nat
         /\ Charge(S \cup T) = Charge(S) + Charge(T)
<1>1. IsFiniteSet(Servers)
  BY FS_Interval, TimerAssumption DEF Servers
<1>2. IsFiniteSet(S) /\ IsFiniteSet(T)
  BY <1>1, FS_Subset
<1>3. Cardinality(S \cup T) = Cardinality(S) + Cardinality(T) - Cardinality({})
  BY <1>2, FS_Union
<1>4. Cardinality(S) \in Nat /\ Cardinality(T) \in Nat /\ Cardinality({}) = 0
  BY <1>2, FS_CardinalityType, FS_EmptySet
<1>5. Cardinality(S \cup T) = Cardinality(S) + Cardinality(T)
  BY <1>3, <1>4
<1> QED  BY <1>4, <1>5, Distribute, TimerAssumption DEF Charge

LEMMA ChargeGrows ==
  ASSUME NEW S, NEW T, T \subseteq Servers, S \subseteq T
  PROVE  Charge(S) \in Nat /\ Charge(T) \in Nat /\ Charge(S) <= Charge(T)
<1>1. T = S \cup (T \ S)
  OBVIOUS
<1>2. Charge(S) \in Nat /\ Charge(T \ S) \in Nat /\ Charge(T) = Charge(S) + Charge(T \ S)
  BY <1>1, ChargeAdds
<1> QED  BY <1>2

LEMMA ChargeOne ==
  ASSUME NEW s \in Servers
  PROVE  Charge({s}) = MaxWait /\ Charge({}) = 0
<1>1. Cardinality({s}) = 1 /\ Cardinality({}) = 0
  BY FS_Singleton, FS_EmptySet
<1> QED  BY <1>1, TimerAssumption DEF Charge

(* One more server. *)
LEMMA ChargeWith ==
  ASSUME NEW S, NEW T, NEW s \in T, T \subseteq Servers, S \subseteq T \ {s}
  PROVE  Charge(S) \in Nat /\ Charge(T) \in Nat /\ Charge(S) + MaxWait <= Charge(T)
<1>1. (T \ {s}) \cup {s} = T /\ s \in Servers /\ {s} \subseteq Servers
  OBVIOUS
<1>2. /\ Charge(T \ {s}) \in Nat /\ Charge({s}) \in Nat
      /\ Charge(T) = Charge(T \ {s}) + Charge({s})
  BY <1>1, ChargeAdds
<1>3. Charge(S) \in Nat /\ Charge(S) <= Charge(T \ {s})
  BY ChargeGrows
<1> QED  BY <1>1, <1>2, <1>3, ChargeOne, TimerAssumption

LEMMA ChargeAll ==
  /\ Charge(Servers \ {}) = N * MaxWait
  /\ \A s \in Servers : Charge(Servers \ {s}) = (N - 1) * MaxWait
<1>1. IsFiniteSet(Servers) /\ Cardinality(Servers) = N
  BY FS_Interval, TimerAssumption DEF Servers
<1>2. \A s \in Servers : Cardinality(Servers \ {s}) = N - 1
  BY <1>1, FS_RemoveElement
<1>3. Servers \ {} = Servers
  OBVIOUS
<1>4. \A n \in Nat : MaxWait * n = n * MaxWait
  BY TimerAssumption
<1>5. N \in Nat /\ N - 1 \in Nat
  BY TimerAssumption
<1> QED  BY <1>1, <1>2, <1>3, <1>4, <1>5 DEF Charge

(* Whoever is waited for, the rest of the wait and those still to wait for fit into one
   wait for every server that may be up.                                               *)
LEMMA Room ==
  ASSUME TypeOK', Basics', NEW K, K \subseteq Servers, K \cap On' = {}
  PROVE  /\ Charge(On' \ Waited') \in Nat /\ Charge(Servers \ K) \in Nat
         /\ waiting' + Charge(On' \ Waited') <= Charge(Servers \ K)
         /\ InRound' => /\ Charge(Ahead') \in Nat /\ Charge(Behind' \ K) \in Nat
                        /\ waiting' + Charge(Ahead') <= Charge(Servers \ K)
                        /\ waiting' <= Charge(Behind' \ K)
<1> DEFINE all == Servers \ K
           o == On'
           w == Waited'
           a == Ahead'
           b == Behind'
<1>0. waiting' \in 0..MaxWait /\ MaxWait \in Nat
  BY TimerAssumption DEF TypeOK
<1>1. o \subseteq all /\ a \subseteq o /\ b \subseteq Servers /\ all \subseteq Servers
  BY DEF On, Ahead, Behind
<1>2. \A u \in w : u \in o /\ (InRound' => u \in b /\ u \notin a)
  <2> TAKE u \in w
  <2>1. /\ u \in Servers
        /\ (ui' = "roundwait" /\ u = nr' - 1) \/ (ui' = "userwait" /\ u = nr')
    BY DEF Waited
  <2>2. active'[u] = "on"
    BY <2>1 DEF TypeOK
  <2>3. u \in o
    BY <2>1, <2>2 DEF On
  <2>4. InRound' => u < nr' /\ ~(u >= nr')
    <3>1. nr' \in Int
      BY DEF TypeOK
    <3> QED  BY <2>1, <3>1 DEF InRound
  <2> QED  BY <2>1, <2>3, <2>4 DEF Behind, Ahead
<1>3. waiting' > 0 => w # {}
  BY DEF Basics, TypeOK, Waited
<1>4. /\ Charge(o \ w) \in Nat /\ Charge(a) \in Nat /\ Charge(all) \in Nat /\ Charge(b \ K) \in Nat
      /\ Charge(o \ w) <= Charge(all) /\ Charge(a) <= Charge(all)
  BY <1>1, ChargeGrows
<1>5. CASE waiting' = 0
  BY <1>4, <1>5
<1>6. CASE waiting' > 0
  <2>1. PICK u \in w : TRUE
    BY <1>3, <1>6
  <2>2. u \in o /\ u \in all /\ u \notin K /\ o \ w \subseteq all \ {u}
    BY <1>1, <1>2
  <2>3. Charge(o \ w) + MaxWait <= Charge(all)
    BY <1>1, <2>2, ChargeWith
  <2>4. ASSUME InRound' PROVE Charge(a) + MaxWait <= Charge(all) /\ MaxWait <= Charge(b \ K)
    <3> DEFINE t == b \ K
    <3>1. u \in t /\ t \subseteq Servers /\ {} \subseteq t \ {u} /\ a \subseteq all \ {u}
      BY <1>1, <1>2, <2>2, <2>4
    <3>2. Charge(a) + MaxWait <= Charge(all)
      BY <1>1, <2>2, <3>1, ChargeWith
    <3>3. u \in Servers
      BY <3>1
    <3> HIDE DEF t
    <3>4. Charge(t) \in Nat /\ Charge({}) + MaxWait <= Charge(t) /\ Charge({}) = 0
      BY <3>1, <3>3, ChargeWith, ChargeOne
    <3>5. MaxWait <= Charge(t)
      BY <1>0, <3>4
    <3> QED  BY <3>2, <3>5 DEF t
  <2> HIDE DEF all, o, w, a, b
  <2>5. /\ waiting' + Charge(o \ w) <= Charge(all)
        /\ InRound' => waiting' + Charge(a) <= Charge(all) /\ waiting' <= Charge(b \ K)
    BY <1>0, <1>4, <2>3, <2>4
  <2> QED  BY <1>4, <2>5 DEF all, o, w, a, b
<1> QED  BY <1>0, <1>5, <1>6

(* Below a bound. *)
LEMMA Fits ==
  ASSUME NEW p \in Nat, NEW l \in 0..p, NEW w \in Nat, NEW c \in Nat, NEW all \in Nat,
         NEW y, y = 0
  PROVE  /\ y <= p - l
         /\ w + c <= all => y + w + c <= p + all
         /\ w <= c => y + w <= c
OBVIOUS

(* A server that is not late fits into the account. *)
LEMMA LagZero ==
  ASSUME TypeOK', Basics', NEW K, K \subseteq Servers, K \cap On' = {}, NEW due \in BOOLEAN,
         NEW y, y = 0
  PROVE  Lag(K, y, due)'
<1> DEFINE all == Charge(Servers \ K)
           o == Charge(On' \ Waited')
           a == Charge(Ahead')
           b == Charge(Behind' \ K)
<1>1. waiting' \in Nat /\ left' \in 0..Period /\ Period \in Nat
  BY TimerAssumption DEF TypeOK
<1>2. /\ o \in Nat /\ all \in Nat /\ waiting' + o <= all
      /\ InRound' => a \in Nat /\ b \in Nat /\ waiting' + a <= all /\ waiting' <= b
  BY Room
<1> HIDE DEF all, o, a, b
<1>3. y <= Period - left' /\ y + waiting' + o <= Period + all
  BY <1>1, <1>2, Fits
<1>4. InRound' => y + waiting' + a <= Period + all /\ y + waiting' <= b
  BY <1>1, <1>2, Fits
<1> QED  BY <1>3, <1>4 DEF Lag, all, o, a, b, Charge

(* Within a round, or out of it, nobody new is waited for. *)
LEMMA LagStays ==
  ASSUME TypeOK, TypeOK', NEW K, K \subseteq Servers, NEW x \in Nat, NEW y \in Nat,
         NEW due \in BOOLEAN, Lag(K, x, due), y <= x, InRound' = InRound,
         UNCHANGED <<left, posted>>, InRound \/ posted => waiting' <= waiting,
         ~InRound /\ posted => On' \ Waited' \subseteq On \ Waited,
         InRound => Ahead' \subseteq Ahead /\ Behind \subseteq Behind'
  PROVE  Lag(K, y, due)'
<1> DEFINE all == Servers \ K
<1>0. /\ waiting \in 0..MaxWait /\ waiting' \in 0..MaxWait /\ left \in 0..Period
      /\ MaxWait \in Nat /\ Period \in Nat
  BY TimerAssumption DEF TypeOK
<1>1. /\ On \ Waited \subseteq Servers /\ Ahead \subseteq Servers /\ Behind' \ K \subseteq Servers
      /\ all \subseteq Servers
  BY DEF On, Ahead, Behind
<1>2. ASSUME ~InRound, posted PROVE y + waiting' + Charge(On' \ Waited') <= Period + Charge(all)
  <2>1. /\ Charge(On' \ Waited') \in Nat /\ Charge(On \ Waited) \in Nat /\ Charge(all) \in Nat
        /\ Charge(On' \ Waited') <= Charge(On \ Waited)
    BY <1>1, <1>2, ChargeGrows
  <2>2. x + waiting + Charge(On \ Waited) <= Period + Charge(all)
    BY <1>2 DEF Lag
  <2> HIDE DEF all
  <2> QED  BY <1>0, <1>2, <2>1, <2>2
<1>3. ASSUME InRound, due PROVE y + waiting' + Charge(Ahead') <= Period + Charge(all)
  <2>1. /\ Charge(Ahead') \in Nat /\ Charge(Ahead) \in Nat /\ Charge(all) \in Nat
        /\ Charge(Ahead') <= Charge(Ahead)
    BY <1>1, <1>3, ChargeGrows
  <2>2. x + waiting + Charge(Ahead) <= Period + Charge(all)
    BY <1>3 DEF Lag
  <2> HIDE DEF all
  <2> QED  BY <1>0, <1>3, <2>1, <2>2
<1>4. ASSUME InRound, ~due PROVE y + waiting' <= Charge(Behind' \ K)
  <2>1. Behind \ K \subseteq Behind' \ K
    BY <1>4
  <2>2. /\ Charge(Behind \ K) \in Nat /\ Charge(Behind' \ K) \in Nat
        /\ Charge(Behind \ K) <= Charge(Behind' \ K)
    BY <1>1, <2>1, ChargeGrows
  <2>3. x + waiting <= Charge(Behind \ K)
    BY <1>4 DEF Lag
  <2> QED  BY <1>0, <1>4, <2>2, <2>3
<1>5. ASSUME ~posted, ~InRound \/ ~due PROVE y <= Period - left'
  BY <1>0, <1>5 DEF Lag
<1> QED  BY <1>2, <1>3, <1>4, <1>5 DEF Lag, Charge

(* A wait that begins in a round is paid by the server waited for. *)
LEMMA LagStop ==
  ASSUME TypeOK, Basics, TypeOK', NEW s \in Servers, RoundStop(s), active[s] = "on",
         NEW K, K \subseteq Servers, K \cap On' = {}, NEW x \in Nat, NEW due \in BOOLEAN,
         Lag(K, x, due)
  PROVE  Lag(K, x, due)'
<1> DEFINE all == Servers \ K
           b == Behind \ K
           c == Behind' \ K
<1>1. /\ ui = "round" /\ ui' = "roundwait" /\ nr = s /\ nr' = s + 1 /\ waiting' = MaxWait
      /\ UNCHANGED <<left, posted, active>>
  BY DEF RoundStop, LookAt, stopServer, history
<1>2. /\ waiting = 0 /\ left \in 0..Period /\ MaxWait \in Nat /\ Period \in Nat
  <2>1. waiting \in Nat /\ ~(waiting > 0)
    BY <1>1 DEF TypeOK, Basics
  <2> QED  BY <2>1, TimerAssumption DEF TypeOK
<1>3. /\ InRound /\ InRound' /\ On' = On /\ Waited = {} /\ s \in Waited'
      /\ Servers \subseteq Int
  BY <1>1 DEF InRound, On, Waited, Servers
<1>4. s \in Ahead /\ Ahead' \subseteq Ahead \ {s} /\ Ahead \subseteq Servers
  <2>1. s \in Ahead /\ Ahead \subseteq Servers
    BY <1>1, <1>3 DEF Ahead, On
  <2>2. ASSUME NEW u \in Ahead' PROVE u \in Ahead /\ u # s
    <3>1. u \in On /\ u \in Int /\ u >= s + 1 /\ s \in Int
      BY <1>1, <1>3 DEF Ahead, On
    <3>2. u >= s /\ u # s
      BY <3>1
    <3> QED  BY <1>1, <3>1, <3>2 DEF Ahead
  <2> QED  BY <2>1, <2>2
<1>5. s \notin b /\ s \in c /\ b \subseteq c \ {s} /\ c \subseteq Servers
  <2>1. s \in On' /\ s \notin K
    BY <1>3, <1>4 DEF Ahead
  <2>2. \A u \in Behind : u \in Behind' /\ u # s
    BY <1>1, <1>3 DEF Behind
  <2>3. s \in Behind'
    BY <1>1, <1>3 DEF Behind
  <2> QED  BY <2>1, <2>2, <2>3 DEF Behind
<1>6. /\ Charge(Ahead') \in Nat /\ Charge(Ahead) \in Nat /\ Charge(Ahead') + MaxWait <= Charge(Ahead)
  BY <1>4, ChargeWith
<1>7. Charge(b) \in Nat /\ Charge(c) \in Nat /\ Charge(b) + MaxWait <= Charge(c)
  BY <1>5, ChargeWith
<1>8. Charge(all) \in Nat
  BY ChargeGrows
<1> HIDE DEF all, b, c
<1>9. ASSUME due PROVE x + waiting' + Charge(Ahead') <= Period + Charge(all)
  <2>1. x + waiting + Charge(Ahead) <= Period + Charge(all)
    BY <1>3, <1>9 DEF Lag, all
  <2> QED  BY <1>1, <1>2, <1>6, <1>8, <2>1
<1>10. ASSUME ~due PROVE x + waiting' <= Charge(c) /\ (~posted' => x <= Period - left')
  <2>1. x + waiting <= Charge(b) /\ (~posted => x <= Period - left)
    BY <1>3, <1>10 DEF Lag, b
  <2>2. x + MaxWait <= Charge(c)
    BY <1>2, <1>7, <2>1
  <2> QED  BY <1>1, <2>1, <2>2
<1> QED  BY <1>3, <1>9, <1>10 DEF Lag, Charge, all, c

(* What a round has cost is what it takes to wait for the servers that are down now. *)
LEMMA LagOver ==
  ASSUME TypeOK, Basics, TypeOK', RoundOver,
         NEW K, K \subseteq Servers, K \cap On' = {}, NEW x \in Nat, NEW due \in BOOLEAN,
         Lag(K, x, FALSE)
  PROVE  Lag(K, x, due)'
<1> DEFINE all == Servers \ K
           b == Behind \ K
<1>1. /\ ui = "round" /\ ui' = "idle" /\ nr = N + 1
      /\ UNCHANGED <<left, posted, active, waiting>>
  BY DEF RoundOver, history
<1>2. waiting = 0 /\ Period \in Nat
  <2>1. waiting \in Nat /\ ~(waiting > 0)
    BY <1>1 DEF TypeOK, Basics
  <2> QED  BY <2>1, TimerAssumption
<1>3. InRound /\ ~InRound' /\ On' = On /\ Waited = {} /\ Waited' = {}
  BY <1>1 DEF InRound, On, Waited
<1>4. \A u \in Servers : u < nr
  BY <1>1, TimerAssumption DEF Servers
<1>5. Behind = Servers \ On
  BY <1>3, <1>4 DEF Behind
<1>6. b \cup On' = all /\ b \cap On' = {} /\ b \subseteq Servers /\ On' \subseteq Servers
  BY <1>3, <1>5 DEF On
<1>7. /\ Charge(b) \in Nat /\ Charge(On') \in Nat /\ Charge(all) = Charge(b) + Charge(On')
  BY <1>6, ChargeAdds
<1>8. x + waiting <= Charge(b) /\ (~posted => x <= Period - left)
  BY <1>3 DEF Lag
<1>9. On' \ Waited' = On'
  BY <1>3
<1> HIDE DEF all, b
<1>10. x + waiting + Charge(On' \ Waited') <= Period + Charge(all)
  BY <1>2, <1>7, <1>8, <1>9
<1> QED  BY <1>1, <1>3, <1>8, <1>10 DEF Lag, Charge, all

(* The round that begins will see to the server. *)
LEMMA LagTimer ==
  ASSUME TypeOK, OnTimer, NEW K, K \subseteq Servers, NEW x \in Nat, NEW due \in BOOLEAN,
         Lag(K, x, due)
  PROVE  Lag(K, x, TRUE)'
<1>1. /\ ui = "idle" /\ ui' = "round" /\ posted /\ nr' = 1
      /\ UNCHANGED <<active, waiting>>
  BY DEF OnTimer, history
<1>2. ~InRound /\ InRound' /\ Waited = {}
  BY <1>1 DEF InRound, Waited
<1>3. Ahead' = On \ Waited
  BY <1>1, <1>2 DEF Ahead, On, Servers
<1>4. x + waiting + Charge(On \ Waited) <= Period + Charge(Servers \ K)
  BY <1>1, <1>2 DEF Lag
<1>5. x + waiting' + Charge(Ahead') <= Period + Charge(Servers \ K)
  BY <1>1, <1>3, <1>4
<1> QED  BY <1>2, <1>5 DEF Lag, Charge

(* A second more is paid by the second less to wait, or to the next timer message. *)
LEMMA LagTick ==
  ASSUME TypeOK, TypeOK', Basics', Tick, left # 0,
         NEW K, K \subseteq Servers, K \cap On' = {}, NEW x \in Nat, NEW y \in Nat, y <= x + 1,
         NEW due \in BOOLEAN, Lag(K, x, due)
  PROVE  Lag(K, y, due)' /\ y <= Period + Charge(Servers \ K)
<1> DEFINE all == Servers \ K
           b == Behind \ K
           o == On \ Waited
<1>1. UNCHANGED <<ui, nr, active>>
  BY DEF Tick
<1>2. /\ InRound' = InRound /\ On' = On /\ Waited' = Waited /\ Ahead' = Ahead /\ Behind' = Behind
  BY <1>1 DEF InRound, On, Waited, Ahead, Behind
<1>3. /\ waiting \in Nat /\ left \in 1..Period /\ Period \in Nat /\ posted \in BOOLEAN
      /\ waiting' = (IF waiting = 0 THEN 0 ELSE waiting - 1)
      /\ left' = (IF left = 1 THEN Period ELSE left - 1)
      /\ posted' = (posted \/ left = 1)
  BY TimerAssumption DEF Tick, TypeOK
<1>4. InRound \/ posted => waiting > 0 /\ waiting' = waiting - 1
  <2>1. InRound \/ posted => waiting > 0
    BY DEF Tick, InRound
  <2> QED  BY <1>3, <2>1
<1>5. /\ o \subseteq Servers /\ Ahead \subseteq Servers /\ b \subseteq all /\ all \subseteq Servers
  BY DEF On, Ahead, Behind
<1>6. /\ Charge(o) \in Nat /\ Charge(Ahead) \in Nat /\ Charge(b) \in Nat /\ Charge(all) \in Nat
      /\ Charge(b) <= Charge(all)
  BY <1>5, ChargeGrows
<1>7. waiting' + Charge(o) <= Charge(all) /\ waiting' \in Nat
  <2>1. waiting' + Charge(On' \ Waited') <= Charge(Servers \ K)
    BY Room
  <2> QED  BY <1>2, <1>3, <2>1
<1> HIDE DEF all, b, o
<1>8. /\ ~InRound /\ ~posted => x <= Period - left
      /\ ~InRound /\ posted => x + waiting + Charge(o) <= Period + Charge(all)
      /\ InRound /\ due => x + waiting + Charge(Ahead) <= Period + Charge(all)
      /\ InRound /\ ~due => x + waiting <= Charge(b) /\ (~posted => x <= Period - left)
  BY DEF Lag, all, b, o
<1>9. ASSUME x <= Period - left, ~posted, ~posted' PROVE y <= Period - left'
  <2>1. left # 1 /\ left' = left - 1
    BY <1>3, <1>9
  <2>2. y <= Period - (left - 1)
    BY <1>3, <1>9
  <2> QED  BY <2>1, <2>2
<1>10. ASSUME ~InRound, ~posted PROVE y <= Period
  BY <1>3, <1>8, <1>10
<1>11. ASSUME ~InRound PROVE y + waiting' + Charge(o) <= Period + Charge(all)
  <2>1. CASE posted
    <3>1. x + waiting + Charge(o) <= Period + Charge(all) /\ waiting' = waiting - 1
      BY <1>4, <1>8, <1>11, <2>1
    <3>2. y + (waiting - 1) + Charge(o) <= Period + Charge(all)
      BY <1>3, <1>6, <3>1
    <3> QED  BY <3>1, <3>2
  <2>2. CASE ~posted
    BY <1>3, <1>6, <1>7, <1>10, <1>11, <2>2
  <2> QED  BY <2>1, <2>2
<1>12. ASSUME InRound, due PROVE y + waiting' + Charge(Ahead) <= Period + Charge(all)
  <2>1. x + waiting + Charge(Ahead) <= Period + Charge(all) /\ waiting' = waiting - 1
    BY <1>4, <1>8, <1>12
  <2>2. y + (waiting - 1) + Charge(Ahead) <= Period + Charge(all)
    BY <1>3, <1>6, <2>1
  <2> QED  BY <2>1, <2>2
<1>13. ASSUME InRound, ~due PROVE y + waiting' <= Charge(b)
  <2>1. x + waiting <= Charge(b) /\ waiting' = waiting - 1
    BY <1>4, <1>8, <1>13
  <2>2. y + (waiting - 1) <= Charge(b)
    BY <1>3, <1>6, <2>1
  <2> QED  BY <2>1, <2>2
<1>14. y <= Period + Charge(all)
  <2>1. CASE ~InRound
    BY <1>3, <1>6, <1>7, <1>11, <2>1
  <2>2. CASE InRound /\ due
    BY <1>3, <1>6, <1>7, <1>12, <2>2
  <2>3. CASE InRound /\ ~due
    BY <1>3, <1>6, <1>7, <1>13, <2>3
  <2> QED  BY <2>1, <2>2, <2>3
<1>15. ASSUME ~posted', ~InRound \/ ~due PROVE y <= Period - left'
  <2>1. ~posted
    BY <1>3, <1>15
  <2>2. x <= Period - left
    BY <1>8, <1>15, <2>1
  <2> QED  BY <1>9, <1>15, <2>1, <2>2
<1>16. Lag(K, y, due)'
  BY <1>2, <1>11, <1>12, <1>13, <1>15 DEF Lag, Charge, all, b, o
<1> QED  BY <1>14, <1>16 DEF all

LEMMA LagLess ==
  ASSUME TypeOK, NEW K, K \subseteq Servers, NEW x \in Nat, NEW y \in Nat, y <= x,
         NEW due \in BOOLEAN, Lag(K, x, due)
  PROVE  Lag(K, y, due)
<1> DEFINE all == Charge(Servers \ K)
           o == Charge(On \ Waited)
           a == Charge(Ahead)
           b == Charge(Behind \ K)
<1>1. waiting \in Nat /\ left \in Nat /\ Period \in Nat
  BY TimerAssumption DEF TypeOK
<1>2. all \in Nat /\ o \in Nat /\ a \in Nat /\ b \in Nat
  <2>1. /\ Servers \ K \subseteq Servers /\ On \ Waited \subseteq Servers
        /\ Ahead \subseteq Servers /\ Behind \ K \subseteq Servers
    BY DEF On, Ahead, Behind
  <2> QED  BY <2>1, ChargeGrows
<1> HIDE DEF all, o, a, b
<1>3. /\ ~InRound /\ ~posted => x <= Period - left
      /\ ~InRound /\ posted => x + waiting + o <= Period + all
      /\ InRound /\ due => x + waiting + a <= Period + all
      /\ InRound /\ ~due => x + waiting <= b /\ (~posted => x <= Period - left)
  BY DEF Lag, all, o, a, b, Charge
<1>4. /\ ~InRound /\ ~posted => y <= Period - left
      /\ ~InRound /\ posted => y + waiting + o <= Period + all
      /\ InRound /\ due => y + waiting + a <= Period + all
      /\ InRound /\ ~due => y + waiting <= b /\ (~posted => y <= Period - left)
  BY <1>1, <1>2, <1>3
<1> QED  BY <1>4 DEF Lag, all, o, a, b, Charge

(* A server ends that is waited for, or any other. *)
LEMMA LagEnds ==
  ASSUME TypeOK, TypeOK', Basics, WaitOver \/ \E s \in Servers : MonitorEnds(s),
         NEW K, K \subseteq Servers, NEW x \in Nat, NEW due \in BOOLEAN, Lag(K, x, due)
  PROVE  Lag(K, x, due)'
<1>1. InRound' = InRound /\ UNCHANGED <<left, posted>> /\ (InRound => nr' = nr)
  BY DEF WaitOver, MonitorEnds, InRound
<1>2. waiting' <= waiting
  BY DEF WaitOver, MonitorEnds, TypeOK
<1>3. CASE WaitOver
  <2> DEFINE w == IF ui = "roundwait" THEN nr - 1 ELSE nr
  <2>1. w \in Servers /\ Waited = {w} /\ Waited' = {}
    BY <1>3 DEF WaitOver, TypeOK, Waited
  <2>2. On' = On \ {w}
    BY <1>3, <2>1 DEF WaitOver, TurnsOff, TypeOK, On
  <2> HIDE DEF w
  <2>3. On' \ Waited' \subseteq On \ Waited
    BY <2>1, <2>2
  <2>4. InRound => Ahead' \subseteq Ahead /\ Behind \subseteq Behind'
    BY <1>1, <2>1, <2>2 DEF Ahead, Behind
  <2> QED  BY <1>1, <1>2, <2>3, <2>4, LagStays
<1>4. ASSUME NEW s \in Servers, MonitorEnds(s) PROVE Lag(K, x, due)'
  <2>1. Waited' = Waited
    BY <1>4 DEF MonitorEnds, Waited
  <2>2. On' = On \ {s}
    BY <1>4 DEF MonitorEnds, TurnsOff, TypeOK, On
  <2>3. On' \ Waited' \subseteq On \ Waited
    BY <2>1, <2>2
  <2>4. InRound => Ahead' \subseteq Ahead /\ Behind \subseteq Behind'
    BY <1>1, <2>1, <2>2 DEF Ahead, Behind
  <2> QED  BY <1>1, <1>2, <2>3, <2>4, LagStays
<1> QED  BY <1>3, <1>4

(* The round passes a server without a wait. *)
LEMMA LagPasses ==
  ASSUME TypeOK, TypeOK', NEW s \in Servers,
         RoundSkip(s) \/ RoundStart(s) \/ (RoundStop(s) /\ active[s] = "stuck"),
         NEW K, K \subseteq Servers, NEW x \in Nat, NEW due \in BOOLEAN, Lag(K, x, due)
  PROVE  Lag(K, x, due)'
<1>1. /\ ui = "round" /\ ui' = "round" /\ nr = s /\ nr' = s + 1
      /\ UNCHANGED <<left, posted, waiting>>
  BY DEF RoundSkip, RoundStart, RoundStop, LookAt, stopServer, TypeOK, history
<1>2. InRound /\ InRound' /\ Waited = {} /\ Waited' = {}
  BY <1>1 DEF InRound, Waited
<1>3. \A u \in Servers \ {s} : active'[u] = active[u]
  BY DEF RoundSkip, RoundStart, RoundStop, TurnsOn, TypeOK, history
<1>4. Ahead' \subseteq Ahead
  <2> SUFFICES ASSUME NEW u \in Ahead' PROVE u \in Ahead
    OBVIOUS
  <2>1. u \in Servers /\ active'[u] = "on" /\ u >= s + 1 /\ u \in Int /\ s \in Int
    BY <1>1 DEF Ahead, On, Servers
  <2>2. u # s /\ u >= s
    BY <2>1
  <2> QED  BY <1>1, <1>3, <2>1, <2>2 DEF Ahead, On
<1>5. Behind \subseteq Behind'
  <2> SUFFICES ASSUME NEW u \in Behind PROVE u \in Behind'
    OBVIOUS
  <2>1. u \in Servers /\ active[u] # "on" /\ u < s /\ u \in Int /\ s \in Int
    BY <1>1, <1>2 DEF Behind, On, Servers
  <2>2. u # s /\ u < s + 1
    BY <2>1
  <2> QED  BY <1>1, <1>3, <2>1, <2>2 DEF Behind, On
<1>6. waiting' <= waiting
  BY <1>1 DEF TypeOK
<1> QED  BY <1>1, <1>2, <1>4, <1>5, <1>6, LagStays

(* The user, who acts only while no timer message waits. *)
UserStep ==
  \E s \in Servers : \/ OnBnClickedStart(s) \/ OnBnClickedStop(s)
                     \/ OnBnClickedTimecontrol(s) \/ OnBnClickedUpdate(s)

LEMMA LagUser ==
  ASSUME TypeOK, TypeOK', UserStep, left # 0,
         NEW K, K \subseteq Servers, NEW x \in Nat, NEW due \in BOOLEAN, NEW e \in BOOLEAN,
         Lag(K, x, due)
  PROVE  Lag(K, x, e)'
<1>1. /\ ui = "idle" /\ ui' \in {"idle", "userwait"} /\ ~posted
      /\ UNCHANGED <<left, posted>>
  BY DEF UserStep, OnBnClickedStart, OnBnClickedStop, OnBnClickedTimecontrol, OnBnClickedUpdate,
         User, stopServer
<1>2. ~InRound /\ ~InRound'
  BY <1>1 DEF InRound
<1>3. x <= Period - left
  BY <1>1, <1>2 DEF Lag
<1> QED  BY <1>1, <1>2, <1>3 DEF Lag

(* Every step keeps the account of a server that is late after it, if the round sees to
   it after the step as before.                                                         *)
LEMMA LagStep ==
  ASSUME TypeOK, TypeOK', Basics, Basics', [Next]_vars,
         NEW K, K \subseteq Servers, K \cap On' = {}, NEW x \in Nat, NEW y \in Nat,
         NEW d \in BOOLEAN, NEW e \in BOOLEAN,
         y # 0 => /\ Lag(K, x, d) /\ left # 0
                  /\ y <= x \/ (Tick /\ y <= x + 1)
                  /\ OnTimer => e
                  /\ RoundOver => ~d
                  /\ InRound /\ InRound' => (e <=> d)
  PROVE  Lag(K, y, e)'
<1>1. CASE y = 0
  BY <1>1, LagZero
<1>2. CASE y # 0
  <2>1. CASE Tick
    <3>1. y <= x + 1
      BY <1>2
    <3>2. InRound' = InRound
      BY <2>1 DEF Tick, InRound
    <3>3. Lag(K, y, d)'
      BY <1>2, <2>1, <3>1, LagTick
    <3> QED  BY <1>2, <3>2, <3>3 DEF Lag
  <2>2. CASE ~Tick
    <3>1. Lag(K, y, d)
      BY <1>2, <2>2, LagLess
    <3>2. CASE OnTimer
      <4>1. Lag(K, y, TRUE)' /\ e = TRUE
        BY <1>2, <3>1, <3>2, LagTimer
      <4> QED  BY <2>2, <4>1
    <3>3. CASE RoundOver
      <4>1. Lag(K, y, FALSE)
        BY <1>2, <3>1, <3>3
      <4> QED  BY <2>2, <3>3, <4>1, LagOver
    <3>4. CASE UserStep
      BY <1>2, <2>2, <3>1, <3>4, LagUser
    <3>5. ASSUME Lag(K, y, d)', InRound' = InRound PROVE Lag(K, y, e)'
      BY <1>2, <3>5 DEF Lag
    <3>6. ASSUME NEW s \in Servers, RoundStop(s) \/ RoundStart(s) \/ RoundSkip(s)
          PROVE  Lag(K, y, e)'
      <4>1. InRound' = InRound
        BY <3>6 DEF RoundStop, RoundStart, RoundSkip, LookAt, stopServer, InRound
      <4>2. RoundStop(s) => active[s] = "on" \/ active[s] = "stuck"
        BY DEF RoundStop, stopServer, Busy, TypeOK
      <4>3. Lag(K, y, d)'
        BY <3>1, <3>6, <4>2, LagStop, LagPasses
      <4> QED  BY <3>5, <4>1, <4>3
    <3>7. CASE WaitOver \/ \E s \in Servers : MonitorEnds(s)
      <4>1. InRound' = InRound
        BY <3>7 DEF WaitOver, MonitorEnds, InRound
      <4> QED  BY <2>2, <3>1, <3>5, <3>7, <4>1, LagEnds
    <3>8. CASE UNCHANGED vars
      <4>1. /\ InRound' = InRound /\ UNCHANGED <<left, posted>> /\ waiting' <= waiting
            /\ On' = On /\ Waited' = Waited /\ Ahead' = Ahead /\ Behind' = Behind
        BY <3>8 DEF vars, InRound, On, Waited, Ahead, Behind, TypeOK
      <4>2. Lag(K, y, d)'
        BY <3>1, <4>1, LagStays
      <4> QED  BY <2>2, <3>5, <4>1, <4>2
    <3>9. \/ OnTimer \/ RoundOver \/ UserStep \/ WaitOver \/ UNCHANGED vars
          \/ \E s \in Servers : RoundStop(s) \/ RoundStart(s) \/ RoundSkip(s)
          \/ \E s \in Servers : MonitorEnds(s)
      BY <2>2 DEF Next, Round, UserStep
    <3> QED  BY <2>2, <3>2, <3>3, <3>4, <3>6, <3>7, <3>8, <3>9
  <2> QED  BY <2>1, <2>2
<1> QED  BY <1>1, <1>2

(* What the steps do to the counts. *)
LEMMA BasicsStep ==
  ASSUME TypeOK, TypeOK', Basics, [Next]_vars
  PROVE  Basics'
<1> USE DEF Basics
<1>1. CASE OnTimer
  BY <1>1 DEF OnTimer, settings, history
<1>2. ASSUME NEW s \in Servers, RoundStop(s) PROVE Basics'
  BY <1>2 DEF RoundStop, LookAt, stopServer, settings, history
<1>3. ASSUME NEW s \in Servers, RoundStart(s) PROVE Basics'
  BY <1>3 DEF RoundStart, LookAt, TurnsOn, TypeOK, settings
<1>4. ASSUME NEW s \in Servers, RoundSkip(s) PROVE Basics'
  BY <1>4 DEF RoundSkip, LookAt, settings, history
<1>5. CASE RoundOver
  BY <1>5 DEF RoundOver, settings, history
<1>6. CASE WaitOver
  <2> DEFINE w == IF ui = "roundwait" THEN nr - 1 ELSE nr
  <2>1. w \in Servers /\ active[w] = "on" /\ waiting' = 0 /\ UNCHANGED <<left, timecontrol>>
    BY <1>6 DEF WaitOver, TypeOK, settings
  <2>2. TurnsOff(w) \/ (active' = [active EXCEPT ![w] = "stuck"] /\ UNCHANGED history)
    BY <1>6 DEF WaitOver
  <2> HIDE DEF w
  <2>3. \A u \in Servers : /\ active'[u] = "off" => over'[u] = 0
                           /\ active'[u] # "off" => under'[u] = 0
    BY <2>1, <2>2 DEF TypeOK, TurnsOff, history
  <2> QED  BY <2>1, <2>3
<1>7. CASE Tick
  <2>1. left' = 0 => left = 0
    BY <1>7, TimerAssumption DEF Tick, TypeOK
  <2>2. waiting' > 0 => waiting > 0
    BY <1>7 DEF Tick, TypeOK
  <2>3. \A u \in Servers : /\ active'[u] = "off" => over'[u] = 0
                           /\ active'[u] # "off" => under'[u] = 0
    BY <1>7 DEF Tick
  <2> QED  BY <1>7, <2>1, <2>2, <2>3 DEF Tick, settings
<1>8. ASSUME NEW s \in Servers, OnBnClickedStart(s) \/ MonitorEnds(s) PROVE Basics'
  BY <1>8 DEF OnBnClickedStart, MonitorEnds, TurnsOn, TurnsOff, User, TypeOK, settings
<1>9. ASSUME NEW s \in Servers, OnBnClickedStop(s) PROVE Basics'
  BY <1>9 DEF OnBnClickedStop, User, stopServer, settings, history
<1>10. ASSUME NEW s \in Servers, OnBnClickedTimecontrol(s) PROVE Basics'
  <2>1. left' = 0 => left = 0 /\ timecontrol[s] 
    BY <1>10, TimerAssumption DEF OnBnClickedTimecontrol
  <2>2. left' # 0
    BY <1>10, <2>1
  <2> QED  BY <1>10, <2>2 DEF OnBnClickedTimecontrol, User, TypeOK
<1>11. ASSUME NEW s \in Servers, OnBnClickedUpdate(s) PROVE Basics'
  BY <1>11 DEF OnBnClickedUpdate, User, TypeOK
<1>12. CASE UNCHANGED vars
  BY <1>12 DEF vars, settings, history
<1> QED
  BY <1>1, <1>2, <1>3, <1>4, <1>5, <1>6, <1>7, <1>8, <1>9, <1>10, <1>11, <1>12
  DEF Next, Round

Counted(s) ==
  \/ active[s] = "on" /\ over[s] # 0
  \/ active[s] = "off" /\ under[s] # 0

(* But for the clock, a server that is late or early after a step was so before. *)
LEMMA LateBefore ==
  ASSUME TypeOK, TypeOK', Basics, Basics', [Next]_vars, ~Tick, NEW s \in Servers,
         timecontrol'[s], Counted(s)'
  PROVE  /\ timecontrol[s] /\ active[s] = active'[s] /\ clock' = clock
         /\ active'[s] = "on" => over'[s] = over[s] /\ window'[s] = window[s]
         /\ active'[s] = "off" => under'[s] = under[s] /\ window'[s] = window[s]
<1> DEFINE Goal == /\ timecontrol[s] /\ active[s] = active'[s] /\ clock' = clock
                   /\ active'[s] = "on" => over'[s] = over[s] /\ window'[s] = window[s]
                   /\ active'[s] = "off" => under'[s] = under[s] /\ window'[s] = window[s]
<1> USE DEF Basics, Counted
<1>1. ASSUME UNCHANGED <<clock, window, timecontrol, active, over, under>> PROVE Goal
  BY <1>1
<1>2. CASE OnTimer \/ RoundOver \/ UNCHANGED vars
  BY <1>1, <1>2 DEF OnTimer, RoundOver, vars, settings, history
<1>3. ASSUME NEW u \in Servers, RoundStop(u) \/ RoundSkip(u) \/ OnBnClickedStop(u) PROVE Goal
  BY <1>1, <1>3 DEF RoundStop, RoundSkip, OnBnClickedStop, settings, history
<1>4. ASSUME NEW u \in Servers, TurnsOn(u) \/ TurnsOff(u),
             UNCHANGED <<clock, window, timecontrol>>,
             TurnsOn(u) => active[u] = "off", TurnsOff(u) => active[u] # "off"
      PROVE  Goal
  <2>1. CASE u # s
    BY <1>4, <2>1 DEF TurnsOn, TurnsOff, TypeOK
  <2>2. CASE u = s
    BY <1>4, <2>2 DEF TurnsOn, TurnsOff, TypeOK
  <2> QED  BY <2>1, <2>2
<1>5. ASSUME NEW u \in Servers, RoundStart(u) \/ OnBnClickedStart(u) \/ MonitorEnds(u) PROVE Goal
  <2>1. CASE RoundStart(u) \/ OnBnClickedStart(u)
    <3>1. TurnsOn(u) /\ active[u] = "off" /\ UNCHANGED <<clock, window, timecontrol>>
      BY <2>1 DEF RoundStart, OnBnClickedStart, Busy, settings
    <3>2. ~TurnsOff(u)
      BY <3>1 DEF TurnsOn, TurnsOff, TypeOK
    <3> QED  BY <1>4, <3>1, <3>2
  <2>2. CASE MonitorEnds(u)
    <3>1. TurnsOff(u) /\ active[u] = "on" /\ UNCHANGED <<clock, window, timecontrol>>
      BY <2>2 DEF MonitorEnds, settings
    <3>2. ~TurnsOn(u)
      BY <3>1 DEF TurnsOn, TurnsOff, TypeOK
    <3> QED  BY <1>4, <3>1, <3>2
  <2> QED  BY <1>5, <2>1, <2>2
<1>6. CASE WaitOver
  <2> DEFINE w == IF ui = "roundwait" THEN nr - 1 ELSE nr
  <2>1. w \in Servers /\ active[w] = "on" /\ UNCHANGED <<clock, window, timecontrol>>
    BY <1>6 DEF WaitOver, TypeOK, settings
  <2>2. TurnsOff(w) \/ (active' = [active EXCEPT ![w] = "stuck"] /\ UNCHANGED history)
    BY <1>6 DEF WaitOver
  <2> HIDE DEF w
  <2>3. CASE TurnsOff(w)
    <3>1. ~TurnsOn(w)
      BY <2>1, <2>3 DEF TurnsOn, TurnsOff, TypeOK
    <3> QED  BY <1>4, <2>1, <2>3, <3>1
  <2>4. CASE active' = [active EXCEPT ![w] = "stuck"] /\ UNCHANGED history
    BY <2>1, <2>4 DEF TypeOK, history
  <2> QED  BY <2>2, <2>3, <2>4
<1>7. ASSUME NEW u \in Servers, OnBnClickedTimecontrol(u) PROVE Goal
  BY <1>7 DEF OnBnClickedTimecontrol, TypeOK
<1>8. ASSUME NEW u \in Servers, OnBnClickedUpdate(u) PROVE Goal
  BY <1>8 DEF OnBnClickedUpdate, Busy, TypeOK
<1> QED
  BY <1>2, <1>3, <1>5, <1>6, <1>7, <1>8 DEF Next, Round

(* Within a round, it is settled by the round's reading of the clock whether it will stop
   or start a server that stays as it is.                                               *)
LEMMA DueKept ==
  ASSUME TypeOK, TypeOK', [Next]_vars, InRound, InRound', NEW s \in Servers,
         active'[s] = active[s]
  PROVE  /\ active[s] = "on" => (DueStop(s)' <=> DueStop(s))
         /\ active[s] = "off" => (DueStart(s)' <=> DueStart(s))
<1> DEFINE Goal == /\ active[s] = "on" => (DueStop(s)' <=> DueStop(s))
                   /\ active[s] = "off" => (DueStart(s)' <=> DueStart(s))
           Stops == timecontrol[s] /\ ToStop(now, window[s][1], window[s][2])
           Starts == timecontrol[s] /\ ToStart(now, window[s][1], window[s][2])
           In == s >= nr \/ s \in Waited
<1>1. ASSUME UNCHANGED <<now, window, timecontrol>>,
             active[s] = "on" /\ Stops => (In' <=> In),
             active[s] = "off" /\ Starts => (s >= nr' <=> s >= nr)
      PROVE  Goal
  BY <1>1 DEF DueStop, DueStart
<1>2. ASSUME UNCHANGED <<ui, nr, now, window, timecontrol>> PROVE Goal
  <2>1. Waited' = Waited
    BY <1>2 DEF Waited
  <2> QED  BY <1>1, <1>2, <2>1
<1>3. CASE Tick \/ UNCHANGED vars
  BY <1>2, <1>3 DEF Tick, vars, settings
<1>4. ASSUME NEW u \in Servers, MonitorEnds(u) PROVE Goal
  BY <1>2, <1>4 DEF MonitorEnds, settings
<1>5. CASE WaitOver
  <2> DEFINE w == IF ui = "roundwait" THEN nr - 1 ELSE nr
  <2>1. /\ w \in Servers /\ active[w] = "on" /\ Waited = {w} /\ Waited' = {} /\ nr' = nr
        /\ UNCHANGED <<now, window, timecontrol>>
    BY <1>5 DEF WaitOver, TypeOK, Waited, settings, InRound
  <2>2. active'[w] # "on"
    BY <1>5, <2>1 DEF WaitOver, TurnsOff, TypeOK
  <2> HIDE DEF w
  <2>3. active[s] = "on" => s # w
    BY <2>2
  <2> QED  BY <1>1, <2>1, <2>3
<1>6. ASSUME NEW u \in Servers, RoundStop(u) \/ RoundStart(u) \/ RoundSkip(u) PROVE Goal
  <2>1. /\ ui = "round" /\ nr = u /\ nr' = u + 1 /\ Waited = {}
        /\ UNCHANGED <<now, window, timecontrol>>
    BY <1>6 DEF RoundStop, RoundStart, RoundSkip, LookAt, settings, Waited
  <2>2. Waited' \subseteq {u}
    <3>1. \A v \in Waited' : v = nr' - 1
      BY DEF Waited, InRound
    <3>2. nr' - 1 = u
      BY <2>1 DEF Servers
    <3> QED  BY <3>1, <3>2
  <2>3. s \in Int /\ u \in Int
    BY DEF Servers
  <2>4. CASE u # s
    <3>1. s >= nr' <=> s >= nr
      BY <2>1, <2>3, <2>4
    <3>2. In' <=> In
      BY <2>1, <2>2, <2>4, <3>1
    <3> QED  BY <1>1, <2>1, <3>1, <3>2
  <2>5. CASE u = s
    <3>1. CASE RoundSkip(u)
      <4>1. /\ active[s] = "on" => ~Stops
            /\ active[s] = "off" => ~Starts
        BY <2>5, <3>1 DEF RoundSkip, Busy
      <4> QED  BY <1>1, <2>1, <4>1
    <3>2. CASE RoundStart(u)
      <4>1. active[s] = "off" /\ active'[s] = "on"
        BY <2>5, <3>2 DEF RoundStart, Busy, TurnsOn, TypeOK
      <4> QED  BY <4>1
    <3>3. CASE RoundStop(u)
      <4>1. active[s] # "off"
        BY <2>5, <3>3 DEF RoundStop, stopServer, Busy
      <4>2. active[s] = "on" => s \in Waited'
        <5>1. active[s] = "on" => ui' = "roundwait" /\ s = nr' - 1
          BY <2>1, <2>3, <2>5, <3>3 DEF RoundStop, stopServer
        <5> QED  BY <5>1 DEF Waited
      <4>3. s >= nr
        BY <2>1, <2>3, <2>5
      <4> QED  BY <1>1, <2>1, <4>1, <4>2, <4>3
    <3> QED  BY <1>6, <3>1, <3>2, <3>3
  <2> QED  BY <2>4, <2>5
<1>7. ~OnTimer /\ ~RoundOver
  BY DEF OnTimer, RoundOver, InRound
<1>8. ASSUME NEW u \in Servers
      PROVE  /\ ~OnBnClickedStart(u) /\ ~OnBnClickedStop(u)
             /\ ~OnBnClickedTimecontrol(u) /\ ~OnBnClickedUpdate(u)
  BY DEF OnBnClickedStart, OnBnClickedStop, OnBnClickedTimecontrol, OnBnClickedUpdate, User,
         InRound
<1> QED
  BY <1>3, <1>4, <1>5, <1>6, <1>7, <1>8 DEF Next, Round

(* What the step to a state in which a server is late or early has to show. *)
LEMMA LateStep ==
  ASSUME TypeOK, TypeOK', Basics, Basics', [Next]_vars, NEW s \in Servers, Late(s)' # 0
  PROVE  /\ left # 0
         /\ Late(s)' <= Late(s) \/ (Tick /\ Late(s)' <= Late(s) + 1)
         /\ OnTimer => DueStop(s)'
         /\ RoundOver => ~DueStop(s)
         /\ InRound /\ InRound' => (DueStop(s)' <=> DueStop(s))
<1>1. /\ timecontrol'[s] /\ active'[s] = "on" /\ Late(s)' = over'[s] /\ over'[s] # 0
      /\ Outside(clock', window'[s][1], window'[s][2])
  BY DEF Late
<1>2. over[s] \in Nat /\ over'[s] \in Nat
  BY DEF TypeOK
<1>3. /\ timecontrol[s] /\ active[s] = "on"
      /\ Late(s)' <= Late(s) \/ (Tick /\ Late(s)' <= Late(s) + 1)
  <2>1. CASE Tick
    <3>1. timecontrol' = timecontrol /\ active' = active
      BY <2>1 DEF Tick, settings
    <3>2. over'[s] = IF timecontrol[s] /\ active[s] = "on"
                          /\ Outside(clock, window[s][1], window[s][2])
                     THEN over[s] + 1 ELSE 0
      BY <2>1 DEF Tick
    <3>3. over'[s] = over[s] + 1 /\ Late(s) = over[s]
      BY <1>1, <3>2 DEF Late
    <3> QED  BY <1>1, <1>2, <2>1, <3>1, <3>3
  <2>2. CASE ~Tick
    <3>0. timecontrol'[s] /\ Counted(s)'
      BY <1>1 DEF Counted
    <3>1. /\ timecontrol[s] /\ active[s] = active'[s] /\ clock' = clock
          /\ active'[s] = "on" => over'[s] = over[s] /\ window'[s] = window[s]
      BY <2>2, <3>0, LateBefore
    <3>2. Late(s) = Late(s)'
      BY <1>1, <3>1 DEF Late
    <3> QED  BY <1>1, <1>2, <3>1, <3>2
  <2> QED  BY <2>1, <2>2
<1>4. left # 0
  BY <1>3 DEF Basics
<1>5. OnTimer => DueStop(s)'
  <2> HAVE OnTimer
  <2>1. now' = clock' /\ nr' = 1
    BY DEF OnTimer
  <2>2. clock' \in SYSTEMTIME /\ window'[s][1] \in SYSTEMTIME /\ window'[s][2] \in SYSTEMTIME
    BY TimerAssumption DEF TypeOK
  <2>3. ToStop(clock', window'[s][1], window'[s][2])
    BY <1>1, <2>2, WindowCorrect
  <2>4. s >= 1
    BY DEF Servers
  <2> QED  BY <1>1, <2>1, <2>3, <2>4 DEF DueStop
<1>6. RoundOver => ~DueStop(s)
  <2> HAVE RoundOver
  <2>1. ~(s >= nr) /\ s \notin Waited
    BY TimerAssumption DEF RoundOver, Servers, Waited
  <2> QED  BY <2>1 DEF DueStop
<1>7. InRound /\ InRound' => (DueStop(s)' <=> DueStop(s))
  BY <1>1, <1>3, DueKept
<1> QED  BY <1>1, <1>3, <1>4, <1>5, <1>6, <1>7

LEMMA EarlyStep ==
  ASSUME TypeOK, TypeOK', Basics, Basics', [Next]_vars, NEW s \in Servers, Early(s)' # 0
  PROVE  /\ active[s] = "off" /\ left # 0
         /\ Early(s)' <= Early(s) \/ (Tick /\ Early(s)' <= Early(s) + 1)
         /\ OnTimer => DueStart(s)'
         /\ RoundOver => ~DueStart(s)
         /\ InRound /\ InRound' => (DueStart(s)' <=> DueStart(s))
<1>1. /\ timecontrol'[s] /\ active'[s] = "off" /\ Early(s)' = under'[s] /\ under'[s] # 0
      /\ Within(clock', window'[s][1], window'[s][2])
  BY DEF Early
<1>2. under[s] \in Nat /\ under'[s] \in Nat
  BY DEF TypeOK
<1>3. /\ timecontrol[s] /\ active[s] = "off"
      /\ Early(s)' <= Early(s) \/ (Tick /\ Early(s)' <= Early(s) + 1)
  <2>1. CASE Tick
    <3>1. timecontrol' = timecontrol /\ active' = active
      BY <2>1 DEF Tick, settings
    <3>2. under'[s] = IF timecontrol[s] /\ active[s] = "off"
                           /\ Within(clock, window[s][1], window[s][2])
                      THEN under[s] + 1 ELSE 0
      BY <2>1 DEF Tick
    <3>3. under'[s] = under[s] + 1 /\ Early(s) = under[s]
      BY <1>1, <3>2 DEF Early
    <3> QED  BY <1>1, <1>2, <2>1, <3>1, <3>3
  <2>2. CASE ~Tick
    <3>0. timecontrol'[s] /\ Counted(s)'
      BY <1>1 DEF Counted
    <3>1. /\ timecontrol[s] /\ active[s] = active'[s] /\ clock' = clock
          /\ active'[s] = "off" => under'[s] = under[s] /\ window'[s] = window[s]
      BY <2>2, <3>0, LateBefore
    <3>2. Early(s) = Early(s)'
      BY <1>1, <3>1 DEF Early
    <3> QED  BY <1>1, <1>2, <3>1, <3>2
  <2> QED  BY <2>1, <2>2
<1>4. left # 0
  BY <1>3 DEF Basics
<1>5. OnTimer => DueStart(s)'
  <2> HAVE OnTimer
  <2>1. now' = clock' /\ nr' = 1
    BY DEF OnTimer
  <2>2. clock' \in SYSTEMTIME /\ window'[s][1] \in SYSTEMTIME /\ window'[s][2] \in SYSTEMTIME
    BY TimerAssumption DEF TypeOK
  <2>3. ToStart(clock', window'[s][1], window'[s][2])
    BY <1>1, <2>2, WindowCorrect
  <2>4. s >= 1
    BY DEF Servers
  <2> QED  BY <1>1, <2>1, <2>3, <2>4 DEF DueStart
<1>6. RoundOver => ~DueStart(s)
  <2> HAVE RoundOver
  <2>1. ~(s >= nr)
    BY TimerAssumption DEF RoundOver, Servers
  <2> QED  BY <2>1 DEF DueStart
<1>7. InRound /\ InRound' => (DueStart(s)' <=> DueStart(s))
  BY <1>1, <1>3, DueKept
<1> QED  BY <1>1, <1>3, <1>4, <1>5, <1>6, <1>7

LEMMA IInvInit == Init => IInv
<1> SUFFICES ASSUME Init PROVE IInv
  OBVIOUS
<1>1. TypeOK
  BY TimeTypeInit
<1>2. /\ ui = "idle" /\ ~posted /\ left = 0 /\ waiting = 0
      /\ \A s \in Servers : ~timecontrol[s] /\ active[s] = "off" /\ over[s] = 0 /\ under[s] = 0
  BY DEF Init
<1>3. Basics
  BY <1>2 DEF Basics
<1>4. \A s \in Servers : Late(s) = 0 /\ Early(s) = 0
  BY <1>2 DEF Late, Early
<1>5. ~InRound
  BY <1>2 DEF InRound
<1>6. 0 <= Period - left
  BY <1>2, TimerAssumption
<1>7. \A s \in Servers : Lag({}, Late(s), DueStop(s)) /\ Lag({s}, Early(s), DueStart(s))
  BY <1>2, <1>4, <1>5, <1>6 DEF Lag
<1>8. \A n \in Nat : n * MaxWait \in Nat
  BY TimerAssumption
<1>9. N * MaxWait \in Nat /\ (N - 1) * MaxWait \in Nat /\ Period \in Nat
  <2>1. N \in Nat /\ N - 1 \in Nat
    BY TimerAssumption
  <2> QED  BY <1>8, <2>1, TimerAssumption
<1>10. StopsInTime /\ StartsInTime
  <2>1. 0 <= Period + N * MaxWait /\ 0 <= Period + (N - 1) * MaxWait
    BY <1>9
  <2> QED  BY <1>2, <2>1 DEF StopsInTime, StartsInTime
<1> QED  BY <1>1, <1>3, <1>7, <1>10 DEF IInv

(* The account of the servers that may have to be stopped. *)
LEMMA StopLagStep ==
  ASSUME IInv, TypeOK', Basics', [Next]_vars, NEW s \in Servers
  PROVE  Lag({}, Late(s), DueStop(s))'
<1>1. TypeOK /\ Basics /\ Lag({}, Late(s), DueStop(s))
  BY DEF IInv
<1>2. Late(s) \in Nat /\ Late(s)' \in Nat
  BY <1>1 DEF Late, TypeOK
<1>3. PICK x \in Nat : x = Late(s)
  BY <1>2
<1>4. PICK y \in Nat : y = Late(s)'
  BY <1>2
<1>5. PICK d \in BOOLEAN : d <=> DueStop(s)
  OBVIOUS
<1>6. PICK e \in BOOLEAN : e <=> DueStop(s)'
  OBVIOUS
<1>7. Lag({}, x, d)
  BY <1>1, <1>3, <1>5 DEF Lag
<1>8. y # 0 => /\ Lag({}, x, d) /\ left # 0
               /\ y <= x \/ (Tick /\ y <= x + 1)
               /\ OnTimer => e
               /\ RoundOver => ~d
               /\ InRound /\ InRound' => (e <=> d)
  <2> SUFFICES ASSUME y # 0
               PROVE  /\ left # 0
                      /\ y <= x \/ (Tick /\ y <= x + 1)
                      /\ OnTimer => e
                      /\ RoundOver => ~d
                      /\ InRound /\ InRound' => (e <=> d)
    BY <1>7
  <2>1. Late(s)' # 0
    BY <1>4
  <2>2. /\ left # 0
        /\ Late(s)' <= Late(s) \/ (Tick /\ Late(s)' <= Late(s) + 1)
        /\ OnTimer => DueStop(s)'
        /\ RoundOver => ~DueStop(s)
        /\ InRound /\ InRound' => (DueStop(s)' <=> DueStop(s))
    BY <1>1, <2>1, LateStep
  <2> QED  BY <1>3, <1>4, <1>5, <1>6, <2>2
<1>9. {} \subseteq Servers /\ {} \cap On' = {}
  OBVIOUS
<1>10. Lag({}, y, e)'
  BY <1>1, <1>8, <1>9, LagStep
<1> QED  BY <1>4, <1>6, <1>10 DEF Lag

(* The account of the servers that may have to be started, which nobody waits for. *)
LEMMA StartLagStep ==
  ASSUME IInv, TypeOK', Basics', [Next]_vars, NEW s \in Servers, active'[s] = "off"
  PROVE  Lag({s}, Early(s), DueStart(s))'
<1>1. TypeOK /\ Basics /\ (active[s] = "off" => Lag({s}, Early(s), DueStart(s)))
  BY DEF IInv
<1>2. Early(s) \in Nat /\ Early(s)' \in Nat
  BY <1>1 DEF Early, TypeOK
<1>3. PICK x \in Nat : x = Early(s)
  BY <1>2
<1>4. PICK y \in Nat : y = Early(s)'
  BY <1>2
<1>5. PICK d \in BOOLEAN : d <=> DueStart(s)
  OBVIOUS
<1>6. PICK e \in BOOLEAN : e <=> DueStart(s)'
  OBVIOUS
<1>7. active[s] = "off" => Lag({s}, x, d)
  BY <1>1, <1>3, <1>5 DEF Lag
<1>8. y # 0 => /\ Lag({s}, x, d) /\ left # 0
               /\ y <= x \/ (Tick /\ y <= x + 1)
               /\ OnTimer => e
               /\ RoundOver => ~d
               /\ InRound /\ InRound' => (e <=> d)
  <2> SUFFICES ASSUME y # 0
               PROVE  /\ active[s] = "off" /\ left # 0
                      /\ y <= x \/ (Tick /\ y <= x + 1)
                      /\ OnTimer => e
                      /\ RoundOver => ~d
                      /\ InRound /\ InRound' => (e <=> d)
    BY <1>7
  <2>1. Early(s)' # 0
    BY <1>4
  <2>2. /\ active[s] = "off" /\ left # 0
        /\ Early(s)' <= Early(s) \/ (Tick /\ Early(s)' <= Early(s) + 1)
        /\ OnTimer => DueStart(s)'
        /\ RoundOver => ~DueStart(s)
        /\ InRound /\ InRound' => (DueStart(s)' <=> DueStart(s))
    BY <1>1, <2>1, EarlyStep
  <2> QED  BY <1>3, <1>4, <1>5, <1>6, <2>2
<1>9. {s} \subseteq Servers /\ {s} \cap On' = {}
  BY DEF On
<1>10. Lag({s}, y, e)'
  BY <1>1, <1>8, <1>9, LagStep
<1> QED  BY <1>4, <1>6, <1>10 DEF Lag

(* A second that makes a server later is one the account allows. *)
LEMMA TickBound ==
  ASSUME IInv, TypeOK', Basics', Tick, NEW s \in Servers
  PROVE  /\ over'[s] <= Period + N * MaxWait
         /\ under'[s] <= Period + (N - 1) * MaxWait
<1>1. /\ TypeOK /\ Basics /\ Lag({}, Late(s), DueStop(s))
      /\ active[s] = "off" => Lag({s}, Early(s), DueStart(s))
  BY DEF IInv
<1>2. over[s] \in Nat /\ under[s] \in Nat /\ over'[s] \in Nat /\ under'[s] \in Nat
  BY <1>1 DEF TypeOK
<1>3. timecontrol[s] => left # 0
  BY <1>1 DEF Basics
<1>4. 0 <= Period + N * MaxWait /\ 0 <= Period + (N - 1) * MaxWait
  <2>1. Charge(Servers \ {}) \in Nat /\ Charge(Servers \ {s}) \in Nat
    BY ChargeGrows
  <2> QED  BY <2>1, ChargeAll, TimerAssumption
<1>5. active' = active
  BY DEF Tick
<1>6. ASSUME over'[s] # 0 PROVE over'[s] <= Period + N * MaxWait
  <2>1. timecontrol[s] /\ over'[s] = Late(s) + 1 /\ Late(s) \in Nat
    BY <1>2, <1>6 DEF Tick, Late
  <2>2. PICK x \in Nat, y \in Nat : x = Late(s) /\ y = over'[s]
    BY <1>2, <2>1
  <2>3. PICK d \in BOOLEAN : d <=> DueStop(s)
    OBVIOUS
  <2>4. Lag({}, x, d) /\ y <= x + 1 /\ left # 0
    BY <1>1, <1>3, <2>1, <2>2, <2>3 DEF Lag
  <2>5. {} \subseteq Servers /\ {} \cap On' = {}
    OBVIOUS
  <2>6. y <= Period + Charge(Servers \ {})
    BY <1>1, <2>4, <2>5, LagTick
  <2> QED  BY <2>2, <2>6, ChargeAll
<1>7. ASSUME under'[s] # 0 PROVE under'[s] <= Period + (N - 1) * MaxWait
  <2>1. timecontrol[s] /\ active[s] = "off" /\ under'[s] = Early(s) + 1 /\ Early(s) \in Nat
    BY <1>2, <1>7 DEF Tick, Early
  <2>2. PICK x \in Nat, y \in Nat : x = Early(s) /\ y = under'[s]
    BY <1>2, <2>1
  <2>3. PICK d \in BOOLEAN : d <=> DueStart(s)
    OBVIOUS
  <2>4. Lag({s}, x, d) /\ y <= x + 1 /\ left # 0
    BY <1>1, <1>3, <2>1, <2>2, <2>3 DEF Lag
  <2>5. {s} \subseteq Servers /\ {s} \cap On' = {}
    BY <1>5, <2>1 DEF On
  <2>6. y <= Period + Charge(Servers \ {s})
    BY <1>1, <2>4, <2>5, LagTick
  <2> QED  BY <2>2, <2>6, ChargeAll
<1> QED  BY <1>4, <1>6, <1>7

(* Only time makes a server later. *)
LEMMA CountsGrow ==
  ASSUME TypeOK, [Next]_vars, ~Tick, NEW s \in Servers
  PROVE  over'[s] \in {0, over[s]} /\ under'[s] \in {0, under[s]}
<1> DEFINE Goal == over'[s] \in {0, over[s]} /\ under'[s] \in {0, under[s]}
<1>1. ASSUME NEW u \in Servers, TurnsOn(u) \/ TurnsOff(u) PROVE Goal
  BY <1>1 DEF TurnsOn, TurnsOff, TypeOK
<1>2. ASSUME UNCHANGED history PROVE Goal
  BY <1>2 DEF history
<1>3. ASSUME NEW u \in Servers, RoundStart(u) \/ OnBnClickedStart(u) \/ MonitorEnds(u) PROVE Goal
  BY <1>1, <1>3 DEF RoundStart, OnBnClickedStart, MonitorEnds
<1>4. ASSUME NEW u \in Servers, RoundStop(u) \/ RoundSkip(u) \/ OnBnClickedStop(u) PROVE Goal
  BY <1>2, <1>4 DEF RoundStop, RoundSkip, OnBnClickedStop
<1>5. CASE OnTimer \/ RoundOver \/ UNCHANGED vars
  BY <1>2, <1>5 DEF OnTimer, RoundOver, vars
<1>6. CASE WaitOver
  <2> DEFINE w == IF ui = "roundwait" THEN nr - 1 ELSE nr
  <2>1. w \in Servers /\ (TurnsOff(w) \/ UNCHANGED history)
    BY <1>6 DEF WaitOver, TypeOK
  <2> HIDE DEF w
  <2> QED  BY <1>1, <1>2, <2>1
<1>7. ASSUME NEW u \in Servers, OnBnClickedTimecontrol(u) \/ OnBnClickedUpdate(u) PROVE Goal
  BY <1>7 DEF OnBnClickedTimecontrol, OnBnClickedUpdate, TypeOK
<1> QED
  BY <1>3, <1>4, <1>5, <1>6, <1>7 DEF Next, Round

LEMMA IInvStep == IInv /\ [Next]_vars => IInv'
<1> SUFFICES ASSUME IInv, [Next]_vars PROVE IInv'
  OBVIOUS
<1>1. TypeOK' /\ Basics'
  BY TimeTypeStep, BasicsStep DEF IInv
<1>2. ASSUME NEW s \in Servers
      PROVE  /\ over'[s] <= Period + N * MaxWait
             /\ under'[s] <= Period + (N - 1) * MaxWait
  <2>1. CASE Tick
    BY <1>1, <2>1, TickBound
  <2>2. CASE ~Tick
    <3>1. over'[s] \in {0, over[s]} /\ under'[s] \in {0, under[s]}
      BY <2>2, CountsGrow DEF IInv
    <3>2. over[s] <= Period + N * MaxWait /\ under[s] <= Period + (N - 1) * MaxWait
      BY DEF IInv, StopsInTime, StartsInTime
    <3>3. over[s] >= 0 /\ under[s] >= 0 /\ over[s] \in Int /\ under[s] \in Int
      BY DEF IInv, TypeOK
    <3>4. Period + N * MaxWait \in Int /\ Period + (N - 1) * MaxWait \in Int
      BY TimerAssumption
    <3> HIDE DEF IInv
    <3> QED  BY <3>1, <3>2, <3>3, <3>4
  <2> QED  BY <2>1, <2>2
<1>3. StopsInTime' /\ StartsInTime'
  BY <1>2 DEF StopsInTime, StartsInTime
<1>4. ASSUME NEW s \in Servers
      PROVE  /\ Lag({}, Late(s), DueStop(s))'
             /\ active'[s] = "off" => Lag({s}, Early(s), DueStart(s))'
  BY <1>1, StopLagStep, StartLagStep
<1> QED  BY <1>1, <1>3, <1>4 DEF IInv

LEMMA Invariance == Spec => []IInv
BY IInvInit, IInvStep, PTL DEF Spec

(* Whatever the number of servers, a server under time control runs on outside its window
   for at most a period of the timer and one stop of every server (OnTimer, stopServer). *)
THEOREM StopsInTimeCorrect == Spec => []StopsInTime
<1>1. IInv => StopsInTime
  BY DEF IInv
<1> QED  BY <1>1, Invariance, PTL

(* ... and it is left off within its window for at most a period and one stop of every
   other server (OnTimer, startServer).                                                *)
THEOREM StartsInTimeCorrect == Spec => []StartsInTime
<1>1. IInv => StartsInTime
  BY DEF IInv
<1> QED  BY <1>1, Invariance, PTL
=============================================================================
