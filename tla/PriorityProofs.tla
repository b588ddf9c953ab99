--------------------------- MODULE PriorityProofs ---------------------------
(***************************************************************************)
(* Proofs about the two things that act on Windows as soon as the user     *)
(* sets them, the priority of a server and the ping booster.               *)
(*                                                                         *)
(* Priority, for any set of servers, classes and handles: the type         *)
(* invariant, and that a priority the user was not told had failed is in   *)
(* force.  PingBooster, for any set of values: the types, the pairing of   *)
(* timeBeginPeriod and timeEndPeriod, the menu, and what a restart brings  *)
(* back.                                                                   *)
(***************************************************************************)
EXTENDS Priority, PingBooster, TLAPS

-----------------------------------------------------------------------------
(* What every step of the check thread and of the window keeps.            *)

Settled(s) == busy[s] = TRUE /\ call[2] # s /\ failed[s] = FALSE /\ stray[s] = FALSE

\* A server has a process only while its thread may, or after it was killed.
ProcessOfThread ==
  \A s \in Servers : class[s] # None => pc[s] \in {"assign", "run", "dead"}

\* A thread holds one open handle at most, and none when it creates a process.
OwnerOfThread ==
  \A s \in Servers : \A h \in Handles :
    owner[h] = s => \/ pc[s] = "dead"
                    \/ pc[s] = "assign" /\ h = new[s]
                    \/ pc[s] = "run" /\ h = handle[s]

\* What CreateProcess is about to be told is the priority ...
ArgCurrent ==
  \A s \in Servers : pc[s] = "create" /\ Settled(s) => arg[s] = priority[s]

\* ... and so is the class of a process that runs.
ClassCurrent ==
  \A s \in Servers : class[s] # None /\ Settled(s) => class[s] = priority[s]

IInv == TypeOK /\ ProcessOfThread /\ OwnerOfThread /\ ArgCurrent /\ ClassCurrent

LEMMA InitEstablishes == Init => IInv
<1>1. Init => TypeOK BY PriorityAssumption DEF Init, TypeOK
<1>2. Init => ProcessOfThread BY DEF Init, ProcessOfThread
<1>3. Init => OwnerOfThread BY PriorityAssumption DEF Init, OwnerOfThread
<1>4. Init => ArgCurrent BY DEF Init, ArgCurrent
<1>5. Init => ClassCurrent BY DEF Init, ClassCurrent
<1> QED BY <1>1, <1>2, <1>3, <1>4, <1>5 DEF IInv

-----------------------------------------------------------------------------
(* One lemma per part of the invariant, each with one step per action.     *)

LEMMA TypeOKStep == ASSUME IInv, [Next]_vars PROVE TypeOK'
<1> USE DEF IInv
<1>1. CASE UNCHANGED vars
  BY <1>1 DEF TypeOK, vars, thread, history
<1>2. ASSUME NEW s \in Servers, Begin(s) PROVE TypeOK'
  BY <1>2, PriorityAssumption DEF TypeOK, GoTo, history, Begin
<1>3. ASSUME NEW s \in Servers, ReadPriority(s) PROVE TypeOK'
  BY <1>3, PriorityAssumption DEF TypeOK, GoTo, ReadPriority
<1>4. ASSUME NEW s \in Servers, CreateProcess(s) PROVE TypeOK'
  BY <1>4, PriorityAssumption DEF TypeOK, GoTo, history, CreateProcess
<1>5. ASSUME NEW s \in Servers, CreateFails(s) PROVE TypeOK'
  BY <1>5, PriorityAssumption DEF TypeOK, GoTo, history, CreateFails
<1>6. ASSUME NEW s \in Servers, Assign(s) PROVE TypeOK'
  BY <1>6, PriorityAssumption DEF TypeOK, GoTo, history, Assign
<1>7. ASSUME NEW s \in Servers, EndProcess(s) PROVE TypeOK'
  <2>1. PICK to \in {"begin", "quit"} : GoTo(s, "run", to)
    BY <1>7 DEF EndProcess
  <2>2. pc' \in [Servers -> {"idle", "begin", "create", "assign", "run", "quit", "dead"}]
    BY <2>1 DEF TypeOK, GoTo
  <2>3. owner' \in [Handles -> Servers \cup {None}]
    BY <1>7 DEF TypeOK, EndProcess
  <2>4. handle' \in [Servers -> Handles \cup {None}]
    BY <1>7 DEF TypeOK, EndProcess
  <2>5. class' \in [Servers -> Classes \cup {None}]
    BY <1>7 DEF TypeOK, EndProcess
  <2>6. UNCHANGED <<priority, busy, arg, new, call, failed, stray>>
    BY <1>7 DEF history, EndProcess
  <2> QED BY <2>2, <2>3, <2>4, <2>5, <2>6 DEF TypeOK
<1>8. ASSUME NEW s \in Servers, Quit(s) PROVE TypeOK'
  BY <1>8, PriorityAssumption DEF TypeOK, GoTo, history, Quit
<1>9. ASSUME NEW s \in Servers, Exit(s) PROVE TypeOK'
  BY <1>9, PriorityAssumption DEF TypeOK, thread, history, Exit
<1>10. ASSUME NEW s \in Servers, TerminateThread(s) PROVE TypeOK'
  BY <1>10, PriorityAssumption DEF TypeOK, history, TerminateThread
<1>11. ASSUME NEW s \in Servers, NEW prior \in Classes \cup {None}, SetPriority(s, prior)
      PROVE  TypeOK'
  <2>1. CASE prior = None
    BY <1>11, <2>1 DEF TypeOK, thread, SetPriority
  <2>2. CASE prior # None
    <3>1. priority' \in [Servers -> Classes]
      BY <1>11, <2>2 DEF TypeOK, SetPriority
    <3>2. call' \in {"none", "test", "set"} \X (Servers \cup {None})
      BY <1>11, <2>2 DEF SetPriority
    <3>3. UNCHANGED <<busy, pc, arg, new, handle, owner, class, failed, stray>>
      BY <1>11, <2>2 DEF thread, SetPriority
    <3> QED BY <3>1, <3>2, <3>3 DEF TypeOK
  <2> QED BY <2>1, <2>2
<1>12. ASSUME NEW s \in Servers, TestBusy(s) PROVE TypeOK'
  <2>1. CASE busy[s]
    BY <1>12, <2>1 DEF TypeOK, thread, TestBusy
  <2>2. CASE ~busy[s]
    <3>1. failed' \in [Servers -> BOOLEAN]
      BY <1>12, <2>2 DEF TypeOK, TestBusy
    <3>2. call' \in {"none", "test", "set"} \X (Servers \cup {None})
      BY <1>12, <2>2 DEF TestBusy
    <3>3. UNCHANGED <<priority, busy, pc, arg, new, handle, owner, class, stray>>
      BY <1>12 DEF thread, TestBusy
    <3> QED BY <3>1, <3>2, <3>3 DEF TypeOK
  <2> QED BY <2>1, <2>2
<1>13. ASSUME NEW s \in Servers, SetPriorityClass(s) PROVE TypeOK'
  <2> DEFINE t == Behind(handle[s])
  <2>1. failed' = [failed EXCEPT ![s] = (t = None)]
    BY <1>13 DEF SetPriorityClass
  <2>2. (t = None) \in BOOLEAN
    OBVIOUS
  <2>3. failed' \in [Servers -> BOOLEAN]
    <3> HIDE DEF t
    <3> QED BY <2>1, <2>2, Zenon DEF TypeOK
  <2>4. stray' \in [Servers -> BOOLEAN]
    <3>1. \A u \in Servers : stray[u] \in BOOLEAN BY DEF TypeOK
    <3>2. stray' = [u \in Servers |-> IF t \in {s, None} THEN stray[u]
                                      ELSE stray[u] \/ u \in {s, t}]
      BY <1>13 DEF SetPriorityClass
    <3>3. \A u \in Servers : (stray[u] \/ u \in {s, t}) \in BOOLEAN
      OBVIOUS
    <3> HIDE DEF t
    <3> QED BY <3>1, <3>2, <3>3, Zenon
  <2>5. class' \in [Servers -> Classes \cup {None}]
    BY <1>13 DEF TypeOK, SetPriorityClass
  <2>6. call' \in {"none", "test", "set"} \X (Servers \cup {None})
    BY <1>13 DEF SetPriorityClass
  <2>7. UNCHANGED <<priority, busy, pc, arg, new, handle, owner>>
    BY <1>13 DEF thread, SetPriorityClass
  <2> QED BY <2>3, <2>4, <2>5, <2>6, <2>7 DEF TypeOK
<1>14. ASSUME NEW s \in Servers, Refused(s) PROVE TypeOK'
  BY <1>14, PriorityAssumption DEF TypeOK, thread, history, Refused
<1> QED BY <1>1, <1>2, <1>3, <1>4, <1>5, <1>6, <1>7, <1>8, <1>9, <1>10, <1>11, <1>12, <1>13, <1>14
  DEF Next

LEMMA ProcessOfThreadStep == ASSUME IInv, [Next]_vars PROVE ProcessOfThread'
<1> USE DEF IInv
<1>1. CASE UNCHANGED vars
  BY <1>1 DEF ProcessOfThread, vars, thread
<1>2. ASSUME NEW s \in Servers, Begin(s) PROVE ProcessOfThread'
  BY <1>2, PriorityAssumption DEF ProcessOfThread, GoTo, Begin
<1>3. ASSUME NEW s \in Servers, ReadPriority(s) PROVE ProcessOfThread'
  BY <1>3, PriorityAssumption DEF ProcessOfThread, GoTo, ReadPriority
<1>4. ASSUME NEW s \in Servers, CreateProcess(s) PROVE ProcessOfThread'
  BY <1>4, PriorityAssumption DEF TypeOK, ProcessOfThread, GoTo, CreateProcess
<1>5. ASSUME NEW s \in Servers, CreateFails(s) PROVE ProcessOfThread'
  BY <1>5, PriorityAssumption DEF ProcessOfThread, GoTo, CreateFails
<1>6. ASSUME NEW s \in Servers, Assign(s) PROVE ProcessOfThread'
  BY <1>6, PriorityAssumption DEF ProcessOfThread, GoTo, Assign
<1>7. ASSUME NEW s \in Servers, EndProcess(s) PROVE ProcessOfThread'
  BY <1>7, PriorityAssumption DEF TypeOK, ProcessOfThread, GoTo, EndProcess
<1>8. ASSUME NEW s \in Servers, Quit(s) PROVE ProcessOfThread'
  BY <1>8, PriorityAssumption DEF ProcessOfThread, GoTo, Quit
<1>9. ASSUME NEW s \in Servers, Exit(s) PROVE ProcessOfThread'
  BY <1>9, PriorityAssumption DEF ProcessOfThread, thread, Exit
<1>10. ASSUME NEW s \in Servers, TerminateThread(s) PROVE ProcessOfThread'
  BY <1>10, PriorityAssumption DEF ProcessOfThread, TerminateThread
<1>11. ASSUME NEW s \in Servers, NEW prior \in Classes \cup {None}, SetPriority(s, prior)
      PROVE  ProcessOfThread'
  BY <1>11, PriorityAssumption DEF ProcessOfThread, thread, SetPriority
<1>12. ASSUME NEW s \in Servers, TestBusy(s) PROVE ProcessOfThread'
  BY <1>12, PriorityAssumption DEF ProcessOfThread, thread, TestBusy
<1>13. ASSUME NEW s \in Servers, SetPriorityClass(s) PROVE ProcessOfThread'
  BY <1>13, PriorityAssumption DEF ProcessOfThread, thread, SetPriorityClass
<1>14. ASSUME NEW s \in Servers, Refused(s) PROVE ProcessOfThread'
  BY <1>14, PriorityAssumption DEF ProcessOfThread, thread, Refused
<1> QED BY <1>1, <1>2, <1>3, <1>4, <1>5, <1>6, <1>7, <1>8, <1>9, <1>10, <1>11, <1>12, <1>13, <1>14
  DEF Next

LEMMA OwnerOfThreadStep == ASSUME IInv, [Next]_vars PROVE OwnerOfThread'
<1> USE DEF IInv
<1>1. CASE UNCHANGED vars
  BY <1>1 DEF OwnerOfThread, vars, thread
<1>2. ASSUME NEW s \in Servers, Begin(s) PROVE OwnerOfThread'
  BY <1>2, PriorityAssumption DEF OwnerOfThread, GoTo, Begin
<1>3. ASSUME NEW s \in Servers, ReadPriority(s) PROVE OwnerOfThread'
  BY <1>3, PriorityAssumption DEF OwnerOfThread, GoTo, ReadPriority
<1>4. ASSUME NEW s \in Servers, CreateProcess(s) PROVE OwnerOfThread'
  BY <1>4, PriorityAssumption DEF TypeOK, OwnerOfThread, GoTo, CreateProcess
<1>5. ASSUME NEW s \in Servers, CreateFails(s) PROVE OwnerOfThread'
  BY <1>5, PriorityAssumption DEF OwnerOfThread, GoTo, CreateFails
<1>6. ASSUME NEW s \in Servers, Assign(s) PROVE OwnerOfThread'
  BY <1>6, PriorityAssumption DEF TypeOK, OwnerOfThread, GoTo, Assign
<1>7. ASSUME NEW s \in Servers, EndProcess(s) PROVE OwnerOfThread'
  BY <1>7, PriorityAssumption DEF TypeOK, OwnerOfThread, GoTo, EndProcess
<1>8. ASSUME NEW s \in Servers, Quit(s) PROVE OwnerOfThread'
  BY <1>8, PriorityAssumption DEF OwnerOfThread, GoTo, Quit
<1>9. ASSUME NEW s \in Servers, Exit(s) PROVE OwnerOfThread'
  BY <1>9, PriorityAssumption DEF OwnerOfThread, thread, Exit
<1>10. ASSUME NEW s \in Servers, TerminateThread(s) PROVE OwnerOfThread'
  BY <1>10, PriorityAssumption DEF OwnerOfThread, TerminateThread
<1>11. ASSUME NEW s \in Servers, NEW prior \in Classes \cup {None}, SetPriority(s, prior)
      PROVE  OwnerOfThread'
  BY <1>11, PriorityAssumption DEF OwnerOfThread, thread, SetPriority
<1>12. ASSUME NEW s \in Servers, TestBusy(s) PROVE OwnerOfThread'
  BY <1>12, PriorityAssumption DEF OwnerOfThread, thread, TestBusy
<1>13. ASSUME NEW s \in Servers, SetPriorityClass(s) PROVE OwnerOfThread'
  BY <1>13, PriorityAssumption DEF OwnerOfThread, thread, SetPriorityClass
<1>14. ASSUME NEW s \in Servers, Refused(s) PROVE OwnerOfThread'
  BY <1>14, PriorityAssumption DEF OwnerOfThread, thread, Refused
<1> QED BY <1>1, <1>2, <1>3, <1>4, <1>5, <1>6, <1>7, <1>8, <1>9, <1>10, <1>11, <1>12, <1>13, <1>14
  DEF Next

LEMMA ArgCurrentStep == ASSUME IInv, [Next]_vars PROVE ArgCurrent'
<1> USE DEF IInv
<1>1. CASE UNCHANGED vars
  BY <1>1 DEF ArgCurrent, vars, thread, history, Settled
<1>2. ASSUME NEW s \in Servers, Begin(s) PROVE ArgCurrent'
  BY <1>2, PriorityAssumption DEF ArgCurrent, GoTo, history, Begin, Settled
<1>3. ASSUME NEW s \in Servers, ReadPriority(s) PROVE ArgCurrent'
  BY <1>3, PriorityAssumption DEF TypeOK, ArgCurrent, GoTo, ReadPriority, Settled
<1>4. ASSUME NEW s \in Servers, CreateProcess(s) PROVE ArgCurrent'
  BY <1>4, PriorityAssumption DEF ArgCurrent, GoTo, history, CreateProcess, Settled
<1>5. ASSUME NEW s \in Servers, CreateFails(s) PROVE ArgCurrent'
  BY <1>5, PriorityAssumption DEF ArgCurrent, GoTo, history, CreateFails, Settled
<1>6. ASSUME NEW s \in Servers, Assign(s) PROVE ArgCurrent'
  BY <1>6, PriorityAssumption DEF ArgCurrent, GoTo, history, Assign, Settled
<1>7. ASSUME NEW s \in Servers, EndProcess(s) PROVE ArgCurrent'
  BY <1>7, PriorityAssumption DEF ArgCurrent, GoTo, history, EndProcess, Settled
<1>8. ASSUME NEW s \in Servers, Quit(s) PROVE ArgCurrent'
  BY <1>8, PriorityAssumption DEF ArgCurrent, GoTo, history, Quit, Settled
<1>9. ASSUME NEW s \in Servers, Exit(s) PROVE ArgCurrent'
  BY <1>9, PriorityAssumption DEF ArgCurrent, thread, history, Exit, Settled
<1>10. ASSUME NEW s \in Servers, TerminateThread(s) PROVE ArgCurrent'
  BY <1>10, PriorityAssumption DEF ArgCurrent, history, TerminateThread, Settled
<1>11. ASSUME NEW s \in Servers, NEW prior \in Classes \cup {None}, SetPriority(s, prior)
      PROVE  ArgCurrent'
  BY <1>11, PriorityAssumption DEF TypeOK, ArgCurrent, thread, SetPriority, Settled
<1>12. ASSUME NEW s \in Servers, TestBusy(s) PROVE ArgCurrent'
  BY <1>12, PriorityAssumption
    DEF TypeOK, ArgCurrent, thread, TestBusy, Settled
<1>13. ASSUME NEW s \in Servers, SetPriorityClass(s) PROVE ArgCurrent'
  BY <1>13, PriorityAssumption
    DEF TypeOK, OwnerOfThread, ArgCurrent, thread, SetPriorityClass, Behind, Settled
<1>14. ASSUME NEW s \in Servers, Refused(s) PROVE ArgCurrent'
  BY <1>14, PriorityAssumption DEF TypeOK, ArgCurrent, thread, history, Settled, Refused
<1> QED BY <1>1, <1>2, <1>3, <1>4, <1>5, <1>6, <1>7, <1>8, <1>9, <1>10, <1>11, <1>12, <1>13, <1>14
  DEF Next

LEMMA ClassCurrentStep == ASSUME IInv, [Next]_vars PROVE ClassCurrent'
<1> USE DEF IInv
<1>1. CASE UNCHANGED vars
  BY <1>1 DEF ClassCurrent, vars, history, Settled
<1>2. ASSUME NEW s \in Servers, Begin(s) PROVE ClassCurrent'
  BY <1>2, PriorityAssumption DEF ProcessOfThread, ClassCurrent, GoTo, history, Begin, Settled
<1>3. ASSUME NEW s \in Servers, ReadPriority(s) PROVE ClassCurrent'
  BY <1>3, PriorityAssumption
    DEF ProcessOfThread, ClassCurrent, GoTo, ReadPriority, Settled
<1>4. ASSUME NEW s \in Servers, CreateProcess(s) PROVE ClassCurrent'
  BY <1>4, PriorityAssumption
    DEF ArgCurrent, ClassCurrent, GoTo, history, CreateProcess, Settled
<1>5. ASSUME NEW s \in Servers, CreateFails(s) PROVE ClassCurrent'
  BY <1>5, PriorityAssumption DEF ClassCurrent, history, CreateFails, Settled
<1>6. ASSUME NEW s \in Servers, Assign(s) PROVE ClassCurrent'
  BY <1>6, PriorityAssumption DEF ClassCurrent, history, Assign, Settled
<1>7. ASSUME NEW s \in Servers, EndProcess(s) PROVE ClassCurrent'
  BY <1>7, PriorityAssumption DEF ClassCurrent, history, EndProcess, Settled
<1>8. ASSUME NEW s \in Servers, Quit(s) PROVE ClassCurrent'
  BY <1>8, PriorityAssumption DEF ClassCurrent, history, Quit, Settled
<1>9. ASSUME NEW s \in Servers, Exit(s) PROVE ClassCurrent'
  BY <1>9, PriorityAssumption DEF ClassCurrent, history, Exit, Settled
<1>10. ASSUME NEW s \in Servers, TerminateThread(s) PROVE ClassCurrent'
  BY <1>10, PriorityAssumption DEF ClassCurrent, history, TerminateThread, Settled
<1>11. ASSUME NEW s \in Servers, NEW prior \in Classes \cup {None}, SetPriority(s, prior)
      PROVE  ClassCurrent'
  BY <1>11, PriorityAssumption DEF TypeOK, ClassCurrent, SetPriority, Settled
<1>12. ASSUME NEW s \in Servers, TestBusy(s) PROVE ClassCurrent'
  BY <1>12, PriorityAssumption
    DEF TypeOK, ProcessOfThread, ClassCurrent, TestBusy, Settled
<1>13. ASSUME NEW s \in Servers, SetPriorityClass(s) PROVE ClassCurrent'
  BY <1>13, PriorityAssumption DEF TypeOK, ClassCurrent, SetPriorityClass, Settled
<1>14. ASSUME NEW s \in Servers, Refused(s) PROVE ClassCurrent'
  BY <1>14, PriorityAssumption DEF TypeOK, ClassCurrent, history, Settled, Refused
<1> QED BY <1>1, <1>2, <1>3, <1>4, <1>5, <1>6, <1>7, <1>8, <1>9, <1>10, <1>11, <1>12, <1>13, <1>14
  DEF Next

LEMMA IInvInductive == IInv /\ [Next]_vars => IInv'
<1> SUFFICES ASSUME IInv, [Next]_vars PROVE IInv'
  OBVIOUS
<1> QED
  BY TypeOKStep, ProcessOfThreadStep, OwnerOfThreadStep, ArgCurrentStep,
       ClassCurrentStep
    DEF IInv

LEMMA IInvCorrect == Spec => []IInv
BY InitEstablishes, IInvInductive, PTL DEF Spec

-----------------------------------------------------------------------------
(* The variables of priorities, threads and handles keep their types.      *)
THEOREM PriorityTypeCorrect == Spec => []TypeOK
<1>1. IInv => TypeOK BY DEF IInv
<1> QED BY IInvCorrect, <1>1, PTL

(* setPriority needs no lock because it stores before it looks at busy: a  *)
(* process that runs has the stored priority, unless the user was told     *)
(* otherwise, a stale handle led to another server's process, or busy was  *)
(* cleared under the monitor.                                              *)
THEOREM PriorityCorrect == Spec => []PriorityInForce
<1>1. IInv => PriorityInForce
  BY DEF ClassCurrent, IInv, Settled, PriorityInForce
<1> QED BY IInvCorrect, <1>1, PTL

-----------------------------------------------------------------------------
(* The ping booster.                                                        *)

(* Boosting ends with the program, and what an orderly end kept is what the file holds
   until the next start.                                                               *)
OffWhenClosed == ~running => ~pingboost
FileIsKept == ~running /\ kept # NoPair => file = kept

BoosterIInv == BoosterTypeOK /\ PeriodsPaired /\ MenuTruth /\ OffWhenClosed /\ FileIsKept

LEMMA BoosterInitHolds == BoosterInit => BoosterIInv
<1> SUFFICES ASSUME BoosterInit PROVE BoosterIInv
  OBVIOUS
<1>1. BoosterTypeOK
  BY ValuesAssumption DEF BoosterInit, BoosterTypeOK
<1>2. PeriodsPaired
  BY DEF BoosterInit, PeriodsPaired
<1>3. MenuTruth /\ OffWhenClosed /\ FileIsKept
  BY DEF BoosterInit, MenuTruth, OffWhenClosed, FileIsKept
<1> QED  BY <1>1, <1>2, <1>3 DEF BoosterIInv

(* boost() keeps the periods paired: it is called for the value that is in force. *)
LEMMA BoostPairs ==
  ASSUME BoosterTypeOK, PeriodsPaired, NEW on \in BOOLEAN, boost(on),
         pingboostervalue' = pingboostervalue
  PROVE  begun' \in [Values -> Nat] /\ pingboost' = on /\ PeriodsPaired'
<1>1. CASE pingboost = on
  BY <1>1 DEF boost, BoosterTypeOK, PeriodsPaired
<1>2. CASE pingboost # on /\ on
  <2>1. ~pingboost /\ pingboost' = on /\ begun = [v \in Values |-> 0]
    BY <1>2 DEF boost, BoosterTypeOK, PeriodsPaired
  <2>2. begun' = [begun EXCEPT ![pingboostervalue] = @ + 1]
    BY <1>2, <2>1 DEF boost, timeBeginPeriod
  <2>3. begun' = [v \in Values |-> IF v = pingboostervalue THEN 1 ELSE 0]
    BY <2>1, <2>2 DEF BoosterTypeOK
  <2> QED  BY <1>2, <2>1, <2>3 DEF PeriodsPaired
<1>3. CASE pingboost # on /\ ~on
  BY <1>3 DEF boost, timeEndPeriod, BoosterTypeOK, PeriodsPaired
<1> QED  BY <1>1, <1>2, <1>3

LEMMA BoosterStep == BoosterIInv /\ [BoosterNext]_boosterVars => BoosterIInv'
<1> SUFFICES ASSUME BoosterIInv, [BoosterNext]_boosterVars PROVE BoosterIInv'
  OBVIOUS
<1> USE ValuesAssumption
<1>1. CASE OnNewDocument
  <2> DEFINE saved == IF file = NoPair THEN <<Default, FALSE>> ELSE file
  <2>1. saved \in Pair
    BY DEF BoosterIInv, BoosterTypeOK, Pair
  <2>2. pingboostervalue' = saved[1] /\ pingboost' = saved[2]
        /\ begun' = IF saved[2] THEN [begun EXCEPT ![saved[1]] = @ + 1] ELSE begun
    BY <1>1 DEF OnNewDocument
  <2>3. ~running /\ running' /\ begun = [v \in Values |-> 0]
    BY <1>1 DEF OnNewDocument, BoosterIInv, OffWhenClosed, PeriodsPaired
  <2>4. saved[1] \in Values /\ saved[2] \in BOOLEAN
    BY <2>1 DEF Pair
  <2> HIDE DEF saved
  <2>5. begun' = [v \in Values |-> IF saved[2] /\ v = saved[1] THEN 1 ELSE 0]
    BY <2>2, <2>3, <2>4
  <2>6. PeriodsPaired'
    BY <2>2, <2>5 DEF PeriodsPaired
  <2>7. BoosterTypeOK'
    <3>1. begun' \in [Values -> Nat]
      BY <2>5
    <3>2. running' \in BOOLEAN /\ checked' \in BOOLEAN /\ canChange' \in BOOLEAN
          /\ menuDue' \in BOOLEAN /\ dialog' \in BOOLEAN
      BY <1>1, <2>3 DEF OnNewDocument
    <3>3. file' \in Pair \cup {NoPair} /\ kept' \in Pair \cup {NoPair}
      BY <1>1 DEF OnNewDocument, BoosterIInv, BoosterTypeOK
    <3>4. pingboostervalue' \in Values /\ pingboost' \in BOOLEAN
      BY <2>2, <2>4
    <3> QED  BY <3>1, <3>2, <3>3, <3>4 DEF BoosterTypeOK
  <2>8. checked' = FALSE /\ menuDue' = TRUE
    BY <1>1 DEF OnNewDocument
  <2>9. MenuTruth' /\ OffWhenClosed' /\ FileIsKept'
    BY <2>3, <2>8 DEF MenuTruth, OffWhenClosed, FileIsKept
  <2> QED  BY <2>6, <2>7, <2>9 DEF BoosterIInv
<1>2. CASE OnPingboosterRun
  <2>1. BoosterTypeOK /\ PeriodsPaired /\ (~checked) \in BOOLEAN /\ boost(~checked)
        /\ pingboostervalue' = pingboostervalue
    BY <1>2 DEF OnPingboosterRun, BoosterIInv, BoosterTypeOK
  <2>2. begun' \in [Values -> Nat] /\ pingboost' = ~checked /\ PeriodsPaired'
    BY <2>1, BoostPairs
  <2> QED
    BY <1>2, <2>2
    DEF OnPingboosterRun, BoosterIInv, BoosterTypeOK, MenuTruth, OffWhenClosed, FileIsKept
<1>3. CASE Destroy
  <2>1. BoosterTypeOK /\ PeriodsPaired /\ boost(FALSE) /\ pingboostervalue' = pingboostervalue
    BY <1>3 DEF Destroy, BoosterIInv
  <2>2. begun' \in [Values -> Nat] /\ pingboost' = FALSE /\ PeriodsPaired'
    BY <2>1, BoostPairs
  <2> QED
    BY <1>3, <2>2 DEF Destroy, BoosterIInv, BoosterTypeOK, MenuTruth, OffWhenClosed, FileIsKept, Pair
<1>4. CASE OnPingboosterChangevalue
  <2>1. pingboostervalue' \in Values
        /\ (pingboost => pingboostervalue' = pingboostervalue)
    BY <1>4 DEF OnPingboosterChangevalue, setBoosterValue, BoosterIInv, BoosterTypeOK
  <2> QED
    BY <1>4, <2>1
    DEF OnPingboosterChangevalue, BoosterIInv, BoosterTypeOK, PeriodsPaired, MenuTruth, OffWhenClosed,
        FileIsKept
<1>a. Unwritten \subseteq Pair \cup {NoPair}
  <2>1. file \in Pair \cup {NoPair} /\ <<pingboostervalue, FALSE>> \in Pair
    BY DEF Pair, BoosterIInv, BoosterTypeOK
  <2> QED  BY <2>1 DEF Unwritten
<1>5. CASE Crash \/ DestroyThrows
  <2>1. running' = FALSE /\ pingboost' = FALSE /\ kept' = NoPair
        /\ begun' = [v \in Values |-> 0]
    BY <1>5 DEF Crash, DestroyThrows
  <2>2. PeriodsPaired' /\ MenuTruth' /\ OffWhenClosed' /\ FileIsKept'
    BY <2>1 DEF PeriodsPaired, MenuTruth, OffWhenClosed, FileIsKept
  <2>3. begun' \in [Values -> Nat]
    BY <2>1
  <2>4. BoosterTypeOK'
    BY <1>5, <1>a, <2>1, <2>3 DEF Crash, DestroyThrows, BoosterIInv, BoosterTypeOK
  <2> QED  BY <2>2, <2>4 DEF BoosterIInv
<1>6. CASE writeFile
  <2>1. file' \in Pair \cup {NoPair}
    BY <1>6, <1>a DEF writeFile, Pair, BoosterIInv, BoosterTypeOK
  <2> QED
    BY <1>6, <2>1
    DEF writeFile, BoosterIInv, BoosterTypeOK, PeriodsPaired, MenuTruth, OffWhenClosed,
        FileIsKept
<1>7. CASE OnUpdateMenu
  <2>1. checked' \in BOOLEAN /\ canChange' \in BOOLEAN
    BY <1>7 DEF OnUpdateMenu
  <2>2. BoosterTypeOK' /\ PeriodsPaired' /\ OffWhenClosed' /\ FileIsKept'
    BY <1>7, <2>1
    DEF OnUpdateMenu, BoosterIInv, BoosterTypeOK, PeriodsPaired, OffWhenClosed, FileIsKept
  <2>3. MenuTruth'
    BY <1>7 DEF OnUpdateMenu, BoosterIInv, BoosterTypeOK, MenuTruth
  <2> QED  BY <2>2, <2>3 DEF BoosterIInv
<1>8. CASE UpdateAllViews \/ OpenChangevalue
  <2>1. menuDue' \in BOOLEAN /\ dialog' \in BOOLEAN /\ (menuDue => menuDue')
    BY <1>8 DEF UpdateAllViews, OpenChangevalue, BoosterIInv, BoosterTypeOK
  <2>2. /\ running' = running /\ pingboostervalue' = pingboostervalue
        /\ pingboost' = pingboost /\ begun' = begun /\ checked' = checked
        /\ canChange' = canChange /\ file' = file /\ kept' = kept
    BY <1>8 DEF UpdateAllViews, OpenChangevalue
  <2> QED
    BY <2>1, <2>2
    DEF BoosterIInv, BoosterTypeOK, PeriodsPaired, MenuTruth, OffWhenClosed, FileIsKept
<1>9. CASE UNCHANGED boosterVars
  BY <1>9 DEF boosterVars, BoosterIInv, BoosterTypeOK, PeriodsPaired, MenuTruth, OffWhenClosed, FileIsKept
<1> QED  BY <1>1, <1>2, <1>3, <1>4, <1>5, <1>6, <1>7, <1>8, <1>9 DEF BoosterNext

LEMMA BoosterInvariance == BoosterSpec => []BoosterIInv
BY BoosterInitHolds, BoosterStep, PTL DEF BoosterSpec

(* The booster's variables keep their types (CServerDoc, CMainFrame). *)
THEOREM BoosterTypeCorrect == BoosterSpec => []BoosterTypeOK
<1>1. BoosterIInv => BoosterTypeOK
  BY DEF BoosterIInv
<1> QED  BY <1>1, BoosterInvariance, PTL

(* timeBeginPeriod and timeEndPeriod stay paired (boost, setBoosterValue). *)
THEOREM BoosterCorrect == BoosterSpec => []PeriodsPaired
<1>1. BoosterIInv => PeriodsPaired
  BY DEF BoosterIInv
<1> QED  BY <1>1, BoosterInvariance, PTL

(* The menu shows whether boosting is on (OnPingboosterRun, OnUpdateMenu). *)
THEOREM MenuCorrect == BoosterSpec => []MenuTruth
<1>1. BoosterIInv => MenuTruth
  BY DEF BoosterIInv
<1> QED  BY <1>1, BoosterInvariance, PTL

(* What ~CServerDoc saved is what OnNewDocument brings back. *)
THEOREM SettingsRestored == BoosterSpec => Restored
<1>1. BoosterIInv /\ [BoosterNext]_boosterVars
      => [~running /\ running' /\ kept # NoPair
          => <<pingboostervalue', pingboost'>> = kept]_boosterVars
  <2> SUFFICES ASSUME BoosterIInv, BoosterNext, ~running, running', kept # NoPair
               PROVE  <<pingboostervalue', pingboost'>> = kept
    BY DEF boosterVars
  <2>1. OnNewDocument
    BY DEF BoosterNext, OnUpdateMenu, UpdateAllViews, OnPingboosterRun, OpenChangevalue,
           OnPingboosterChangevalue, writeFile, Destroy,
           DestroyThrows, Crash
  <2>2. file = kept /\ kept \in Pair
    BY DEF BoosterIInv, FileIsKept, BoosterTypeOK
  <2>3. pingboostervalue' = kept[1] /\ pingboost' = kept[2]
    BY <2>1, <2>2 DEF OnNewDocument
  <2> QED  BY <2>2, <2>3 DEF Pair
<1> QED  BY <1>1, BoosterInvariance, PTL DEF Restored, BoosterSpec
=============================================================================
