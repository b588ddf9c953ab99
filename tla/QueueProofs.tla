---------------------------- MODULE QueueProofs ----------------------------
(***************************************************************************)
(* Two queues of the program, each between a thread and what it does not   *)
(* control: the reports of a monitor on their way to the window            *)
(* (StatusQueue), and the datagrams of a ping (PingSocket, whose names     *)
(* carry a prefix).                                                        *)
(*                                                                         *)
(* StatusQueue: without a collision each queue holds consecutive report    *)
(* numbers that end with the last one pushed (Chain).  The argument        *)
(* follows the lead of up over status, the difference between what was     *)
(* popped from the two: it stays within -1..1 between the iterations of    *)
(* OnServerUpdate, because a missing half of a pair makes the handler drop *)
(* the other half.                                                         *)
(*                                                                         *)
(* PingSocket: the counter of start() is an account of the pings since the *)
(* server began to hang and of the replies read meanwhile (HangCounted).   *)
(***************************************************************************)
EXTENDS StatusQueue, PingSocket, FiniteSetTheorems, TLAPS

Chain(q, n) ==
  /\ n \in Nat /\ Len(q) <= n
  /\ \A i \in 1..Len(q) : q[i] = n - Len(q) + i

\* How many halves were pushed, as far as the check thread's place tells.
Pushed(pu, ps) ==
  /\ pu \in Nat /\ ps \in Nat
  /\ wpc \in {"idle", "post"} => pu = reports /\ ps = reports
  /\ wpc = "up" => pu = reports - 1 /\ ps = reports - 1
  /\ wpc = "status" => pu = reports /\ ps = reports - 1
  /\ wpc = "dead" => ps <= pu /\ pu <= ps + 1

Lead(pu, ps) == (pu - Len(up)) - (ps - Len(status))

\* Where OnServerUpdate is, and the lead it allows there.
Balanced(pu, ps) ==
  /\ rpc \in {"idle", "up", "show"} => Lead(pu, ps) \in -1..1
  /\ rpc = "status" /\ rup = INVALID_STATUS_UP => Lead(pu, ps) \in 0..1
  /\ rpc = "status" /\ rup # INVALID_STATUS_UP => Lead(pu, ps) \in 0..2
  /\ rpc = "status" /\ rup # INVALID_STATUS_UP => rup = pu - Len(up)
  /\ rpc = "show" => rup = pu - Len(up) /\ rstatus = ps - Len(status)

Quiet == wpc \in {"idle", "up"} /\ msgs = 0 /\ ~dropped

\* With nothing to come, and the last post no failure, what the handler has found empty stays empty.
Drained ==
  /\ Quiet /\ rpc = "idle" => up = <<>> /\ status = <<>>
  /\ Quiet /\ rpc = "status" /\ rup = INVALID_STATUS_UP => up = <<>>

Clean ==
  /\ \E pu, ps \in Nat :
       Pushed(pu, ps) /\ Chain(up, pu) /\ Chain(status, ps) /\ Balanced(pu, ps)
  /\ Drained
  /\ HalvesNearby

IInv == TypeOK /\ (races = 0 => Clean)

-----------------------------------------------------------------------------
\* Pushing the next number keeps a queue a chain.
LEMMA ChainAppend ==
  ASSUME NEW q \in Seq(Int), NEW n \in Nat, Chain(q, n)
  PROVE  /\ Append(q, n + 1) \in Seq(Int)
         /\ Len(Append(q, n + 1)) = Len(q) + 1
         /\ Chain(Append(q, n + 1), n + 1)
BY DEF Chain

\* Popping a nonempty chain yields its oldest number and leaves a chain.
LEMMA ChainPop ==
  ASSUME NEW q \in Seq(Int), NEW n \in Nat, Chain(q, n), q # <<>>
  PROVE  /\ Front(q) = n - Len(q) + 1
         /\ Front(q) # INVALID_STATUS_UP
         /\ Popped(q) \in Seq(Int)
         /\ Len(Popped(q)) = Len(q) - 1
         /\ Chain(Popped(q), n)
<1>1. Len(q) \in Nat /\ Len(q) > 0
  OBVIOUS
<1>2. Front(q) = q[1] /\ Popped(q) = Tail(q)
  BY <1>1 DEF Front, Popped
<1>3. Tail(q) \in Seq(Int) /\ Len(Tail(q)) = Len(q) - 1
  BY <1>1
<1>4. \A i \in 1..Len(Tail(q)) : Tail(q)[i] = q[i + 1]
  BY <1>1, <1>3
<1>5. q[1] = n - Len(q) + 1
  BY <1>1 DEF Chain
<1>6. Chain(Tail(q), n)
  <2>1. \A i \in 1..Len(Tail(q)) : q[i + 1] = n - Len(q) + (i + 1)
    BY <1>1, <1>3 DEF Chain
  <2> QED
    BY <2>1, <1>1, <1>3, <1>4 DEF Chain
<1>7. Front(q) # INVALID_STATUS_UP
  <2>1. n \in Nat /\ Len(q) <= n
    BY DEF Chain
  <2> QED
    BY <2>1, <1>1, <1>2, <1>5 DEF INVALID_STATUS_UP
<1>8. Chain(Popped(q), n)
  BY <1>2, <1>6
<1> QED
  BY <1>2, <1>3, <1>5, <1>7, <1>8

\* An empty queue yields INVALID_STATUS_UP and stays as it is.
LEMMA EmptyPop == Front(<<>>) = INVALID_STATUS_UP /\ Popped(<<>>) = <<>>
BY DEF Front, Popped

LEMMA PopTypes ==
  ASSUME NEW q \in Seq(Int)
  PROVE  Front(q) \in Int /\ Popped(q) \in Seq(Int)
<1>1. CASE q = <<>>
  BY <1>1 DEF Front, Popped, INVALID_STATUS_UP
<1>2. CASE q # <<>>
  BY <1>2 DEF Front, Popped
<1> QED
  BY <1>1, <1>2

-----------------------------------------------------------------------------
LEMMA InitIInv == Init => IInv
<1> SUFFICES ASSUME Init PROVE IInv
  OBVIOUS
<1> USE DEF Init
<1>1. TypeOK
  <2>1. /\ 0 \in 0..MaxReports /\ 0 \in 0..MsgLimit /\ 0 \in 0..MaxRaces
        /\ <<>> \in Seq(Int) /\ <<0, 0>> \in Int \X Int
    BY BoundsAssumption
  <2>2. /\ up \in Seq(Int) /\ status \in Seq(Int) /\ shown \in Int \X Int
        /\ reports \in 0..MaxReports /\ msgs \in 0..MsgLimit /\ races \in 0..MaxRaces
    BY <2>1
  <2>3. rup \in Int /\ rstatus \in Int
    BY DEF INVALID_STATUS_UP
  <2>4. /\ wpc \in {"idle", "up", "status", "post", "dead"}
        /\ rpc \in {"idle", "up", "status", "show"} /\ dropped \in BOOLEAN
    OBVIOUS
  <2> HIDE DEF Init
  <2> QED
    BY <2>2, <2>3, <2>4 DEF TypeOK
<1>2. Pushed(0, 0) /\ Balanced(0, 0)
  BY DEF Pushed, Balanced, Lead
<1>3. Chain(up, 0) /\ Chain(status, 0)
  BY DEF Chain
<1>4. Drained /\ HalvesNearby
  BY DEF Drained, HalvesNearby
<1> QED
  BY <1>1, <1>2, <1>3, <1>4 DEF IInv, Clean

LEMMA NextTypeOK == TypeOK /\ [Next]_vars => TypeOK'
<1> SUFFICES ASSUME TypeOK, [Next]_vars PROVE TypeOK'
  OBVIOUS
<1> USE BoundsAssumption DEF TypeOK
<1>1. CASE Report
  BY <1>1 DEF Report, queues, reader
<1>2. CASE PushUp
  BY <1>2 DEF PushUp, reader
<1>3. CASE PushStatus
  BY <1>3 DEF PushStatus, reader
<1>4. CASE PostMessage
  <2>1. CASE msgs < MsgLimit /\ msgs' = msgs + 1 /\ dropped' = FALSE
    <3>1. msgs' \in 0..MsgLimit
      BY <2>1
    <3> QED
      BY <1>4, <2>1, <3>1 DEF PostMessage, reader, queues
  <2>2. CASE msgs' = msgs /\ dropped' = TRUE
    BY <1>4, <2>2 DEF PostMessage, reader, queues
  <2> QED
    BY <1>4, <2>1, <2>2 DEF PostMessage
<1>5. CASE Killed
  BY <1>5 DEF Killed, reader, queues
<1>6. CASE OnServerUpdate
  BY <1>6 DEF OnServerUpdate, queues
<1>7. CASE GetUp
  BY <1>7, PopTypes DEF GetUp
<1>8. CASE GetStatus
  <2>1. rstatus' \in Int /\ status' \in Seq(Int)
    BY <1>8, PopTypes DEF GetStatus
  <2>2. rpc' \in {"show", "idle"}
    BY <1>8 DEF GetStatus
  <2> QED
    BY <1>8, <2>1, <2>2 DEF GetStatus
<1>9. CASE Show
  BY <1>9 DEF Show, queues
<1>10. CASE RaceUp
  <2>1. Tail(up) \in Seq(Int) /\ Head(up) \in Int
    BY <1>10 DEF RaceUp
  <2>2. Tail(up) \o <<reports, Garbage>> \in Seq(Int)
    <3>1. <<reports, Garbage>> \in Seq(Int)
      BY DEF Garbage
    <3> QED
      BY <2>1, <3>1
  <2>3. up' \in Seq(Int) /\ rup' \in Int
    BY <1>10, <2>1, <2>2 DEF RaceUp, Collided
  <2>4. races' \in 0..MaxRaces
    BY <1>10 DEF RaceUp
  <2> QED
    BY <1>10, <2>3, <2>4 DEF RaceUp
<1>11. CASE RaceStatus
  <2>1. Tail(status) \in Seq(Int) /\ Head(status) \in Int
    BY <1>11 DEF RaceStatus
  <2>2. Tail(status) \o <<reports, Garbage>> \in Seq(Int)
    <3>1. <<reports, Garbage>> \in Seq(Int)
      BY DEF Garbage
    <3> QED
      BY <2>1, <3>1
  <2>3. status' \in Seq(Int) /\ rstatus' \in Int
    BY <1>11, <2>1, <2>2 DEF RaceStatus, Collided
  <2>4. races' \in 0..MaxRaces
    BY <1>11 DEF RaceStatus
  <2>5. rpc' \in {"show", "idle"}
    BY <1>11 DEF RaceStatus
  <2> QED
    BY <1>11, <2>3, <2>4, <2>5 DEF RaceStatus
<1>12. CASE UNCHANGED vars
  BY <1>12 DEF vars, queues, reader
<1> QED
  BY <1>1, <1>2, <1>3, <1>4, <1>5, <1>6, <1>7, <1>8, <1>9, <1>10, <1>11, <1>12
     DEF Next, Writer, Reader

\* A step without a collision keeps Clean.
LEMMA NextClean ==
  TypeOK /\ races = 0 /\ races' = 0 /\ Clean /\ [Next]_vars => Clean'
<1> SUFFICES ASSUME TypeOK, races = 0, races' = 0, Clean, [Next]_vars PROVE Clean'
  OBVIOUS
<1>1. PICK pu \in Nat, ps \in Nat :
        Pushed(pu, ps) /\ Chain(up, pu) /\ Chain(status, ps) /\ Balanced(pu, ps)
  BY DEF Clean
<1>2. Drained /\ HalvesNearby
  BY DEF Clean
<1>3. /\ up \in Seq(Int) /\ status \in Seq(Int) /\ reports \in Nat
      /\ Len(up) \in Nat /\ Len(status) \in Nat /\ msgs \in Nat
      /\ rup \in Int /\ rstatus \in Int
  BY BoundsAssumption DEF TypeOK
<1>4. ps <= pu /\ pu <= ps + 1
  BY <1>1, <1>3 DEF Pushed, TypeOK
<1>5. CASE Report
  <2>1. reports' = reports + 1
    BY <1>5 DEF Report
  <2>2. Pushed(pu, ps)'
    BY <1>5, <1>1, <1>3, <2>1 DEF Report, Pushed
  <2>3. Chain(up, pu)' /\ Chain(status, ps)' /\ Balanced(pu, ps)'
    BY <1>5, <1>1 DEF Report, Chain, Balanced, Lead, queues, reader
  <2>4. Drained' /\ HalvesNearby'
    BY <1>5, <1>2 DEF Report, Drained, Quiet, HalvesNearby, queues, reader
  <2> QED
    BY <2>2, <2>3, <2>4 DEF Clean
<1>6. CASE PushUp
  <2>1. reports = pu + 1 /\ ps = pu
    BY <1>6, <1>1, <1>3 DEF PushUp, Pushed
  <2>2. up' = Append(up, pu + 1) /\ status' = status /\ reports' = reports
    BY <1>6, <2>1 DEF PushUp
  <2>3. Pushed(pu + 1, ps)'
    BY <1>6, <2>1, <2>2 DEF PushUp, Pushed
  <2>4. Chain(up, pu + 1)' /\ Chain(status, ps)' /\ Len(up') = Len(up) + 1
    <3>1. Chain(up', pu + 1) /\ Chain(status', ps)
      BY <1>1, <1>3, <2>2, ChainAppend
    <3> QED
      BY <1>1, <1>3, <2>2, <3>1, ChainAppend DEF Chain
  <2>5. Lead(pu + 1, ps)' = Lead(pu, ps)
    BY <2>2, <2>4, <1>3 DEF Lead
  <2>6. Balanced(pu + 1, ps)'
    <3>1. rpc' = rpc /\ rup' = rup /\ rstatus' = rstatus
      BY <1>6 DEF PushUp, reader
    <3>2. (pu + 1) - Len(up') = pu - Len(up) /\ Len(status') = Len(status)
      BY <1>3, <2>2, <2>4
    <3> QED
      BY <1>1, <2>5, <3>1, <3>2 DEF Balanced
  <2>7. Drained' /\ HalvesNearby'
    BY <1>6, <1>2 DEF PushUp, Drained, Quiet, HalvesNearby, reader
  <2> QED
    BY <2>3, <2>4, <2>6, <2>7 DEF Clean
<1>7. CASE PushStatus
  <2>1. reports = ps + 1 /\ pu = ps + 1
    BY <1>7, <1>1, <1>3 DEF PushStatus, Pushed
  <2>2. status' = Append(status, ps + 1) /\ up' = up /\ reports' = reports
    BY <1>7, <2>1 DEF PushStatus
  <2>3. Pushed(pu, ps + 1)'
    BY <1>7, <2>1, <2>2 DEF PushStatus, Pushed
  <2>4. Chain(status, ps + 1)' /\ Chain(up, pu)' /\ Len(status') = Len(status) + 1
    <3>1. Chain(status', ps + 1) /\ Chain(up', pu)
      BY <1>1, <1>3, <2>2, ChainAppend
    <3> QED
      BY <1>1, <1>3, <2>2, <3>1, ChainAppend DEF Chain
  <2>5. Lead(pu, ps + 1)' = Lead(pu, ps)
    BY <2>2, <2>4, <1>3 DEF Lead
  <2>6. Balanced(pu, ps + 1)'
    <3>1. rpc' = rpc /\ rup' = rup /\ rstatus' = rstatus
      BY <1>7 DEF PushStatus, reader
    <3>2. (ps + 1) - Len(status') = ps - Len(status) /\ Len(up') = Len(up)
      BY <1>3, <2>2, <2>4
    <3> QED
      BY <1>1, <2>5, <3>1, <3>2 DEF Balanced
  <2>7. Drained' /\ HalvesNearby'
    BY <1>7, <1>2 DEF PushStatus, Drained, Quiet, HalvesNearby, reader
  <2> QED
    BY <2>3, <2>4, <2>6, <2>7 DEF Clean
<1>8. CASE PostMessage
  <2>1. msgs' > 0 \/ dropped'
    BY <1>8, <1>3, BoundsAssumption DEF PostMessage
  <2>2. Pushed(pu, ps)'
    BY <1>8, <1>1 DEF PostMessage, Pushed
  <2>3. Chain(up, pu)' /\ Chain(status, ps)' /\ Balanced(pu, ps)'
    BY <1>8, <1>1 DEF PostMessage, Chain, Balanced, Lead, queues, reader
  <2>4. Drained' /\ HalvesNearby'
    BY <1>8, <1>2, <2>1 DEF PostMessage, Drained, Quiet, HalvesNearby, reader
  <2> QED
    BY <2>2, <2>3, <2>4 DEF Clean
<1>9. CASE Killed
  <2>1. Pushed(pu, ps)'
    BY <1>9, <1>1, <1>4 DEF Killed, Pushed
  <2>2. Chain(up, pu)' /\ Chain(status, ps)' /\ Balanced(pu, ps)'
    BY <1>9, <1>1 DEF Killed, Chain, Balanced, Lead, queues, reader
  <2>3. Drained' /\ HalvesNearby'
    BY <1>9, <1>2 DEF Killed, Drained, Quiet, HalvesNearby, reader
  <2> QED
    BY <2>1, <2>2, <2>3 DEF Clean
<1>10. CASE OnServerUpdate
  <2>1. Pushed(pu, ps)' /\ Chain(up, pu)' /\ Chain(status, ps)'
    BY <1>10, <1>1 DEF OnServerUpdate, Pushed, Chain, queues
  <2>2. Balanced(pu, ps)'
    BY <1>10, <1>1 DEF OnServerUpdate, Balanced, Lead, queues
  <2>3. Drained' /\ HalvesNearby'
    BY <1>10, <1>2 DEF OnServerUpdate, Drained, HalvesNearby
  <2> QED
    BY <2>1, <2>2, <2>3 DEF Clean
<1>11. CASE GetUp
  <2>1. Pushed(pu, ps)' /\ Chain(status, ps)' /\ Lead(pu, ps) \in -1..1
    BY <1>11, <1>1 DEF GetUp, Pushed, Chain, Balanced
  <2>2. HalvesNearby'
    BY <1>11, <1>2 DEF GetUp, HalvesNearby
  <2>3. CASE up = <<>>
    <3>1. rup' = INVALID_STATUS_UP /\ up' = up
      BY <1>11, <2>3, EmptyPop DEF GetUp
    <3>2. Lead(pu, ps)' = Lead(pu, ps) /\ Lead(pu, ps) >= 0
      BY <1>11, <1>3, <1>4, <2>3, <3>1 DEF GetUp, Lead
    <3>3. Balanced(pu, ps)'
      BY <1>11, <2>1, <3>1, <3>2 DEF GetUp, Balanced
    <3>4. Chain(up, pu)' /\ Drained'
      BY <1>11, <1>1, <2>3, <3>1 DEF GetUp, Chain, Drained
    <3> QED
      BY <2>1, <2>2, <3>3, <3>4 DEF Clean
  <2>4. CASE up # <<>>
    <3>1. /\ rup' = pu - Len(up) + 1 /\ rup' # INVALID_STATUS_UP
          /\ Len(up') = Len(up) - 1 /\ Chain(up', pu)
      BY <1>11, <1>1, <1>3, <2>4, ChainPop DEF GetUp
    <3>2. Lead(pu, ps)' = Lead(pu, ps) + 1
      BY <1>11, <1>3, <3>1 DEF GetUp, Lead
    <3>3. Balanced(pu, ps)'
      BY <1>11, <1>3, <2>1, <3>1, <3>2 DEF GetUp, Balanced
    <3>4. Chain(up, pu)'
      BY <3>1 DEF Chain
    <3>5. Drained'
      BY <1>11, <3>1 DEF GetUp, Drained
    <3> QED
      BY <2>1, <2>2, <3>3, <3>4, <3>5 DEF Clean
  <2> QED
    BY <2>3, <2>4
<1>12. CASE GetStatus
  <2>1. Pushed(pu, ps)' /\ Chain(up, pu)' /\ up' = up /\ rup' = rup /\ rpc = "status"
    BY <1>12, <1>1 DEF GetStatus, Pushed, Chain
  <2>2. HalvesNearby'
    BY <1>12, <1>2 DEF GetStatus, HalvesNearby
  <2>3. rpc' = IF rup # INVALID_STATUS_UP /\ rstatus' # INVALID_STATUS_UP THEN "show" ELSE "idle"
    BY <1>12 DEF GetStatus
  <2>4. /\ rup = INVALID_STATUS_UP => Lead(pu, ps) \in 0..1
        /\ rup # INVALID_STATUS_UP => Lead(pu, ps) \in 0..2 /\ rup = pu - Len(up)
    BY <1>1, <2>1 DEF Balanced
  <2>5. Quiet' <=> Quiet
    BY <1>12 DEF GetStatus, Quiet
  <2>6. Quiet => pu = ps
    BY <1>1, <1>3 DEF Quiet, Pushed
  <2>7. Quiet /\ rup = INVALID_STATUS_UP => Len(up) = 0
    BY <1>2, <2>1 DEF Drained
  <2>8. CASE status = <<>>
    <3>1. rstatus' = INVALID_STATUS_UP /\ status' = status
      BY <1>12, <2>8, EmptyPop DEF GetStatus
    <3>2. rpc' = "idle"
      BY <2>3, <3>1
    <3>3. Lead(pu, ps)' = Lead(pu, ps) /\ Lead(pu, ps) = pu - Len(up) - ps
      BY <1>3, <2>1, <2>8, <3>1 DEF Lead
    <3>4. Lead(pu, ps)' \in -1..1
      BY <1>3, <1>4, <2>4, <3>3
    <3>5. Balanced(pu, ps)'
      BY <3>2, <3>4 DEF Balanced
    <3>6. Quiet => Len(up) = 0
      BY <1>3, <2>4, <2>6, <2>7, <3>3
    <3>7. Drained'
      <4>1. Quiet => up = <<>>
        BY <3>6, <1>3
      <4> QED
        BY <4>1, <2>1, <2>5, <2>8, <3>1, <3>2 DEF Drained
    <3>8. Chain(status, ps)'
      BY <1>1, <3>1 DEF Chain
    <3> QED
      BY <2>1, <2>2, <3>5, <3>7, <3>8 DEF Clean
  <2>9. CASE status # <<>>
    <3>1. /\ rstatus' = ps - Len(status) + 1 /\ rstatus' # INVALID_STATUS_UP
          /\ Len(status') = Len(status) - 1 /\ Chain(status', ps) /\ status' \in Seq(Int)
      BY <1>12, <1>1, <1>3, <2>9, ChainPop DEF GetStatus
    <3>2. Lead(pu, ps)' = Lead(pu, ps) - 1
      BY <1>3, <2>1, <3>1 DEF Lead
    <3>3. rpc' = IF rup # INVALID_STATUS_UP THEN "show" ELSE "idle"
      BY <2>3, <3>1
    <3>4. Lead(pu, ps)' \in -1..1
      <4>1. Lead(pu, ps) \in 0..2
        BY <2>4
      <4> QED
        BY <3>2, <4>1
    <3>5. Balanced(pu, ps)'
      BY <1>3, <2>1, <2>4, <3>1, <3>3, <3>4 DEF Balanced
    <3>6. Quiet /\ rup = INVALID_STATUS_UP => Len(status') = 0
      BY <1>3, <2>4, <2>6, <2>7, <2>9, <3>1 DEF Lead
    <3>7. Drained'
      <4>1. Quiet /\ rup = INVALID_STATUS_UP => up = <<>> /\ status' = <<>>
        BY <3>6, <2>7, <1>3, <3>1
      <4> QED
        BY <4>1, <2>1, <2>5, <3>3 DEF Drained
    <3>8. Chain(status, ps)'
      BY <3>1 DEF Chain
    <3> QED
      BY <2>1, <2>2, <3>5, <3>7, <3>8 DEF Clean
  <2> QED
    BY <2>8, <2>9
<1>13. CASE Show
  <2>1. Pushed(pu, ps)' /\ Chain(up, pu)' /\ Chain(status, ps)'
    BY <1>13, <1>1 DEF Show, Pushed, Chain, queues
  <2>2. Lead(pu, ps) \in -1..1 /\ rup - rstatus = Lead(pu, ps)
    BY <1>13, <1>1, <1>3 DEF Show, Balanced, Lead
  <2>3. Balanced(pu, ps)'
    BY <1>13, <2>2 DEF Show, Balanced, Lead, queues
  <2>4. Drained'
    BY <1>13 DEF Show, Drained
  <2>5. HalvesNearby'
    BY <1>13, <2>2 DEF Show, HalvesNearby
  <2> QED
    BY <2>1, <2>3, <2>4, <2>5 DEF Clean
<1>14. ~RaceUp /\ ~RaceStatus
  BY DEF RaceUp, RaceStatus
<1>15. CASE UNCHANGED vars
  <2>1. Pushed(pu, ps)' /\ Chain(up, pu)' /\ Chain(status, ps)' /\ Balanced(pu, ps)'
    BY <1>15, <1>1 DEF vars, queues, reader, Pushed, Chain, Balanced, Lead
  <2>2. Drained' /\ HalvesNearby'
    BY <1>15, <1>2 DEF vars, queues, reader, Drained, Quiet, HalvesNearby
  <2> QED
    BY <2>1, <2>2 DEF Clean
<1> QED
  BY <1>5, <1>6, <1>7, <1>8, <1>9, <1>10, <1>11, <1>12, <1>13, <1>14, <1>15
     DEF Next, Writer, Reader

LEMMA RacesStay == TypeOK /\ [Next]_vars /\ races' = 0 => races = 0
<1> SUFFICES ASSUME TypeOK, [Next]_vars, races' = 0 PROVE races = 0
  OBVIOUS
<1> USE DEF TypeOK
<1>1. CASE RaceUp
  BY <1>1, BoundsAssumption DEF RaceUp
<1>2. CASE RaceStatus
  BY <1>2, BoundsAssumption DEF RaceStatus
<1>3. CASE Writer \/ Killed \/ Reader \/ UNCHANGED vars
  BY <1>3 DEF Writer, Killed, Reader, Report, PushUp, PushStatus, PostMessage,
     OnServerUpdate, GetUp, GetStatus, Show, vars
<1> QED
  BY <1>1, <1>2, <1>3 DEF Next

LEMMA SpecIInv == Spec => []IInv
<1>1. IInv /\ [Next]_vars => IInv'
  BY NextTypeOK, NextClean, RacesStay DEF IInv
<1> QED
  BY <1>1, InitIInv, PTL DEF Spec

-----------------------------------------------------------------------------
\* The variables of StatusQueue keep their types: in particular the messages that wait
\* never exceed the limit, and a pop never leaves the integers, a collision included.
THEOREM QueueTypeCorrect == Spec => []TypeOK
<1>1. IInv => TypeOK
  BY DEF IInv
<1> QED
  BY <1>1, SpecIInv, PTL

\* For any number of reports and any message limit: the halves OnServerUpdate shows side
\* by side come from the same or from neighbouring calls of updateStatus.
THEOREM HalvesCorrect == Spec => []HalvesNearby
<1>1. IInv => HalvesNearby
  BY DEF IInv, Clean, HalvesNearby
<1> QED
  BY <1>1, SpecIInv, PTL

\* For any number of reports, any message limit and any posts that failed before the
\* latest one: no report stays in the queues without a message to announce it.
THEOREM NothingStrandedCorrect == Spec => []NothingStranded
<1>1. IInv => NothingStranded
  BY DEF IInv, Clean, Drained, Quiet, NothingStranded
<1> QED
  BY <1>1, SpecIInv, PTL

-----------------------------------------------------------------------------
(* The replies left when the server began to hang are read one by one, and the counter
   stands for the pings since, less two for every reply that was read.                *)
HangCounted ==
  server = "hangs" =>
    Left <= hung.left /\ hung.pings <= counter + 2 * (hung.left - Left)

PingIInv == PingTypeOK /\ HangCounted

-----------------------------------------------------------------------------
LEMMA UnreadFinite ==
  ASSUME NEW q \in Seq(Datagrams)
  PROVE  IsFiniteSet(Unread(q)) /\ Cardinality(Unread(q)) \in Nat
<1>1. Unread(q) \subseteq 1..Len(q)
  BY DEF Unread
<1>2. IsFiniteSet(1..Len(q))
  BY FS_Interval
<1> QED  BY <1>1, <1>2, FS_Subset, FS_CardinalityType

(* Reading a datagram leaves one reply less, if it was one. *)
LEMMA UnreadTail ==
  ASSUME NEW q \in Seq(Datagrams), q # <<>>
  PROVE  Cardinality(Unread(q)) =
           Cardinality(Unread(Tail(q))) + IF Head(q) \in Answers THEN 1 ELSE 0
<1> DEFINE rest == Unread(q) \ {1}
           back == [i \in Unread(Tail(q)) |-> i + 1]
<1>1. Len(q) \in Nat \ {0} /\ Head(q) = q[1] /\ Tail(q) \in Seq(Datagrams)
      /\ Len(Tail(q)) = Len(q) - 1 /\ \A i \in 1..Len(q) - 1 : Tail(q)[i] = q[i + 1]
  OBVIOUS
<1>2. \A i : i \in Unread(Tail(q)) <=> i \in 1..Len(q) - 1 /\ q[i + 1] \in Answers
  BY <1>1 DEF Unread
<1>3. \A i : i \in rest <=> i \in 2..Len(q) /\ q[i] \in Answers
  BY <1>1 DEF Unread
<1>4. back \in Bijection(Unread(Tail(q)), rest)
  <2>1. back \in [Unread(Tail(q)) -> rest]
    BY <1>1, <1>2, <1>3
  <2>2. \A i, j \in Unread(Tail(q)) : back[i] = back[j] => i = j
    BY <1>2
  <2>3. \A k \in rest : \E i \in Unread(Tail(q)) : back[i] = k
    <3> TAKE k \in rest
    <3>1. k - 1 \in Unread(Tail(q)) /\ back[k - 1] = k
      BY <1>1, <1>2, <1>3
    <3> QED  BY <3>1
  <2> HIDE DEF rest, back
  <2> QED  BY <2>1, <2>2, <2>3 DEF Bijection, Injection, Surjection, IsInjective
<1>5. /\ IsFiniteSet(Unread(q)) /\ Cardinality(Unread(q)) \in Nat
      /\ IsFiniteSet(Unread(Tail(q))) /\ Cardinality(Unread(Tail(q))) \in Nat
  BY <1>1, UnreadFinite
<1>6. Cardinality(rest) = Cardinality(Unread(Tail(q)))
  BY <1>4, <1>5, FS_Bijection DEF ExistsBijection
<1>7. 1 \in Unread(q) <=> Head(q) \in Answers
  BY <1>1 DEF Unread
<1>8. CASE Head(q) \in Answers
  <2>1. Cardinality(rest) = Cardinality(Unread(q)) - 1
    BY <1>5, <1>7, <1>8, FS_RemoveElement
  <2> QED  BY <2>1, <1>5, <1>6, <1>8
<1>9. CASE Head(q) \notin Answers
  <2>1. rest = Unread(q)
    BY <1>7, <1>9
  <2>2. Cardinality(Unread(q)) = Cardinality(Unread(Tail(q)))
    BY <2>1, <1>6
  <2> QED  BY <2>2, <1>5, <1>9
<1> QED  BY <1>8, <1>9

(* A datagram of somebody else is no reply. *)
LEMMA UnreadStrange ==
  ASSUME NEW q \in Seq(Datagrams), NEW k \in Strangers
  PROVE  Unread(Append(q, k)) = Unread(q)
<1>1. \A i \in 1..Len(q) : Append(q, k)[i] = q[i]
  OBVIOUS
<1>2. Append(q, k)[Len(q) + 1] = k /\ DOMAIN Append(q, k) = 1..Len(q) + 1 /\ Len(q) \in Nat
  OBVIOUS
<1>3. k \notin Answers
  BY DEF Answers, Strangers
<1> QED  BY <1>1, <1>2, <1>3 DEF Unread

LEMMA InitHolds == PingInit => PingIInv
<1> SUFFICES ASSUME PingInit PROVE PingIInv
  OBVIOUS
<1>1. PingTypeOK
  <2>1. 0 \in 0..Buffer /\ 1 \in 0..(Limit - 1)
    BY SocketAssumption
  <2>2. <<>> \in Seq(Datagrams) /\ Len(<<>>) <= Buffer
    BY SocketAssumption
  <2>3. [pings |-> 0, left |-> 0] \in [pings : Nat, left : Nat]
    OBVIOUS
  <2> QED  BY <2>1, <2>2, <2>3 DEF PingInit, PingTypeOK
<1>2. HangCounted
  BY DEF PingInit, HangCounted
<1> QED  BY <1>1, <1>2 DEF PingIInv

LEMMA ReceiveType ==
  ASSUME inbox \in Seq(Datagrams), Len(inbox) <= Buffer, NEW k \in Datagrams, Receive(k)
  PROVE  inbox' \in Seq(Datagrams) /\ Len(inbox') <= Buffer
  BY SocketAssumption DEF Receive

(* The steps of the other side. *)
LEMMA OtherSide ==
  ASSUME PingIInv, Boot \/ Hang \/ Exit \/ Answer \/ Unreachable \/ \E k \in Strangers : Stranger(k)
  PROVE  PingIInv'
<1> USE DEF PingIInv
<1>0. inbox \in Seq(Datagrams) /\ Cardinality(Unread(inbox)) \in Nat
  BY UnreadFinite DEF PingTypeOK
<1>1. CASE Boot
  BY <1>1 DEF Boot, PingTypeOK, HangCounted, net, ping
<1>2. CASE Hang
  <2>1. Left \in Nat /\ Left' = Left
    BY <1>0, <1>2 DEF Hang, Left, PingTypeOK, net, ping
  <2>2. PingTypeOK'
    BY <1>2, <2>1 DEF Hang, PingTypeOK, net, ping
  <2>3. hung'.left = Left /\ hung'.pings = 0 /\ counter' = counter
    BY <1>2 DEF Hang, ping
  <2> QED  BY <2>1, <2>2, <2>3, SocketAssumption DEF HangCounted, PingTypeOK
<1>3. CASE Exit
  BY <1>3, SocketAssumption DEF Exit, PingTypeOK, HangCounted, ping
<1>4. CASE Answer
  <2>1. inbox' \in Seq(Datagrams) /\ Len(inbox') <= Buffer
    BY <1>4, ReceiveType DEF Answer, PingTypeOK, Datagrams
  <2> QED  BY <1>4, <2>1, SocketAssumption DEF Answer, PingTypeOK, HangCounted, ping
<1>5. CASE Unreachable
  <2>1. inbox' \in Seq(Datagrams) /\ Len(inbox') <= Buffer
    BY <1>5, ReceiveType DEF Unreachable, PingTypeOK, Datagrams
  <2> QED  BY <1>5, <2>1, SocketAssumption DEF Unreachable, PingTypeOK, HangCounted, ping
<1>6. ASSUME NEW k \in Strangers, Stranger(k) PROVE PingIInv'
  <2>1. Receive(k)
    BY <1>6 DEF Stranger
  <2>2. inbox' \in Seq(Datagrams) /\ Len(inbox') <= Buffer
    BY <2>1, ReceiveType DEF PingTypeOK, Datagrams
  <2>3. PingTypeOK'
    BY <1>6, <2>2, SocketAssumption DEF Stranger, PingTypeOK, ping
  <2>4. Unread(inbox') = Unread(inbox)
    BY <1>0, <2>1, UnreadStrange DEF Receive
  <2>5. Left' = Left
    BY <1>6, <2>4 DEF Stranger, Left, ping
  <2> QED  BY <1>6, <2>3, <2>5 DEF Stranger, HangCounted, ping
<1> QED  BY <1>1, <1>2, <1>3, <1>4, <1>5, <1>6

(* A reply takes back one miss and was owed one; a miss is counted. *)
LEMMA Sums ==
  ASSUME NEW l \in Nat, NEW m \in Nat, NEW h \in Nat, NEW p \in Nat, NEW q \in Nat,
         NEW c \in Nat, NEW d \in Nat,
         l <= h, p <= c + 2 * (h - l), q <= p + 1,
         (l >= m + 1 /\ d >= c - 1) \/ (l >= m /\ d >= c + 1)
  PROVE  m <= h /\ q <= d + 2 * (h - m)
  OBVIOUS

(* The end of a ping, whose result is among the replies counted before. *)
LEMMA FinishHolds ==
  ASSUME PingIInv, NEW result \in BOOLEAN, Finish(result),
         inbox' \in Seq(Datagrams), Len(inbox') <= Buffer,
         Left >= Cardinality(Unread(inbox')) + IF result THEN 1 ELSE 0
  PROVE  PingIInv'
<1>1. PingTypeOK'
  <2>1. counter' \in 0..(Limit - 1)
    BY SocketAssumption DEF PingIInv, PingTypeOK, Finish, Restart
  <2>2. hung' \in [pings : Nat, left : Nat]
    <3>1. Counted(hung.pings) \in Nat
      BY DEF Counted, PingIInv, PingTypeOK
    <3> QED  BY <3>1 DEF PingIInv, PingTypeOK, Finish
  <2>3. server' \in {"booting", "up", "hangs", "gone"} /\ asked' \in 0..Buffer
    BY SocketAssumption DEF PingIInv, PingTypeOK, Finish, Restart
  <2> QED  BY <2>1, <2>2, <2>3 DEF PingIInv, PingTypeOK, Finish
<1>2. Cardinality(Unread(inbox')) \in Nat
  BY UnreadFinite
<1>3. Left' = Cardinality(Unread(inbox'))
  BY <1>2 DEF Finish, Left
<1>4. Left \in Nat /\ Left' \in Nat
  <2>1. Cardinality(Unread(inbox)) \in Nat
    BY UnreadFinite DEF PingIInv, PingTypeOK
  <2> QED  BY <2>1, <1>2, <1>3 DEF Left
<1>5. ASSUME server' = "hangs" PROVE Left' <= hung'.left /\ hung'.pings <= counter' + 2 * (hung'.left - Left')
  <2>1. server = "hangs" /\ (result \/ counter + 2 <= Limit)
    BY <1>5 DEF Finish, Restart
  <2>2. Left <= hung.left /\ hung.pings <= counter + 2 * (hung.left - Left)
    BY <2>1 DEF PingIInv, HangCounted
  <2>3. hung'.left = hung.left /\ hung'.pings <= hung.pings + 1
    BY <2>1, SocketAssumption DEF Finish, Counted, PingIInv, PingTypeOK
  <2>4. /\ hung.left \in Nat /\ hung.pings \in Nat /\ hung'.pings \in Nat
        /\ counter \in Nat /\ counter' \in Nat
    BY <1>1 DEF PingIInv, PingTypeOK
  <2>5. counter' >= IF result THEN counter - 1 ELSE counter + 1
    BY <2>1, <2>4 DEF Finish
  <2>6. CASE result
    <3>1. Left >= Left' + 1 /\ counter' >= counter - 1
      BY <1>3, <2>5, <2>6
    <3> QED  BY <3>1, <1>4, <2>2, <2>3, <2>4, Sums
  <2>7. CASE ~result
    <3>1. Left >= Left' /\ counter' >= counter + 1
      BY <1>2, <1>3, <1>4, <2>5, <2>7
    <3> QED  BY <3>1, <1>4, <2>2, <2>3, <2>4, Sums
  <2> QED  BY <2>6, <2>7
<1> QED  BY <1>1, <1>5 DEF PingIInv, HangCounted

(* The steps of the monitor. *)
LEMMA MonitorHolds == PingIInv /\ Monitor => PingIInv'
<1> SUFFICES ASSUME PingIInv, Monitor PROVE PingIInv'
  OBVIOUS
<1>0. /\ inbox \in Seq(Datagrams) /\ Len(inbox) <= Buffer /\ ret \in BOOLEAN
      /\ Cardinality(Unread(inbox)) \in Nat
  BY UnreadFinite DEF PingIInv, PingTypeOK
<1>1. ASSUME inbox # <<>>
      PROVE  /\ Tail(inbox) \in Seq(Datagrams) /\ Len(Tail(inbox)) <= Buffer
             /\ Cardinality(Unread(Tail(inbox))) \in Nat
             /\ Cardinality(Unread(inbox)) =
                  Cardinality(Unread(Tail(inbox))) + IF Head(inbox) \in Answers THEN 1 ELSE 0
  <2>1. Tail(inbox) \in Seq(Datagrams) /\ Len(Tail(inbox)) <= Len(inbox) /\ Len(Tail(inbox)) \in Nat /\ Len(inbox) \in Nat
    BY <1>0, <1>1
  <2>2. Len(Tail(inbox)) <= Buffer
    BY <1>0, <2>1, SocketAssumption
  <2> QED  BY <1>0, <1>1, <2>1, <2>2, UnreadFinite, UnreadTail
<1>2. CASE sendTo
  <2>1. PingTypeOK'
    <3>1. asked' \in 0..Buffer
      BY <1>2, SocketAssumption DEF sendTo, PingIInv, PingTypeOK
    <3> QED  BY <1>2, <3>1 DEF sendTo, PingIInv, PingTypeOK
  <2>2. Left' <= Left /\ Left' \in Nat /\ Left \in Nat
    BY <1>0, <1>2 DEF sendTo, Left
  <2>3. server' = server /\ hung' = hung /\ counter' = counter
    BY <1>2 DEF sendTo
  <2>4. hung.left \in Nat /\ hung.pings \in Nat /\ counter \in Nat
    BY DEF PingIInv, PingTypeOK
  <2> QED  BY <2>1, <2>2, <2>3, <2>4 DEF PingIInv, HangCounted
<1>3. CASE SelectTimeout
  BY <1>0, <1>3, FinishHolds DEF SelectTimeout, Left
<1>4. CASE RecvFull
  <2>1. PingTypeOK'
    BY <1>0, <1>1, <1>4 DEF RecvFull, PingIInv, PingTypeOK
  <2>2. "full" \in Answers /\ "strange_full" \notin Answers
    BY DEF Answers
  <2>3. Left' <= Left /\ Left' \in Nat /\ Left \in Nat
    BY <1>0, <1>1, <1>4, <2>2 DEF RecvFull, Left
  <2>4. server' = server /\ hung' = hung /\ counter' = counter
    BY <1>4 DEF RecvFull
  <2>5. hung.left \in Nat /\ hung.pings \in Nat /\ counter \in Nat
    BY DEF PingIInv, PingTypeOK
  <2> QED  BY <2>1, <2>3, <2>4, <2>5 DEF PingIInv, HangCounted
<1>5. CASE RecvLast
  <2> DEFINE result == ret \/ Head(inbox) = "reply"
  <2>1. result \in BOOLEAN /\ Finish(result) /\ inbox' = Tail(inbox)
    BY <1>0, <1>5 DEF RecvLast
  <2>2. "reply" \in Answers
    BY DEF Answers
  <2>3. Left >= Cardinality(Unread(inbox')) + IF result THEN 1 ELSE 0
    <3>1. inbox # <<>> /\ Head(inbox) \in {"reply", "strange"}
      BY <1>5 DEF RecvLast
    <3> QED  BY <1>0, <1>1, <2>1, <2>2, <3>1 DEF Left
  <2> HIDE DEF result
  <2> QED  BY <1>1, <1>5, <2>1, <2>3, FinishHolds DEF RecvLast
<1>6. CASE RecvError
  <2>1. server' = "booting" /\ asked' = 0 /\ counter' = 0
    BY <1>6 DEF RecvError, Restart
  <2>2. inbox' \in Seq(Datagrams) /\ Len(inbox') <= Buffer
    BY <1>1, <1>6 DEF RecvError
  <2>3. hung' \in [pings : Nat, left : Nat]
    BY <1>6 DEF RecvError, PingIInv, PingTypeOK
  <2>4. PingTypeOK'
    <3>1. counter' \in 0..(Limit - 1) /\ asked' \in 0..Buffer
      BY <2>1, SocketAssumption
    <3> QED  BY <1>6, <2>1, <2>2, <2>3, <3>1 DEF RecvError, PingIInv, PingTypeOK
  <2> QED  BY <2>1, <2>4 DEF PingIInv, HangCounted
<1>7. CASE SendError
  <2>1. server' = "booting" /\ asked' = 0 /\ counter' = 0
    BY <1>7 DEF SendError, Restart
  <2>2. hung' \in [pings : Nat, left : Nat]
    BY <1>7 DEF SendError, PingIInv, PingTypeOK
  <2>3. PingTypeOK'
    <3>1. counter' \in 0..(Limit - 1) /\ asked' \in 0..Buffer
      BY <2>1, SocketAssumption
    <3> QED  BY <1>7, <2>1, <2>2, <3>1 DEF SendError, PingIInv, PingTypeOK
  <2> QED  BY <2>1, <2>3 DEF PingIInv, HangCounted
<1> QED  BY <1>2, <1>3, <1>4, <1>5, <1>6, <1>7 DEF Monitor

LEMMA StepHolds == PingIInv /\ [PingNext]_pingVars => PingIInv'
<1>1. CASE UNCHANGED pingVars
  BY <1>1 DEF pingVars, net, ping, PingIInv, PingTypeOK, HangCounted, Left
<1> QED  BY <1>1, OtherSide, MonitorHolds DEF PingNext

LEMMA Invariance == PingSpec => []PingIInv
  BY InitHolds, StepHolds, PTL DEF PingSpec

-----------------------------------------------------------------------------
(* The socket, the ping under way and the counter of start() keep their types, and the
   receive buffer its length.                                                          *)
THEOREM SocketTypeCorrect == PingSpec => []PingTypeOK
<1>1. PingIInv => PingTypeOK
  BY DEF PingIInv
<1> QED  BY <1>1, Invariance, PTL

(* However long the limit and the buffer, and whatever other peers send: start() restarts
   a server that hangs by its Limit-th ping, or two later for each reply it left behind.  *)
THEOREM HangCorrect == PingSpec => []HangNoticed
<1>1. PingIInv => HangNoticed
  <2> SUFFICES ASSUME PingIInv, server = "hangs"
               PROVE  hung.pings < Limit + 2 * hung.left
    BY DEF HangNoticed
  <2>1. Left \in Nat
    BY UnreadFinite DEF PingIInv, PingTypeOK, Left
  <2>2. hung.pings \in Nat /\ hung.left \in Nat /\ counter \in 0..(Limit - 1)
    BY DEF PingIInv, PingTypeOK
  <2> QED  BY <2>1, <2>2, SocketAssumption DEF PingIInv, HangCounted
<1> QED  BY <1>1, Invariance, PTL
=============================================================================
