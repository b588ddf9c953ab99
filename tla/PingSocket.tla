----------------------------- MODULE PingSocket -----------------------------
(***************************************************************************)
(* The ping of a game server (pingOnce, Control.cpp; UDPClient) datagram   *)
(* by datagram.  One socket serves every ping and every process the        *)
(* monitor starts, and a ping does not say which datagram answers it: what *)
(* came late, or from an earlier process, is there for the next ping.      *)
(* The monitor loop around it is start() reduced to its counter; the       *)
(* start-up time and the pause are whatever the server gets done in them.  *)
(***************************************************************************)
EXTENDS Integers, Sequences, FiniteSets

CONSTANTS
  Limit,        \* start() restarts the server when counter > Limit; the code has 10
  Buffer        \* datagrams that fit into the receive buffer of the socket

ASSUME SocketAssumption ==
  /\ Limit \in Nat /\ Limit >= 2
  /\ Buffer \in Nat \ {0}

VARIABLES
  server,     \* the process: port not open yet, answering, hanging, gone
  asked,      \* pings that reached its host and are not answered
  inbox,      \* datagrams in the socket
  pc, ret,    \* pingOnce: between two pings, or at select with its result so far
  counter,    \* start()'s local counter
  hung        \* history: pings since the server hangs; replies it had left behind

net == <<asked, inbox>>
ping == <<pc, ret, counter>>
pingVars == <<server, net, ping, hung>>

\* What recvFrom finds: datagrams of the server or of others that fit, that fill the
\* BSIZE bytes of buff, or that are larger; and the ICMP error of a closed port.
Answers == {"reply", "full", "large"}
Strangers == {"strange", "strange_full", "strange_large"}
Datagrams == Answers \cup Strangers \cup {"reset"}

PingTypeOK ==
  /\ server \in {"booting", "up", "hangs", "gone"}
  /\ asked \in 0..Buffer
  /\ inbox \in Seq(Datagrams) /\ Len(inbox) <= Buffer
  /\ pc \in {"pause", "select"} /\ ret \in BOOLEAN
  /\ counter \in 0..(Limit - 1)
  /\ hung \in [pings : Nat, left : Nat]

PingInit ==
  /\ server = "booting" /\ asked = 0 /\ inbox = <<>>
  /\ pc = "pause" /\ ret = FALSE /\ counter = 1
  /\ hung = [pings |-> 0, left |-> 0]

\* A full buffer drops what comes in.
Receive(kind) == inbox' = IF Len(inbox) < Buffer THEN Append(inbox, kind) ELSE inbox

-----------------------------------------------------------------------------
\* The other side.
Boot ==
  /\ server = "booting" /\ server' = "up"
  /\ UNCHANGED <<net, ping, hung>>

\* The replies that are still to be read, and the one the ping under way has read.
Unread(q) == {i \in DOMAIN q : q[i] \in Answers}
Left == Cardinality(Unread(inbox)) + IF ret THEN 1 ELSE 0

Hang ==
  /\ server = "up" /\ server' = "hangs"
  /\ hung' = [pings |-> 0, left |-> Left]
  /\ UNCHANGED <<net, ping>>

Exit ==
  /\ server \in {"up", "hangs"} /\ server' = "gone"
  /\ asked' = 0
  /\ UNCHANGED <<inbox, ping, hung>>

\* A ping is answered, by one datagram or by one of several, or its answer is lost.
Answer ==
  /\ server = "up" /\ asked > 0
  /\ asked' \in {asked, asked - 1}
  /\ (\E k \in Answers : Receive(k)) \/ (asked' < asked /\ inbox' = inbox)
  /\ UNCHANGED <<server, ping, hung>>

\* Nobody listens on the port: its host says so.
Unreachable ==
  /\ server \in {"booting", "gone"} /\ asked > 0
  /\ asked' = asked - 1
  /\ Receive("reset") \/ inbox' = inbox
  /\ UNCHANGED <<server, ping, hung>>

\* Other peers send what they like, when they like.
Stranger(kind) ==
  /\ Receive(kind)
  /\ UNCHANGED <<server, asked, ping, hung>>

StrangerFull == Stranger("strange_full")

-----------------------------------------------------------------------------
\* The Sleep is over; sendTo, whose datagram may be lost.
sendTo ==
  /\ pc = "pause" /\ pc' = "select" /\ ret' = FALSE
  /\ asked' \in {asked, IF asked < Buffer THEN asked + 1 ELSE asked}
  /\ UNCHANGED <<server, inbox, counter, hung>>

\* endProcess and createProcess; the socket stays as it is.
Restart ==
  /\ server' = "booting" /\ asked' = 0
  /\ counter' = 0

\* sendTo throws: start() catches it and lets the process respawn immediately.
SendError ==
  /\ pc = "pause"
  /\ Restart
  /\ hung' = [hung EXCEPT !.pings = 0]
  /\ UNCHANGED <<inbox, pc, ret>>

\* The history counts pings as far as HangNoticed can tell them apart.
Counted(n) == IF n < Limit + 2 * (Buffer + 1) THEN n + 1 ELSE n

\* As Finish with the limit off by one.
FinishLate(result) ==
  /\ pc' = "pause" /\ ret' = FALSE
  /\ hung' = [hung EXCEPT !.pings = IF server = "hangs" THEN Counted(@) ELSE 0]
  /\ IF result \/ counter + 1 <= Limit
     THEN /\ counter' = IF ~result THEN counter + 1
                        ELSE IF counter > 0 THEN counter - 1 ELSE counter
          /\ UNCHANGED <<server, asked>>
     ELSE Restart

\* pingOnce returns, and start() does its sums.
Finish(result) ==
  /\ pc' = "pause" /\ ret' = FALSE
  /\ hung' = [hung EXCEPT !.pings = IF server = "hangs" THEN Counted(@) ELSE 0]
  /\ IF result \/ counter + 2 <= Limit
     THEN /\ counter' = IF ~result THEN counter + 1
                        ELSE IF counter > 0 THEN counter - 1 ELSE counter
          /\ UNCHANGED <<server, asked>>
     ELSE Restart

\* select: nothing arrives within the time-out.
SelectTimeout ==
  /\ pc = "select" /\ inbox = <<>>
  /\ Finish(ret)
  /\ UNCHANGED inbox

\* recvFrom fills the buffer: the loop goes on for what else there is.
RecvFull ==
  /\ pc = "select" /\ inbox # <<>> /\ Head(inbox) \in {"full", "strange_full"}
  /\ inbox' = Tail(inbox)
  /\ ret' = (ret \/ Head(inbox) = "full")
  /\ UNCHANGED <<server, asked, pc, counter, hung>>

\* As RecvLast with the address of the peer not looked at, and the datagram left there.
RecvPeek ==
  /\ pc = "select" /\ inbox # <<>> /\ Head(inbox) \in {"reply", "strange"}
  /\ Finish(ret \/ Head(inbox) = "reply")
  /\ UNCHANGED inbox

\* recvFrom reads a smaller one, which ends the loop whoever sent it.
RecvLast ==
  /\ pc = "select" /\ inbox # <<>> /\ Head(inbox) \in {"reply", "strange"}
  /\ inbox' = Tail(inbox)
  /\ Finish(ret \/ Head(inbox) = "reply")

\* recvFrom throws: WSAECONNRESET, or WSAEMSGSIZE for a datagram larger than buff.
\* The process respawns immediately here, too.
RecvError ==
  /\ pc = "select" /\ inbox # <<>> /\ Head(inbox) \in {"reset", "large", "strange_large"}
  /\ inbox' = Tail(inbox)
  /\ pc' = "pause" /\ ret' = FALSE
  /\ Restart
  /\ hung' = [hung EXCEPT !.pings = 0]

Monitor == sendTo \/ SendError \/ SelectTimeout \/ RecvFull \/ RecvLast \/ RecvError

PingNext ==
  \/ Monitor
  \/ Boot \/ Hang \/ Exit \/ Answer \/ Unreachable
  \/ \E k \in Strangers : Stranger(k)

PingSpec == PingInit /\ [][PingNext]_pingVars

\* The check thread is scheduled and select returns; the server and the network owe nothing.
PingFairSpec == PingSpec /\ WF_pingVars(Monitor)

-----------------------------------------------------------------------------
\* A server that hangs is noticed although its late replies count for later pings
\* (pingOnce looks at the peer only): each of them buys it one reply and takes back
\* one miss, so it is restarted by the Limit-th ping, or two later for each reply left.
HangNoticed ==
  server = "hangs" => hung.pings < Limit + 2 * hung.left

\* A server that hangs does not stay: the monitor restarts it, or it ends by itself and
\* another takes its place.  Assumed is that other peers do not send datagrams of exactly
\* BSIZE bytes for ever: each of them that arrives within the time-out keeps pingOnce in its
\* loop (Control.cpp:145), where neither the counter nor *go is looked at.  Any others,
\* however many, leave the loop.
HangEnds == (server = "hangs" ~> server # "hangs") \/ []<><<StrangerFull>>_pingVars
=============================================================================
