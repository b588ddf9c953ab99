-------------------------- MODULE ServerListProofs --------------------------
(***************************************************************************)
(* Machine-checked proofs about ServerList, for any set of addresses and   *)
(* of threads, any file and any length of the list and of the queue.       *)
(*                                                                         *)
(* First the operators on lists and rows (what taking out, putting in,     *)
(* searching and repainting do to a sequence), then the handlers by their  *)
(* effect (StepIs), then IInv part by part.  The parts beyond the          *)
(* properties of ServerList say what the rows are while Delete waits, that *)
(* no row has a number beyond the list, what stopServer waits for, what    *)
(* threads and messages point to and what the lower pane shows.            *)
(***************************************************************************)
EXTENDS ServerList, SequenceTheorems, WellFoundedInduction, TLAPS

Row == [nr : Int, text : Addr, status : Addr]

Past == [addFailed : BOOLEAN, stale : BOOLEAN, freedLive : BOOLEAN, freedQueued : BOOLEAN]

\* One row for each server of s, in the order of s, with the reports of that server.
RowsOf(s) ==
  /\ Len(rows) = Len(s)
  /\ \A i \in 1..Len(s) : rows[i].nr = i /\ rows[i].status = s[i]

\* RowsMatch, and what the rows are while Delete waits with one of them gone.
RowsStrong ==
  ~past.addFailed =>
    IF ui.at = "deleting" THEN RowsOf(RemoveAt(servers, selected + 1))
    ELSE /\ RowsOf(servers)
         /\ ~past.stale => \A i \in 1..Len(rows) : rows[i].text = servers[i]

\* Whatever failed before, no row has a number beyond the list, so that no click selects one.
RowNumbers ==
  \A i \in DOMAIN rows :
    rows[i].nr <= IF ui.at = "deleting" THEN Len(servers) - 1 ELSE Len(servers)

\* stopServer waits for a thread of the selected server.
WaitsFor ==
  ui.at \in {"stopping", "deleting"} =>
    selected \in 0..(Len(servers) - 1) /\ ui.sc = servers[selected + 1]

\* The server catch (...) is about to delete is one that no thread knows of.
FailedNew ==
  ui.at = "failed" /\ ui.sc # None =>
    past.addFailed /\ (past.freedLive \/ \A t \in Threads : th[t].pc # "none" => th[t].sc # ui.sc)

\* Threads and messages point to servers that exist, unless one was freed under them.
Living ==
  fault = "none" =>
    /\ past.freedLive \/ \A t \in Threads : th[t].pc # "none" => th[t].sc \in heap
    /\ past.freedQueued \/ \A i \in 1..Len(msgs) : msgs[i] \in heap

\* The lower pane shows the selected server, unless a Delete could not save.
PaneShows == fault = "none" /\ ~past.stale => pane = getSelectedServer(servers, selected)

IInv ==
  /\ TypeOK /\ ListOwned /\ SelectedValid /\ WaitsFor /\ RowNumbers /\ RowsStrong
  /\ FailedNew /\ Living /\ PaneShows /\ FaultHasCause

-----------------------------------------------------------------------------
(* The operators on lists and rows.                                        *)

\* A set of positions that is not empty has a first one.
LEMMA FirstExists ==
  ASSUME NEW T, T \subseteq Nat, T # {}
  PROVE  \E i \in T : \A j \in T : ~(j < i)
<1> DEFINE R == OpToRel(<, Nat)
<1>1. IsWellFoundedOn(R, Nat)
  BY NatLessThanWellFounded
<1>2. PICK i \in T : \A j \in T : ~(<<j, i>> \in R)
  <2> HIDE DEF R
  <2> QED
    BY <1>1, WFMin
<1>3. \A j \in T : j < i => <<j, i>> \in R
  BY DEF OpToRel
<1> QED
  BY <1>2, <1>3

\* getServerNumber is the first position of sc, from 0, or -1.
LEMMA NumberIs ==
  ASSUME NEW S, NEW s \in Seq(S), NEW sc
  PROVE  /\ getServerNumber(s, sc) \in -1..(Len(s) - 1)
         /\ getServerNumber(s, sc) # -1 => s[getServerNumber(s, sc) + 1] = sc
         /\ (\E i \in 1..Len(s) : s[i] = sc) => getServerNumber(s, sc) # -1
<1> DEFINE T == {i \in 1..Len(s) : s[i] = sc}
<1>0. Len(s) \in Nat /\ DOMAIN s = 1..Len(s)
  BY LenProperties
<1>1. CASE T = {}
  BY <1>0, <1>1 DEF getServerNumber
<1>2. CASE T # {}
  <2>1. \E i \in T : \A j \in T : ~(j < i)
    <3>1. T \subseteq Nat
      BY <1>0
    <3> HIDE DEF T
    <3> QED
      BY <1>2, <3>1, FirstExists
  <2> DEFINE First(i) == s[i] = sc /\ \A j \in 1..(i - 1) : s[j] # sc
  <2>2. \E i \in DOMAIN s : First(i)
    BY <1>0, <2>1
  <2> DEFINE c == CHOOSE i \in DOMAIN s : First(i)
  <2>3. c \in DOMAIN s /\ First(c)
    <3> HIDE DEF First
    <3> QED BY <2>2
  <2>4. getServerNumber(s, sc) = c - 1
    BY <1>0, <1>2 DEF getServerNumber
  <2> HIDE DEF c
  <2> QED
    BY <1>0, <2>3, <2>4
<1> QED
  BY <1>1, <1>2

\* In a list without doubles it is the only one.
LEMMA NumberOfOne ==
  ASSUME NEW S, NEW s \in Seq(S), IsInjective(s), NEW i \in 1..Len(s)
  PROVE  getServerNumber(s, s[i]) = i - 1
BY NumberIs, LenProperties DEF IsInjective

LEMMA RemoveAtIs ==
  ASSUME NEW S, NEW s \in Seq(S), NEW k \in 1..Len(s)
  PROVE  /\ RemoveAt(s, k) \in Seq(S)
         /\ Len(RemoveAt(s, k)) = Len(s) - 1
         /\ \A i \in 1..(Len(s) - 1) : RemoveAt(s, k)[i] = IF i < k THEN s[i] ELSE s[i + 1]
<1> DEFINE a == SubSeq(s, 1, k - 1)
           b == SubSeq(s, k + 1, Len(s))
<1>0. Len(s) \in Nat /\ \A i \in 1..Len(s) : s[i] \in S
  BY LenProperties, ElementOfSeq
<1>1. a \in Seq(S) /\ Len(a) = k - 1 /\ \A i \in 1..(k - 1) : a[i] = s[i]
  BY <1>0, SubSeqProperties
<1>2. b \in Seq(S) /\ Len(b) = Len(s) - k /\ \A i \in 1..(Len(s) - k) : b[i] = s[k + i]
  BY <1>0, SubSeqProperties
<1>3. RemoveAt(s, k) = a \o b
  BY DEF RemoveAt
<1> HIDE DEF a, b
<1>4. /\ a \o b \in Seq(S) /\ Len(a \o b) = Len(a) + Len(b)
      /\ \A i \in 1..(Len(a) + Len(b)) : (a \o b)[i] = IF i <= Len(a) THEN a[i] ELSE b[i - Len(a)]
  BY <1>1, <1>2, ConcatProperties
<1> QED
  BY <1>0, <1>1, <1>2, <1>3, <1>4

LEMMA InsertAtIs ==
  ASSUME NEW S, NEW s \in Seq(S), NEW e \in S, NEW k \in 1..(Len(s) + 1)
  PROVE  /\ InsertAt(s, k, e) \in Seq(S)
         /\ Len(InsertAt(s, k, e)) = Len(s) + 1
         /\ \A i \in 1..(Len(s) + 1) :
              InsertAt(s, k, e)[i] = IF i < k THEN s[i] ELSE IF i = k THEN e ELSE s[i - 1]
<1> DEFINE a == SubSeq(s, 1, k - 1)
           b == SubSeq(s, k, Len(s))
           m == a \o <<e>>
<1>0. Len(s) \in Nat /\ \A i \in 1..Len(s) : s[i] \in S
  BY LenProperties, ElementOfSeq
<1>1. a \in Seq(S) /\ Len(a) = k - 1 /\ \A i \in 1..(k - 1) : a[i] = s[i]
  BY <1>0, SubSeqProperties
<1>2. b \in Seq(S) /\ Len(b) = Len(s) - k + 1 /\ \A i \in 1..(Len(s) - k + 1) : b[i] = s[k + i - 1]
  BY <1>0, SubSeqProperties
<1>3. InsertAt(s, k, e) = m \o b
  BY DEF InsertAt
<1> HIDE DEF a, b
<1>4. m \in Seq(S) /\ Len(m) = k /\ m[k] = e /\ \A i \in 1..(k - 1) : m[i] = a[i]
  <2>1. m = Append(a, e)
    BY <1>1, AppendIsConcat
  <2>2. /\ Append(a, e) \in Seq(S) /\ Len(Append(a, e)) = Len(a) + 1
        /\ \A i \in 1..Len(a) : Append(a, e)[i] = a[i]
        /\ Append(a, e)[Len(a) + 1] = e
    BY <1>1, AppendProperties
  <2>3. Len(a) = k - 1 /\ k \in Nat
    BY <1>0, <1>1
  <2> HIDE DEF m
  <2> QED
    BY <2>1, <2>2, <2>3
<1> HIDE DEF m
<1>5. /\ m \o b \in Seq(S) /\ Len(m \o b) = Len(m) + Len(b)
      /\ \A i \in 1..(Len(m) + Len(b)) : (m \o b)[i] = IF i <= Len(m) THEN m[i] ELSE b[i - Len(m)]
  BY <1>2, <1>4, ConcatProperties
<1> QED
  BY <1>0, <1>1, <1>2, <1>3, <1>4, <1>5

LEMMA FunIsSeq ==
  ASSUME NEW S, NEW n \in Nat, NEW f \in [1..n -> S]
  PROVE  f \in Seq(S) /\ Len(f) = n
OBVIOUS

\* A sequence of rows whose numbers or texts are written again.
LEMMA RowsAgain ==
  ASSUME NEW rs \in Seq(Row), NEW f, DOMAIN f = DOMAIN rs, \A i \in DOMAIN rs : f[i] \in Row,
         f = [i \in DOMAIN f |-> f[i]]
  PROVE  f \in Seq(Row) /\ Len(f) = Len(rs)
<1>1. Len(rs) \in Nat /\ DOMAIN rs = 1..Len(rs)
  BY LenProperties
<1>2. f \in [1..Len(rs) -> Row]
  BY <1>1
<1> QED
  BY <1>1, <1>2, FunIsSeq

\* OnUpdate of the list view changes texts only, and all of them when the list has no
\* doubles.
LEMMA TextsIs ==
  ASSUME NEW rs \in Seq(Row), NEW s \in Seq(Addr)
  PROVE  /\ Texts(rs, s) \in Seq(Row) /\ Len(Texts(rs, s)) = Len(rs)
         /\ \A i \in 1..Len(rs) :
              /\ Texts(rs, s)[i].nr = rs[i].nr /\ Texts(rs, s)[i].status = rs[i].status
              /\ IsInjective(s) /\ i <= Len(s) => Texts(rs, s)[i].text = s[i]
<1>0. /\ Len(rs) \in Nat /\ DOMAIN rs = 1..Len(rs) /\ \A i \in 1..Len(rs) : rs[i] \in Row
      /\ Len(s) \in Nat /\ DOMAIN s = 1..Len(s) /\ \A i \in 1..Len(s) : s[i] \in Addr
  BY LenProperties, ElementOfSeq
<1> DEFINE hit(i) == i \in DOMAIN s /\ getServerNumber(s, s[i]) = i - 1
           new(i) == IF hit(i) THEN [rs[i] EXCEPT !.text = s[i]] ELSE rs[i]
<1>1. Texts(rs, s) = [i \in DOMAIN rs |-> new(i)]
  BY DEF Texts
<1>2. \A i \in 1..Len(rs) :
        /\ new(i) \in Row /\ new(i).nr = rs[i].nr /\ new(i).status = rs[i].status
        /\ hit(i) => new(i).text = s[i]
  <2> TAKE i \in 1..Len(rs)
  <2>1. hit(i) => s[i] \in Addr
    BY <1>0
  <2> HIDE DEF hit
  <2> QED
    BY <1>0, <2>1 DEF Row
<1>3. \A i \in 1..Len(rs) : IsInjective(s) /\ i <= Len(s) => hit(i)
  BY <1>0, NumberOfOne
<1> HIDE DEF hit, new
<1>4. Texts(rs, s) \in Seq(Row) /\ Len(Texts(rs, s)) = Len(rs)
  BY <1>0, <1>1, <1>2, RowsAgain
<1> QED
  BY <1>0, <1>1, <1>2, <1>3, <1>4

\* DeleteRow takes the row with index nr out, and keeps the numbers a count from 1.
LEMMA DeleteRowIs ==
  ASSUME NEW rs \in Seq(Row), NEW nr \in Int
  PROVE  /\ DeleteRow(rs, nr) \in Seq(Row)
         /\ \A m \in Int : nr < m /\ (\A i \in DOMAIN rs : rs[i].nr <= m) =>
              \A i \in DOMAIN DeleteRow(rs, nr) : DeleteRow(rs, nr)[i].nr <= m - 1
         /\ nr + 1 \in 1..Len(rs) =>
              /\ Len(DeleteRow(rs, nr)) = Len(rs) - 1
              /\ \A i \in 1..(Len(rs) - 1) :
                   DeleteRow(rs, nr)[i].status = RemoveAt(rs, nr + 1)[i].status
              /\ (\A i \in 1..Len(rs) : rs[i].nr = i) =>
                   \A i \in 1..(Len(rs) - 1) : DeleteRow(rs, nr)[i].nr = i
<1> DEFINE kept == IF nr + 1 \in DOMAIN rs THEN RemoveAt(rs, nr + 1) ELSE rs
           new(i) == IF kept[i].nr > nr THEN [kept[i] EXCEPT !.nr = @ - 1] ELSE kept[i]
<1>0. Len(rs) \in Nat /\ DOMAIN rs = 1..Len(rs) /\ \A i \in 1..Len(rs) : rs[i] \in Row
  BY LenProperties, ElementOfSeq
<1>1. /\ kept \in Seq(Row)
      /\ \A i \in DOMAIN kept : \E j \in DOMAIN rs : kept[i] = rs[j]
      /\ nr + 1 \in 1..Len(rs) =>
           /\ kept = RemoveAt(rs, nr + 1) /\ Len(kept) = Len(rs) - 1
           /\ \A i \in 1..(Len(rs) - 1) :
                kept[i] = IF i < nr + 1 THEN rs[i] ELSE rs[i + 1]
  <2>1. CASE nr + 1 \in 1..Len(rs)
    <3>1. kept = RemoveAt(rs, nr + 1)
      BY <1>0, <2>1
    <3>2. /\ kept \in Seq(Row) /\ Len(kept) = Len(rs) - 1
          /\ \A i \in 1..(Len(rs) - 1) : kept[i] = IF i < nr + 1 THEN rs[i] ELSE rs[i + 1]
      BY <2>1, <3>1, RemoveAtIs
    <3>3. DOMAIN kept = 1..(Len(rs) - 1)
      BY <3>2, LenProperties
    <3> HIDE DEF kept
    <3>4. ASSUME NEW i \in DOMAIN kept
          PROVE  \E j \in DOMAIN rs : kept[i] = rs[j]
      <4>1. i \in 1..(Len(rs) - 1) /\ i \in 1..Len(rs) /\ i + 1 \in 1..Len(rs)
        BY <1>0, <3>3
      <4>2. kept[i] = rs[i] \/ kept[i] = rs[i + 1]
        BY <3>2, <4>1
      <4> QED
        BY <1>0, <4>1, <4>2
    <3> QED
      BY <3>1, <3>2, <3>4
  <2>2. CASE nr + 1 \notin 1..Len(rs)
    BY <1>0, <2>2
  <2> QED
    BY <2>1, <2>2
<1>2. DeleteRow(rs, nr) = [i \in DOMAIN kept |-> new(i)]
  BY DEF DeleteRow
<1>3. Len(kept) \in Nat /\ DOMAIN kept = 1..Len(kept) /\ \A i \in 1..Len(kept) : kept[i] \in Row
  BY <1>1, LenProperties, ElementOfSeq
<1> HIDE DEF kept
<1>4. \A i \in 1..Len(kept) :
        /\ new(i) \in Row /\ new(i).status = kept[i].status
        /\ new(i).nr = IF kept[i].nr > nr THEN kept[i].nr - 1 ELSE kept[i].nr
        /\ kept[i].nr \in Int
  BY <1>3 DEF Row
<1> HIDE DEF new
<1>5. DeleteRow(rs, nr) \in Seq(Row) /\ Len(DeleteRow(rs, nr)) = Len(kept)
  BY <1>1, <1>2, <1>3, <1>4, RowsAgain
<1>6. ASSUME NEW m \in Int, nr < m, \A i \in DOMAIN rs : rs[i].nr <= m,
             NEW i \in DOMAIN DeleteRow(rs, nr)
      PROVE  DeleteRow(rs, nr)[i].nr <= m - 1
  <2>1. i \in 1..Len(kept) /\ kept[i].nr <= m
    BY <1>1, <1>2, <1>3, <1>6
  <2> QED
    BY <1>2, <1>3, <1>4, <1>6, <2>1
<1>7. ASSUME nr + 1 \in 1..Len(rs)
      PROVE  /\ Len(DeleteRow(rs, nr)) = Len(rs) - 1
             /\ \A i \in 1..(Len(rs) - 1) :
                  DeleteRow(rs, nr)[i].status = RemoveAt(rs, nr + 1)[i].status
             /\ (\A i \in 1..Len(rs) : rs[i].nr = i) =>
                  \A i \in 1..(Len(rs) - 1) : DeleteRow(rs, nr)[i].nr = i
  <2>1. kept = RemoveAt(rs, nr + 1) /\ Len(kept) = Len(rs) - 1
    BY <1>1, <1>7
  <2>2. \A i \in 1..(Len(rs) - 1) : DeleteRow(rs, nr)[i] = new(i)
    BY <1>2, <1>3, <2>1
  <2>3. ASSUME \A i \in 1..Len(rs) : rs[i].nr = i, NEW i \in 1..(Len(rs) - 1)
        PROVE  DeleteRow(rs, nr)[i].nr = i
    <3>1. kept[i] = IF i < nr + 1 THEN rs[i] ELSE rs[i + 1]
      BY <1>1, <1>7
    <3>2. rs[i].nr = i /\ rs[i + 1].nr = i + 1
      BY <1>0, <2>3
    <3>3. kept[i].nr = IF i < nr + 1 THEN i ELSE i + 1
      BY <3>1, <3>2
    <3>4. i \in 1..Len(kept) /\ i \in Int
      BY <1>0, <2>1
    <3>5. new(i).nr = i
      BY <1>4, <3>3, <3>4
    <3> QED
      BY <2>2, <3>5
  <2> QED
    BY <1>4, <1>5, <2>1, <2>2, <2>3
<1> QED
  BY <1>5, <1>6, <1>7

\* UpdateAllViews: what the views show afterwards, and what reading the list may meet.
LEMMA ViewsAre ==
  ASSUME NEW rs \in Seq(Row), servers' \in Seq(Addr), selected' \in Int,
         busy' \in [Addr -> BOOLEAN], UpdateAllViews(rs)
  PROVE  /\ rows' \in Seq(Row) /\ Len(rows') = Len(rs)
         /\ \A i \in 1..Len(rs) :
              /\ rows'[i].nr = rs[i].nr /\ rows'[i].status = rs[i].status
              /\ IsInjective(servers') /\ i <= Len(servers') => rows'[i].text = servers'[i]
         /\ pane' = getSelectedServer(servers', selected') /\ pane' \in Addr \cup {None}
         /\ buttons' \in {"none", "start", "stop"}
         /\ fault' \in {"none", "view", "index"}
         /\ fault' = "view" <=> ~(ToSet(servers') \subseteq heap')
<1> DEFINE sc == getSelectedServer(servers', selected')
<1>1. sc \in Addr \cup {None}
  BY LenProperties, ElementOfSeq DEF getSelectedServer
<1>2. Buttons(sc, busy') \in {"none", "start", "stop"}
  BY DEF Buttons
<1>3. rows' = Texts(rs, servers') /\ pane' = sc /\ buttons' = Buttons(sc, busy')
  BY DEF UpdateAllViews
<1>4. /\ fault' \in {"none", "view", "index"}
      /\ fault' = "view" <=> ~(ToSet(servers') \subseteq heap')
  BY DEF UpdateAllViews
<1> HIDE DEF sc
<1> QED
  BY <1>1, <1>2, <1>3, <1>4, TextsIs DEF sc

-----------------------------------------------------------------------------
(* What the handlers come down to.                                         *)

LEMMA RowIs ==
  ASSUME TypeOK, NEW i \in DOMAIN rows
  PROVE  rows[i] \in Row /\ rows[i].nr \in Int
<1>1. rows \in Seq(Row) /\ i \in 1..Len(rows)
  BY LenProperties DEF TypeOK, Row
<1>2. rows[i] \in Row
  BY <1>1, ElementOfSeq
<1> QED
  BY <1>2 DEF Row

LEMMA SelectedIs ==
  ASSUME TypeOK
  PROVE  LET sc == getSelectedServer(servers, selected) IN
         /\ sc \in Addr \cup {None}
         /\ sc # None => /\ sc \in Addr /\ selected \in 0..(Len(servers) - 1)
                        /\ sc = servers[selected + 1] /\ sc \in ToSet(servers)
<1>1. Len(servers) \in Nat /\ DOMAIN servers = 1..Len(servers) /\ selected \in Int
  BY LenProperties DEF TypeOK
<1>2. \A i \in 1..Len(servers) : servers[i] \in Addr /\ servers[i] \in ToSet(servers)
  BY <1>1, ElementOfSeq DEF TypeOK, ToSet
<1> QED
  BY <1>1, <1>2 DEF getSelectedServer

\* What delSelectedServer does after stopServer to the list and to the memory ...
ListShrinks(sc) ==
  /\ servers' = RemoveAt(servers, selected + 1) /\ servers' \in Seq(Addr)
  /\ Len(servers') = Len(servers) - 1
  /\ \A i \in 1..(Len(servers) - 1) :
       servers'[i] = IF i < selected + 1 THEN servers[i] ELSE servers[i + 1]
  /\ heap' = heap \ {sc} /\ heap' \subseteq Addr
  /\ selected' = selected - 1 /\ selected' \in Int

\* ... to the views, with the rows rs ...
ViewsFollow(rs) ==
  /\ rows' \in Seq(Row) /\ Len(rows') = Len(rs)
  /\ \A i \in 1..Len(rs) : rows'[i].nr = rs[i].nr /\ rows'[i].status = rs[i].status
  /\ pane' \in Addr \cup {None} /\ buttons' \in {"none", "start", "stop"}
  /\ fault' \in {"none", "view", "index", fault}
  /\ \/ past'.stale = TRUE /\ fault' = fault
     \/ /\ fault' = "view" <=> ~(ToSet(servers') \subseteq heap')
        /\ pane' = getSelectedServer(servers', selected')
        /\ \A i \in 1..Len(rs) :
             IsInjective(servers') /\ i <= Len(servers') => rows'[i].text = servers'[i]

\* ... and to what is remembered.
PastFollows(sc, threads) ==
  /\ past' \in Past /\ past'.addFailed = past.addFailed
  /\ past'.freedLive <=>
       past.freedLive \/ \E t \in Threads : threads[t].pc # "none" /\ threads[t].sc = sc
  /\ past'.freedQueued <=> past.freedQueued \/ sc \in ToSet(msgs)

LEMMA DeleteIs ==
  ASSUME TypeOK, selected \in 0..(Len(servers) - 1), busy' \in [Addr -> BOOLEAN],
         NEW sc, NEW rs \in Seq(Row), NEW shown \in Addr \cup {None},
         NEW enabled \in {"none", "start", "stop"}, NEW threads,
         delSelectedServer(sc, rs, shown, enabled, threads)
  PROVE  ListShrinks(sc) /\ ViewsFollow(rs) /\ PastFollows(sc, threads)
<1>1. selected + 1 \in 1..Len(servers) /\ servers \in Seq(Addr) /\ selected \in Int
  BY LenProperties DEF TypeOK
<1>2. servers' = RemoveAt(servers, selected + 1) /\ heap' = heap \ {sc} /\ selected' = selected - 1
  BY DEF delSelectedServer
<1>3. /\ servers' \in Seq(Addr) /\ Len(servers') = Len(servers) - 1
      /\ \A i \in 1..(Len(servers) - 1) :
           servers'[i] = IF i < selected + 1 THEN servers[i] ELSE servers[i + 1]
  BY <1>1, <1>2, RemoveAtIs
<1>4. ListShrinks(sc)
  BY <1>1, <1>2, <1>3 DEF ListShrinks, TypeOK
<1>5. PICK thrown \in BOOLEAN :
        /\ past' = [past EXCEPT
             !.stale = thrown,
             !.freedLive = @ \/ \E t \in Threads : threads[t].pc # "none" /\ threads[t].sc = sc,
             !.freedQueued = @ \/ sc \in ToSet(msgs)]
        /\ IF thrown
           THEN rows' = rs /\ pane' = shown /\ buttons' = enabled /\ UNCHANGED fault
           ELSE UpdateAllViews(rs)
  BY DEF delSelectedServer
<1>6. /\ past' \in Past /\ past'.addFailed = past.addFailed /\ past'.stale = thrown
      /\ past'.freedLive <=>
           past.freedLive \/ \E t \in Threads : threads[t].pc # "none" /\ threads[t].sc = sc
      /\ past'.freedQueued <=> past.freedQueued \/ sc \in ToSet(msgs)
  <2> DEFINE L == \E t \in Threads : threads[t].pc # "none" /\ threads[t].sc = sc
             Q == sc \in ToSet(msgs)
  <2>1. past' = [past EXCEPT !.stale = thrown, !.freedLive = @ \/ L, !.freedQueued = @ \/ Q]
    BY <1>5
  <2>2. past \in Past
    BY DEF TypeOK, Past
  <2> HIDE DEF L, Q
  <2>3. /\ past' \in Past /\ past'.addFailed = past.addFailed /\ past'.stale = thrown
        /\ past'.freedLive <=> past.freedLive \/ L
        /\ past'.freedQueued <=> past.freedQueued \/ Q
    BY <2>1, <2>2 DEF Past
  <2> QED
    BY <2>3 DEF L, Q
<1>7. PastFollows(sc, threads)
  BY <1>6 DEF PastFollows
<1>8. ASSUME thrown
      PROVE  ViewsFollow(rs)
  <2>1. /\ rows' = rs /\ pane' = shown /\ buttons' = enabled /\ fault' = fault
        /\ past'.stale = TRUE
    BY <1>5, <1>6, <1>8
  <2> QED
    BY <2>1 DEF ViewsFollow
<1>9. ASSUME ~thrown
      PROVE  ViewsFollow(rs)
  <2>1. UpdateAllViews(rs) /\ selected' \in Int
    BY <1>1, <1>2, <1>5, <1>9
  <2>2. /\ rows' \in Seq(Row) /\ Len(rows') = Len(rs)
        /\ \A i \in 1..Len(rs) :
             /\ rows'[i].nr = rs[i].nr /\ rows'[i].status = rs[i].status
             /\ IsInjective(servers') /\ i <= Len(servers') => rows'[i].text = servers'[i]
        /\ pane' = getSelectedServer(servers', selected') /\ pane' \in Addr \cup {None}
        /\ buttons' \in {"none", "start", "stop"}
        /\ fault' \in {"none", "view", "index"}
        /\ fault' = "view" <=> ~(ToSet(servers') \subseteq heap')
    BY <1>3, <2>1, ViewsAre
  <2> QED
    BY <2>2 DEF ViewsFollow
<1> QED
  BY <1>4, <1>7, <1>8, <1>9

\* The row Delete takes out is the one of the selected server.
LEMMA DeletedRows ==
  ASSUME TypeOK, NEW sc, sc = getSelectedServer(servers, selected), sc # None
  PROVE  LET rs == DeleteRow(rows, getServerNumber(servers, sc)) IN
         /\ rs \in Seq(Row)
         /\ (\A i \in DOMAIN rows : rows[i].nr <= Len(servers)) =>
              \A i \in DOMAIN rs : rs[i].nr <= Len(servers) - 1
         /\ IsInjective(servers) /\ RowsOf(servers) =>
              /\ Len(rs) = Len(servers) - 1
              /\ \A i \in 1..(Len(servers) - 1) :
                   rs[i].nr = i /\ rs[i].status = RemoveAt(servers, selected + 1)[i]
<1> DEFINE nr == getServerNumber(servers, sc)
           rs == DeleteRow(rows, nr)
<1>1. /\ selected \in 0..(Len(servers) - 1) /\ sc = servers[selected + 1]
      /\ Len(servers) \in Nat /\ servers \in Seq(Addr) /\ rows \in Seq(Row)
  BY SelectedIs, LenProperties DEF TypeOK, Row
<1>2. nr \in -1..(Len(servers) - 1) /\ nr # -1
  BY <1>1, NumberIs
<1>3. nr \in Int /\ nr < Len(servers) /\ Len(servers) \in Int
  BY <1>1, <1>2
<1> HIDE DEF nr
<1>4. rs \in Seq(Row)
  BY <1>1, <1>3, DeleteRowIs
<1>5. ASSUME \A i \in DOMAIN rows : rows[i].nr <= Len(servers)
      PROVE  \A i \in DOMAIN rs : rs[i].nr <= Len(servers) - 1
  BY <1>1, <1>3, <1>5, DeleteRowIs
<1>6. ASSUME IsInjective(servers), RowsOf(servers)
      PROVE  /\ Len(rs) = Len(servers) - 1
             /\ \A i \in 1..(Len(servers) - 1) :
                  rs[i].nr = i /\ rs[i].status = RemoveAt(servers, selected + 1)[i]
  <2>1. nr = selected
    BY <1>1, <1>6, NumberOfOne DEF nr
  <2>2. nr + 1 \in 1..Len(rows) /\ Len(rows) = Len(servers)
    BY <1>1, <1>6, <2>1 DEF RowsOf
  <2>3. \A i \in 1..Len(rows) : rows[i].nr = i /\ rows[i].status = servers[i]
    BY <1>6, <2>2 DEF RowsOf
  <2>4. /\ Len(rs) = Len(rows) - 1
        /\ \A i \in 1..(Len(rows) - 1) :
             rs[i].nr = i /\ rs[i].status = RemoveAt(rows, nr + 1)[i].status
    <3> DEFINE ds == DeleteRow(rows, nr)
    <3>1. /\ Len(ds) = Len(rows) - 1
          /\ \A i \in 1..(Len(rows) - 1) : ds[i].status = RemoveAt(rows, nr + 1)[i].status
      BY <1>1, <1>3, <2>2, DeleteRowIs
    <3>2. \A i \in 1..(Len(rows) - 1) : ds[i].nr = i
      <4>1. \A i \in 1..Len(rows) : rows[i].nr = i
        BY <2>3
      <4>2. rows \in Seq(Row) /\ nr \in Int /\ nr + 1 \in 1..Len(rows)
        BY <1>1, <1>3, <2>2
      <4> QED
        BY <4>1, <4>2, DeleteRowIs
    <3> QED
      BY <3>1, <3>2
  <2>5. \A i \in 1..(Len(rows) - 1) :
          /\ RemoveAt(rows, nr + 1)[i] = IF i < nr + 1 THEN rows[i] ELSE rows[i + 1]
          /\ RemoveAt(servers, nr + 1)[i] = IF i < nr + 1 THEN servers[i] ELSE servers[i + 1]
    <3>1. \A i \in 1..(Len(rows) - 1) :
            RemoveAt(rows, nr + 1)[i] = IF i < nr + 1 THEN rows[i] ELSE rows[i + 1]
      BY <1>1, <2>2, RemoveAtIs
    <3>2. \A i \in 1..(Len(servers) - 1) :
            RemoveAt(servers, nr + 1)[i] = IF i < nr + 1 THEN servers[i] ELSE servers[i + 1]
      BY <1>1, <2>2, RemoveAtIs
    <3> QED
      BY <2>2, <3>1, <3>2
  <2>6. ASSUME NEW i \in 1..(Len(rows) - 1)
        PROVE  RemoveAt(rows, nr + 1)[i].status = RemoveAt(servers, nr + 1)[i]
    BY <1>1, <2>2, <2>3, <2>5
  <2> QED
    BY <2>1, <2>2, <2>4, <2>6
<1> QED
  BY <1>4, <1>5, <1>6 DEF nr

\* The row NewAdded inserts, and where.
NewRow(sc) ==
  LET nr == getServerNumber(servers', sc)
  IN [nr |-> nr + 1, text |-> sc, status |-> sc]

NewPlace(sc) ==
  LET nr == getServerNumber(servers', sc)
  IN IF nr <= Len(rows) THEN nr + 1 ELSE Len(rows) + 1

ListGrows(sc) ==
  /\ sc \notin heap /\ heap' = heap \cup {sc}
  /\ servers' = Append(servers, sc) /\ servers' \in Seq(Addr)
  /\ Len(servers') = Len(servers) + 1 /\ servers'[Len(servers) + 1] = sc
  /\ \A i \in 1..Len(servers) : servers'[i] = servers[i]

RowsGrow(sc, rs) ==
  /\ NewPlace(sc) \in 1..(Len(rows) + 1) /\ NewRow(sc) \in Row
  /\ rs \in Seq(Row) /\ Len(rs) = Len(rows) + 1
  /\ \A i \in 1..(Len(rows) + 1) :
       rs[i] = IF i < NewPlace(sc) THEN rows[i]
               ELSE IF i = NewPlace(sc) THEN NewRow(sc) ELSE rows[i - 1]
  /\ busy' \in [Addr -> BOOLEAN] /\ UpdateAllViews(rs)

\* The new server is selected, or the first one in the list with its address.
LEMMA AddIs ==
  ASSUME TypeOK, NEW sc \in Addr, NewAdded(sc)
  PROVE  /\ ListGrows(sc) /\ RowsGrow(sc, InsertAt(rows, NewPlace(sc), NewRow(sc)))
         /\ selected' = getServerNumber(servers', sc) /\ selected' \in 0..Len(servers)
<1> DEFINE nr == getServerNumber(servers', sc)
           at == NewPlace(sc)
           row == NewRow(sc)
<1>1. /\ servers \in Seq(Addr) /\ Len(servers) \in Nat
      /\ rows \in Seq(Row) /\ Len(rows) \in Nat
  BY LenProperties DEF TypeOK, Row
<1>2. /\ sc \notin heap /\ heap' = heap \cup {sc} /\ busy' \in [Addr -> BOOLEAN]
  BY DEF NewAdded, Construct, TypeOK
<1>3. servers' = Append(servers, sc) /\ selected' = nr /\ UpdateAllViews(InsertAt(rows, at, row))
  BY DEF NewAdded, NewPlace, NewRow
<1>4. /\ servers' \in Seq(Addr) /\ Len(servers') = Len(servers) + 1
      /\ servers'[Len(servers) + 1] = sc /\ \A i \in 1..Len(servers) : servers'[i] = servers[i]
  BY <1>1, <1>3, AppendProperties
<1>5. nr \in 0..Len(servers)
  <2>1. nr \in -1..(Len(servers') - 1)
    BY <1>4, NumberIs
  <2>2. nr # -1
    <3>1. Len(servers) + 1 \in 1..Len(servers')
      BY <1>1, <1>4
    <3> QED
      BY <1>4, <3>1, NumberIs
  <2> HIDE DEF nr
  <2> QED
    BY <1>1, <1>4, <2>1, <2>2
<1>6. at \in 1..(Len(rows) + 1)
  BY <1>1, <1>5 DEF NewPlace
<1>7. row \in Row
  BY <1>1, <1>5 DEF Row, NewRow
<1> HIDE DEF nr, at, row
<1>8. /\ InsertAt(rows, at, row) \in Seq(Row)
      /\ Len(InsertAt(rows, at, row)) = Len(rows) + 1
      /\ \A i \in 1..(Len(rows) + 1) :
           InsertAt(rows, at, row)[i] =
             IF i < at THEN rows[i] ELSE IF i = at THEN row ELSE rows[i - 1]
  <2>1. \A e \in Row, k \in 1..(Len(rows) + 1) :
          /\ InsertAt(rows, k, e) \in Seq(Row)
          /\ Len(InsertAt(rows, k, e)) = Len(rows) + 1
          /\ \A i \in 1..(Len(rows) + 1) :
               InsertAt(rows, k, e)[i] =
                 IF i < k THEN rows[i] ELSE IF i = k THEN e ELSE rows[i - 1]
    BY <1>1, InsertAtIs
  <2> QED
    BY <1>6, <1>7, <2>1
<1> QED
  BY <1>2, <1>3, <1>4, <1>5, <1>6, <1>7, <1>8 DEF nr, at, row, ListGrows, RowsGrow

-----------------------------------------------------------------------------
(* Type correctness.                                                       *)

LEMMA InitType == Init => TypeOK
<1> SUFFICES ASSUME Init PROVE TypeOK
  OBVIOUS
<1>1. Loaded \in Nat
  BY ListAssumption
<1>2. servers \in [1..Loaded -> Addr]
  BY DEF Init
<1>3. servers \in Seq(Addr) /\ DOMAIN servers = 1..Loaded
  BY <1>1, <1>2, FunIsSeq
<1>4. \A i \in 1..Loaded : [nr |-> i, text |-> servers[i], status |-> servers[i]] \in Row
  BY <1>1, <1>2 DEF Row
<1>5. rows \in [1..Loaded -> Row]
  BY <1>3, <1>4 DEF Init, OnInitialUpdate
<1>6. rows \in Seq(Row)
  BY <1>1, <1>5, FunIsSeq
<1>7. heap \subseteq Addr
  BY <1>2, <1>3 DEF Init, ToSet
<1>8. msgs \in Seq(Addr) /\ Len(msgs) <= MaxMsgs
  BY ListAssumption, EmptySeq DEF Init
<1> QED
  BY <1>3, <1>6, <1>7, <1>8 DEF Init, TypeOK, Row, Idle, Off

\* Handlers that refresh the views and leave the list alone.
LEMMA TypeRefresh ==
  ASSUME TypeOK, UpdateAllViews(rows), UNCHANGED <<servers, heap, msgs, busy>>,
         selected' \in Int, go' \in [Addr -> BOOLEAN], handle' \in [Addr -> Threads \cup {None}],
         th' \in [Threads -> [pc : {"none", "starting", "running", "left"}, sc : Addr \cup {None}]],
         ui' \in [at : {"idle", "dialog", "failed", "stopping", "deleting"}, sc : Addr \cup {None}],
         past' = [past EXCEPT !.stale = FALSE]
  PROVE  TypeOK'
<1>1. rows \in Seq(Row) /\ servers' \in Seq(Addr) /\ busy' \in [Addr -> BOOLEAN]
  BY DEF TypeOK, Row
<1>2. /\ rows' \in Seq(Row) /\ pane' \in Addr \cup {None}
      /\ buttons' \in {"none", "start", "stop"} /\ fault' \in {"none", "view", "index"}
  BY <1>1, ViewsAre
<1>3. past' \in Past
  BY DEF TypeOK, Past
<1> QED
  BY <1>1, <1>2, <1>3 DEF TypeOK, Row, Past

\* The wait of stopServer ends.
LEMMA WaitOverIs ==
  ASSUME TypeOK, WaitsFor, ui.at \in {"stopping", "deleting"}, WaitOver
  PROVE  /\ ui.sc \in Addr /\ UNCHANGED <<busy, go, msgs>> /\ ui' = Idle
         /\ handle' \in [Addr -> Threads \cup {None}]
         /\ th' \in [Threads -> [pc : {"none", "starting", "running", "left"}, sc : Addr \cup {None}]]
         /\ handle[ui.sc] # None => handle[ui.sc] \in Threads /\ th'[handle[ui.sc]] = Off
         /\ \A t \in Threads : th'[t] = th[t] \/ th'[t] = Off
<1>1. selected + 1 \in 1..Len(servers) /\ ui.sc = servers[selected + 1]
  BY LenProperties DEF WaitsFor, TypeOK
<1>2. ui.sc \in Addr
  BY <1>1, ElementOfSeq DEF TypeOK
<1>3. handle[ui.sc] \in Threads \cup {None}
  BY <1>2 DEF TypeOK
<1>4. UNCHANGED <<busy, go, msgs>> /\ ui' = Idle
  BY DEF WaitOver
<1>5. handle' \in [Addr -> Threads \cup {None}]
  BY <1>2 DEF WaitOver, TypeOK
<1>6. /\ th' \in [Threads -> [pc : {"none", "starting", "running", "left"}, sc : Addr \cup {None}]]
      /\ handle[ui.sc] # None => handle[ui.sc] \in Threads /\ th'[handle[ui.sc]] = Off
      /\ \A t \in Threads : th'[t] = th[t] \/ th'[t] = Off
  BY <1>3 DEF WaitOver, TypeOK, Off
<1> QED
  BY <1>2, <1>4, <1>5, <1>6

\* A step of a check thread: it meets a freed server, or moves on with the same one.
LEMMA ThreadIs ==
  ASSUME TypeOK, NEW t \in Threads, ThreadLoop(t) \/ ThreadRuns(t)
  PROVE  /\ UNCHANGED <<list, views, heap, ui, past>> /\ th[t].pc # "none"
         /\ \/ /\ th[t].sc \notin heap /\ fault' = "thread" /\ UNCHANGED <<control, msgs>>
            \/ /\ th[t].sc \in heap /\ fault' = fault
               /\ busy' \in [Addr -> BOOLEAN] /\ go' \in [Addr -> BOOLEAN]
               /\ handle' \in [Addr -> Threads \cup {None}]
               /\ th' \in [Threads -> [pc : {"none", "starting", "running", "left"},
                                      sc : Addr \cup {None}]]
               /\ \A u \in Threads :
                    th'[u].pc # "none" => th[u].pc # "none" /\ th'[u].sc = th[u].sc
               /\ msgs' \in Seq(Addr) /\ Len(msgs') <= MaxMsgs
               /\ \A i \in 1..Len(msgs') : msgs'[i] = th[t].sc \/ (i \in 1..Len(msgs) /\ msgs'[i] = msgs[i])
<1> DEFINE sc == th[t].sc
           Ths == [Threads -> [pc : {"none", "starting", "running", "left"}, sc : Addr \cup {None}]]
           Same(f) == \A u \in Threads : f[u].pc # "none" => th[u].pc # "none" /\ f[u].sc = th[u].sc
<1>0. /\ go \in [Addr -> BOOLEAN] /\ handle \in [Addr -> Threads \cup {None}] /\ th \in Ths
      /\ busy \in [Addr -> BOOLEAN] /\ heap \subseteq Addr
      /\ msgs \in Seq(Addr) /\ Len(msgs) <= MaxMsgs /\ Len(msgs) \in Nat
  BY LenProperties DEF TypeOK
<1>1. UNCHANGED <<list, views, heap, ui, past>> /\ th[t].pc # "none"
  BY DEF ThreadLoop, ThreadRuns
<1>2. CASE sc \notin heap
  BY <1>1, <1>2 DEF ThreadLoop, ThreadRuns
<1>3. CASE sc \in heap
  <2>0. sc \in Addr
    BY <1>0, <1>3
  <2>1. /\ Ended(t, sc) \/ UNCHANGED <<handle, th>>
           \/ \E p \in {"left", "running"} : th' = [th EXCEPT ![t].pc = p] /\ UNCHANGED handle
        /\ busy' = busy \/ \E b \in BOOLEAN : busy' = [busy EXCEPT ![sc] = b]
        /\ go' = go \/ go' = [go EXCEPT ![sc] = TRUE]
        /\ UNCHANGED msgs \/ Post(sc)
        /\ fault' = fault
    <3>1. CASE ThreadLoop(t)
      <4>1. CASE ~(th[t].pc = "starting" \/ go[sc])
        BY <1>3, <3>1, <4>1 DEF ThreadLoop
      <4>2. CASE th[t].pc = "starting" \/ go[sc]
        <5>1. (~busy[sc]) \in BOOLEAN /\ busy' = [busy EXCEPT ![sc] = ~busy[sc]]
          BY <1>0, <1>3, <2>0, <3>1, <4>2 DEF ThreadLoop
        <5>2. \E p \in {"left", "running"} : th' = [th EXCEPT ![t].pc = p] /\ UNCHANGED handle
          BY <1>3, <3>1, <4>2 DEF ThreadLoop
        <5>3. go' = [go EXCEPT ![sc] = TRUE] /\ (UNCHANGED msgs \/ Post(sc)) /\ fault' = fault
          BY <1>3, <3>1, <4>2 DEF ThreadLoop
        <5> HIDE DEF sc
        <5> QED
          BY <5>1, <5>2, <5>3
      <4> QED
        BY <4>1, <4>2
    <3>2. CASE ThreadRuns(t)
      BY <1>3, <3>2 DEF ThreadRuns
    <3> QED
      BY <3>1, <3>2
  <2> HIDE DEF sc
  <2>2. busy' \in [Addr -> BOOLEAN] /\ go' \in [Addr -> BOOLEAN]
    BY <1>0, <2>0, <2>1
  <2>3. th' \in Ths /\ Same(th') /\ handle' \in [Addr -> Threads \cup {None}]
    <3>1. CASE Ended(t, sc)
      BY <1>0, <2>0, <3>1 DEF Ended, Off
    <3>2. CASE UNCHANGED <<handle, th>>
      BY <1>0, <3>2
    <3>3. ASSUME NEW p \in {"left", "running"}, th' = [th EXCEPT ![t].pc = p], UNCHANGED handle
          PROVE  th' \in Ths /\ Same(th') /\ handle' \in [Addr -> Threads \cup {None}]
      BY <1>0, <1>1, <3>3
    <3> QED
      BY <2>1, <3>1, <3>2, <3>3
  <2>4. /\ msgs' \in Seq(Addr) /\ Len(msgs') <= MaxMsgs
        /\ \A i \in 1..Len(msgs') : msgs'[i] = sc \/ (i \in 1..Len(msgs) /\ msgs'[i] = msgs[i])
    <3>1. CASE msgs' = msgs
      BY <1>0, <3>1
    <3>2. CASE Len(msgs) < MaxMsgs /\ msgs' = Append(msgs, sc)
      <4>1. /\ Append(msgs, sc) \in Seq(Addr) /\ Len(Append(msgs, sc)) = Len(msgs) + 1
            /\ \A i \in 1..Len(msgs) : Append(msgs, sc)[i] = msgs[i]
            /\ Append(msgs, sc)[Len(msgs) + 1] = sc
        BY <1>0, <2>0, AppendProperties
      <4> QED
        BY <1>0, <3>2, <4>1, ListAssumption
    <3> QED
      BY <2>1, <3>1, <3>2 DEF Post
  <2> QED
    BY <1>1, <1>3, <2>1, <2>2, <2>3, <2>4 DEF sc
<1> QED
  BY <1>2, <1>3

LEMMA TypeStep ==
  ASSUME TypeOK, WaitsFor, [Next]_vars
  PROVE  TypeOK'
<1> DEFINE Uis == [at : {"idle", "dialog", "failed", "stopping", "deleting"}, sc : Addr \cup {None}]
           Ths == [Threads -> [pc : {"none", "starting", "running", "left"}, sc : Addr \cup {None}]]
           Hs == [Addr -> Threads \cup {None}]
<1>0. /\ go \in [Addr -> BOOLEAN] /\ handle \in Hs /\ th \in Ths /\ ui \in Uis /\ past \in Past
      /\ servers \in Seq(Addr) /\ selected \in Int /\ rows \in Seq(Row) /\ busy \in [Addr -> BOOLEAN]
      /\ heap \subseteq Addr /\ msgs \in Seq(Addr) /\ Len(msgs) <= MaxMsgs /\ Len(msgs) \in Nat
  BY LenProperties DEF TypeOK, Past, Row
<1> DEFINE sc == getSelectedServer(servers, selected)
<1>sel. /\ sc \in Addr \cup {None} /\ (sc # None => sc \in Addr /\ selected \in 0..(Len(servers) - 1))
  BY SelectedIs
<1>1. CASE UNCHANGED vars
  BY <1>1 DEF TypeOK, vars, list, views, control
<1>2. ASSUME NEW i \in 0..Len(rows), OnNMClickServerlist(i)
      PROVE  TypeOK'
  <2>1. selected' \in Int
    <3>1. i \in DOMAIN rows => rows[i].nr \in Int
      BY RowIs
    <3> QED
      BY <1>2, <3>1 DEF OnNMClickServerlist
  <2> QED
    BY <1>0, <1>2, <2>1, TypeRefresh DEF OnNMClickServerlist, control
<1>3. ASSUME NEW t \in Threads, OnBnClickedStart(t)
      PROVE  TypeOK'
  <2>1. th' \in Ths /\ handle' \in Hs /\ go' = go /\ busy' = busy
    <3>1. CASE sc = None \/ busy[sc]
      BY <1>0, <1>3, <3>1 DEF OnBnClickedStart, control
    <3>2. CASE sc # None /\ ~busy[sc]
      <4>1. /\ th' = [th EXCEPT ![t] = [pc |-> "starting", sc |-> sc]]
            /\ handle' = [handle EXCEPT ![sc] = t] /\ go' = go /\ busy' = busy
        BY <1>3, <3>2 DEF OnBnClickedStart
      <4> HIDE DEF sc
      <4> QED
        BY <1>0, <1>sel, <4>1
    <3> QED
      BY <3>1, <3>2
  <2> QED
    BY <1>0, <1>3, <2>1, TypeRefresh DEF OnBnClickedStart, list
<1>4. CASE OnBnClickedStop
  <2>1. CASE sc # None /\ busy[sc]
    <3>1. /\ UNCHANGED <<list, heap, msgs, busy, handle, th, views, fault, past>>
          /\ go' = [go EXCEPT ![sc] = FALSE] /\ ui' = [at |-> "stopping", sc |-> sc]
      BY <1>4, <2>1 DEF OnBnClickedStop
    <3>2. go' \in [Addr -> BOOLEAN] /\ ui' \in Uis
      <4> HIDE DEF sc
      <4> QED
        BY <1>0, <1>sel, <3>1
    <3> HIDE DEF sc
    <3> QED
      BY <3>1, <3>2 DEF TypeOK, list, views
  <2>2. CASE ~(sc # None /\ busy[sc])
    <3>1. /\ UNCHANGED <<list, heap, msgs, busy, handle, th, go, ui>>
          /\ UpdateAllViews(rows) /\ past' = [past EXCEPT !.stale = FALSE]
      BY <1>4, <2>2 DEF OnBnClickedStop
    <3> QED
      BY <1>0, <3>1, TypeRefresh DEF list
  <2> QED
    BY <2>1, <2>2
<1>5. CASE Stopped
  <2>1. ui.at = "stopping" /\ WaitOver
    BY <1>5 DEF Stopped
  <2>2. ui' \in Uis
    BY <2>1, WaitOverIs DEF Idle
  <2> QED
    BY <1>0, <1>5, <2>1, <2>2, WaitOverIs, TypeRefresh DEF Stopped, list
<1>6. CASE OnBnClickedDelete
  <2> DEFINE rs == DeleteRow(rows, getServerNumber(servers, sc))
  <2>0. UNCHANGED <<busy, handle, th, msgs>>
    BY <1>6 DEF OnBnClickedDelete
  <2>1. CASE sc = None
    <3>1. /\ UNCHANGED <<list, heap, go, ui>> /\ UpdateAllViews(rows)
          /\ past' = [past EXCEPT !.stale = FALSE]
      BY <1>6, <2>1 DEF OnBnClickedDelete
    <3> QED
      BY <1>0, <2>0, <3>1, TypeRefresh DEF list
  <2>2. sc # None => rs \in Seq(Row)
    BY DeletedRows
  <2>3. CASE sc # None /\ ~busy[sc]
    <3>1. UNCHANGED <<go, ui>> /\ delSelectedServer(sc, rs, pane, buttons, th)
      BY <1>6, <2>3 DEF OnBnClickedDelete
    <3>2. pane \in Addr \cup {None} /\ buttons \in {"none", "start", "stop"} /\ busy' \in [Addr -> BOOLEAN]
      BY <2>0 DEF TypeOK
    <3> HIDE DEF sc, rs
    <3>3. ListShrinks(sc) /\ ViewsFollow(rs) /\ PastFollows(sc, th)
      BY <1>sel, <2>2, <2>3, <3>1, <3>2, DeleteIs
    <3> QED
      BY <2>0, <3>1, <3>3 DEF TypeOK, Row, Past, ListShrinks, ViewsFollow, PastFollows
  <2>4. CASE sc # None /\ busy[sc]
    <3>1. /\ go' = [go EXCEPT ![sc] = FALSE] /\ ui' = [at |-> "deleting", sc |-> sc]
          /\ rows' = rs /\ UNCHANGED <<list, pane, buttons, heap, fault, past>>
      BY <1>6, <2>4 DEF OnBnClickedDelete
    <3> HIDE DEF sc, rs
    <3>2. go' \in [Addr -> BOOLEAN] /\ ui' \in Uis /\ rows' \in Seq(Row)
      BY <1>0, <1>sel, <2>2, <2>4, <3>1
    <3> QED
      BY <2>0, <3>1, <3>2 DEF TypeOK, Row, list
  <2> QED
    BY <2>1, <2>3, <2>4
<1>7. CASE Deleted
  <2>1. /\ ui.at = "deleting" /\ WaitOver
        /\ delSelectedServer(ui.sc, Texts(rows, servers), ui.sc, Buttons(ui.sc, busy), th')
    BY <1>7 DEF Deleted
  <2>2. /\ ui.sc \in Addr /\ UNCHANGED <<busy, go, msgs>> /\ ui' = Idle /\ handle' \in Hs /\ th' \in Ths
    BY <2>1, WaitOverIs
  <2>3. Texts(rows, servers) \in Seq(Row)
    BY <1>0, TextsIs
  <2>4. Buttons(ui.sc, busy) \in {"none", "start", "stop"}
    BY DEF Buttons
  <2>5. selected \in 0..(Len(servers) - 1) /\ busy' \in [Addr -> BOOLEAN]
    BY <1>0, <2>1, <2>2 DEF WaitsFor
  <2>6. ListShrinks(ui.sc) /\ ViewsFollow(Texts(rows, servers)) /\ PastFollows(ui.sc, th')
    BY <2>1, <2>2, <2>3, <2>4, <2>5, DeleteIs
  <2>7. ui' \in Uis
    BY <2>2 DEF Idle
  <2> QED
    BY <2>2, <2>5, <2>6, <2>7 DEF TypeOK, Row, Past, ListShrinks, ViewsFollow, PastFollows
<1>8. CASE OnBnClickedNew \/ OnCancel \/ NewUnresolved
  <2>1. ui' \in Uis /\ UNCHANGED <<list, views, heap, control, msgs, fault, past>>
    BY <1>8 DEF OnBnClickedNew, OnCancel, NewUnresolved, Idle
  <2> QED
    BY <2>1 DEF TypeOK, list, views, control
<1>9. CASE NewCaught
  <2>1. /\ ui' \in Uis /\ heap' \subseteq Addr /\ UNCHANGED <<list, views, control, msgs, fault>>
    BY <1>0, <1>9 DEF NewCaught, Idle
  <2>2. past' \in Past
    BY <1>0, <1>9 DEF NewCaught, Past
  <2> QED
    BY <2>1, <2>2 DEF TypeOK, list, views, control, Past
<1>10. ASSUME NEW a \in Addr, NewAdded(a)
       PROVE  TypeOK'
  <2>1. ui' \in Uis /\ go' \in [Addr -> BOOLEAN] /\ UNCHANGED <<handle, th, msgs>> /\ past' \in Past
    BY <1>0, <1>10 DEF NewAdded, Construct, Idle, Past
  <2> DEFINE rs == InsertAt(rows, NewPlace(a), NewRow(a))
  <2>2. ListGrows(a) /\ RowsGrow(a, rs) /\ selected' \in 0..Len(servers)
    BY <1>10, AddIs
  <2> HIDE DEF rs
  <2>3. /\ servers' \in Seq(Addr) /\ selected' \in Int /\ heap' \subseteq Addr
        /\ busy' \in [Addr -> BOOLEAN] /\ rs \in Seq(Row) /\ UpdateAllViews(rs)
    BY <1>0, <2>2 DEF ListGrows, RowsGrow
  <2>4. /\ rows' \in Seq(Row) /\ pane' \in Addr \cup {None}
        /\ buttons' \in {"none", "start", "stop"} /\ fault' \in {"none", "view", "index"}
    BY <2>3, ViewsAre
  <2> QED
    BY <2>1, <2>3, <2>4 DEF TypeOK, Row, Past
<1>11. ASSUME NEW a \in Addr, NewUnsaved(a)
       PROVE  TypeOK'
  <2>1. /\ ui' \in Uis /\ go' \in [Addr -> BOOLEAN] /\ busy' \in [Addr -> BOOLEAN]
        /\ UNCHANGED <<handle, th, msgs, selected, views, fault>> /\ past' \in Past
        /\ heap' \subseteq Addr
    BY <1>0, <1>11 DEF NewUnsaved, Construct, Past
  <2>2. servers' \in Seq(Addr)
    BY <1>0, <1>11, AppendProperties DEF NewUnsaved
  <2> QED
    BY <2>1, <2>2 DEF TypeOK, views, Past
<1>12. CASE OnServerUpdate
  <2>1. /\ msgs # <<>> /\ msgs' = Tail(msgs) /\ fault' \in {fault, "message"}
        /\ UNCHANGED <<list, pane, buttons, heap, control, ui, past>>
    BY <1>12 DEF OnServerUpdate
  <2>2. msgs' \in Seq(Addr) /\ Len(msgs') <= MaxMsgs /\ Head(msgs) \in Addr
    <3>1. Tail(msgs) \in Seq(Addr) /\ Len(Tail(msgs)) = Len(msgs) - 1 /\ Head(msgs) \in Addr
      BY <1>0, <2>1, HeadTailProperties
    <3> QED
      BY <1>0, <2>1, <3>1, ListAssumption
  <2>3. rows' \in Seq(Row)
    <3> DEFINE m == Head(msgs)
               k == getServerNumber(servers, m) + 1
    <3>1. rows' = IF m \in heap /\ k \in DOMAIN rows THEN [rows EXCEPT ![k].status = m] ELSE rows
      BY <1>12 DEF OnServerUpdate
    <3>2. m \in Addr
      BY <2>2
    <3> HIDE DEF m, k
    <3>3. DOMAIN rows = 1..Len(rows)
      BY <1>0, LenProperties
    <3>4. CASE k \in DOMAIN rows
      <4>1. rows[k] \in Row
        BY <1>0, <3>3, <3>4, ElementOfSeq
      <4>2. [rows[k] EXCEPT !.status = m] \in Row
        BY <3>2, <4>1 DEF Row
      <4>3. [rows EXCEPT ![k] = [rows[k] EXCEPT !.status = m]] \in Seq(Row)
        BY <1>0, <3>3, <3>4, <4>2, ExceptSeq
      <4> QED
        BY <1>0, <3>1, <4>3
    <3> QED
      BY <1>0, <3>1, <3>4
  <2> QED
    BY <2>1, <2>2, <2>3 DEF TypeOK, Row, list, control
<1>13. ASSUME NEW t \in Threads, ThreadLoop(t) \/ ThreadRuns(t)
       PROVE  TypeOK'
  <2>1. UNCHANGED <<list, views, heap, ui, past>>
    BY <1>13, ThreadIs
  <2>2. CASE fault' = "thread" /\ UNCHANGED <<control, msgs>>
    BY <2>1, <2>2 DEF TypeOK, list, views, control
  <2>3. CASE ~(fault' = "thread" /\ UNCHANGED <<control, msgs>>)
    <3>1. /\ busy' \in [Addr -> BOOLEAN] /\ go' \in [Addr -> BOOLEAN] /\ handle' \in Hs /\ th' \in Ths
          /\ fault' = fault /\ msgs' \in Seq(Addr) /\ Len(msgs') <= MaxMsgs
      BY <1>13, <2>3, ThreadIs
    <3> QED
      BY <2>1, <3>1 DEF TypeOK, list, views
  <2> QED
    BY <2>2, <2>3
<1> QED
  BY <1>1, <1>2, <1>3, <1>4, <1>5, <1>6, <1>7, <1>8, <1>9, <1>10, <1>11, <1>12, <1>13 DEF Next

-----------------------------------------------------------------------------
(* The steps by their effect on what the invariant relates.                *)

\* After UpdateAllViews(rs).
ViewsShow(rs) ==
  /\ Len(rows') = Len(rs)
  /\ \A i \in 1..Len(rs) :
       /\ rows'[i].nr = rs[i].nr /\ rows'[i].status = rs[i].status
       /\ IsInjective(servers') /\ i <= Len(servers') => rows'[i].text = servers'[i]
  /\ pane' = getSelectedServer(servers', selected')
  /\ fault' \in {"none", "view", "index"}
  /\ fault' = "view" <=> ~(ToSet(servers') \subseteq heap')

\* A live thread was alive before, with the same server.
ThreadsStay == \A t \in Threads : th'[t].pc # "none" => th[t].pc # "none" /\ th'[t].sc = th[t].sc

\* The views are updated with the list as it is: Start, a click, Stop at its end.
Refreshes ==
  /\ ui.at \in {"idle", "stopping"} /\ ui' = Idle /\ UNCHANGED <<servers, heap, msgs>>
  /\ selected' < Len(servers) /\ past' = [past EXCEPT !.stale = FALSE] /\ ViewsShow(rows)
  /\ ThreadsStay \/ \E t \in Threads : /\ th'[t].sc \in ToSet(servers)
                                       /\ \A u \in Threads \ {t} : th'[u] = th[u]

\* stopServer begins to wait, for Stop or for Delete.
Waits ==
  /\ ui = Idle /\ ui'.at \in {"stopping", "deleting"}
  /\ selected \in 0..(Len(servers) - 1) /\ ui'.sc = servers[selected + 1]
  /\ UNCHANGED <<list, pane, heap, th, msgs, fault, past>>
  /\ IF ui'.at = "stopping" THEN rows' = rows
     ELSE /\ \A i \in DOMAIN rows' : rows'[i].nr <= Len(servers) - 1
          /\ ~past.addFailed =>
               /\ Len(rows') = Len(servers) - 1
               /\ \A i \in 1..(Len(servers) - 1) :
                    /\ rows'[i].nr = i
                    /\ rows'[i].status = RemoveAt(servers, selected + 1)[i]

\* Delete frees server sc; rs are the rows before the views are updated.
Deletes(sc, rs) ==
  /\ ui.at \in {"idle", "deleting"} /\ ui' = Idle /\ msgs' = msgs /\ ThreadsStay
  /\ selected \in 0..(Len(servers) - 1) /\ sc = servers[selected + 1]
  /\ ListShrinks(sc) /\ ViewsFollow(rs) /\ PastFollows(sc, th')
  /\ \A i \in 1..Len(rs) : rs[i].nr <= Len(servers) - 1
  /\ ~past.addFailed =>
       /\ Len(rs) = Len(servers) - 1
       /\ \A i \in 1..(Len(servers) - 1) :
            rs[i].nr = i /\ rs[i].status = RemoveAt(servers, selected + 1)[i]

\* The dialog opens, closes or fails with nothing allocated.
Dialog ==
  /\ ui.at \in {"idle", "dialog"} /\ ui'.at \in {"idle", "dialog", "failed"} /\ ui'.sc = None
  /\ UNCHANGED <<list, views, heap, th, msgs, fault, past>>

\* A message is handled; a status appears only in the row of its server.
Updates ==
  /\ ui.at \in {"idle", "dialog", "failed"} /\ msgs # <<>> /\ msgs' = Tail(msgs)
  /\ UNCHANGED <<list, pane, heap, th, ui, past>>
  /\ fault' = fault \/ (fault' = "message" /\ Head(msgs) \notin heap)
  /\ Len(rows') = Len(rows)
  /\ \A i \in 1..Len(rows) :
       /\ rows'[i].nr = rows[i].nr /\ rows'[i].text = rows[i].text
       /\ rows'[i].status = rows[i].status \/ (i \in 1..Len(servers) /\ rows'[i].status = servers[i])

LEMMA ShowIs ==
  ASSUME TypeOK, UpdateAllViews(rows), UNCHANGED <<servers, busy>>, selected' \in Int
  PROVE  ViewsShow(rows)
<1>1. rows \in Seq(Row) /\ servers' \in Seq(Addr) /\ busy' \in [Addr -> BOOLEAN]
  BY DEF TypeOK, Row
<1> QED
  BY <1>1, ViewsAre DEF ViewsShow

LEMMA ClickIs ==
  ASSUME TypeOK, RowNumbers, NEW i \in 0..Len(rows), OnNMClickServerlist(i)
  PROVE  Refreshes
<1>1. /\ ui = Idle /\ UNCHANGED <<servers, heap, control, msgs, ui>> /\ UpdateAllViews(rows)
      /\ past' = [past EXCEPT !.stale = FALSE]
      /\ selected' = (IF i \in DOMAIN rows THEN rows[i].nr ELSE 0) - 1
  BY DEF OnNMClickServerlist
<1>2. Len(servers) \in Nat /\ (i \in DOMAIN rows => rows[i].nr \in Int)
  BY RowIs, LenProperties DEF TypeOK
<1>3. i \in DOMAIN rows => rows[i].nr <= Len(servers)
  BY <1>1 DEF RowNumbers, Idle
<1>4. selected' \in Int /\ selected' < Len(servers)
  BY <1>1, <1>2, <1>3
<1>5. ViewsShow(rows)
  BY <1>1, <1>4, ShowIs DEF control
<1> QED
  BY <1>1, <1>4, <1>5 DEF Refreshes, ThreadsStay, control, Idle

LEMMA StartIs ==
  ASSUME TypeOK, SelectedValid, NEW t \in Threads, OnBnClickedStart(t)
  PROVE  Refreshes
<1> DEFINE sc == getSelectedServer(servers, selected)
<1>1. /\ ui = Idle /\ UNCHANGED <<list, heap, msgs, ui>> /\ UpdateAllViews(rows)
      /\ past' = [past EXCEPT !.stale = FALSE] /\ busy' = busy
  BY DEF OnBnClickedStart, control
<1>2. ViewsShow(rows) /\ selected' < Len(servers)
  BY <1>1, ShowIs DEF list, TypeOK, SelectedValid
<1>3. ThreadsStay \/ \E u \in Threads : /\ th'[u].sc \in ToSet(servers)
                                        /\ \A v \in Threads \ {u} : th'[v] = th[v]
  <2>1. CASE sc = None \/ busy[sc]
    BY <2>1 DEF OnBnClickedStart, control, ThreadsStay
  <2>2. CASE sc # None /\ ~busy[sc]
    <3>1. th' = [th EXCEPT ![t] = [pc |-> "starting", sc |-> sc]]
      BY <2>2 DEF OnBnClickedStart
    <3>2. sc \in ToSet(servers)
      BY <2>2, SelectedIs
    <3>3. DOMAIN th = Threads
      BY DEF TypeOK
    <3> HIDE DEF sc
    <3> QED
      BY <3>1, <3>2, <3>3
  <2> QED
    BY <2>1, <2>2
<1> QED
  BY <1>1, <1>2, <1>3 DEF Refreshes, Idle, list

LEMMA StopIs ==
  ASSUME TypeOK, SelectedValid, OnBnClickedStop
  PROVE  Refreshes \/ Waits
<1> DEFINE sc == getSelectedServer(servers, selected)
<1>1. ui = Idle /\ UNCHANGED <<list, heap, msgs, busy, handle, th>>
  BY DEF OnBnClickedStop
<1>2. CASE sc # None /\ busy[sc]
  <2>1. UNCHANGED <<views, fault, past>> /\ ui' = [at |-> "stopping", sc |-> sc]
    BY <1>2 DEF OnBnClickedStop
  <2>2. selected \in 0..(Len(servers) - 1) /\ sc = servers[selected + 1]
    BY <1>2, SelectedIs
  <2> HIDE DEF sc
  <2> QED
    BY <1>1, <2>1, <2>2 DEF Waits, views
<1>3. CASE ~(sc # None /\ busy[sc])
  <2>1. past' = [past EXCEPT !.stale = FALSE] /\ UNCHANGED ui /\ UpdateAllViews(rows)
    BY <1>3 DEF OnBnClickedStop
  <2>2. ViewsShow(rows) /\ selected' < Len(servers)
    BY <1>1, <2>1, ShowIs DEF list, TypeOK, SelectedValid
  <2> QED
    BY <1>1, <2>1, <2>2 DEF Refreshes, ThreadsStay, Idle, list
<1> QED
  BY <1>2, <1>3

LEMMA StoppedIs ==
  ASSUME TypeOK, SelectedValid, WaitsFor, Stopped
  PROVE  Refreshes
<1>1. /\ ui.at = "stopping" /\ WaitOver /\ UNCHANGED <<list, heap>> /\ UpdateAllViews(rows)
      /\ past' = [past EXCEPT !.stale = FALSE]
  BY DEF Stopped
<1>2. UNCHANGED <<busy, msgs>> /\ ui' = Idle /\ \A t \in Threads : th'[t] = th[t] \/ th'[t] = Off
  BY <1>1, WaitOverIs
<1>3. ViewsShow(rows) /\ selected' < Len(servers)
  BY <1>1, <1>2, ShowIs DEF list, TypeOK, SelectedValid
<1>4. ThreadsStay
  BY <1>2 DEF ThreadsStay, Off
<1> QED
  BY <1>1, <1>2, <1>3, <1>4 DEF Refreshes, list

LEMMA DeleteClickIs ==
  ASSUME TypeOK, ListOwned, SelectedValid, RowNumbers, RowsStrong, OnBnClickedDelete
  PROVE  Refreshes \/ Waits \/ \E sc \in Addr, rs \in Seq(Row) : Deletes(sc, rs)
<1> DEFINE sc == getSelectedServer(servers, selected)
           rs == DeleteRow(rows, getServerNumber(servers, sc))
<1>1. ui = Idle /\ UNCHANGED <<busy, handle, th, msgs>>
  BY DEF OnBnClickedDelete
<1>2. CASE sc = None
  <2>1. UNCHANGED <<list, heap, ui>> /\ UpdateAllViews(rows) /\ past' = [past EXCEPT !.stale = FALSE]
    BY <1>2 DEF OnBnClickedDelete
  <2>2. ViewsShow(rows) /\ selected' < Len(servers)
    BY <1>1, <2>1, ShowIs DEF list, TypeOK, SelectedValid
  <2> QED
    BY <1>1, <2>1, <2>2 DEF Refreshes, ThreadsStay, Idle, list
<1>3. CASE sc # None
  <2>1. sc \in Addr /\ selected \in 0..(Len(servers) - 1) /\ sc = servers[selected + 1]
    BY <1>3, SelectedIs
  <2>2. \A i \in DOMAIN rows : rows[i].nr <= Len(servers)
    BY <1>1 DEF RowNumbers, Idle
  <2>3. ~past.addFailed => IsInjective(servers) /\ RowsOf(servers)
    BY <1>1 DEF ListOwned, RowsStrong, Idle
  <2>4. /\ rs \in Seq(Row) /\ \A i \in DOMAIN rs : rs[i].nr <= Len(servers) - 1
        /\ ~past.addFailed =>
             /\ Len(rs) = Len(servers) - 1
             /\ \A i \in 1..(Len(servers) - 1) :
                  rs[i].nr = i /\ rs[i].status = RemoveAt(servers, selected + 1)[i]
    BY <1>3, <2>2, <2>3, DeletedRows
  <2>5. CASE ~busy[sc]
    <3>1. delSelectedServer(sc, rs, pane, buttons, th) /\ UNCHANGED ui
      BY <1>3, <2>5 DEF OnBnClickedDelete
    <3> HIDE DEF sc, rs
    <3>2. /\ pane \in Addr \cup {None} /\ buttons \in {"none", "start", "stop"}
          /\ busy' \in [Addr -> BOOLEAN] /\ DOMAIN rs = 1..Len(rs)
      <4>1. rs \in Seq(Row)
        BY <2>4
      <4>2. DOMAIN rs = 1..Len(rs)
        BY <4>1, LenProperties
      <4>3. busy' \in [Addr -> BOOLEAN]
        BY <1>1 DEF TypeOK
      <4> QED
        BY <4>2, <4>3 DEF TypeOK
    <3>3. ListShrinks(sc) /\ ViewsFollow(rs) /\ PastFollows(sc, th)
      <4>1. delSelectedServer(sc, rs, pane, buttons, th) /\ rs \in Seq(Row)
        BY <2>4, <3>1
      <4>2. selected \in 0..(Len(servers) - 1)
        BY <2>1
      <4> QED
        BY <3>2, <4>1, <4>2, DeleteIs
    <3>4. PastFollows(sc, th') /\ ThreadsStay
      BY <1>1, <3>3 DEF PastFollows, ThreadsStay
    <3>5. Deletes(sc, rs)
      BY <1>1, <2>1, <2>4, <3>1, <3>2, <3>3, <3>4 DEF Deletes, Idle
    <3> QED
      BY <2>1, <2>4, <3>5
  <2>6. CASE busy[sc]
    <3>1. /\ ui' = [at |-> "deleting", sc |-> sc] /\ rows' = rs
          /\ UNCHANGED <<list, pane, heap, fault, past>>
      BY <1>3, <2>6 DEF OnBnClickedDelete
    <3> HIDE DEF sc, rs
    <3> QED
      BY <1>1, <2>1, <2>4, <3>1 DEF Waits
  <2> QED
    BY <2>5, <2>6
<1> QED
  BY <1>2, <1>3

LEMMA DeletedIs ==
  ASSUME TypeOK, WaitsFor, RowNumbers, RowsStrong, Deleted
  PROVE  \E sc \in Addr, rs \in Seq(Row) : Deletes(sc, rs)
<1> DEFINE sc == ui.sc
           rs == Texts(rows, servers)
<1>1. /\ ui.at = "deleting" /\ WaitOver
      /\ delSelectedServer(sc, rs, sc, Buttons(sc, busy), th')
  BY DEF Deleted
<1>2. /\ sc \in Addr /\ UNCHANGED <<busy, msgs>> /\ ui' = Idle
      /\ \A t \in Threads : th'[t] = th[t] \/ th'[t] = Off
  BY <1>1, WaitOverIs
<1>3. selected \in 0..(Len(servers) - 1) /\ sc = servers[selected + 1]
  BY <1>1 DEF WaitsFor
<1>4. rows \in Seq(Row) /\ servers \in Seq(Addr) /\ DOMAIN rows = 1..Len(rows) /\ Len(servers) \in Nat
  BY LenProperties DEF TypeOK, Row
<1>5. /\ rs \in Seq(Row) /\ Len(rs) = Len(rows)
      /\ \A i \in 1..Len(rows) : rs[i].nr = rows[i].nr /\ rs[i].status = rows[i].status
  BY <1>4, TextsIs
<1>6. \A i \in 1..Len(rows) : rows[i].nr <= Len(servers) - 1
  BY <1>1, <1>4 DEF RowNumbers
<1>7. ~past.addFailed => RowsOf(RemoveAt(servers, selected + 1))
  BY <1>1 DEF RowsStrong
<1>8. selected + 1 \in 1..Len(servers)
  BY <1>3, <1>4
<1>9. Len(RemoveAt(servers, selected + 1)) = Len(servers) - 1
  BY <1>4, <1>8, RemoveAtIs
<1>10. Buttons(sc, busy) \in {"none", "start", "stop"} /\ busy' \in [Addr -> BOOLEAN]
  BY <1>2 DEF Buttons, TypeOK
<1> HIDE DEF sc, rs
<1>11. ListShrinks(sc) /\ ViewsFollow(rs) /\ PastFollows(sc, th')
  BY <1>1, <1>2, <1>3, <1>5, <1>10, DeleteIs
<1>12. \A i \in 1..Len(rs) : rs[i].nr <= Len(servers) - 1
  BY <1>5, <1>6
<1>13. ~past.addFailed =>
         /\ Len(rs) = Len(servers) - 1
         /\ \A i \in 1..(Len(servers) - 1) :
              rs[i].nr = i /\ rs[i].status = RemoveAt(servers, selected + 1)[i]
  BY <1>5, <1>7, <1>9 DEF RowsOf
<1>14. ThreadsStay
  BY <1>2 DEF ThreadsStay, Off
<1> QED
  BY <1>1, <1>2, <1>3, <1>5, <1>11, <1>12, <1>13, <1>14 DEF Deletes

LEMMA ServerUpdateIs ==
  ASSUME TypeOK, OnServerUpdate
  PROVE  Updates
<1> DEFINE m == Head(msgs)
           k == getServerNumber(servers, m) + 1
<1>1. /\ ui.at \in {"idle", "dialog", "failed"} /\ msgs # <<>> /\ msgs' = Tail(msgs)
      /\ fault' = IF m \in heap THEN fault ELSE "message"
      /\ rows' = IF m \in heap /\ k \in DOMAIN rows THEN [rows EXCEPT ![k].status = m] ELSE rows
      /\ UNCHANGED <<list, pane, heap, th, ui, past>>
  BY DEF OnServerUpdate, control
<1>2. /\ rows \in Seq(Row) /\ DOMAIN rows = 1..Len(rows) /\ Len(rows) \in Nat
      /\ \A i \in 1..Len(rows) : rows[i] \in Row
      /\ servers \in Seq(Addr) /\ Len(servers) \in Nat
  <2>1. rows \in Seq(Row) /\ servers \in Seq(Addr)
    BY DEF TypeOK, Row
  <2> QED
    BY <2>1, LenProperties, ElementOfSeq
<1>3. k \in 0..Len(servers) /\ (k # 0 => servers[k] = m)
  BY <1>2, NumberIs
<1> HIDE DEF m, k
<1>4. CASE rows' = rows
  BY <1>1, <1>4 DEF Updates, m
<1>5. CASE k \in 1..Len(rows) /\ rows' = [rows EXCEPT ![k].status = m]
  <2>1. rows' = [rows EXCEPT ![k] = [rows[k] EXCEPT !.status = m]]
    BY <1>5
  <2>2. Len(rows') = Len(rows)
    <3>1. m \in Addr
      BY <1>1, HeadTailProperties DEF m, TypeOK
    <3>2. rows[k] \in Row
      BY <1>2, <1>5
    <3>3. [rows[k] EXCEPT !.status = m] \in Row
      BY <3>1, <3>2 DEF Row
    <3> QED
      BY <1>2, <1>5, <2>1, <3>3, ExceptSeq
  <2>3. ASSUME NEW i \in 1..Len(rows)
        PROVE  /\ rows'[i].nr = rows[i].nr /\ rows'[i].text = rows[i].text
               /\ rows'[i].status = rows[i].status \/ (i \in 1..Len(servers) /\ rows'[i].status = servers[i])
    <3>1. rows'[i] = IF i = k THEN [rows[k] EXCEPT !.status = m] ELSE rows[i]
      BY <1>2, <2>1
    <3>2. CASE i # k
      BY <3>1, <3>2
    <3>3. CASE i = k
      <4>1. rows[k] \in Row /\ rows'[i] = [rows[k] EXCEPT !.status = m]
        BY <1>2, <1>5, <3>1, <3>3
      <4>2. rows'[i].nr = rows[k].nr /\ rows'[i].text = rows[k].text /\ rows'[i].status = m
        BY <4>1 DEF Row
      <4> QED
        BY <1>2, <1>3, <1>5, <3>3, <4>2
    <3> QED
      BY <3>2, <3>3
  <2> QED
    BY <1>1, <2>2, <2>3 DEF Updates, m
<1> QED
  BY <1>1, <1>2, <1>4, <1>5

\* New puts server sc at the end; rs are the rows with its own, before the views are updated.
Adds(sc, rs) ==
  /\ ui.at = "dialog" /\ ui' = Idle /\ UNCHANGED <<th, msgs>>
  /\ past' = [past EXCEPT !.stale = FALSE]
  /\ ListGrows(sc) /\ ViewsShow(rs) /\ selected' \in 0..Len(servers)
  /\ \A i \in 1..Len(rs) : rs[i].nr <= Len(servers) + 1
  /\ IsInjective(servers') /\ RowsOf(servers) =>
       /\ Len(rs) = Len(servers) + 1
       /\ \A i \in 1..(Len(servers) + 1) : rs[i].nr = i /\ rs[i].status = servers'[i]

LEMMA AddedIs ==
  ASSUME TypeOK, RowNumbers, NEW sc \in Addr, NewAdded(sc)
  PROVE  \E rs \in Seq(Row) : Adds(sc, rs)
<1> DEFINE rs == InsertAt(rows, NewPlace(sc), NewRow(sc))
           nr == getServerNumber(servers', sc)
<1>1. /\ ui.at = "dialog" /\ ui' = Idle /\ UNCHANGED <<th, msgs>> /\ past' = [past EXCEPT !.stale = FALSE]
  BY DEF NewAdded, Construct
<1>2. ListGrows(sc) /\ RowsGrow(sc, rs) /\ selected' = nr /\ nr \in 0..Len(servers)
  BY AddIs
<1>3. /\ servers \in Seq(Addr) /\ Len(servers) \in Nat
      /\ rows \in Seq(Row) /\ Len(rows) \in Nat /\ DOMAIN rows = 1..Len(rows)
  <2>1. servers \in Seq(Addr) /\ rows \in Seq(Row)
    BY DEF TypeOK, Row
  <2> QED
    BY <2>1, LenProperties
<1>4. NewRow(sc).nr = nr + 1 /\ NewRow(sc).status = sc
  BY DEF NewRow
<1>5. NewPlace(sc) = IF nr <= Len(rows) THEN nr + 1 ELSE Len(rows) + 1
  BY DEF NewPlace
<1> HIDE DEF rs, nr
<1>6. ViewsShow(rs)
  <2>1. /\ rs \in Seq(Row) /\ servers' \in Seq(Addr) /\ selected' \in Int
        /\ busy' \in [Addr -> BOOLEAN] /\ UpdateAllViews(rs)
    BY <1>2, <1>3 DEF ListGrows, RowsGrow
  <2> QED
    BY <2>1, ViewsAre DEF ViewsShow
<1>7. /\ NewPlace(sc) \in 1..(Len(rows) + 1) /\ rs \in Seq(Row) /\ Len(rs) = Len(rows) + 1
      /\ \A i \in 1..(Len(rows) + 1) :
           rs[i] = IF i < NewPlace(sc) THEN rows[i]
                   ELSE IF i = NewPlace(sc) THEN NewRow(sc) ELSE rows[i - 1]
  BY <1>2 DEF RowsGrow
<1>8. ASSUME NEW i \in 1..Len(rs)
      PROVE  rs[i].nr <= Len(servers) + 1
  <2>1. \A j \in 1..Len(rows) : rows[j].nr <= Len(servers) /\ rows[j].nr \in Int
    BY <1>1, <1>3, RowIs DEF RowNumbers
  <2>2. i \in 1..(Len(rows) + 1)
    BY <1>7
  <2>3. rs[i] = NewRow(sc) \/ \E j \in 1..Len(rows) : rs[i] = rows[j]
    BY <1>3, <1>7, <2>2
  <2>4. \A n \in Int : n <= Len(servers) => n <= Len(servers) + 1
    BY <1>3
  <2> QED
    BY <1>2, <1>3, <1>4, <2>1, <2>3, <2>4
<1>9. ASSUME IsInjective(servers'), RowsOf(servers)
      PROVE  /\ Len(rs) = Len(servers) + 1
             /\ \A i \in 1..(Len(servers) + 1) : rs[i].nr = i /\ rs[i].status = servers'[i]
  <2>1. nr = Len(servers)
    <3>1. /\ servers' \in Seq(Addr) /\ Len(servers) + 1 \in 1..Len(servers')
          /\ servers'[Len(servers) + 1] = sc
      BY <1>2, <1>3 DEF ListGrows
    <3>2. getServerNumber(servers', servers'[Len(servers) + 1]) = Len(servers) + 1 - 1
      BY <1>9, <3>1, NumberOfOne
    <3> QED
      BY <1>3, <3>1, <3>2 DEF nr
  <2>2. Len(rows) = Len(servers) /\ NewPlace(sc) = Len(servers) + 1
    BY <1>3, <1>5, <1>9, <2>1 DEF RowsOf
  <2>3. ASSUME NEW i \in 1..(Len(servers) + 1)
        PROVE  rs[i].nr = i /\ rs[i].status = servers'[i]
    <3>1. CASE i = Len(servers) + 1
      BY <1>2, <1>4, <1>7, <2>1, <2>2, <3>1 DEF ListGrows
    <3>2. CASE i # Len(servers) + 1
      <4>1. i \in 1..Len(servers) /\ i < NewPlace(sc) /\ i \in 1..(Len(rows) + 1)
        BY <1>3, <2>2, <3>2
      <4>2. rs[i] = rows[i]
        BY <1>7, <4>1
      <4>3. servers'[i] = servers[i]
        BY <1>2, <4>1 DEF ListGrows
      <4> QED
        BY <1>9, <4>1, <4>2, <4>3 DEF RowsOf
    <3> QED
      BY <3>1, <3>2
  <2> QED
    BY <1>7, <2>2, <2>3
<1>10. Adds(sc, rs)
  BY <1>1, <1>2, <1>6, <1>8, <1>9 DEF Adds
<1> QED
  BY <1>7, <1>10

LEMMA StepIs ==
  ASSUME IInv, Next
  PROVE  \/ Refreshes \/ Waits \/ Dialog \/ Updates \/ NewCaught
         \/ \E sc \in Addr, rs \in Seq(Row) : Deletes(sc, rs)
         \/ \E sc \in Addr, rs \in Seq(Row) : Adds(sc, rs)
         \/ \E sc \in Addr : NewUnsaved(sc)
         \/ \E t \in Threads : ThreadLoop(t) \/ ThreadRuns(t)
<1>0. /\ TypeOK /\ ListOwned /\ SelectedValid /\ WaitsFor /\ RowNumbers /\ RowsStrong
  BY DEF IInv
<1>1. CASE \E i \in 0..Len(rows) : OnNMClickServerlist(i)
  BY <1>0, <1>1, ClickIs
<1>2. CASE \E t \in Threads : OnBnClickedStart(t)
  BY <1>0, <1>2, StartIs
<1>3. CASE OnBnClickedStop
  BY <1>0, <1>3, StopIs
<1>4. CASE Stopped
  BY <1>0, <1>4, StoppedIs
<1>5. CASE OnBnClickedDelete
  BY <1>0, <1>5, DeleteClickIs
<1>6. CASE Deleted
  BY <1>0, <1>6, DeletedIs
<1>7. CASE OnBnClickedNew \/ OnCancel \/ NewUnresolved
  BY <1>7 DEF OnBnClickedNew, OnCancel, NewUnresolved, Dialog, Idle, control
<1>8. CASE \E sc \in Addr : NewAdded(sc)
  BY <1>0, <1>8, AddedIs
<1>9. CASE OnServerUpdate
  BY <1>0, <1>9, ServerUpdateIs
<1> QED
  BY <1>1, <1>2, <1>3, <1>4, <1>5, <1>6, <1>7, <1>8, <1>9 DEF Next

-----------------------------------------------------------------------------
(* Each part of the invariant, step by step.                               *)

LEMMA OwnedShrinks ==
  ASSUME servers \in Seq(Addr), selected \in 0..(Len(servers) - 1), NEW sc,
         sc = servers[selected + 1], ListShrinks(sc), ToSet(servers) = heap, IsInjective(servers)
  PROVE  ToSet(servers') = heap' /\ IsInjective(servers')
<1> DEFINE k == selected + 1
           n == Len(servers)
<1>1. /\ n \in Nat /\ DOMAIN servers = 1..n /\ k \in 1..n /\ servers[k] = sc
  BY LenProperties
<1>2. /\ servers' \in Seq(Addr) /\ Len(servers') = n - 1 /\ heap' = heap \ {sc}
      /\ \A i \in 1..(n - 1) : servers'[i] = IF i < k THEN servers[i] ELSE servers[i + 1]
  BY DEF ListShrinks
<1>3. DOMAIN servers' = 1..(n - 1)
  BY <1>2, LenProperties
<1>4. \A i, j \in 1..n : servers[i] = servers[j] => i = j
  BY <1>1 DEF IsInjective
<1> HIDE DEF k, n
<1>5. IsInjective(servers')
  <2>1. ASSUME NEW i \in 1..(n - 1), NEW j \in 1..(n - 1), servers'[i] = servers'[j]
        PROVE  i = j
    <3> DEFINE from(x) == IF x < k THEN x ELSE x + 1
    <3>1. servers'[i] = servers[from(i)] /\ servers'[j] = servers[from(j)]
      BY <1>2
    <3>2. from(i) \in 1..n /\ from(j) \in 1..n /\ (from(i) = from(j) => i = j)
      BY <1>1
    <3> HIDE DEF from
    <3> QED
      BY <1>4, <2>1, <3>1, <3>2
  <2> QED
    BY <1>3, <2>1 DEF IsInjective
<1>6. ASSUME NEW i \in 1..(n - 1)
      PROVE  servers'[i] \in heap'
  <2>1. PICK j \in 1..n : j # k /\ servers'[i] = servers[j]
    <3>1. CASE i < k
      <4>1. i \in 1..n /\ i # k
        BY <1>1, <3>1
      <4>2. servers'[i] = servers[i]
        BY <1>2, <3>1
      <4> QED
        BY <4>1, <4>2
    <3>2. CASE ~(i < k)
      <4>1. i + 1 \in 1..n /\ i + 1 # k
        BY <1>1, <3>2
      <4>2. servers'[i] = servers[i + 1]
        BY <1>2, <3>2
      <4> QED
        BY <4>1, <4>2
    <3> QED
      BY <3>1, <3>2
  <2>2. servers[j] \in heap
    BY <1>1 DEF ToSet
  <2>3. servers[j] # sc
    BY <1>1, <1>4, <2>1
  <2> QED
    BY <1>2, <2>1, <2>2, <2>3
<1>7. ASSUME NEW a \in heap'
      PROVE  \E i \in 1..(n - 1) : servers'[i] = a
  <2>1. PICK j \in 1..n : servers[j] = a
    BY <1>1, <1>2, <1>7 DEF ToSet
  <2>2. j # k
    BY <1>1, <1>2, <1>7, <2>1
  <2>3. CASE j < k
    <3>1. j \in 1..(n - 1)
      BY <1>1, <2>3
    <3> QED
      BY <1>2, <2>1, <2>3, <3>1
  <2>4. CASE j > k
    <3>1. j - 1 \in 1..(n - 1) /\ ~(j - 1 < k) /\ (j - 1) + 1 = j
      BY <1>1, <2>4
    <3> QED
      BY <1>2, <2>1, <3>1
  <2> QED
    BY <1>1, <2>2, <2>3, <2>4
<1> QED
  BY <1>3, <1>5, <1>6, <1>7 DEF ToSet

LEMMA OwnedGrows ==
  ASSUME servers \in Seq(Addr), NEW sc, ListGrows(sc), ToSet(servers) = heap, IsInjective(servers)
  PROVE  ToSet(servers') = heap' /\ IsInjective(servers')
<1> DEFINE n == Len(servers)
<1>1. n \in Nat /\ DOMAIN servers = 1..n
  BY LenProperties
<1>2. /\ servers' \in Seq(Addr) /\ Len(servers') = n + 1 /\ heap' = heap \cup {sc} /\ sc \notin heap
      /\ servers'[n + 1] = sc /\ \A i \in 1..n : servers'[i] = servers[i]
  BY DEF ListGrows
<1>3. DOMAIN servers' = 1..(n + 1)
  BY <1>2, LenProperties
<1>4. /\ \A i \in 1..n : servers'[i] \in heap
      /\ \A i, j \in 1..n : servers'[i] = servers'[j] => i = j
  BY <1>1, <1>2 DEF ToSet, IsInjective
<1> HIDE DEF n
<1>5. \A i \in 1..(n + 1) : i \in 1..n \/ i = n + 1
  BY <1>1
<1>6. IsInjective(servers')
  BY <1>2, <1>3, <1>4, <1>5 DEF IsInjective
<1>7. ToSet(servers') = {servers'[i] : i \in 1..n} \cup {sc}
  BY <1>1, <1>2, <1>3, <1>5 DEF ToSet
<1>8. {servers'[i] : i \in 1..n} = heap
  BY <1>1, <1>2 DEF ToSet
<1> QED
  BY <1>2, <1>6, <1>7, <1>8

LEMMA ListOwnedStep ==
  ASSUME IInv, [Next]_vars
  PROVE  ListOwned'
<1>0. TypeOK /\ ListOwned /\ FailedNew /\ servers \in Seq(Addr) /\ past \in Past /\ heap \subseteq Addr
  BY DEF IInv, TypeOK, Past
<1>1. ASSUME UNCHANGED <<servers, heap>>, past'.addFailed = past.addFailed
      PROVE  ListOwned'
  BY <1>0, <1>1 DEF ListOwned
<1>2. CASE UNCHANGED vars \/ Refreshes \/ Waits \/ Dialog \/ Updates
  BY <1>0, <1>1, <1>2 DEF vars, list, Refreshes, Waits, Dialog, Updates, Past
<1>3. CASE NewCaught
  <2>1. /\ ui.at = "failed" /\ heap' = heap \ {ui.sc} /\ servers' = servers
        /\ past' = [past EXCEPT !.freedQueued = @ \/ ui.sc \in ToSet(msgs)]
    BY <1>3 DEF NewCaught, list
  <2>2. past'.addFailed = past.addFailed
    BY <1>0, <2>1 DEF Past
  <2>3. CASE ui.sc = None
    BY <1>0, <1>1, <2>1, <2>2, <2>3, ListAssumption
  <2>4. CASE ui.sc # None
    BY <1>0, <2>1, <2>2, <2>4 DEF FailedNew, ListOwned
  <2> QED
    BY <2>3, <2>4
<1>4. ASSUME NEW sc \in Addr, NEW rs \in Seq(Row), Deletes(sc, rs)
      PROVE  ListOwned'
  BY <1>0, <1>4, OwnedShrinks DEF Deletes, PastFollows, ListOwned
<1>5. ASSUME NEW sc \in Addr, NEW rs \in Seq(Row), Adds(sc, rs)
      PROVE  ListOwned'
  <2>1. ListGrows(sc) /\ past'.addFailed = past.addFailed
    BY <1>0, <1>5 DEF Adds, Past
  <2> QED
    BY <1>0, <2>1, OwnedGrows DEF ListOwned
<1>6. CASE \E sc \in Addr : NewUnsaved(sc)
  BY <1>0, <1>6 DEF NewUnsaved, ListOwned, Past
<1>7. CASE \E t \in Threads : ThreadLoop(t) \/ ThreadRuns(t)
  BY <1>0, <1>1, <1>7, ThreadIs DEF list
<1> QED
  BY <1>2, <1>3, <1>4, <1>5, <1>6, <1>7, StepIs

LEMMA SelectedValidStep ==
  ASSUME IInv, [Next]_vars
  PROVE  SelectedValid'
<1>0. TypeOK /\ SelectedValid /\ selected \in Int /\ servers \in Seq(Addr) /\ Len(servers) \in Nat
  BY LenProperties DEF IInv, TypeOK
<1>1. CASE UNCHANGED list
  BY <1>0, <1>1 DEF SelectedValid, list
<1>2. CASE UNCHANGED vars \/ Waits \/ Dialog \/ Updates \/ NewCaught
  BY <1>1, <1>2 DEF vars, Waits, Dialog, Updates, NewCaught
<1>3. CASE Refreshes
  BY <1>3 DEF Refreshes, SelectedValid
<1>4. ASSUME NEW sc \in Addr, NEW rs \in Seq(Row), Deletes(sc, rs)
      PROVE  SelectedValid'
  BY <1>0, <1>4 DEF Deletes, ListShrinks, SelectedValid
<1>5. ASSUME NEW sc \in Addr, NEW rs \in Seq(Row), Adds(sc, rs)
      PROVE  SelectedValid'
  BY <1>0, <1>5 DEF Adds, ListGrows, SelectedValid
<1>6. ASSUME NEW sc \in Addr, NewUnsaved(sc)
      PROVE  SelectedValid'
  <2>1. selected' = selected /\ Len(servers') = Len(servers) + 1
    BY <1>0, <1>6, AppendProperties DEF NewUnsaved
  <2> QED
    BY <1>0, <2>1 DEF SelectedValid
<1>7. CASE \E t \in Threads : ThreadLoop(t) \/ ThreadRuns(t)
  BY <1>0, <1>1, <1>7, ThreadIs
<1> QED
  BY <1>2, <1>3, <1>4, <1>5, <1>6, <1>7, StepIs

LEMMA WaitsForStep ==
  ASSUME IInv, [Next]_vars
  PROVE  WaitsFor'
<1>0. TypeOK /\ WaitsFor
  BY DEF IInv
<1>1. CASE UNCHANGED <<list, ui>>
  BY <1>0, <1>1 DEF WaitsFor, list
<1>2. CASE UNCHANGED vars
  BY <1>1, <1>2 DEF vars
<1>3. CASE Waits
  BY <1>3 DEF Waits, WaitsFor, list
<1>4. CASE ui'.at \in {"idle", "dialog", "failed"}
  BY <1>4 DEF WaitsFor
<1>5. CASE Refreshes \/ Dialog \/ Updates \/ NewCaught \/ \E sc \in Addr : NewUnsaved(sc)
  BY <1>4, <1>5 DEF Refreshes, Dialog, Updates, NewCaught, NewUnsaved, Idle
<1>6. CASE \E sc \in Addr, rs \in Seq(Row) : Deletes(sc, rs)
  BY <1>4, <1>6 DEF Deletes, Idle
<1>7. CASE \E sc \in Addr, rs \in Seq(Row) : Adds(sc, rs)
  BY <1>4, <1>7 DEF Adds, Idle
<1>8. CASE \E t \in Threads : ThreadLoop(t) \/ ThreadRuns(t)
  BY <1>0, <1>1, <1>8, ThreadIs
<1> QED
  BY <1>2, <1>3, <1>5, <1>6, <1>7, <1>8, StepIs

LEMMA RowNumbersStep ==
  ASSUME IInv, [Next]_vars
  PROVE  RowNumbers'
<1>0. TypeOK /\ RowNumbers /\ TypeOK'
  BY TypeStep DEF IInv
<1>a. /\ servers \in Seq(Addr) /\ rows \in Seq(Row) /\ rows' \in Seq(Row)
  BY <1>0 DEF TypeOK, Row
<1>b. /\ Len(servers) \in Nat /\ DOMAIN rows = 1..Len(rows) /\ DOMAIN rows' = 1..Len(rows')
      /\ \A i \in 1..Len(rows) : rows[i].nr \in Int
  BY <1>0, <1>a, LenProperties, RowIs
<1>1. CASE UNCHANGED <<servers, rows, ui>>
  BY <1>0, <1>1 DEF RowNumbers
<1>2. CASE UNCHANGED vars
  BY <1>1, <1>2 DEF vars, list, views
<1>3. CASE Refreshes
  BY <1>0, <1>3, <1>b DEF Refreshes, ViewsShow, RowNumbers, Idle
<1>4. CASE Waits
  <2>1. CASE ui'.at = "stopping"
    BY <1>0, <1>4, <2>1 DEF Waits, RowNumbers, Idle, list
  <2>2. CASE ui'.at = "deleting"
    BY <1>4, <2>2 DEF Waits, RowNumbers, list
  <2> QED
    BY <1>4, <2>1, <2>2 DEF Waits
<1>5. CASE Dialog \/ NewCaught
  BY <1>0, <1>5 DEF Dialog, NewCaught, RowNumbers, Idle, list, views
<1>6. CASE Updates
  BY <1>0, <1>6, <1>b DEF Updates, RowNumbers, list
<1>7. ASSUME NEW sc \in Addr, NEW rs \in Seq(Row), Deletes(sc, rs)
      PROVE  RowNumbers'
  <2>1. ui'.at = "idle" /\ Len(servers') = Len(servers) - 1
    BY <1>7 DEF Deletes, ListShrinks, Idle
  <2>2. Len(rows') = Len(rs) /\ \A i \in 1..Len(rs) : rows'[i].nr <= Len(servers) - 1
    BY <1>7 DEF Deletes, ViewsFollow
  <2> QED
    BY <1>b, <2>1, <2>2 DEF RowNumbers
<1>8. ASSUME NEW sc \in Addr, NEW rs \in Seq(Row), Adds(sc, rs)
      PROVE  RowNumbers'
  <2>1. ui'.at = "idle" /\ Len(servers') = Len(servers) + 1
    BY <1>8 DEF Adds, ListGrows, Idle
  <2>2. Len(rows') = Len(rs) /\ \A i \in 1..Len(rs) : rows'[i].nr <= Len(servers) + 1
    BY <1>8 DEF Adds, ViewsShow
  <2> QED
    BY <1>b, <2>1, <2>2 DEF RowNumbers
<1>9. ASSUME NEW sc \in Addr, NewUnsaved(sc)
      PROVE  RowNumbers'
  <2>1. rows' = rows /\ Len(servers') = Len(servers) + 1 /\ ui.at = "dialog" /\ ui'.at = "failed"
    BY <1>9, <1>a, AppendProperties DEF NewUnsaved, views
  <2>2. \A i \in 1..Len(rows) : rows[i].nr <= Len(servers)
    BY <1>0, <1>b, <2>1 DEF RowNumbers
  <2>3. \A i \in 1..Len(rows) : rows[i].nr <= Len(servers) + 1
    BY <1>b, <2>2
  <2> QED
    BY <1>b, <2>1, <2>3 DEF RowNumbers
<1>10. CASE \E t \in Threads : ThreadLoop(t) \/ ThreadRuns(t)
  BY <1>0, <1>1, <1>10, ThreadIs DEF list, views
<1> QED
  BY <1>2, <1>3, <1>4, <1>5, <1>6, <1>7, <1>8, <1>9, <1>10, StepIs

LEMMA RowsStrongStep ==
  ASSUME IInv, [Next]_vars
  PROVE  RowsStrong'
<1>0. TypeOK /\ ListOwned /\ RowsStrong /\ ListOwned'
  BY ListOwnedStep DEF IInv
<1>a. servers \in Seq(Addr) /\ rows \in Seq(Row) /\ Len(servers) \in Nat /\ past \in Past
  BY <1>0, LenProperties DEF TypeOK, Row, Past
<1>1. CASE UNCHANGED <<list, rows, ui>> /\ past' = past
  BY <1>0, <1>1 DEF RowsStrong, RowsOf, list
<1>2. CASE UNCHANGED vars
  BY <1>1, <1>2 DEF vars, list, views
<1>3. CASE Refreshes
  <2>1. ASSUME ~past'.addFailed
        PROVE  RowsOf(servers) /\ IsInjective(servers) /\ servers' = servers
    BY <1>0, <1>3, <1>a, <2>1 DEF Refreshes, RowsStrong, ListOwned, Past
  <2>2. ui'.at = "idle" /\ ViewsShow(rows)
    BY <1>3 DEF Refreshes, Idle
  <2> QED
    BY <2>1, <2>2 DEF ViewsShow, RowsStrong, RowsOf
<1>4. CASE Waits
  <2>1. CASE ui'.at = "stopping"
    BY <1>0, <1>4, <2>1 DEF Waits, RowsStrong, RowsOf, Idle, list
  <2>2. CASE ui'.at = "deleting"
    <3>1. selected + 1 \in 1..Len(servers)
      BY <1>4, <1>a DEF Waits
    <3>2. Len(RemoveAt(servers, selected + 1)) = Len(servers) - 1
      BY <1>a, <3>1, RemoveAtIs
    <3> QED
      BY <1>4, <2>2, <3>2 DEF Waits, RowsStrong, RowsOf, list
  <2> QED
    BY <1>4, <2>1, <2>2 DEF Waits
<1>5. CASE Dialog
  BY <1>0, <1>5 DEF Dialog, RowsStrong, RowsOf, list, views
<1>6. CASE NewCaught
  <2>1. /\ ui.at = "failed" /\ ui'.at = "idle" /\ UNCHANGED <<list, rows>>
        /\ past'.addFailed = past.addFailed /\ past'.stale = past.stale
    BY <1>6, <1>a DEF NewCaught, Idle, views, Past
  <2> QED
    BY <1>0, <2>1 DEF RowsStrong, RowsOf, list
<1>7. CASE Updates
  BY <1>0, <1>7 DEF Updates, RowsStrong, RowsOf, list
<1>8. ASSUME NEW sc \in Addr, NEW rs \in Seq(Row), Deletes(sc, rs)
      PROVE  RowsStrong'
  <2>1. SUFFICES ASSUME ~past'.addFailed
                 PROVE  RowsOf(servers)' /\ (~past'.stale => \A i \in 1..Len(rows') : rows'[i].text = servers'[i])
    BY <1>8 DEF Deletes, RowsStrong, Idle
  <2>2. /\ ~past.addFailed /\ ListShrinks(sc) /\ ViewsFollow(rs)
        /\ Len(rs) = Len(servers) - 1
        /\ \A i \in 1..(Len(servers) - 1) :
             rs[i].nr = i /\ rs[i].status = RemoveAt(servers, selected + 1)[i]
    BY <1>8, <2>1 DEF Deletes, PastFollows
  <2>3. servers' = RemoveAt(servers, selected + 1) /\ Len(servers') = Len(servers) - 1
    BY <2>2 DEF ListShrinks
  <2>4. /\ Len(rows') = Len(servers')
        /\ \A i \in 1..Len(servers') : rows'[i].nr = i /\ rows'[i].status = servers'[i]
    BY <2>2, <2>3 DEF ViewsFollow
  <2>5. IsInjective(servers')
    BY <1>0, <2>1 DEF ListOwned
  <2>6. ~past'.stale => \A i \in 1..Len(rows') : rows'[i].text = servers'[i]
    <3>1. \A i \in 1..Len(servers') : i <= Len(servers')
      BY <1>a, <2>3
    <3> QED
      BY <2>2, <2>3, <2>4, <2>5, <3>1 DEF ViewsFollow
  <2> QED
    BY <2>4, <2>6 DEF RowsOf
<1>9. ASSUME NEW sc \in Addr, NEW rs \in Seq(Row), Adds(sc, rs)
      PROVE  RowsStrong'
  <2>1. SUFFICES ASSUME ~past'.addFailed
                 PROVE  RowsOf(servers)' /\ \A i \in 1..Len(rows') : rows'[i].text = servers'[i]
    BY <1>9 DEF Adds, RowsStrong, Idle
  <2>2. ~past.addFailed /\ ui.at = "dialog"
    BY <1>9, <1>a, <2>1 DEF Adds, Past
  <2>3. RowsOf(servers) /\ IsInjective(servers')
    BY <1>0, <2>1, <2>2 DEF RowsStrong, ListOwned
  <2>4. /\ Len(rs) = Len(servers) + 1 /\ Len(servers') = Len(servers) + 1 /\ ViewsShow(rs)
        /\ \A i \in 1..(Len(servers) + 1) : rs[i].nr = i /\ rs[i].status = servers'[i]
    BY <1>9, <2>3 DEF Adds, ListGrows
  <2>5. \A i \in 1..Len(servers') : i <= Len(servers')
    BY <1>a, <2>4
  <2> QED
    BY <2>3, <2>4, <2>5 DEF ViewsShow, RowsOf
<1>10. CASE \E sc \in Addr : NewUnsaved(sc)
  BY <1>10, <1>a DEF NewUnsaved, RowsStrong, Past
<1>11. CASE \E t \in Threads : ThreadLoop(t) \/ ThreadRuns(t)
  BY <1>0, <1>1, <1>11, ThreadIs DEF views
<1> QED
  BY <1>2, <1>3, <1>4, <1>5, <1>6, <1>7, <1>8, <1>9, <1>10, <1>11, StepIs

LEMMA FailedNewStep ==
  ASSUME IInv, [Next]_vars
  PROVE  FailedNew'
<1>0. TypeOK /\ FailedNew /\ Living /\ past \in Past /\ th \in [Threads -> [pc : {"none", "starting", "running", "left"}, sc : Addr \cup {None}]]
  BY DEF IInv, TypeOK, Past
<1>1. CASE ui'.at # "failed" \/ ui'.sc = None
  BY <1>1 DEF FailedNew
<1>2. CASE UNCHANGED <<ui, past>> /\ ThreadsStay
  BY <1>0, <1>2 DEF FailedNew, ThreadsStay
<1>3. CASE UNCHANGED vars
  BY <1>2, <1>3 DEF vars, control, ThreadsStay
<1>4. CASE Refreshes \/ Waits \/ Dialog \/ NewCaught
  BY <1>1, <1>4 DEF Refreshes, Waits, Dialog, NewCaught, Idle
<1>5. CASE Updates
  BY <1>2, <1>5 DEF Updates, ThreadsStay
<1>6. CASE \E sc \in Addr, rs \in Seq(Row) : Deletes(sc, rs)
  BY <1>1, <1>6 DEF Deletes, Idle
<1>7. CASE \E sc \in Addr, rs \in Seq(Row) : Adds(sc, rs)
  BY <1>1, <1>7 DEF Adds, Idle
<1>8. ASSUME NEW sc \in Addr, NewUnsaved(sc), Next
      PROVE  FailedNew'
  <2>1. /\ ui'.sc = sc /\ sc \notin heap /\ th' = th /\ past' = [past EXCEPT !.addFailed = TRUE]
    BY <1>8 DEF NewUnsaved, Construct
  <2>2. past.freedLive \/ \A t \in Threads : th[t].pc # "none" => th[t].sc \in heap
    BY <1>0, <1>8 DEF Next, Living
  <2>3. past'.addFailed /\ (past'.freedLive <=> past.freedLive)
    BY <1>0, <2>1 DEF Past
  <2> QED
    BY <2>1, <2>2, <2>3 DEF FailedNew
<1>9. CASE \E t \in Threads : ThreadLoop(t) \/ ThreadRuns(t)
  <2>1. ThreadsStay /\ UNCHANGED <<ui, past>>
    BY <1>0, <1>9, ThreadIs DEF ThreadsStay, control
  <2> QED
    BY <1>2, <2>1
<1> QED
  BY <1>3, <1>4, <1>5, <1>6, <1>7, <1>8, <1>9, StepIs

LEMMA LivingStep ==
  ASSUME IInv, [Next]_vars
  PROVE  Living'
<1> SUFFICES ASSUME fault' = "none"
             PROVE  /\ past'.freedLive \/ \A t \in Threads : th'[t].pc # "none" => th'[t].sc \in heap'
                    /\ past'.freedQueued \/ \A i \in 1..Len(msgs') : msgs'[i] \in heap'
  BY DEF Living
<1>0. /\ TypeOK /\ FailedNew /\ past \in Past /\ heap \subseteq Addr /\ msgs \in Seq(Addr)
      /\ Len(msgs) \in Nat /\ DOMAIN msgs = 1..Len(msgs)
  <2>1. msgs \in Seq(Addr)
    BY DEF IInv, TypeOK
  <2> QED
    BY <2>1, LenProperties DEF IInv, TypeOK, Past
<1>1. fault = "none"
  BY DEF Next, vars
<1>2. /\ past.freedLive \/ \A t \in Threads : th[t].pc # "none" => th[t].sc \in heap
      /\ past.freedQueued \/ \A i \in 1..Len(msgs) : msgs[i] \in heap
  BY <1>1 DEF IInv, Living
<1>3. CASE UNCHANGED vars \/ Waits \/ Dialog
  BY <1>2, <1>3 DEF vars, control, Waits, Dialog
<1>4. CASE Refreshes
  <2>1. /\ UNCHANGED <<servers, heap, msgs>> /\ ToSet(servers) \subseteq heap
        /\ past'.freedLive = past.freedLive /\ past'.freedQueued = past.freedQueued
    BY <1>0, <1>4 DEF Refreshes, ViewsShow, Past
  <2>2. ThreadsStay \/ \E t \in Threads : /\ th'[t].sc \in ToSet(servers)
                                          /\ \A u \in Threads \ {t} : th'[u] = th[u]
    BY <1>4 DEF Refreshes
  <2>3. past.freedLive \/ \A t \in Threads : th'[t].pc # "none" => th'[t].sc \in heap
    BY <1>2, <2>1, <2>2 DEF ThreadsStay
  <2> QED
    BY <1>2, <2>1, <2>3
<1>5. CASE Updates
  <2>1. Len(Tail(msgs)) = Len(msgs) - 1 /\ \A i \in 1..(Len(msgs) - 1) : Tail(msgs)[i] = msgs[i + 1]
    BY <1>0, <1>5, HeadTailProperties DEF Updates
  <2>2. \A i \in 1..(Len(msgs) - 1) : i + 1 \in 1..Len(msgs)
    BY <1>0
  <2> QED
    BY <1>2, <1>5, <2>1, <2>2 DEF Updates
<1>6. CASE NewCaught
  <2>1. /\ ui.at = "failed" /\ heap' = heap \ {ui.sc} /\ UNCHANGED <<th, msgs>>
        /\ past' = [past EXCEPT !.freedQueued = @ \/ ui.sc \in ToSet(msgs)]
    BY <1>6 DEF NewCaught, control
  <2>2. /\ past'.freedLive = past.freedLive
        /\ past'.freedQueued <=> past.freedQueued \/ ui.sc \in ToSet(msgs)
    <3> DEFINE q == ui.sc \in ToSet(msgs)
    <3>1. past' = [past EXCEPT !.freedQueued = @ \/ q]
      BY <2>1
    <3> HIDE DEF q
    <3>2. past'.freedLive = past.freedLive /\ (past'.freedQueued <=> past.freedQueued \/ q)
      BY <1>0, <3>1 DEF Past
    <3> QED
      BY <3>2 DEF q
  <2>3. ui.sc # None => past.freedLive \/ \A t \in Threads : th[t].pc # "none" => th[t].sc # ui.sc
    BY <1>0, <2>1 DEF FailedNew
  <2>4. ui.sc = None => heap' = heap
    BY <1>0, <2>1, ListAssumption
  <2>5. past'.freedLive \/ \A t \in Threads : th'[t].pc # "none" => th'[t].sc \in heap'
    BY <1>2, <2>1, <2>2, <2>3, <2>4
  <2>6. past'.freedQueued \/ \A i \in 1..Len(msgs') : msgs'[i] \in heap'
    BY <1>0, <1>2, <2>1, <2>2 DEF ToSet
  <2> QED
    BY <2>5, <2>6
<1>7. ASSUME NEW sc \in Addr, NEW rs \in Seq(Row), Deletes(sc, rs)
      PROVE  /\ past'.freedLive \/ \A t \in Threads : th'[t].pc # "none" => th'[t].sc \in heap'
             /\ past'.freedQueued \/ \A i \in 1..Len(msgs') : msgs'[i] \in heap'
  <2>1. heap' = heap \ {sc} /\ ThreadsStay /\ msgs' = msgs /\ PastFollows(sc, th')
    BY <1>7 DEF Deletes, ListShrinks
  <2>2. past'.freedLive \/ \A t \in Threads : th'[t].pc # "none" => th'[t].sc \in heap'
    BY <1>2, <2>1 DEF PastFollows, ThreadsStay
  <2>3. past'.freedQueued \/ \A i \in 1..Len(msgs') : msgs'[i] \in heap'
    BY <1>0, <1>2, <2>1 DEF PastFollows, ToSet
  <2> QED
    BY <2>2, <2>3
<1>8. ASSUME NEW sc \in Addr, NEW rs \in Seq(Row), Adds(sc, rs)
      PROVE  /\ past'.freedLive \/ \A t \in Threads : th'[t].pc # "none" => th'[t].sc \in heap'
             /\ past'.freedQueued \/ \A i \in 1..Len(msgs') : msgs'[i] \in heap'
  BY <1>0, <1>2, <1>8 DEF Adds, ListGrows, Past
<1>9. ASSUME NEW sc \in Addr, NewUnsaved(sc)
      PROVE  /\ past'.freedLive \/ \A t \in Threads : th'[t].pc # "none" => th'[t].sc \in heap'
             /\ past'.freedQueued \/ \A i \in 1..Len(msgs') : msgs'[i] \in heap'
  BY <1>0, <1>2, <1>9 DEF NewUnsaved, Construct, Past
<1>10. ASSUME NEW t \in Threads, ThreadLoop(t) \/ ThreadRuns(t)
       PROVE  /\ past'.freedLive \/ \A u \in Threads : th'[u].pc # "none" => th'[u].sc \in heap'
              /\ past'.freedQueued \/ \A i \in 1..Len(msgs') : msgs'[i] \in heap'
  <2>1. /\ UNCHANGED <<heap, past>> /\ th[t].sc \in heap /\ ThreadsStay
        /\ \A i \in 1..Len(msgs') : msgs'[i] = th[t].sc \/ (i \in 1..Len(msgs) /\ msgs'[i] = msgs[i])
    BY <1>0, <1>10, ThreadIs DEF ThreadsStay
  <2> QED
    BY <1>2, <2>1 DEF ThreadsStay
<1> QED
  BY <1>3, <1>4, <1>5, <1>6, <1>7, <1>8, <1>9, <1>10, StepIs

LEMMA PaneShowsStep ==
  ASSUME IInv, [Next]_vars
  PROVE  PaneShows'
<1>0. TypeOK /\ SelectedValid /\ PaneShows /\ past \in Past
  BY DEF IInv, TypeOK, Past
<1>1. fault' = "none" => fault = "none"
  BY DEF Next, vars
<1>2. CASE UNCHANGED <<list, pane>> /\ past'.stale = past.stale
  BY <1>0, <1>1, <1>2 DEF PaneShows, list
<1>3. CASE UNCHANGED vars \/ Waits \/ Dialog \/ Updates
  BY <1>2, <1>3 DEF vars, views, Waits, Dialog, Updates
<1>4. CASE NewCaught
  <2>1. past'.stale = past.stale
    BY <1>0, <1>4 DEF NewCaught, Past
  <2> QED
    BY <1>2, <1>4, <2>1 DEF NewCaught, views
<1>5. CASE Refreshes
  BY <1>5 DEF Refreshes, ViewsShow, PaneShows
<1>6. CASE \E sc \in Addr, rs \in Seq(Row) : Deletes(sc, rs)
  BY <1>6 DEF Deletes, ViewsFollow, PaneShows
<1>7. CASE \E sc \in Addr, rs \in Seq(Row) : Adds(sc, rs)
  BY <1>7 DEF Adds, ViewsShow, PaneShows
<1>8. ASSUME NEW sc \in Addr, NewUnsaved(sc)
      PROVE  PaneShows'
  <2>1. /\ UNCHANGED <<selected, pane>> /\ servers' = Append(servers, sc)
        /\ past' = [past EXCEPT !.addFailed = TRUE]
    BY <1>8 DEF NewUnsaved, views
  <2>2. past'.stale = past.stale
    BY <1>0, <2>1 DEF Past
  <2>3. /\ Len(servers) \in Nat /\ Len(servers') = Len(servers) + 1 /\ selected \in Int
        /\ selected < Len(servers) /\ \A i \in 1..Len(servers) : servers'[i] = servers[i]
    <3>1. servers \in Seq(Addr)
      BY <1>0 DEF TypeOK
    <3> QED
      BY <1>0, <2>1, <3>1, LenProperties, AppendProperties DEF SelectedValid, TypeOK
  <2>4. getSelectedServer(servers', selected') = getSelectedServer(servers, selected)
    BY <2>1, <2>3 DEF getSelectedServer
  <2> QED
    BY <1>0, <1>1, <2>1, <2>2, <2>4 DEF PaneShows
<1>9. CASE \E t \in Threads : ThreadLoop(t) \/ ThreadRuns(t)
  <2>1. UNCHANGED <<list, views, past>>
    BY <1>0, <1>9, ThreadIs
  <2> QED
    BY <1>2, <2>1 DEF views
<1> QED
  BY <1>3, <1>4, <1>5, <1>6, <1>7, <1>8, <1>9, StepIs

LEMMA FaultHasCauseStep ==
  ASSUME IInv, [Next]_vars
  PROVE  FaultHasCause'
<1>0. TypeOK /\ ListOwned' /\ FaultHasCause /\ past \in Past /\ msgs \in Seq(Addr)
  BY ListOwnedStep DEF IInv, TypeOK, Past
<1>1. CASE UNCHANGED vars
  BY <1>0, <1>1 DEF vars, FaultHasCause
<1>2. CASE Next
  <2>0. /\ fault = "none"
        /\ past.freedLive \/ \A t \in Threads : th[t].pc # "none" => th[t].sc \in heap
        /\ past.freedQueued \/ \A i \in 1..Len(msgs) : msgs[i] \in heap
    BY <1>2 DEF Next, IInv, Living
  <2>1. CASE fault' = "none"
    BY <2>1 DEF FaultHasCause
  <2>2. CASE /\ fault' \in {"none", "view", "index"}
             /\ fault' = "view" <=> ~(ToSet(servers') \subseteq heap')
    BY <1>0, <2>2 DEF ListOwned, FaultHasCause
  <2>3. CASE Waits \/ Dialog \/ NewCaught \/ \E sc \in Addr : NewUnsaved(sc)
    BY <2>0, <2>1, <2>3 DEF Waits, Dialog, NewCaught, NewUnsaved
  <2>4. CASE Refreshes
    BY <2>2, <2>4 DEF Refreshes, ViewsShow
  <2>5. CASE \E sc \in Addr, rs \in Seq(Row) : Deletes(sc, rs)
    BY <2>0, <2>1, <2>2, <2>5 DEF Deletes, ViewsFollow
  <2>6. CASE \E sc \in Addr, rs \in Seq(Row) : Adds(sc, rs)
    BY <2>2, <2>6 DEF Adds, ViewsShow
  <2>7. CASE Updates
    <3>1. past' = past /\ (fault' = "none" \/ (fault' = "message" /\ Head(msgs) \notin heap))
      BY <2>0, <2>7 DEF Updates
    <3>2. Head(msgs) = msgs[1] /\ 1 \in 1..Len(msgs)
      BY <1>0, <2>7, HeadTailProperties, EmptySeq, LenProperties DEF Updates
    <3> QED
      BY <2>0, <3>1, <3>2 DEF FaultHasCause
  <2>8. ASSUME NEW t \in Threads, ThreadLoop(t) \/ ThreadRuns(t)
        PROVE  FaultHasCause'
    <3>1. /\ past' = past /\ th[t].pc # "none"
          /\ fault' = fault \/ (fault' = "thread" /\ th[t].sc \notin heap)
      BY <1>0, <2>8, ThreadIs
    <3> QED
      BY <2>0, <3>1 DEF FaultHasCause
  <2> QED
    BY <1>2, <2>3, <2>4, <2>5, <2>6, <2>7, <2>8, StepIs
<1> QED
  BY <1>1, <1>2

LEMMA InitIInv ==
  ASSUME Init
  PROVE  IInv
<1>0. /\ TypeOK /\ servers \in Seq(Addr) /\ Len(servers) = Loaded /\ Loaded \in Nat
      /\ DOMAIN servers = 1..Loaded /\ IsInjective(servers)
  <2>1. servers \in [1..Loaded -> Addr] /\ Loaded \in Nat /\ IsInjective(servers)
    BY ListAssumption DEF Init
  <2> QED
    BY <2>1, FunIsSeq, InitType
<1>1. /\ selected = -1 /\ rows = OnInitialUpdate(servers) /\ pane = None /\ heap = ToSet(servers)
      /\ th = [t \in Threads |-> Off] /\ msgs = <<>> /\ ui = Idle /\ fault = "none"
      /\ past = [addFailed |-> FALSE, stale |-> FALSE, freedLive |-> FALSE, freedQueued |-> FALSE]
  BY DEF Init
<1>2. /\ Len(rows) = Loaded /\ DOMAIN rows = 1..Loaded
      /\ \A i \in 1..Loaded : rows[i].nr = i /\ rows[i].status = servers[i] /\ rows[i].text = servers[i]
  <2>1. rows = [i \in 1..Loaded |-> [nr |-> i, text |-> servers[i], status |-> servers[i]]]
    BY <1>0, <1>1 DEF OnInitialUpdate
  <2>2. \A i \in 1..Loaded : [nr |-> i, text |-> servers[i], status |-> servers[i]] \in Row
    BY <1>0, ElementOfSeq DEF Row
  <2>3. rows \in [1..Loaded -> Row]
    BY <2>1, <2>2
  <2> QED
    BY <1>0, <2>1, <2>3, FunIsSeq
<1>3. ListOwned /\ SelectedValid /\ WaitsFor /\ FailedNew /\ FaultHasCause
  BY <1>0, <1>1 DEF ListOwned, SelectedValid, WaitsFor, FailedNew, FaultHasCause, Idle
<1>4. RowNumbers
  BY <1>0, <1>1, <1>2 DEF RowNumbers, Idle
<1>5. RowsStrong
  BY <1>0, <1>1, <1>2 DEF RowsStrong, RowsOf, Idle
<1>6. Living
  <2>1. Len(msgs) = 0
    BY <1>1, EmptySeq
  <2> QED
    BY <1>1, <2>1 DEF Living, Off
<1>7. PaneShows
  BY <1>0, <1>1 DEF PaneShows, getSelectedServer
<1> QED
  BY <1>0, <1>3, <1>4, <1>5, <1>6, <1>7 DEF IInv

-----------------------------------------------------------------------------
(* The theorems.                                                           *)

\* IInv holds at the start and in every step.
THEOREM Invariance == Spec => []IInv
<1>1. IInv /\ [Next]_vars => IInv'
  <2> SUFFICES ASSUME IInv, [Next]_vars
               PROVE  IInv'
    OBVIOUS
  <2>1. TypeOK /\ WaitsFor
    BY DEF IInv
  <2>2. TypeOK'
    BY <2>1, TypeStep
  <2>3. ListOwned' /\ SelectedValid' /\ WaitsFor' /\ RowNumbers'
    BY ListOwnedStep, SelectedValidStep, WaitsForStep, RowNumbersStep
  <2>4. RowsStrong' /\ FailedNew' /\ Living' /\ PaneShows' /\ FaultHasCause'
    BY RowsStrongStep, FailedNewStep, LivingStep, PaneShowsStep, FaultHasCauseStep
  <2> QED
    BY <2>2, <2>3, <2>4 DEF IInv
<1> QED
  BY <1>1, InitIInv, PTL DEF Spec

\* The variables keep their types.
THEOREM TypeCorrect == Spec => []TypeOK
<1>1. IInv => TypeOK
  BY DEF IInv
<1> QED
  BY <1>1, Invariance, PTL

\* Unless a New failed to save, the list holds the servers that exist, each once.
THEOREM ListOwnedCorrect == Spec => []ListOwned
<1>1. IInv => ListOwned
  BY DEF IInv
<1> QED
  BY <1>1, Invariance, PTL

\* No index behind the last server is ever selected, whatever failed before.
THEOREM SelectedValidCorrect == Spec => []SelectedValid
<1>1. IInv => SelectedValid
  BY DEF IInv
<1> QED
  BY <1>1, Invariance, PTL

\* Each row of the window shows the server that has its place in the list.
THEOREM RowsMatchCorrect == Spec => []RowsMatch
<1>1. IInv => RowsMatch
  <2> SUFFICES ASSUME IInv, ~past.addFailed, ui.at # "deleting"
               PROVE  /\ Len(rows) = Len(servers)
                      /\ \A i \in DOMAIN rows : rows[i].nr = i /\ rows[i].status = servers[i]
                      /\ ~past.stale => \A i \in DOMAIN rows : rows[i].text = servers[i]
    BY DEF RowsMatch
  <2>1. RowsOf(servers) /\ (~past.stale => \A i \in 1..Len(rows) : rows[i].text = servers[i])
    BY DEF IInv, RowsStrong
  <2>2. DOMAIN rows = 1..Len(rows)
    BY LenProperties DEF IInv, TypeOK, Row
  <2> QED
    BY <2>1, <2>2 DEF RowsOf
<1> QED
  BY <1>1, Invariance, PTL

\* Freed memory is used for the three reasons the code leaves open, and for no other.
THEOREM FaultHasCauseCorrect == Spec => []FaultHasCause
<1>1. IInv => FaultHasCause
  BY DEF IInv
<1> QED
  BY <1>1, Invariance, PTL

\* Only Delete makes the list shorter, and it removes the server at the selected index.
LEMMA DeleteHits ==
  ASSUME IInv, Next, Len(servers') < Len(servers), ~past.stale
  PROVE  servers[selected + 1] = pane
<1>0. TypeOK /\ servers \in Seq(Addr) /\ Len(servers) \in Nat
  BY LenProperties DEF IInv, TypeOK
<1>1. CASE servers' = servers
  BY <1>0, <1>1
<1>2. CASE Refreshes \/ Waits \/ Dialog \/ Updates \/ NewCaught
  BY <1>1, <1>2 DEF Refreshes, Waits, Dialog, Updates, NewCaught, list
<1>3. CASE \E sc \in Addr, rs \in Seq(Row) : Deletes(sc, rs)
  <2>1. selected \in 0..(Len(servers) - 1)
    BY <1>3 DEF Deletes
  <2>2. pane = getSelectedServer(servers, selected)
    BY DEF IInv, PaneShows, Next
  <2> QED
    BY <2>1, <2>2 DEF getSelectedServer
<1>4. CASE \E sc \in Addr, rs \in Seq(Row) : Adds(sc, rs)
  BY <1>0, <1>4 DEF Adds, ListGrows
<1>5. CASE \E sc \in Addr : NewUnsaved(sc)
  BY <1>0, <1>5, AppendProperties DEF NewUnsaved
<1>6. CASE \E t \in Threads : ThreadLoop(t) \/ ThreadRuns(t)
  BY <1>0, <1>1, <1>6, ThreadIs DEF list
<1> QED
  BY <1>2, <1>3, <1>4, <1>5, <1>6, StepIs

\* Delete removes the server whose settings the lower pane shows.
THEOREM DeleteHitsShownCorrect == Spec => DeleteHitsShown
<1>1. IInv /\ [Next]_vars =>
        [(Len(servers') < Len(servers) /\ ~past.stale) => servers[selected + 1] = pane]_vars
  BY DeleteHits
<1> QED
  BY <1>1, Invariance, PTL DEF Spec, DeleteHitsShown
=============================================================================
