------------------------- MODULE PersistenceProofs -------------------------
(***************************************************************************)
(* Proofs about Persistence, for any servers and lists of any length.      *)
(*                                                                         *)
(* The file is a sequence of values, and the model makes and reads it with *)
(* FlattenSeq, concatenation and a search for the first object that cannot *)
(* be read.  The first half says place by place what these make: FlattenSeq*)
(* (FlattenSeqIs), the archive (WrittenIs, OldFileIs), and what Load finds *)
(* in a beginning of one (LoadWritten, LoadOld): the whole list, or no     *)
(* server at all.  The second half is the invariant, which follows a write *)
(* from the empty file to its end (Pending), and the refinement.           *)
(***************************************************************************)
EXTENDS Persistence, SequenceTheorems, WellFoundedInduction, TLAPS

(* The numbers of a nonempty set have a least one. *)
LEMMA LeastExists ==
  ASSUME NEW T, T \subseteq Nat, T # {}
  PROVE  \E i \in T : \A j \in T : i <= j
<1> DEFINE R == OpToRel(<, Nat)
<1>1. IsWellFoundedOn(R, Nat)
  BY NatLessThanWellFounded
<1>2. PICK i \in T : \A j \in T : ~(<<j, i>> \in R)
  <2> HIDE DEF R
  <2> QED  BY <1>1, WFMin
<1>3. \A j \in T : j < i => <<j, i>> \in R
  BY DEF OpToRel
<1>4. i \in Nat /\ \A j \in T : j \in Nat /\ ~(j < i)
  BY <1>2, <1>3
<1>5. \A j \in T : i <= j
  <2> HIDE DEF R
  <2> QED  BY <1>4
<1> QED  BY <1>5

(* Places in a file of objects of one size. *)
LEMMA Places ==
  ASSUME NEW a \in Nat, NEW n \in Nat, NEW k \in 1..n
  PROVE  /\ k * a \in Nat /\ (k - 1) * a \in Nat /\ (k - 1) * a + a = k * a
         /\ n * a \in Nat /\ k * a <= n * a
<1>1. ASSUME NEW b \in Nat PROVE b * a \in Nat
  OBVIOUS
<1>2. k \in Nat /\ k - 1 \in Nat /\ n - k \in Nat
  OBVIOUS
<1>3. k * a \in Nat /\ (k - 1) * a \in Nat /\ (n - k) * a \in Nat /\ n * a \in Nat
  BY <1>1, <1>2
<1>4. (k - 1) * a + a = k * a /\ k * a + (n - k) * a = n * a
  BY <1>2
<1> QED  BY <1>3, <1>4

-----------------------------------------------------------------------------
(* FlattenSeq is defined by a recursive function.  Flattens says that f is *)
(* that function for the first n of the sequences ss.                      *)

Flattens(f, ss, n) == f = [i \in 1..n |-> IF i = 1 THEN ss[i] ELSE f[i - 1] \o ss[i]]

\* There is one: a function for n can be extended to n + 1.
LEMMA FlattensExists ==
  ASSUME NEW ss, NEW n \in Nat
  PROVE  \E f : Flattens(f, ss, n)
<1> DEFINE T == {m \in 0..n : ~ \E f : Flattens(f, ss, m)}
<1>1. SUFFICES ASSUME T # {} PROVE FALSE
  BY <1>1
<1>2. PICK m \in T : \A j \in T : m <= j
  <2>1. T \subseteq Nat
    OBVIOUS
  <2> HIDE DEF T
  <2> QED  BY <1>1, <2>1, LeastExists
<1>3. CASE m = 0
  <2>1. Flattens([i \in 1..0 |-> 0], ss, 0)
    BY DEF Flattens
  <2> QED  BY <1>2, <1>3, <2>1
<1>4. CASE m # 0
  <2>1. m - 1 \in 0..n /\ m - 1 \notin T
    BY <1>2, <1>4
  <2>2. PICK f : Flattens(f, ss, m - 1)
    BY <2>1
  <2> DEFINE g == [i \in 1..m |-> IF i = 1 THEN ss[i] ELSE f[i - 1] \o ss[i]]
  <2>3. \A i \in 1..(m - 1) : f[i] = g[i]
    <3>1. ASSUME NEW i \in 1..(m - 1) PROVE f[i] = IF i = 1 THEN ss[i] ELSE f[i - 1] \o ss[i]
      BY <2>2 DEF Flattens
    <3>2. ASSUME NEW i \in 1..(m - 1) PROVE i \in 1..m
      BY <2>1, <1>2
    <3> QED  BY <3>1, <3>2
  <2>4. g = [i \in 1..m |-> IF i = 1 THEN ss[i] ELSE g[i - 1] \o ss[i]]
    <3>1. \A i \in 1..m : i # 1 => i - 1 \in 1..(m - 1)
      BY <1>2
    <3>2. \A i \in 1..m : i # 1 => f[i - 1] = g[i - 1]
      BY <2>3, <3>1
    <3> QED  BY <3>2
  <2>5. Flattens(g, ss, m)
    BY <2>4 DEF Flattens
  <2> QED  BY <1>2, <2>5
<1> QED  BY <1>3, <1>4

\* What it holds when all sequences are of the same length.
Blocks(ss, n, V, size) == \A i \in 1..n : ss[i] \in Seq(V) /\ Len(ss[i]) = size

LaidOut(f, ss, n, V, size) ==
  \A i \in 1..n : /\ f[i] \in Seq(V) /\ Len(f[i]) = i * size
                  /\ \A k \in 1..i : \A j \in 1..size : f[i][(k - 1) * size + j] = ss[k][j]

LEMMA FlattensIs ==
  ASSUME NEW V, NEW size \in Nat, NEW ss, NEW n \in Nat, NEW f, Flattens(f, ss, n),
         Blocks(ss, n, V, size)
  PROVE  LaidOut(f, ss, n, V, size)
<1> DEFINE Is(i) == /\ f[i] \in Seq(V) /\ Len(f[i]) = i * size
                    /\ \A k \in 1..i : \A j \in 1..size : f[i][(k - 1) * size + j] = ss[k][j]
           T == {i \in 1..n : ~Is(i)}
<1>1. SUFFICES ASSUME T # {} PROVE FALSE
  BY <1>1 DEF LaidOut
<1>2. PICK m \in T : \A j \in T : m <= j
  <2>1. T \subseteq Nat
    OBVIOUS
  <2> HIDE DEF T
  <2> QED  BY <1>1, <2>1, LeastExists
<1>3. CASE m = 1
  <2>1. f[1] = ss[1] /\ ss[1] \in Seq(V) /\ Len(ss[1]) = size
    BY <1>2, <1>3 DEF Flattens, Blocks
  <2>2. \A k \in 1..1 : \A j \in 1..size : k = 1 /\ (k - 1) * size + j = j
    OBVIOUS
  <2> QED  BY <1>2, <1>3, <2>1, <2>2
<1>4. CASE m # 1
  <2>1. m - 1 \in 1..n /\ m - 1 \notin T /\ m \in 1..n
    BY <1>2, <1>4
  <2>2. Is(m - 1)
    <3> HIDE DEF Is
    <3> QED  BY <2>1
  <2>3. f[m] = f[m - 1] \o ss[m] /\ ss[m] \in Seq(V) /\ Len(ss[m]) = size
    BY <2>1, <1>4 DEF Flattens, Blocks
  <2>4. /\ Len(f[m - 1]) = (m - 1) * size /\ f[m - 1] \in Seq(V)
        /\ \A k \in 1..(m - 1) : \A j \in 1..size : f[m - 1][(k - 1) * size + j] = ss[k][j]
    BY <2>2
  <2> HIDE DEF T, Is
  <2>5. (m - 1) * size \in Nat /\ (m - 1) * size + size = m * size /\ m * size \in Nat
    BY <2>1, Places
  <2>6. /\ f[m] \in Seq(V) /\ Len(f[m]) = m * size
        /\ \A i \in 1..(m * size) :
             f[m][i] = IF i <= (m - 1) * size THEN f[m - 1][i] ELSE ss[m][i - (m - 1) * size]
    <3> DEFINE p == (m - 1) * size
               q == m * size
    <3>1. Len(f[m - 1]) = p /\ p \in Nat /\ p + size = q
      BY <2>4, <2>5
    <3> HIDE DEF p, q
    <3>2. /\ f[m] \in Seq(V) /\ Len(f[m]) = q
          /\ \A i \in 1..q : f[m][i] = IF i <= p THEN f[m - 1][i] ELSE ss[m][i - p]
      <4> DEFINE a == f[m - 1]
                 b == ss[m]
      <4>1. a \in Seq(V) /\ b \in Seq(V) /\ Len(a) = p /\ Len(b) = size /\ f[m] = a \o b
        BY <2>3, <2>4, <3>1
      <4> HIDE DEF a, b
      <4>2. a \o b \in Seq(V) /\ Len(a \o b) = Len(a) + Len(b)
        BY <4>1, ConcatProperties
      <4>3. \A i \in 1..(Len(a) + Len(b)) : (a \o b)[i] = IF i <= Len(a) THEN a[i] ELSE b[i - Len(a)]
        BY <4>1, ConcatProperties
      <4> QED  BY <3>1, <4>1, <4>2, <4>3 DEF a, b
    <3> QED  BY <3>2 DEF p, q
  <2>7. ASSUME NEW k \in 1..m, NEW j \in 1..size
        PROVE  f[m][(k - 1) * size + j] = ss[k][j]
    <3> DEFINE p == (k - 1) * size
               q == (m - 1) * size
               r == m * size
    <3>1. CASE k = m
      <4>1. p = q
        BY <3>1
      <4>2. q \in Nat /\ q + size = r
        BY <2>5
      <4>3. \A i \in 1..r : f[m][i] = IF i <= q THEN f[m - 1][i] ELSE ss[m][i - q]
        BY <2>6
      <4> DEFINE x == p + j
      <4> HIDE DEF p, q, r
      <4>4. x \in 1..r /\ ~(x <= q) /\ x - q = j
        BY <4>1, <4>2
      <4> HIDE DEF x
      <4>5. f[m][x] = ss[m][x - q]
        BY <4>3, <4>4
      <4>6. f[m][x] = ss[k][j]
        BY <4>4, <4>5, <3>1
      <4> QED  BY <4>6 DEF p, x
    <3>2. CASE k # m
      <4>1. k \in 1..(m - 1) /\ m - 1 \in Nat
        BY <2>1, <3>2
      <4>2. p \in Nat /\ p + size = k * size /\ k * size <= q /\ q \in Nat
        BY <4>1, Places
      <4>3. q + size = r /\ r \in Nat
        BY <2>5
      <4>4. \A i \in 1..r : f[m][i] = IF i <= q THEN f[m - 1][i] ELSE ss[m][i - q]
        BY <2>6
      <4>5. f[m - 1][p + j] = ss[k][j]
        BY <2>4, <4>1
      <4> DEFINE e == k * size
      <4>6. p + size = e /\ e <= q /\ e \in Nat
        BY <4>1, <4>2, Places
      <4> HIDE DEF p, q, r, e
      <4>7. p + j <= q /\ p + j \in 1..r
        BY <4>2, <4>3, <4>6
      <4>8. f[m][p + j] = ss[k][j]
        BY <4>4, <4>5, <4>7
      <4> QED  BY <4>8 DEF p
    <3> QED  BY <3>1, <3>2
  <2> QED  BY <2>1, <2>6, <2>7 DEF T, Is
<1> QED  BY <1>3, <1>4

\* FlattenSeq of sequences of the same length.
Uniform(ss, size) == \A i \in 1..Len(ss) : Len(ss[i]) = size

Sections(v, ss, n, size) == \A i \in 1..n : \A j \in 1..size : v[(i - 1) * size + j] = ss[i][j]

LEMMA FlattenSeqIs ==
  ASSUME NEW V, NEW size \in Nat, NEW ss \in Seq(Seq(V)), Uniform(ss, size)
  PROVE  /\ FlattenSeq(ss) \in Seq(V)
         /\ Len(FlattenSeq(ss)) = Len(ss) * size
         /\ Sections(FlattenSeq(ss), ss, Len(ss), size)
<1> DEFINE n == Len(ss)
           f == CHOOSE g : Flattens(g, ss, n)
<1>0. n \in Nat /\ \A i \in 1..n : ss[i] \in Seq(V)
  BY LenProperties, ElementOfSeq
<1>1. CASE n = 0
  <2>1. ss = <<>>
    BY <1>1, EmptySeq
  <2>2. FlattenSeq(ss) = <<>>
    BY <1>1, <2>1 DEF FlattenSeq
  <2>3. <<>> \in Seq(V) /\ Len(<<>>) = 0 /\ 0 * size = 0
    OBVIOUS
  <2> QED  BY <1>1, <2>2, <2>3 DEF Sections
<1>2. CASE n # 0
  <2>1. Flattens(f, ss, n)
    BY <1>0, FlattensExists
  <2>2. FlattenSeq(ss) = f[n]
    BY <1>2 DEF FlattenSeq, Flattens
  <2> HIDE DEF f
  <2>3. LaidOut(f, ss, n, V, size)
    <3>1. Blocks(ss, n, V, size)
      BY <1>0 DEF Blocks, Uniform
    <3>2. n \in Nat
      BY <1>0
    <3> HIDE DEF n
    <3> QED  BY <2>1, <3>1, <3>2, FlattensIs
  <2> QED  BY <1>0, <1>2, <2>2, <2>3 DEF LaidOut, Sections
<1> QED  BY <1>1, <1>2

-----------------------------------------------------------------------------
LEMMA FunctionIsSeq ==
  ASSUME NEW S, NEW n \in Nat, NEW f \in [1..n -> S]
  PROVE  f \in Seq(S) /\ Len(f) = n
<1>1. f \in Seq(S)
  BY SeqDef
<1>2. 1..Len(f) = 1..n /\ Len(f) \in Nat
  BY <1>1, LenProperties
<1> QED  BY <1>1, <1>2

\* s is a sequence of m values followed by one of n values.
Joined(s, a, m, b, n) ==
  /\ Len(s) = m + n
  /\ \A i \in 1..m : s[i] = a[i]
  /\ \A i \in 1..n : s[m + i] = b[i]

LEMMA ConcatIs ==
  ASSUME NEW S, NEW a \in Seq(S), NEW b \in Seq(S)
  PROVE  a \o b \in Seq(S) /\ Joined(a \o b, a, Len(a), b, Len(b))
<1> DEFINE s == a \o b
           m == Len(a)
           n == Len(b)
<1>1. /\ s \in Seq(S) /\ Len(s) = m + n
      /\ \A i \in 1..(m + n) : s[i] = IF i <= m THEN a[i] ELSE b[i - m]
  BY ConcatProperties
<1>2. m \in Nat /\ n \in Nat
  BY LenProperties
<1> HIDE DEF s, m, n
<1>3. ASSUME NEW i \in 1..m PROVE s[i] = a[i]
  BY <1>1, <1>2
<1>4. ASSUME NEW i \in 1..n PROVE s[m + i] = b[i]
  <2> DEFINE x == m + i
  <2>1. x \in 1..(m + n) /\ ~(x <= m) /\ x - m = i
    BY <1>2
  <2> HIDE DEF x
  <2>2. s[x] = b[x - m]
    BY <1>1, <2>1
  <2> QED  BY <2>1, <2>2 DEF x
<1>5. s \in Seq(S) /\ Joined(s, a, m, b, n)
  BY <1>1, <1>3, <1>4 DEF Joined
<1> QED  BY <1>5 DEF s, m, n

(* The orders of the fields.                                               *)

Words == {"server", "port", "name", "ping_type", "executable", "timeout", "time_pause",
          "time_startup", "priority", "starttime", "stoptime", "timecontrol", "whole",
          "wDay", "wDayOfWeek", "wHour", "wMilliseconds", "wMinute", "wMonth", "wSecond", "wYear"}

Pairs == Words \X Words

LEMMA SettingsIs ==
  /\ Settings \in Seq(Pairs) /\ Len(Settings) = 9
  /\ Settings[3] = <<"name", "whole">>
  /\ \A i \in 1..9 : Settings[i] # <<"starttime", "whole">> /\ Settings[i] # <<"stoptime", "whole">>
<1> DEFINE names == <<"server", "port", "name", "ping_type", "executable", "timeout",
                      "time_pause", "time_startup", "priority">>
<1>1. DOMAIN names = 1..9
  OBVIOUS
<1>2. /\ names[1] = "server" /\ names[2] = "port" /\ names[3] = "name"
      /\ names[4] = "ping_type" /\ names[5] = "executable" /\ names[6] = "timeout"
      /\ names[7] = "time_pause" /\ names[8] = "time_startup" /\ names[9] = "priority"
  OBVIOUS
<1>3. Settings = [i \in DOMAIN names |-> <<names[i], "whole">>]
  BY DEF Settings, Plain
<1> HIDE DEF names
<1>4. \A i \in 1..9 : \/ i = 1 \/ i = 2 \/ i = 3 \/ i = 4 \/ i = 5
                      \/ i = 6 \/ i = 7 \/ i = 8 \/ i = 9
  OBVIOUS
<1>5. \A i \in 1..9 : names[i] \in Words /\ names[i] # "starttime" /\ names[i] # "stoptime"
  BY <1>2, <1>4 DEF Words
<1>6. "whole" \in Words
  BY DEF Words
<1>7. \A i \in 1..9 : Settings[i] = <<names[i], "whole">>
  BY <1>1, <1>3
<1>8. \A i \in 1..9 : Settings[i] \in Pairs
  BY <1>5, <1>6, <1>7 DEF Pairs
<1>9. Settings \in Seq(Pairs) /\ Len(Settings) = 9
  <2>1. Settings \in [1..9 -> Pairs]
    BY <1>1, <1>3, <1>8
  <2> QED  BY <2>1, FunctionIsSeq
<1> QED  BY <1>2, <1>5, <1>7, <1>9

LEMMA StoreTimeIs ==
  ASSUME NEW t \in Words
  PROVE  /\ StoreTime(t) \in Seq(Pairs) /\ Len(StoreTime(t)) = 8
         /\ \A i \in 1..8 : StoreTime(t)[i][1] = t /\ StoreTime(t)[i][2] # "whole"
<1>1. /\ TimeWords[1] = "wDay" /\ TimeWords[2] = "wDayOfWeek" /\ TimeWords[3] = "wHour"
      /\ TimeWords[4] = "wMilliseconds" /\ TimeWords[5] = "wMinute" /\ TimeWords[6] = "wMonth"
      /\ TimeWords[7] = "wSecond" /\ TimeWords[8] = "wYear"
  BY DEF TimeWords
<1>2. \A i \in 1..8 : \/ i = 1 \/ i = 2 \/ i = 3 \/ i = 4
                      \/ i = 5 \/ i = 6 \/ i = 7 \/ i = 8
  OBVIOUS
<1>3. \A i \in 1..8 : TimeWords[i] \in Words /\ TimeWords[i] # "whole"
  BY <1>1, <1>2 DEF Words
<1>4. StoreTime(t) = [i \in 1..8 |-> <<t, TimeWords[i]>>]
  BY DEF StoreTime
<1>5. \A i \in 1..8 : StoreTime(t)[i] = <<t, TimeWords[i]>>
  BY <1>4
<1>6. \A i \in 1..8 : StoreTime(t)[i] \in Pairs
  BY <1>3, <1>5 DEF Pairs
<1>7. StoreTime(t) \in Seq(Pairs) /\ Len(StoreTime(t)) = 8
  <2>1. StoreTime(t) \in [1..8 -> Pairs]
    BY <1>4, <1>6
  <2> QED  BY <2>1, FunctionIsSeq
<1> QED  BY <1>3, <1>5, <1>7

LEMMA LastIs ==
  LET last == Plain(<<"timecontrol">>) IN
  last \in Seq(Pairs) /\ Len(last) = 1 /\ last[1] = <<"timecontrol", "whole">>
<1> DEFINE last == Plain(<<"timecontrol">>)
<1>1. last = [i \in 1..1 |-> <<<<"timecontrol">>[i], "whole">>]
  BY DEF Plain
<1>2. last[1] = <<"timecontrol", "whole">>
  BY <1>1
<1>3. last[1] \in Pairs
  BY <1>2 DEF Pairs, Words
<1>4. last \in [1..1 -> Pairs]
  BY <1>1, <1>3
<1> HIDE DEF last
<1>5. last \in Seq(Pairs) /\ Len(last) = 1
  BY <1>4, FunctionIsSeq
<1> QED  BY <1>2, <1>5 DEF last

LEMMA OldTailIs ==
  LET last == Plain(<<"starttime", "stoptime", "timecontrol">>) IN
  /\ last \in Seq(Pairs) /\ Len(last) = 3
  /\ last[1] = <<"starttime", "whole">> /\ last[2] = <<"stoptime", "whole">> /\ last[3] = <<"timecontrol", "whole">>
<1> DEFINE last == Plain(<<"starttime", "stoptime", "timecontrol">>)
<1>1. last = [i \in 1..3 |-> <<<<"starttime", "stoptime", "timecontrol">>[i], "whole">>]
  BY DEF Plain
<1>2. /\ last[1] = <<"starttime", "whole">> /\ last[2] = <<"stoptime", "whole">>
      /\ last[3] = <<"timecontrol", "whole">>
  BY <1>1
<1>3. last[1] \in Pairs /\ last[2] \in Pairs /\ last[3] \in Pairs
  BY <1>2 DEF Pairs, Words
<1>4. last \in [1..3 -> Pairs]
  BY <1>1, <1>3
<1> HIDE DEF last
<1>5. last \in Seq(Pairs) /\ Len(last) = 3
  BY <1>4, FunctionIsSeq
<1> QED  BY <1>2, <1>5 DEF last

LEMMA LoadOrderSame == LoadOrder = StoreOrder
BY DEF LoadOrder, StoreOrder, LoadTime, StoreTime

LEMMA StoreOrderIs ==
  /\ StoreOrder \in Seq(Pairs) /\ Len(StoreOrder) = 26
  /\ \A i \in 1..9 : StoreOrder[i] = Settings[i]
  /\ \A i \in 1..8 : StoreOrder[9 + i] = StoreTime("starttime")[i]
  /\ \A i \in 1..8 : StoreOrder[17 + i] = StoreTime("stoptime")[i]
  /\ StoreOrder[26] = <<"timecontrol", "whole">>
<1> DEFINE a == Settings
           b == StoreTime("starttime")
           c == StoreTime("stoptime")
           d == Plain(<<"timecontrol">>)
           ab == a \o b
           abc == ab \o c
<1>1. /\ a \in Seq(Pairs) /\ b \in Seq(Pairs) /\ c \in Seq(Pairs) /\ d \in Seq(Pairs)
      /\ Len(a) = 9 /\ Len(b) = 8 /\ Len(c) = 8 /\ Len(d) = 1 /\ d[1] = <<"timecontrol", "whole">>
  BY SettingsIs, StoreTimeIs, LastIs DEF Words
<1>2. StoreOrder = abc \o d
  BY DEF StoreOrder
<1> HIDE DEF a, b, c, d
<1>3. ab \in Seq(Pairs) /\ Joined(ab, a, 9, b, 8)
  BY <1>1, ConcatIs
<1> HIDE DEF ab
<1>4. Len(ab) = 17
  BY <1>3 DEF Joined
<1>5. abc \in Seq(Pairs) /\ Joined(abc, ab, 17, c, 8)
  BY <1>1, <1>3, <1>4, ConcatIs
<1> HIDE DEF abc
<1>6. Len(abc) = 25
  BY <1>5 DEF Joined
<1>7. StoreOrder \in Seq(Pairs) /\ Joined(StoreOrder, abc, 25, d, 1)
  BY <1>1, <1>2, <1>5, <1>6, ConcatIs
<1>8. ASSUME NEW i \in 1..9 PROVE StoreOrder[i] = a[i]
  <2>1. i \in 1..17 /\ i \in 1..25
    OBVIOUS
  <2> QED  BY <1>3, <1>5, <1>7, <2>1 DEF Joined
<1>9. ASSUME NEW i \in 1..8 PROVE StoreOrder[9 + i] = b[i] /\ StoreOrder[17 + i] = c[i]
  <2>1. 9 + i \in 1..17 /\ 9 + i \in 1..25 /\ 17 + i \in 1..25
    OBVIOUS
  <2> QED  BY <1>3, <1>5, <1>7, <2>1 DEF Joined
<1>10. StoreOrder[26] = d[1]
  <2>1. 25 + 1 = 26 /\ 1 \in 1..1
    OBVIOUS
  <2> QED  BY <1>7, <2>1 DEF Joined
<1>11. Len(StoreOrder) = 26
  BY <1>7 DEF Joined
<1> QED  BY <1>1, <1>7, <1>8, <1>9, <1>10, <1>11 DEF a, b, c

\* The reader of version 0x200 follows the order of its writer.
LEMMA OldOrderSame == OldStoreOrder = OldOrder
BY DEF OldStoreOrder, OldOrder

LEMMA OldOrderIs ==
  /\ OldOrder \in Seq(Pairs) /\ Len(OldOrder) = 12
  /\ \A i \in 1..9 : OldOrder[i] = Settings[i]
  /\ OldOrder[10] = <<"starttime", "whole">> /\ OldOrder[11] = <<"stoptime", "whole">>
  /\ OldOrder[12] = <<"timecontrol", "whole">>
<1> DEFINE a == Settings
           b == Plain(<<"starttime", "stoptime", "timecontrol">>)
<1>1. /\ a \in Seq(Pairs) /\ b \in Seq(Pairs) /\ Len(a) = 9 /\ Len(b) = 3
      /\ b[1] = <<"starttime", "whole">> /\ b[2] = <<"stoptime", "whole">>
      /\ b[3] = <<"timecontrol", "whole">>
  BY SettingsIs, OldTailIs
<1>2. OldOrder = a \o b
  BY DEF OldOrder
<1> HIDE DEF a, b
<1>3. OldOrder \in Seq(Pairs) /\ Joined(OldOrder, a, 9, b, 3)
  BY <1>1, <1>2, ConcatIs
<1>4. OldOrder[10] = b[1] /\ OldOrder[11] = b[2] /\ OldOrder[12] = b[3]
  <2>1. 9 + 1 = 10 /\ 9 + 2 = 11 /\ 9 + 3 = 12
    OBVIOUS
  <2> QED  BY <1>3, <2>1 DEF Joined
<1>5. Len(OldOrder) = 12
  BY <1>3 DEF Joined
<1>6. \A i \in 1..9 : OldOrder[i] = a[i]
  BY <1>3 DEF Joined
<1> QED  BY <1>1, <1>3, <1>4, <1>5, <1>6 DEF a

\* A field that the old version has not is a word of a time, which it has as a whole.
LEMMA FieldsAre ==
  /\ Fields \subseteq Pairs
  /\ \A j \in 1..26 : StoreOrder[j] \in Fields
  /\ \A f \in Fields : \E j \in 1..26 : f = StoreOrder[j]
  /\ <<"name", "whole">> \in Fields
  /\ \A t \in {"starttime", "stoptime"} : <<t, "whole">> \notin Fields /\ <<t, "whole">> \in ToSet(OldOrder)
  /\ \A f \in Fields : f \notin ToSet(OldOrder) =>
       f = <<f[1], f[2]>> /\ f[1] \in {"starttime", "stoptime"}
<1>0. DOMAIN StoreOrder = 1..26 /\ DOMAIN OldOrder = 1..12
  BY StoreOrderIs, OldOrderIs
<1>1. Fields = {StoreOrder[j] : j \in 1..26}
  BY <1>0 DEF Fields, ToSet
<1>2. ToSet(OldOrder) = {OldOrder[j] : j \in 1..12}
  BY <1>0 DEF ToSet
<1>3. \A j \in 1..26 : StoreOrder[j] \in Pairs
  BY StoreOrderIs, ElementOfSeq
<1>4. \A j \in 1..26 : j \in 1..9 \/ j \in 10..17 \/ j \in 18..25 \/ j = 26
  OBVIOUS
<1>5. \A j \in 10..25 : /\ StoreOrder[j][1] \in {"starttime", "stoptime"}
                        /\ StoreOrder[j][2] # "whole"
  <2>1. "starttime" \in Words /\ "stoptime" \in Words
    BY DEF Words
  <2>2. \A j \in 10..17 : j - 9 \in 1..8 /\ 9 + (j - 9) = j
    OBVIOUS
  <2>3. \A j \in 18..25 : j - 17 \in 1..8 /\ 17 + (j - 17) = j
    OBVIOUS
  <2>4. ASSUME NEW i \in 1..8
        PROVE  /\ StoreOrder[9 + i][1] = "starttime" /\ StoreOrder[9 + i][2] # "whole"
               /\ StoreOrder[17 + i][1] = "stoptime" /\ StoreOrder[17 + i][2] # "whole"
    <3>1. /\ StoreTime("starttime")[i][1] = "starttime" /\ StoreTime("starttime")[i][2] # "whole"
          /\ StoreTime("stoptime")[i][1] = "stoptime" /\ StoreTime("stoptime")[i][2] # "whole"
      BY <2>1, StoreTimeIs
    <3>2. /\ StoreOrder[9 + i] = StoreTime("starttime")[i]
          /\ StoreOrder[17 + i] = StoreTime("stoptime")[i]
      BY StoreOrderIs
    <3> QED  BY <3>1, <3>2
  <2>5. ASSUME NEW j \in 10..17 PROVE StoreOrder[j][1] = "starttime" /\ StoreOrder[j][2] # "whole"
    BY <2>2, <2>4
  <2>6. ASSUME NEW j \in 18..25 PROVE StoreOrder[j][1] = "stoptime" /\ StoreOrder[j][2] # "whole"
    BY <2>3, <2>4
  <2>7. \A j \in 10..25 : j \in 10..17 \/ j \in 18..25
    OBVIOUS
  <2> QED  BY <2>5, <2>6, <2>7
<1>6. ASSUME NEW t \in {"starttime", "stoptime"}, NEW j \in 1..26 PROVE StoreOrder[j] # <<t, "whole">>
  <2>1. CASE j \in 1..9
    BY <2>1, StoreOrderIs, SettingsIs
  <2>2. CASE j \in 10..25
    BY <2>2, <1>5
  <2>3. CASE j = 26
    BY <2>3, StoreOrderIs
  <2> QED  BY <2>1, <2>2, <2>3
<1>7. ASSUME NEW j \in 1..26, StoreOrder[j] \notin ToSet(OldOrder) PROVE j \in 10..25
  <2>1. \A i \in 1..12 : OldOrder[i] # StoreOrder[j]
    BY <1>2, <1>7
  <2>2. ASSUME j \in 1..9 PROVE FALSE
    <3>1. j \in 1..12
      BY <2>2
    <3>2. StoreOrder[j] = Settings[j]
      BY <2>2, StoreOrderIs
    <3>3. OldOrder[j] = Settings[j]
      BY <2>2, OldOrderIs
    <3> QED  BY <2>1, <3>1, <3>2, <3>3
  <2>3. j # 26
    <3>1. OldOrder[12] = StoreOrder[26]
      BY StoreOrderIs, OldOrderIs
    <3> QED  BY <2>1, <3>1
  <2> QED  BY <2>2, <2>3
<1>8. \A t \in {"starttime", "stoptime"} : <<t, "whole">> \in ToSet(OldOrder)
  BY <1>2, OldOrderIs
<1>9. <<"name", "whole">> \in Fields
  BY <1>1, StoreOrderIs, SettingsIs
<1>10. \A p \in Pairs : p = <<p[1], p[2]>>
  BY DEF Pairs
<1> HIDE DEF Fields
<1> QED  BY <1>1, <1>3, <1>5, <1>6, <1>7, <1>8, <1>9, <1>10

-----------------------------------------------------------------------------
(* Servers and lists.                                                      *)

LEMMA ServerIs ==
  ASSUME NEW s, NEW r
  PROVE  /\ NameOf(Server(s, r)) = s /\ RevisionOf(Server(s, r)) = r
         /\ \A f \in Fields : Server(s, r)[f] = <<f, s, r>>
BY FieldsAre DEF Server, NameOf, RevisionOf

LEMMA ServersAre ==
  ASSUME NEW sc \in Servers
  PROVE  /\ sc = Server(NameOf(sc), RevisionOf(sc))
         /\ NameOf(sc) \in Names /\ RevisionOf(sc) \in 0..MaxRevision
<1>1. PICK s \in Names, r \in 0..MaxRevision : sc = Server(s, r)
  BY DEF Servers
<1> QED  BY <1>1, ServerIs

LEMMA ListIs ==
  ASSUME NEW l \in Lists
  PROVE  /\ l \in Seq(Servers) /\ Len(l) \in 0..MaxServers /\ DOMAIN l = 1..Len(l)
         /\ \A i \in 1..Len(l) : l[i] \in Servers
         /\ \A i, j \in 1..Len(l) : NameOf(l[i]) = NameOf(l[j]) => i = j
         /\ NamesOf(l) = [i \in 1..Len(l) |-> NameOf(l[i])]
<1>1. PICK n \in 0..MaxServers : l \in [1..n -> Servers]
  BY DEF Lists
<1>2. n \in Nat
  BY PersistenceAssumption
<1>3. l \in Seq(Servers) /\ Len(l) = n
  BY <1>1, <1>2, FunctionIsSeq
<1>4. IsInjective(NamesOf(l))
  BY DEF Lists
<1>5. DOMAIN l = 1..n
  BY <1>1
<1>6. NamesOf(l) = [i \in 1..n |-> NameOf(l[i])]
  BY <1>5 DEF NamesOf
<1>7. \A i, j \in 1..n : NameOf(l[i]) = NameOf(l[j]) => i = j
  BY <1>4, <1>6 DEF IsInjective
<1>8. \A i \in 1..n : l[i] \in Servers
  BY <1>1
<1> QED  BY <1>3, <1>5, <1>6, <1>7, <1>8

LEMMA IsList ==
  ASSUME NEW l \in Seq(Servers), Len(l) <= MaxServers,
         \A i, j \in 1..Len(l) : NameOf(l[i]) = NameOf(l[j]) => i = j
  PROVE  l \in Lists
<1> DEFINE n == Len(l)
<1>1. n \in 0..MaxServers /\ l \in [1..n -> Servers] /\ DOMAIN l = 1..n
  BY LenProperties, PersistenceAssumption
<1>2. NamesOf(l) = [i \in 1..n |-> NameOf(l[i])]
  BY <1>1 DEF NamesOf
<1>3. IsInjective(NamesOf(l))
  BY <1>2 DEF IsInjective
<1> HIDE DEF n
<1> QED  BY <1>1, <1>3 DEF Lists

LEMMA EmptyList == <<>> \in Lists
<1> DEFINE e == <<>>
<1>1. e \in Seq(Servers) /\ Len(e) = 0
  OBVIOUS
<1> HIDE DEF e
<1>2. Len(e) <= MaxServers /\ \A i, j \in 1..Len(e) : NameOf(e[i]) = NameOf(e[j]) => i = j
  BY <1>1, PersistenceAssumption
<1>3. e \in Lists
  BY <1>1, <1>2, IsList
<1> QED  BY <1>3 DEF e

-----------------------------------------------------------------------------
(* What is in a file.                                                      *)

Value == {"0x200", "0x201"} \cup Int \cup BOOLEAN \cup (Pairs \X Names \X (0..MaxRevision))

Boosters == {1, 2} \X BOOLEAN

LEMMA FieldValue ==
  ASSUME NEW sc \in Servers, NEW f \in Fields
  PROVE  sc[f] \in Value
<1>1. sc[f] = <<f, NameOf(sc), RevisionOf(sc)>>
  BY ServersAre, ServerIs
<1> QED  BY <1>1, ServersAre, FieldsAre DEF Value

LEMMA WriteObjectIs ==
  ASSUME NEW sc \in Servers
  PROVE  /\ WriteObject(sc) \in Seq(Value) /\ Len(WriteObject(sc)) = 27
         /\ WriteObject(sc)[1] = "0x201"
         /\ \A j \in 1..26 : WriteObject(sc)[1 + j] = sc[StoreOrder[j]]
<1> DEFINE a == <<"0x201">>
           b == [i \in DOMAIN StoreOrder |-> sc[StoreOrder[i]]]
           w == WriteObject(sc)
<1>1. a \in Seq(Value) /\ Len(a) = 1 /\ a[1] = "0x201"
  BY DEF Value
<1>2. DOMAIN StoreOrder = 1..26
  BY StoreOrderIs
<1>3. \A j \in 1..26 : b[j] = sc[StoreOrder[j]] /\ b[j] \in Value
  BY <1>2, FieldsAre, FieldValue
<1>4. b \in Seq(Value) /\ Len(b) = 26
  <2>1. b \in [1..26 -> Value]
    BY <1>2, <1>3
  <2> QED  BY <2>1, FunctionIsSeq
<1>5. w = a \o b
  BY DEF WriteObject
<1> HIDE DEF a, b, w
<1>6. w \in Seq(Value) /\ Joined(w, a, 1, b, 26)
  BY <1>1, <1>4, <1>5, ConcatIs
<1>7. Len(w) = 27 /\ w[1] = a[1] /\ \A j \in 1..26 : w[1 + j] = b[j]
  BY <1>6 DEF Joined
<1> QED  BY <1>1, <1>3, <1>6, <1>7 DEF w

\* An archive of objects of one size: the highest index, and the objects one by one.
LEMMA ArchiveIs ==
  ASSUME NEW size \in Nat, NEW ss \in Seq(Seq(Value)), Uniform(ss, size)
  PROVE  LET v == <<Len(ss) - 1>> \o FlattenSeq(ss) IN
         /\ v \in Seq(Value) /\ Len(v) = 1 + Len(ss) * size /\ v[1] = Len(ss) - 1
         /\ \A i \in 1..Len(ss) : \A j \in 1..size : v[1 + ((i - 1) * size + j)] = ss[i][j]
<1> DEFINE n == Len(ss)
           a == <<n - 1>>
           b == FlattenSeq(ss)
           v == a \o b
           m == n * size
<1>0. n \in Nat
  BY LenProperties
<1>1. a \in Seq(Value) /\ Len(a) = 1 /\ a[1] = n - 1
  BY <1>0 DEF Value
<1>2. b \in Seq(Value) /\ Len(b) = m /\ Sections(b, ss, n, size)
  BY FlattenSeqIs
<1> HIDE DEF a, b, v, n
<1>3. v \in Seq(Value) /\ Joined(v, a, 1, b, m)
  <2> HIDE DEF m
  <2> QED  BY <1>1, <1>2, ConcatIs DEF v
<1>4. Len(v) = 1 + m /\ v[1] = n - 1
  <2> HIDE DEF m
  <2> QED  BY <1>1, <1>3 DEF Joined
<1>5. ASSUME NEW i \in 1..n, NEW j \in 1..size
      PROVE  v[1 + ((i - 1) * size + j)] = ss[i][j]
  <2> DEFINE p == (i - 1) * size
             e == i * size
             x == p + j
  <2>1. p \in Nat /\ p + size = e /\ e <= m /\ m \in Nat /\ e \in Nat
    BY <1>0, Places
  <2>2. b[x] = ss[i][j]
    BY <1>2 DEF Sections
  <2>3. x \in 1..m
    <3> HIDE DEF p, m, e
    <3> QED  BY <2>1
  <2> HIDE DEF x, m
  <2>4. v[1 + x] = b[x]
    BY <1>3, <2>3 DEF Joined
  <2> QED  BY <2>2, <2>4 DEF x
<1>6. /\ v \in Seq(Value) /\ Len(v) = 1 + m /\ v[1] = n - 1
      /\ \A i \in 1..n : \A j \in 1..size : v[1 + ((i - 1) * size + j)] = ss[i][j]
  BY <1>3, <1>4, <1>5
<1> QED  BY <1>6 DEF a, b, v, n

LEMMA WrittenIs ==
  ASSUME NEW l \in Lists, NEW b \in Boosters
  PROVE  LET w == Written(l, b)
             n == Len(l)
         IN  /\ w \in Seq(Value) /\ Len(w) = n * 27 + 3
             /\ w[1] = n - 1 /\ w[n * 27 + 2] = b[1] /\ w[n * 27 + 3] = b[2]
             /\ \A i \in 1..n : w[2 + (i - 1) * 27] = "0x201"
             /\ \A i \in 1..n : \A j \in 1..26 : w[2 + (i - 1) * 27 + j] = l[i][StoreOrder[j]]
<1> DEFINE n == Len(l)
           ss == [i \in DOMAIN l |-> WriteObject(l[i])]
           v == <<n - 1>> \o FlattenSeq(ss)
           c == <<b[1], b[2]>>
           w == Written(l, b)
           m == 1 + n * 27
<1>0. n \in Nat /\ DOMAIN l = 1..n /\ \A i \in 1..n : l[i] \in Servers
  BY ListIs, PersistenceAssumption
<1>1. ss \in Seq(Seq(Value)) /\ Len(ss) = n
  <2>1. ss \in [1..n -> Seq(Value)]
    BY <1>0, WriteObjectIs
  <2> HIDE DEF n, ss
  <2> QED  BY <1>0, <2>1, FunctionIsSeq
<1>2. \A i \in 1..n : ss[i] = WriteObject(l[i]) /\ Len(ss[i]) = 27
  BY <1>0, WriteObjectIs
<1>3. c \in Seq(Value) /\ Len(c) = 2 /\ c[1] = b[1] /\ c[2] = b[2]
  BY DEF Value, Boosters
<1>4. w = v \o c
  BY DEF Written
<1> HIDE DEF n, ss, c, w
<1>5. /\ v \in Seq(Value) /\ Len(v) = m /\ v[1] = n - 1
      /\ \A i \in 1..n : \A j \in 1..27 : v[1 + ((i - 1) * 27 + j)] = ss[i][j]
  <2>1. Uniform(ss, 27)
    BY <1>1, <1>2 DEF Uniform
  <2> QED  BY <1>1, <2>1, ArchiveIs
<1> HIDE DEF v
<1>6. m \in Nat
  BY <1>0
<1>7. w \in Seq(Value) /\ Joined(w, v, m, c, 2)
  <2> HIDE DEF m
  <2> QED  BY <1>3, <1>4, <1>5, ConcatIs
<1>8. Len(w) = m + 2 /\ w[m + 1] = b[1] /\ w[m + 2] = b[2] /\ \A x \in 1..m : w[x] = v[x]
  <2> HIDE DEF m
  <2> QED  BY <1>3, <1>7 DEF Joined
<1>9. ASSUME NEW i \in 1..n, NEW j \in 1..27
      PROVE  w[1 + ((i - 1) * 27 + j)] = WriteObject(l[i])[j]
  <2> DEFINE x == 1 + ((i - 1) * 27 + j)
  <2>1. x \in 1..m
    BY <1>0
  <2>2. v[x] = WriteObject(l[i])[j]
    BY <1>2, <1>5
  <2> HIDE DEF x, m
  <2>3. w[x] = WriteObject(l[i])[j]
    BY <1>8, <2>1, <2>2
  <2> QED  BY <2>3 DEF x
<1>10. ASSUME NEW i \in 1..n PROVE w[2 + (i - 1) * 27] = "0x201"
  <2>1. 1 + ((i - 1) * 27 + 1) = 2 + (i - 1) * 27 /\ 1 \in 1..27
    BY <1>0
  <2>2. WriteObject(l[i])[1] = "0x201"
    BY <1>0, WriteObjectIs
  <2> QED  BY <1>9, <2>1, <2>2
<1>11. ASSUME NEW i \in 1..n, NEW j \in 1..26
       PROVE  w[2 + (i - 1) * 27 + j] = l[i][StoreOrder[j]]
  <2>1. 1 + ((i - 1) * 27 + (1 + j)) = 2 + (i - 1) * 27 + j /\ 1 + j \in 1..27
    BY <1>0
  <2>2. WriteObject(l[i])[1 + j] = l[i][StoreOrder[j]]
    BY <1>0, WriteObjectIs
  <2> QED  BY <1>9, <2>1, <2>2
<1>12. w[1] = n - 1
  <2>1. 1 \in 1..m
    BY <1>0
  <2> QED  BY <1>5, <1>8, <2>1
<1>13. m + 2 = n * 27 + 3 /\ m + 1 = n * 27 + 2
  BY <1>0
<1> HIDE DEF m
<1>14. Len(w) = n * 27 + 3 /\ w[n * 27 + 2] = b[1] /\ w[n * 27 + 3] = b[2]
  BY <1>8, <1>13
<1> QED  BY <1>7, <1>10, <1>11, <1>12, <1>14 DEF w, n

\* The value of a field in a file of the old version: a time is one value.
OldValue(sc, f) == IF f \in Fields THEN sc[f] ELSE <<f, NameOf(sc), RevisionOf(sc)>>

LEMMA OldFileIs ==
  ASSUME NEW l \in Lists
  PROVE  LET w == OldFile(l)
             n == Len(l)
         IN  /\ w \in Seq(Value) /\ Len(w) = n * 13 + 1
             /\ w[1] = n - 1
             /\ \A i \in 1..n : w[2 + (i - 1) * 13] = "0x200"
             /\ \A i \in 1..n : \A j \in 1..12 :
                  w[2 + (i - 1) * 13 + j] = OldValue(l[i], OldOrder[j])
<1> DEFINE n == Len(l)
           Object(sc) == <<"0x200">> \o [j \in DOMAIN OldOrder |-> OldValue(sc, OldOrder[j])]
           ss == [i \in DOMAIN l |-> Object(l[i])]
           w == OldFile(l)
<1>0. n \in Nat /\ DOMAIN l = 1..n /\ \A i \in 1..n : l[i] \in Servers
  BY ListIs, PersistenceAssumption
<1>1. ASSUME NEW sc \in Servers
      PROVE  /\ Object(sc) \in Seq(Value) /\ Len(Object(sc)) = 13
             /\ Object(sc)[1] = "0x200"
             /\ \A j \in 1..12 : Object(sc)[1 + j] = OldValue(sc, OldOrder[j])
  <2> DEFINE a == <<"0x200">>
             b == [j \in DOMAIN OldOrder |-> OldValue(sc, OldOrder[j])]
             o == Object(sc)
  <2>1. a \in Seq(Value) /\ Len(a) = 1 /\ a[1] = "0x200"
    BY DEF Value
  <2>2. DOMAIN OldOrder = 1..12 /\ \A j \in 1..12 : OldOrder[j] \in Pairs
    <3>1. OldOrder \in [1..Len(OldOrder) -> Pairs] /\ Len(OldOrder) = 12
      BY OldOrderIs, LenProperties
    <3> QED  BY <3>1
  <2>3. ASSUME NEW f \in Pairs PROVE OldValue(sc, f) \in Value
    <3>1. CASE f \in Fields
      BY <3>1, FieldValue DEF OldValue
    <3>2. CASE f \notin Fields
      BY <3>2, ServersAre DEF OldValue, Value
    <3> QED  BY <3>1, <3>2
  <2>4. \A j \in 1..12 : b[j] = OldValue(sc, OldOrder[j]) /\ b[j] \in Value
    BY <2>2, <2>3
  <2>5. b \in Seq(Value) /\ Len(b) = 12
    <3>1. b \in [1..12 -> Value]
      BY <2>2, <2>4
    <3> QED  BY <3>1, FunctionIsSeq
  <2>6. o = a \o b
    OBVIOUS
  <2> HIDE DEF a, b, o
  <2>7. o \in Seq(Value) /\ Joined(o, a, 1, b, 12)
    BY <2>1, <2>5, <2>6, ConcatIs
  <2>8. Len(o) = 13 /\ o[1] = a[1] /\ \A j \in 1..12 : o[1 + j] = b[j]
    BY <2>7 DEF Joined
  <2>9. o \in Seq(Value) /\ Len(o) = 13 /\ o[1] = "0x200"
        /\ \A j \in 1..12 : o[1 + j] = OldValue(sc, OldOrder[j])
    BY <2>1, <2>4, <2>7, <2>8
  <2> QED  BY <2>9 DEF o
<1>2. w = <<n - 1>> \o FlattenSeq(ss)
  BY OldOrderSame DEF OldFile, OldValue
<1> HIDE DEF Object
<1>3. ss \in Seq(Seq(Value)) /\ Len(ss) = n
  <2>1. ss \in [1..n -> Seq(Value)]
    BY <1>0, <1>1
  <2> HIDE DEF n, ss
  <2> QED  BY <1>0, <2>1, FunctionIsSeq
<1>4. \A i \in 1..n : ss[i] = Object(l[i]) /\ Len(ss[i]) = 13
  BY <1>0, <1>1
<1> HIDE DEF n, ss, w
<1>5. /\ w \in Seq(Value) /\ Len(w) = 1 + n * 13 /\ w[1] = n - 1
      /\ \A i \in 1..n : \A j \in 1..13 : w[1 + ((i - 1) * 13 + j)] = ss[i][j]
  <2>1. Uniform(ss, 13)
    BY <1>3, <1>4 DEF Uniform
  <2> QED  BY <1>2, <1>3, <2>1, ArchiveIs
<1>6. ASSUME NEW i \in 1..n PROVE w[2 + (i - 1) * 13] = "0x200"
  <2>1. 1 + ((i - 1) * 13 + 1) = 2 + (i - 1) * 13 /\ 1 \in 1..13
    BY <1>0
  <2>2. ss[i][1] = "0x200"
    BY <1>0, <1>1, <1>4
  <2> QED  BY <1>5, <2>1, <2>2
<1>7. ASSUME NEW i \in 1..n, NEW j \in 1..12
       PROVE  w[2 + (i - 1) * 13 + j] = OldValue(l[i], OldOrder[j])
  <2>1. 1 + ((i - 1) * 13 + (1 + j)) = 2 + (i - 1) * 13 + j /\ 1 + j \in 1..13
    BY <1>0
  <2>2. ss[i][1 + j] = OldValue(l[i], OldOrder[j])
    BY <1>0, <1>1, <1>4
  <2> QED  BY <1>5, <2>1, <2>2
<1>8. Len(w) = n * 13 + 1
  BY <1>0, <1>5
<1> QED  BY <1>5, <1>6, <1>7, <1>8 DEF w, n

-----------------------------------------------------------------------------
(* What OnNewDocument reads.                                               *)

\* Serialize reads the server it stored ...
NewObject(sc, v, at) == v[at] = "0x201" /\ \A j \in 1..26 : v[at + j] = sc[StoreOrder[j]]

LEMMA ReadNew ==
  ASSUME NEW sc \in Servers, NEW v, NEW at, NewObject(sc, v, at)
  PROVE  ReadObject(v, at) = sc
<1> DEFINE position(order, f) == CHOOSE i \in DOMAIN order : order[i] = f
<1>1. ReadObject(v, at) = [f \in Fields |-> v[at + position(StoreOrder, f)]]
  BY LoadOrderSame DEF ReadObject, NewObject
<1>2. ASSUME NEW f \in Fields PROVE v[at + position(StoreOrder, f)] = sc[f]
  <2>1. DOMAIN StoreOrder = 1..26
    BY StoreOrderIs
  <2>2. PICK j \in 1..26 : f = StoreOrder[j]
    BY FieldsAre
  <2>3. position(StoreOrder, f) \in 1..26 /\ StoreOrder[position(StoreOrder, f)] = f
    BY <2>1, <2>2
  <2> HIDE DEF position
  <2> QED  BY <2>3 DEF NewObject
<1>3. sc = [f \in Fields |-> sc[f]]
  BY ServersAre DEF Server
<1> HIDE DEF position
<1> QED  BY <1>1, <1>2, <1>3

\* ... and of an old file the same server, its times taken apart.
LEMMA ReadOld ==
  ASSUME NEW sc \in Servers, NEW v, NEW at, v[at] = "0x200",
         \A j \in 1..12 : v[at + j] = OldValue(sc, OldOrder[j])
  PROVE  ReadObject(v, at) = sc
<1> DEFINE position(order, f) == CHOOSE i \in DOMAIN order : order[i] = f
           Read(f) == IF f \in ToSet(OldOrder) THEN v[at + position(OldOrder, f)]
                      ELSE GetAsSystemTime(v[at + position(OldOrder, <<f[1], "whole">>)], f[2])
<1>1. ReadObject(v, at) = [f \in Fields |-> Read(f)]
  BY DEF ReadObject
<1>2. ASSUME NEW f \in ToSet(OldOrder) PROVE v[at + position(OldOrder, f)] = OldValue(sc, f)
  <2>1. DOMAIN OldOrder = 1..12
    BY OldOrderIs
  <2>2. PICK j \in 1..12 : f = OldOrder[j]
    BY <2>1 DEF ToSet
  <2>3. position(OldOrder, f) \in 1..12 /\ OldOrder[position(OldOrder, f)] = f
    BY <2>1, <2>2
  <2> HIDE DEF position
  <2> QED  BY <2>3
<1>3. ASSUME NEW f \in Fields PROVE Read(f) = sc[f]
  <2>1. CASE f \in ToSet(OldOrder)
    <3>1. OldValue(sc, f) = sc[f]
      BY DEF OldValue
    <3> HIDE DEF position
    <3> QED  BY <2>1, <1>2, <3>1
  <2>2. CASE f \notin ToSet(OldOrder)
    <3> DEFINE t == <<f[1], "whole">>
    <3>1. f = <<f[1], f[2]>> /\ t \notin Fields /\ t \in ToSet(OldOrder) /\ t[1] = f[1]
      BY <2>2, FieldsAre
    <3>2. OldValue(sc, t) = <<t, NameOf(sc), RevisionOf(sc)>>
      BY <3>1 DEF OldValue
    <3>3. sc[f] = <<f, NameOf(sc), RevisionOf(sc)>>
      BY ServersAre, ServerIs
    <3>4. v[at + position(OldOrder, t)] = OldValue(sc, t)
      BY <1>2, <3>1
    <3>5. Read(f) = GetAsSystemTime(OldValue(sc, t), f[2])
      BY <2>2, <3>4
    <3>6. GetAsSystemTime(OldValue(sc, t), f[2]) = <<<<t[1], f[2]>>, NameOf(sc), RevisionOf(sc)>>
      BY <3>2 DEF GetAsSystemTime
    <3> HIDE DEF t, Read
    <3> QED  BY <3>1, <3>3, <3>5, <3>6
  <2> QED  BY <2>1, <2>2
<1>4. sc = [f \in Fields |-> sc[f]]
  BY ServersAre DEF Server
<1> HIDE DEF Read
<1> QED  BY <1>1, <1>3, <1>4

\* A file that holds the first values of what writeFile writes.
StartOf(v, w) == v \in Seq(Value) /\ Len(v) <= Len(w) /\ \A i \in 1..Len(v) : v[i] = w[i]

\* Only when the servers are complete they are read; the ping booster may be missing.
LEMMA LoadWritten ==
  ASSUME NEW l \in Lists, NEW b \in Boosters, NEW v, StartOf(v, Written(l, b))
  PROVE  /\ Load(v).servers = IF Len(v) < 1 + Len(l) * 27 THEN <<>> ELSE l
         /\ Load(v).booster \in Boosters
         /\ Len(v) = Len(Written(l, b)) => Load(v).booster = b
<1> DEFINE n == Len(l)
           w == Written(l, b)
           end == 1 + n * 27
<1>0. n \in Nat /\ Len(v) \in Nat /\ \A i \in 1..n : l[i] \in Servers
  BY ListIs, PersistenceAssumption, LenProperties DEF StartOf
<1>1. /\ w \in Seq(Value) /\ Len(w) = n * 27 + 3
      /\ w[1] = n - 1 /\ w[n * 27 + 2] = b[1] /\ w[n * 27 + 3] = b[2]
      /\ \A i \in 1..n : w[2 + (i - 1) * 27] = "0x201"
      /\ \A i \in 1..n : \A j \in 1..26 : w[2 + (i - 1) * 27 + j] = l[i][StoreOrder[j]]
  BY WrittenIs
<1>2. Len(v) <= n * 27 + 3 /\ \A i \in 1..Len(v) : v[i] = w[i]
  BY <1>1 DEF StartOf
<1>3. b[1] \in {1, 2} /\ b[2] \in BOOLEAN /\ b = <<b[1], b[2]>>
  BY DEF Boosters
<1>4. NoBooster \in Boosters
  BY DEF NoBooster, Boosters
<1>5. v = <<>> <=> Len(v) = 0
  BY EmptySeq DEF StartOf
<1> HIDE DEF w, n
<1>6. CASE v = <<>>
  <2>1. Load(v) = [servers |-> <<>>, booster |-> NoBooster]
    BY <1>6 DEF Load
  <2>2. Len(v) < end /\ Len(v) # Len(w)
    BY <1>0, <1>1, <1>5, <1>6
  <2> QED  BY <1>4, <2>1, <2>2 DEF w, n
<1>7. CASE v # <<>>
  <2>1. v[1] = n - 1 /\ v[1] + 1 = n
    <3>1. 1 \in 1..Len(v)
      BY <1>0, <1>5, <1>7
    <3>2. v[1] = w[1]
      BY <1>2, <3>1
    <3> QED  BY <1>0, <1>1, <3>2
  <2>2. ObjectLength(v) = 27
    <3>1. 1 + Len(LoadOrder) = 27
      BY LoadOrderSame, StoreOrderIs
    <3>2. ASSUME v[1] >= 0, Len(v) > 1 PROVE v[2] # "0x200"
      <4>1. 1 \in 1..n /\ 2 \in 1..Len(v)
        BY <1>0, <2>1, <3>2
      <4>2. v[2] = w[2]
        BY <1>2, <4>1
      <4>3. w[2 + (1 - 1) * 27] = "0x201" /\ 2 + (1 - 1) * 27 = 2
        BY <1>1, <4>1
      <4> QED  BY <4>2, <4>3
    <3> QED  BY <3>1, <3>2 DEF ObjectLength
  <2>3. CASE Len(v) < end
    <3>1. Load(v) = [servers |-> <<>>, booster |-> NoBooster]
      BY <2>1, <2>2, <2>3 DEF Load
    <3>2. Len(v) # Len(w)
      BY <1>0, <1>1, <2>3
    <3> QED  BY <1>4, <2>3, <3>1, <3>2 DEF w, n
  <2>4. CASE ~(Len(v) < end)
    <3> DEFINE servers == [i \in 1..n |-> ReadObject(v, 2 + (i - 1) * 27)]
               first == IF Len(v) > end THEN v[end + 1] ELSE 1
               second == Len(v) > end + 1 /\ v[end + 2]
    <3>1. Load(v) = [servers |-> servers, booster |-> <<first, second>>]
      BY <1>7, <2>1, <2>2, <2>4 DEF Load
    <3>2. ASSUME NEW i \in 1..n PROVE ReadObject(v, 2 + (i - 1) * 27) = l[i]
      <4> DEFINE at == 2 + (i - 1) * 27
      <4>1. at \in 1..Len(v) /\ \A j \in 1..26 : at + j \in 1..Len(v)
        BY <1>0, <2>4
      <4>2. w[at] = "0x201" /\ \A j \in 1..26 : w[at + j] = l[i][StoreOrder[j]]
        BY <1>1
      <4> HIDE DEF at
      <4>3. NewObject(l[i], v, at)
        BY <1>2, <4>1, <4>2 DEF NewObject
      <4>4. ReadObject(v, at) = l[i]
        BY <1>0, <4>3, ReadNew
      <4> QED  BY <4>4 DEF at
    <3>3. servers = l
      <4>1. l = [i \in 1..n |-> l[i]]
        BY ListIs DEF n
      <4> QED  BY <3>2, <4>1
    <3>4. first \in {1, 2} /\ (Len(v) = Len(w) => first = b[1])
      <4>1. Len(v) > end => v[end + 1] = b[1]
        <5>1. end + 1 = n * 27 + 2 /\ (Len(v) > end => end + 1 \in 1..Len(v))
          BY <1>0
        <5> QED  BY <1>1, <1>2, <5>1
      <4>2. Len(v) = Len(w) => Len(v) > end
        BY <1>0, <1>1
      <4> QED  BY <1>3, <4>1, <4>2
    <3>5. second \in BOOLEAN /\ (Len(v) = Len(w) => second = b[2])
      <4>1. Len(v) > end + 1 => v[end + 2] = b[2]
        <5>1. end + 2 = n * 27 + 3 /\ (Len(v) > end + 1 => end + 2 \in 1..Len(v))
          BY <1>0
        <5> QED  BY <1>1, <1>2, <5>1
      <4>2. Len(v) = Len(w) => Len(v) > end + 1
        BY <1>0, <1>1
      <4> HIDE DEF end
      <4> QED  BY <1>3, <4>1, <4>2
    <3> HIDE DEF servers, first, second
    <3>6. Load(v).servers = l /\ Load(v).booster = <<first, second>>
      BY <3>1, <3>3
    <3>7. <<first, second>> \in Boosters
      BY <3>4, <3>5 DEF Boosters
    <3>8. Len(v) = Len(w) => <<first, second>> = b
      BY <1>3, <3>4, <3>5
    <3> QED  BY <2>4, <3>6, <3>7, <3>8 DEF w, n
  <2> QED  BY <2>3, <2>4
<1> QED  BY <1>6, <1>7

LEMMA LoadOld ==
  ASSUME NEW l \in Lists
  PROVE  Load(OldFile(l)).servers = l /\ Load(OldFile(l)).booster = NoBooster
<1> DEFINE n == Len(l)
           v == OldFile(l)
<1>0. n \in Nat /\ \A i \in 1..n : l[i] \in Servers
  BY ListIs, PersistenceAssumption
<1>1. /\ v \in Seq(Value) /\ Len(v) = n * 13 + 1 /\ v[1] = n - 1
      /\ \A i \in 1..n : v[2 + (i - 1) * 13] = "0x200"
      /\ \A i \in 1..n : \A j \in 1..12 :
           v[2 + (i - 1) * 13 + j] = OldValue(l[i], OldOrder[j])
  BY OldFileIs
<1> HIDE DEF n, v
<1>2. v # <<>> /\ v[1] + 1 = n
  <2>1. Len(v) # 0
    BY <1>0, <1>1
  <2> QED  BY <1>0, <1>1, <2>1
<1>3. CASE n = 0
  <2> DEFINE size == ObjectLength(v)
             first == IF Len(v) > 1 THEN v[1 + 1] ELSE 1
             second == Len(v) > 1 + 1 /\ v[1 + 2]
  <2>1. Len(v) = 1 /\ v[1] + 1 = 0
    BY <1>1, <1>2, <1>3
  <2>2. size \in Nat
    <3>1. 1 + Len(LoadOrder) = 27 /\ 1 + Len(OldOrder) = 13
      BY LoadOrderSame, StoreOrderIs, OldOrderIs
    <3> QED  BY <3>1 DEF ObjectLength
  <2> HIDE DEF size
  <2>3. 1 + 0 * size = 1
    BY <2>2
  <2>4. Load(v) = [servers |-> [i \in 1..0 |-> ReadObject(v, 2 + (i - 1) * size)],
                   booster |-> <<first, second>>]
    BY <1>2, <2>1, <2>3 DEF Load, size
  <2>5. first = 1 /\ second = FALSE
    BY <2>1
  <2>6. l = [i \in 1..0 |-> ReadObject(v, 2 + (i - 1) * size)]
    <3>1. l = [i \in 1..0 |-> l[i]]
      BY <1>3, ListIs DEF n
    <3> QED  BY <3>1
  <2> HIDE DEF first, second
  <2>7. Load(v).servers = l /\ Load(v).booster = <<first, second>>
    BY <2>4, <2>6
  <2>8. <<first, second>> = NoBooster
    BY <2>5 DEF NoBooster
  <2> QED  BY <2>7, <2>8 DEF v
<1>4. CASE n # 0
  <2> DEFINE end == 1 + n * 13
             servers == [i \in 1..n |-> ReadObject(v, 2 + (i - 1) * 13)]
             first == IF Len(v) > end THEN v[end + 1] ELSE 1
             second == Len(v) > end + 1 /\ v[end + 2]
  <2>1. ObjectLength(v) = 13
    <3>1. 1 + Len(OldOrder) = 13
      BY OldOrderIs
    <3>2. v[1] >= 0 /\ Len(v) > 1
      BY <1>0, <1>1, <1>4
    <3>3. v[2] = "0x200"
      <4>1. 1 \in 1..n /\ 2 + (1 - 1) * 13 = 2
        BY <1>0, <1>4
      <4> QED  BY <1>1, <4>1
    <3> QED  BY <3>1, <3>2, <3>3 DEF ObjectLength
  <2>2. Len(v) = end
    BY <1>0, <1>1
  <2>3. Load(v) = [servers |-> servers, booster |-> <<first, second>>]
    <3>1. ~(Len(v) < end)
      BY <1>0, <2>2
    <3> QED  BY <1>2, <2>1, <3>1 DEF Load
  <2>4. servers = l
    <3>1. ASSUME NEW i \in 1..n PROVE ReadObject(v, 2 + (i - 1) * 13) = l[i]
      <4> DEFINE at == 2 + (i - 1) * 13
      <4>1. v[at] = "0x200" /\ \A j \in 1..12 : v[at + j] = OldValue(l[i], OldOrder[j])
        BY <1>1
      <4> HIDE DEF at
      <4>2. ReadObject(v, at) = l[i]
        BY <1>0, <4>1, ReadOld
      <4> QED  BY <4>2 DEF at
    <3>2. l = [i \in 1..n |-> l[i]]
      BY ListIs DEF n
    <3> QED  BY <3>1, <3>2
  <2>5. first = 1 /\ second = FALSE
    <3>1. end \in Nat
      BY <1>0
    <3> HIDE DEF end
    <3> QED  BY <2>2, <3>1
  <2> HIDE DEF servers, first, second
  <2>6. Load(v).servers = l /\ Load(v).booster = <<first, second>>
    BY <2>3, <2>4
  <2>7. <<first, second>> = NoBooster
    BY <2>5 DEF NoBooster
  <2> QED  BY <2>6, <2>7 DEF v
<1> QED  BY <1>3, <1>4

-----------------------------------------------------------------------------
(* Lists the user makes of a list.                                         *)

LEMMA RemoveAtIs ==
  ASSUME NEW S, NEW s \in Seq(S), NEW k \in 1..Len(s)
  PROVE  /\ RemoveAt(s, k) \in Seq(S)
         /\ Len(RemoveAt(s, k)) = Len(s) - 1
         /\ \A i \in 1..(Len(s) - 1) : RemoveAt(s, k)[i] = IF i < k THEN s[i] ELSE s[i + 1]
<1> DEFINE n == Len(s)
           a == SubSeq(s, 1, k - 1)
           b == SubSeq(s, k + 1, n)
           r == RemoveAt(s, k)
           m == n - k
<1>0. n \in Nat /\ \A i \in 1..n : s[i] \in S
  BY LenProperties, ElementOfSeq
<1>1. a \in Seq(S) /\ Len(a) = k - 1 /\ \A i \in 1..(k - 1) : a[i] = s[i]
  BY <1>0, SubSeqProperties
<1>2. b \in Seq(S) /\ Len(b) = m /\ \A i \in 1..m : b[i] = s[k + i]
  BY <1>0, SubSeqProperties
<1>3. r = a \o b
  BY DEF RemoveAt
<1> HIDE DEF a, b, r
<1>4. r \in Seq(S) /\ Joined(r, a, k - 1, b, m)
  <2> HIDE DEF m
  <2> QED  BY <1>1, <1>2, <1>3, ConcatIs
<1>5. Len(r) = n - 1
  BY <1>0, <1>4 DEF Joined
<1>6. ASSUME NEW i \in 1..(n - 1) PROVE r[i] = IF i < k THEN s[i] ELSE s[i + 1]
  <2>1. CASE i < k
    <3>1. i \in 1..(k - 1)
      BY <1>0, <2>1
    <3> QED  BY <1>1, <1>4, <2>1, <3>1 DEF Joined
  <2>2. CASE ~(i < k)
    <3> DEFINE j == i - (k - 1)
    <3>1. j \in 1..m /\ (k - 1) + j = i /\ k + j = i + 1
      BY <1>0, <2>2
    <3> HIDE DEF j, m
    <3>2. r[(k - 1) + j] = b[j] /\ b[j] = s[k + j]
      BY <1>2, <1>4, <3>1 DEF Joined
    <3> QED  BY <2>2, <3>1, <3>2
  <2> QED  BY <2>1, <2>2
<1> QED  BY <1>4, <1>5, <1>6 DEF r

LEMMA AddList ==
  ASSUME NEW l \in Lists, Len(l) < MaxServers, NEW s \in Names, s \notin ToSet(NamesOf(l))
  PROVE  Append(l, Server(s, 0)) \in Lists
<1> DEFINE n == Len(l)
           e == Server(s, 0)
           m == Append(l, e)
<1>0. /\ l \in Seq(Servers) /\ n \in Nat /\ NamesOf(l) = [i \in 1..n |-> NameOf(l[i])]
      /\ \A i, j \in 1..n : NameOf(l[i]) = NameOf(l[j]) => i = j
  BY ListIs, PersistenceAssumption
<1>1. e \in Servers /\ NameOf(e) = s
  BY ServerIs, PersistenceAssumption DEF Servers
<1>2. \A i \in 1..n : NameOf(l[i]) # s
  BY <1>0 DEF ToSet
<1>3. m \in Seq(Servers) /\ Len(m) = n + 1 /\ m[n + 1] = e /\ \A i \in 1..n : m[i] = l[i]
  BY <1>0, <1>1, AppendProperties
<1> HIDE DEF n, e, m
<1>4. \A i \in 1..(n + 1) : i \in 1..n \/ i = n + 1
  BY <1>0
<1>5. \A i, j \in 1..(n + 1) : NameOf(m[i]) = NameOf(m[j]) => i = j
  BY <1>0, <1>1, <1>2, <1>3, <1>4
<1>6. Len(m) <= MaxServers
  BY <1>0, <1>3, PersistenceAssumption DEF n
<1>7. m \in Lists
  BY <1>3, <1>5, <1>6, IsList
<1> QED  BY <1>7 DEF m, e

LEMMA RemoveList ==
  ASSUME NEW l \in Lists, NEW k \in 1..Len(l)
  PROVE  RemoveAt(l, k) \in Lists
<1> DEFINE n == Len(l)
           m == RemoveAt(l, k)
<1>0. /\ l \in Seq(Servers) /\ n \in Nat /\ n <= MaxServers
      /\ \A i, j \in 1..n : NameOf(l[i]) = NameOf(l[j]) => i = j
  BY ListIs, PersistenceAssumption
<1>1. /\ m \in Seq(Servers) /\ Len(m) = n - 1
      /\ \A i \in 1..(n - 1) : m[i] = IF i < k THEN l[i] ELSE l[i + 1]
  BY <1>0, RemoveAtIs
<1> HIDE DEF m
<1>2. ASSUME NEW i \in 1..(n - 1), NEW j \in 1..(n - 1), NameOf(m[i]) = NameOf(m[j])
      PROVE  i = j
  <2> DEFINE place(x) == IF x < k THEN x ELSE x + 1
  <2>1. \A x \in 1..(n - 1) : place(x) \in 1..n /\ m[x] = l[place(x)]
    BY <1>0, <1>1
  <2>2. place(i) = place(j)
    BY <1>0, <1>2, <2>1
  <2> QED  BY <1>0, <2>2
<1>3. Len(m) <= MaxServers
  BY <1>0, <1>1, PersistenceAssumption
<1>4. m \in Lists
  BY <1>1, <1>2, <1>3, IsList
<1> QED  BY <1>4 DEF m

LEMMA ChangeList ==
  ASSUME NEW l \in Lists, NEW k \in 1..Len(l), RevisionOf(l[k]) < MaxRevision,
         NEW m, m = [l EXCEPT ![k] = Server(NameOf(@), RevisionOf(@) + 1)]
  PROVE  m \in Lists /\ NamesOf(m) = NamesOf(l)
<1> DEFINE n == Len(l)
           e == Server(NameOf(l[k]), RevisionOf(l[k]) + 1)
<1>0. /\ l \in Seq(Servers) /\ n \in Nat /\ n <= MaxServers
      /\ \A i \in 1..n : l[i] \in Servers
      /\ \A i, j \in 1..n : NameOf(l[i]) = NameOf(l[j]) => i = j
      /\ DOMAIN l = 1..n
  BY ListIs, PersistenceAssumption
<1>1. e \in Servers /\ NameOf(e) = NameOf(l[k])
  <2>1. NameOf(l[k]) \in Names /\ RevisionOf(l[k]) \in 0..MaxRevision
    BY <1>0, ServersAre
  <2>2. RevisionOf(l[k]) + 1 \in 0..MaxRevision
    BY <2>1, PersistenceAssumption
  <2> QED  BY <2>1, <2>2, ServerIs DEF Servers
<1>2. m = [l EXCEPT ![k] = e]
  OBVIOUS
<1> HIDE DEF e, n
<1>3. m \in Seq(Servers) /\ Len(m) = n
  BY <1>0, <1>1, <1>2, ExceptSeq DEF n
<1>4. \A i \in 1..n : NameOf(m[i]) = NameOf(l[i])
  BY <1>0, <1>1, <1>2
<1>5. m \in Lists
  <2>1. Len(m) <= MaxServers /\ \A i, j \in 1..Len(m) : NameOf(m[i]) = NameOf(m[j]) => i = j
    BY <1>0, <1>3, <1>4
  <2> QED  BY <1>3, <2>1, IsList
<1>6. NamesOf(m) = NamesOf(l)
  <2>1. DOMAIN m = DOMAIN l
    BY <1>2
  <2> QED  BY <1>0, <1>4, <2>1 DEF NamesOf
<1> QED  BY <1>5, <1>6

-----------------------------------------------------------------------------
(* A write that is under way: f is in the file, o is still to come, w is   *)
(* what is being written.                                                  *)

Pending(f, o, w) ==
  /\ Len(f) + Len(o) = Len(w)
  /\ \A i \in 1..Len(f) : f[i] = w[i]
  /\ \A i \in 1..Len(o) : w[Len(f) + i] = o[i]

LEMMA PendingStart ==
  ASSUME NEW w \in Seq(Value)
  PROVE  <<>> \in Seq(Value) /\ Pending(<<>>, w, w) /\ StartOf(<<>>, w)
<1> DEFINE e == <<>>
<1>1. e \in Seq(Value) /\ Len(e) = 0 /\ Len(w) \in Nat
  BY LenProperties
<1> HIDE DEF e
<1>2. Pending(e, w, w) /\ StartOf(e, w)
  BY <1>1 DEF Pending, StartOf
<1> QED  BY <1>1, <1>2 DEF e

LEMMA PendingFlush ==
  ASSUME NEW f \in Seq(Value), NEW o \in Seq(Value), NEW w \in Seq(Value), o # <<>>, Pending(f, o, w)
  PROVE  /\ Append(f, Head(o)) \in Seq(Value) /\ Tail(o) \in Seq(Value)
         /\ Len(Append(f, Head(o))) = Len(f) + 1
         /\ Pending(Append(f, Head(o)), Tail(o), w)
<1> DEFINE h == Head(o)
           g == Append(f, h)
           t == Tail(o)
           m == Len(f)
           n == Len(o)
<1>1. m \in Nat /\ n \in Nat /\ n # 0
  BY LenProperties, EmptySeq
<1>2. /\ h \in Value /\ h = o[1] /\ t \in Seq(Value) /\ Len(t) = n - 1
      /\ \A i \in 1..(n - 1) : t[i] = o[i + 1]
  BY HeadTailProperties
<1> HIDE DEF h, t
<1>3. g \in Seq(Value) /\ Len(g) = m + 1 /\ g[m + 1] = h /\ \A i \in 1..m : g[i] = f[i]
  BY <1>2, AppendProperties
<1> HIDE DEF g
<1>4. /\ m + n = Len(w) /\ \A i \in 1..m : f[i] = w[i]
      /\ \A i \in 1..n : w[m + i] = o[i]
  BY DEF Pending
<1> HIDE DEF m, n
<1>5. Len(g) + Len(t) = Len(w)
  <2>1. Len(g) = m + 1 /\ Len(t) = n - 1 /\ m + n = Len(w)
    BY <1>2, <1>3, <1>4
  <2>2. (m + 1) + (n - 1) = m + n
    BY <1>1
  <2> QED  BY <2>1, <2>2
<1>6. ASSUME NEW i \in 1..(m + 1) PROVE g[i] = w[i]
  <2>1. CASE i \in 1..m
    BY <1>3, <1>4, <2>1
  <2>2. CASE i = m + 1
    BY <1>1, <1>2, <1>3, <1>4, <2>2
  <2> QED  BY <1>1, <2>1, <2>2
<1>7. ASSUME NEW i \in 1..(n - 1) PROVE w[(m + 1) + i] = t[i]
  <2>1. i + 1 \in 1..n /\ m + (i + 1) = (m + 1) + i
    BY <1>1
  <2>2. w[m + (i + 1)] = o[i + 1]
    BY <1>4, <2>1
  <2> QED  BY <1>2, <2>1, <2>2
<1>8. Pending(g, t, w)
  BY <1>2, <1>3, <1>5, <1>6, <1>7 DEF Pending
<1> QED  BY <1>2, <1>3, <1>8 DEF g, h, t, m

LEMMA PendingStarts ==
  ASSUME NEW f \in Seq(Value), NEW o \in Seq(Value), NEW w \in Seq(Value), Pending(f, o, w)
  PROVE  StartOf(f, w) /\ (o = <<>> => f = w)
<1>1. Len(f) \in Nat /\ Len(o) \in Nat /\ Len(w) \in Nat
  BY LenProperties
<1>2. Len(f) + Len(o) = Len(w) /\ \A i \in 1..Len(f) : f[i] = w[i]
  BY DEF Pending
<1>3. StartOf(f, w)
  BY <1>1, <1>2 DEF StartOf
<1>4. ASSUME o = <<>> PROVE f = w
  <2>1. Len(o) = 0
    BY <1>4
  <2>2. Len(f) = Len(w)
    BY <1>1, <1>2, <2>1
  <2> QED  BY <1>2, <2>2, SeqEqual
<1> QED  BY <1>3, <1>4

-----------------------------------------------------------------------------
(* The invariant.  The file is one the old version wrote or the beginning  *)
(* of one that writeFile writes; a write under way is of the list in       *)
(* memory; what the last regular exit wrote is all there.                  *)

Types ==
  /\ up \in BOOLEAN /\ failed \in BOOLEAN
  /\ mem \in Lists /\ booster \in Boosters
  /\ saving \in {"nobody", "add", "delete", "exit", "broken"}
  /\ file \in Seq(Value) /\ out \in Seq(Value)

Writing ==
  saving \in {"add", "delete", "exit"} => up = TRUE /\ Pending(file, out, Written(mem, booster))

NotWriting == saving \in {"nobody", "broken"} => out = <<>>

Ended == up = FALSE => saving = "nobody"

KnownFile ==
  \/ \E l \in Lists : file = OldFile(l)
  \/ \E l \in Lists, b \in Boosters : StartOf(file, Written(l, b))

LeftFile ==
  left # <<>> => /\ up = FALSE
                 /\ \E l \in Lists, b \in Boosters :
                      left = <<l, b>> /\ (file = Written(l, b)
                                          \/ (file = OldFile(l) /\ b = NoBooster))

IInv == Types /\ Writing /\ NotWriting /\ Ended /\ KnownFile /\ LeftFile /\ ListSaved

\* A start of the program finds a list in such a file.
LEMMA LoadKnown ==
  ASSUME KnownFile
  PROVE  Load(file).servers \in Lists /\ Load(file).booster \in Boosters
<1>1. ASSUME NEW l \in Lists, file = OldFile(l)
      PROVE  Load(file).servers \in Lists /\ Load(file).booster \in Boosters
  <2>1. NoBooster \in Boosters
    BY DEF NoBooster, Boosters
  <2> QED  BY <1>1, <2>1, LoadOld
<1>2. ASSUME NEW l \in Lists, NEW b \in Boosters, StartOf(file, Written(l, b))
      PROVE  Load(file).servers \in Lists /\ Load(file).booster \in Boosters
  BY <1>2, LoadWritten, EmptyList
<1> QED  BY <1>1, <1>2 DEF KnownFile

\* All of a file that writeFile wrote.
LEMMA LoadAll ==
  ASSUME NEW l \in Lists, NEW b \in Boosters
  PROVE  /\ Written(l, b) \in Seq(Value) /\ StartOf(Written(l, b), Written(l, b))
         /\ Load(Written(l, b)).servers = l /\ Load(Written(l, b)).booster = b
<1> DEFINE w == Written(l, b)
           n == Len(l)
<1>1. n \in Nat /\ w \in Seq(Value) /\ Len(w) = n * 27 + 3
  BY WrittenIs, ListIs, PersistenceAssumption
<1>2. ~(Len(w) < 1 + n * 27) /\ Len(w) \in Nat
  BY <1>1
<1>3. StartOf(w, w)
  BY <1>1, <1>2 DEF StartOf
<1> QED  BY <1>1, <1>2, <1>3, LoadWritten

LEMMA InitHolds == Init => IInv
<1> SUFFICES ASSUME Init PROVE IInv
  OBVIOUS
<1>1. <<>> \in Lists /\ NoBooster \in Boosters
  BY EmptyList DEF NoBooster, Boosters
<1>2. <<>> \in Seq(Value)
  OBVIOUS
<1>3. CASE file = <<>>
  <2>1. StartOf(<<>>, Written(<<>>, NoBooster))
    BY <1>1, LoadAll, PendingStart
  <2>2. KnownFile
    BY <1>1, <1>3, <2>1 DEF KnownFile
  <2> QED  BY <1>1, <1>2, <1>3, <2>2
           DEF Init, IInv, Types, Writing, NotWriting, Ended, LeftFile, ListSaved
<1>4. CASE file # <<>>
  <2>1. PICK l \in Lists : /\ file \in {OldFile(l), Written(l, NoBooster)}
                            /\ left = <<l, NoBooster>>
    BY <1>4 DEF Init
  <2>2. file \in Seq(Value) /\ KnownFile
    BY <1>1, <2>1, OldFileIs, LoadAll DEF KnownFile
  <2>3. LeftFile
    BY <1>1, <2>1 DEF Init, LeftFile
  <2> QED  BY <1>1, <1>2, <2>2, <2>3
           DEF Init, IInv, Types, Writing, NotWriting, Ended, ListSaved
<1> QED  BY <1>3, <1>4

LEMMA StartHolds == ASSUME IInv, OnNewDocument PROVE IInv'
<1>1. mem' \in Lists /\ booster' \in Boosters
  BY LoadKnown DEF IInv, OnNewDocument
<1>2. saving = "nobody"
  BY DEF IInv, Types, Ended, OnNewDocument
<1>3. Types' /\ Writing' /\ NotWriting' /\ Ended' /\ LeftFile'
  BY <1>1, <1>2 DEF IInv, Types, Writing, NotWriting, Ended, LeftFile, OnNewDocument
<1>4. KnownFile'
  BY DEF IInv, KnownFile, OnNewDocument
<1>5. ListSaved'
  BY DEF ListSaved, OnNewDocument
<1> QED  BY <1>3, <1>4, <1>5 DEF IInv

\* A call of writeFile that opens the file begins with an empty one.
LEMMA WriteHolds ==
  ASSUME IInv, up, saving = "nobody", NEW who \in {"add", "delete", "exit"}, writeFile(who),
         mem' \in Lists, UNCHANGED <<up, booster, left>>
  PROVE  IInv'
<1>1. out = <<>> /\ up = TRUE /\ booster \in Boosters /\ left = <<>>
  BY DEF IInv, Types, NotWriting, LeftFile
<1>2. CASE file' = <<>> /\ out' = Written(mem', booster) /\ saving' = who /\ UNCHANGED failed
  <2> DEFINE w == Written(mem', booster)
  <2>1. w \in Seq(Value) /\ <<>> \in Seq(Value) /\ Pending(<<>>, w, w) /\ StartOf(<<>>, w)
    BY <1>1, LoadAll, PendingStart
  <2> HIDE DEF w
  <2>2. Types'
    BY <1>1, <1>2, <2>1 DEF IInv, Types, w
  <2>3. Writing'
    BY <1>1, <1>2, <2>1 DEF Writing, w
  <2>4. KnownFile'
    BY <1>1, <1>2, <2>1 DEF KnownFile, w
  <2>5. NotWriting' /\ Ended' /\ LeftFile' /\ ListSaved'
    BY <1>1, <1>2 DEF NotWriting, Ended, LeftFile, ListSaved
  <2> QED  BY <2>2, <2>3, <2>4, <2>5 DEF IInv
<1>3. CASE /\ who # "exit" /\ failed' = TRUE /\ UNCHANGED <<file, out>>
           /\ saving' = IF who = "add" THEN "broken" ELSE "nobody"
  <2>1. saving' \in {"nobody", "broken"}
    BY <1>3
  <2>2. Types'
    BY <1>1, <1>3, <2>1 DEF IInv, Types
  <2>3. Writing' /\ NotWriting' /\ Ended' /\ LeftFile' /\ ListSaved'
    BY <1>1, <1>3, <2>1 DEF Writing, NotWriting, Ended, LeftFile, ListSaved
  <2>4. KnownFile'
    BY <1>3 DEF IInv, KnownFile
  <2> QED  BY <2>2, <2>3, <2>4 DEF IInv
<1> QED  BY <1>2, <1>3 DEF writeFile

LEMMA AddHolds == ASSUME IInv, NEW s \in Names, addServer(s) PROVE IInv'
<1>1. mem' \in Lists
  BY AddList DEF IInv, Types, addServer
<1> QED  BY <1>1, WriteHolds DEF addServer

LEMMA DeleteHolds == ASSUME IInv, NEW i \in DOMAIN mem, delSelectedServer(i) PROVE IInv'
<1>1. i \in 1..Len(mem)
  BY ListIs DEF IInv, Types
<1>2. mem' \in Lists
  BY <1>1, RemoveList DEF IInv, Types, delSelectedServer
<1> QED  BY <1>2, WriteHolds DEF delSelectedServer

LEMMA ChangeHolds == ASSUME IInv, NEW i \in DOMAIN mem, Change(i) PROVE IInv'
<1>1. i \in 1..Len(mem)
  BY ListIs DEF IInv, Types
<1>2. mem' \in Lists /\ NamesOf(mem') = NamesOf(mem)
  BY <1>1, ChangeList DEF IInv, Types, Change
<1>3. Types' /\ Writing' /\ NotWriting' /\ Ended' /\ LeftFile'
  BY <1>2 DEF IInv, Types, Writing, NotWriting, Ended, LeftFile, Change
<1>4. KnownFile'
  BY DEF IInv, KnownFile, Change
<1>5. ListSaved'
  BY <1>2 DEF IInv, ListSaved, Change
<1> QED  BY <1>3, <1>4, <1>5 DEF IInv

LEMMA BoosterHolds == ASSUME IInv, ChangeBooster PROVE IInv'
<1>1. booster' \in Boosters
  <2> DEFINE a == booster[1]
             b == booster[2]
  <2>1. a \in {1, 2} /\ b \in BOOLEAN
    BY DEF IInv, Types, Boosters
  <2>2. booster' = <<a, ~b>> \/ booster' = <<3 - a, FALSE>>
    BY DEF ChangeBooster
  <2> HIDE DEF a, b
  <2>3. (~b) \in BOOLEAN
    OBVIOUS
  <2>5. 3 - a \in {1, 2}
    <3>1. CASE a = 1
      BY <3>1
    <3>2. CASE a = 2
      BY <3>2
    <3> QED  BY <2>1, <3>1, <3>2
  <2>4. <<a, ~b>> \in Boosters /\ <<3 - a, FALSE>> \in Boosters
    BY <2>1, <2>3, <2>5 DEF Boosters
  <2> QED  BY <2>2, <2>4
<1>2. Types' /\ Writing' /\ NotWriting' /\ Ended' /\ LeftFile'
  BY <1>1 DEF IInv, Types, Writing, NotWriting, Ended, LeftFile, ChangeBooster
<1>3. KnownFile'
  BY DEF IInv, KnownFile, ChangeBooster
<1>4. ListSaved'
  BY DEF IInv, ListSaved, ChangeBooster
<1> QED  BY <1>2, <1>3, <1>4 DEF IInv

LEMMA DestroyHolds == ASSUME IInv, Destroy PROVE IInv'
<1>1. mem' \in Lists
  BY DEF IInv, Types, Destroy
<1> QED  BY <1>1, WriteHolds DEF Destroy

LEMMA FlushHolds == ASSUME IInv, Flush PROVE IInv'
<1> DEFINE w == Written(mem, booster)
<1>1. saving \in {"add", "delete", "exit"} /\ up = TRUE /\ Pending(file, out, w) /\ left = <<>>
  BY DEF IInv, Types, Writing, NotWriting, LeftFile, Flush
<1>2. w \in Seq(Value) /\ file \in Seq(Value) /\ out \in Seq(Value)
      /\ mem \in Lists /\ booster \in Boosters
  BY LoadAll DEF IInv, Types
<1> HIDE DEF w
<1>3. file' \in Seq(Value) /\ out' \in Seq(Value) /\ Pending(file', out', w)
  BY <1>1, <1>2, PendingFlush DEF Flush
<1>4. StartOf(file', w)
  BY <1>2, <1>3, PendingStarts
<1>5. Types'
  BY <1>3 DEF IInv, Types, Flush
<1>6. Writing'
  BY <1>1, <1>3 DEF Writing, Flush, w
<1>7. KnownFile'
  BY <1>2, <1>4 DEF KnownFile, w
<1>8. NotWriting' /\ Ended' /\ LeftFile' /\ ListSaved'
  BY <1>1 DEF NotWriting, Ended, LeftFile, ListSaved, Flush
<1> QED  BY <1>5, <1>6, <1>7, <1>8 DEF IInv

LEMMA EndHolds ==
  ASSUME IInv, End,
         left' # <<>> => \E l \in Lists, b \in Boosters : left' = <<l, b>> /\ file = Written(l, b)
  PROVE  IInv'
<1>1. <<>> \in Lists /\ NoBooster \in Boosters /\ <<>> \in Seq(Value)
  <2>1. NoBooster \in Boosters
    BY DEF NoBooster, Boosters
  <2>2. <<>> \in Seq(Value)
    OBVIOUS
  <2> QED  BY <2>1, <2>2, EmptyList
<1>2. Types' /\ Writing' /\ NotWriting' /\ Ended' /\ ListSaved'
  BY <1>1 DEF IInv, Types, Writing, NotWriting, Ended, ListSaved, End
<1>3. KnownFile'
  BY DEF IInv, KnownFile, End
<1>4. LeftFile'
  BY DEF LeftFile, End
<1> QED  BY <1>2, <1>3, <1>4 DEF IInv

\* When writeFile returns, all of the list is in the file.
LEMMA ClosedFile ==
  ASSUME IInv, Close
  PROVE  /\ mem \in Lists /\ booster \in Boosters /\ file = Written(mem, booster)
         /\ Load(file).servers = mem
<1> DEFINE w == Written(mem, booster)
<1>1. mem \in Lists /\ booster \in Boosters /\ w \in Seq(Value) /\ Load(w).servers = mem
  BY LoadAll DEF IInv, Types
<1> HIDE DEF w
<1>2. Pending(file, out, w) /\ out = <<>> /\ file \in Seq(Value) /\ out \in Seq(Value)
  BY DEF IInv, Types, Writing, Close, w
<1>3. file = w
  BY <1>1, <1>2, PendingStarts
<1> QED  BY <1>1, <1>3 DEF w

LEMMA CloseHolds == ASSUME IInv, Close PROVE IInv'
<1>1. /\ mem \in Lists /\ booster \in Boosters /\ file = Written(mem, booster)
      /\ Load(file).servers = mem
  BY ClosedFile
<1>2. CASE saving = "exit"
  <2>1. left' = <<mem, booster>> /\ End
    BY <1>2 DEF Close
  <2> QED  BY <1>1, <2>1, EndHolds
<1>3. CASE saving # "exit"
  <2>1. /\ saving' = "nobody" /\ failed' = FALSE /\ out = <<>>
        /\ UNCHANGED <<up, mem, booster, file, out, left>>
    BY <1>3 DEF Close
  <2>2. Types' /\ Writing' /\ NotWriting' /\ Ended' /\ LeftFile'
    BY <2>1 DEF IInv, Types, Writing, NotWriting, Ended, LeftFile
  <2>3. KnownFile'
    BY <2>1 DEF IInv, KnownFile
  <2>4. ListSaved'
    BY <1>1, <2>1 DEF ListSaved
  <2> QED  BY <2>2, <2>3, <2>4 DEF IInv
<1> QED  BY <1>2, <1>3

LEMMA ErrorHolds == ASSUME IInv, WriteError PROVE IInv'
<1>1. saving' \in {"nobody", "broken"} /\ up = TRUE /\ left = <<>> /\ <<>> \in Seq(Value)
  BY DEF IInv, Types, Writing, LeftFile, WriteError
<1>2. Types' /\ Writing' /\ NotWriting' /\ Ended' /\ LeftFile' /\ ListSaved'
  BY <1>1 DEF IInv, Types, Writing, NotWriting, Ended, LeftFile, ListSaved, WriteError
<1>3. KnownFile'
  BY DEF IInv, KnownFile, WriteError
<1> QED  BY <1>2, <1>3 DEF IInv

LEMMA NextHolds == IInv /\ [Next]_vars => IInv'
<1> SUFFICES ASSUME IInv, [Next]_vars PROVE IInv'
  OBVIOUS
<1>1. CASE Crash
  BY <1>1, EndHolds DEF Crash
<1>2. CASE UNCHANGED vars
  <2>1. Types' /\ Writing' /\ NotWriting' /\ Ended' /\ LeftFile' /\ ListSaved'
    BY <1>2 DEF IInv, Types, Writing, NotWriting, Ended, LeftFile, ListSaved, vars
  <2>2. KnownFile'
    BY <1>2 DEF IInv, KnownFile, vars
  <2> QED  BY <2>1, <2>2 DEF IInv
<1>3. CASE \E i \in DOMAIN mem : delSelectedServer(i) \/ Change(i)
  BY <1>3, DeleteHolds, ChangeHolds
<1> QED  BY <1>1, <1>2, <1>3, StartHolds, AddHolds, BoosterHolds, DestroyHolds, FlushHolds,
            CloseHolds, ErrorHolds DEF Next

LEMMA Invariance == Spec => []IInv
BY InitHolds, NextHolds, PTL DEF Spec

-----------------------------------------------------------------------------
(* writeFile and OnNewDocument keep the list, the ping booster and the     *)
(* file within their types and bounds, for any servers.                    *)
THEOREM FileTypeCorrect == Spec => []TypeOK
<1>1. IInv => TypeOK
  <2> SUFFICES ASSUME IInv PROVE TypeOK
    OBVIOUS
  <2> DEFINE bound == 3 + MaxServers * 27
  <2>1. 1 + Len(LoadOrder) = 27
    BY LoadOrderSame, StoreOrderIs
  <2>2. Len(file) \in Nat /\ Len(out) \in Nat /\ MaxServers \in Nat
    BY LenProperties, PersistenceAssumption DEF IInv, Types
  <2>3. ASSUME NEW l \in Lists, NEW b \in Boosters
        PROVE  Len(Written(l, b)) <= bound /\ Len(OldFile(l)) <= bound
    <3>1. Len(l) \in 0..MaxServers
      BY ListIs
    <3>2. Len(Written(l, b)) = Len(l) * 27 + 3 /\ Len(OldFile(l)) = Len(l) * 13 + 1
      BY WrittenIs, OldFileIs
    <3> QED  BY <2>2, <3>1, <3>2
  <2> HIDE DEF bound
  <2>4. Len(file) + Len(out) <= bound
    <3>1. CASE saving \in {"add", "delete", "exit"}
      <4>1. Len(file) + Len(out) = Len(Written(mem, booster))
        BY <3>1 DEF IInv, Writing, Pending
      <4> QED  BY <2>3, <4>1 DEF IInv, Types
    <3>2. CASE saving \in {"nobody", "broken"}
      <4>1. Len(out) = 0
        BY <3>2 DEF IInv, NotWriting
      <4>2. ASSUME NEW l \in Lists, file = OldFile(l) PROVE Len(file) <= bound
        <5>1. <<1, FALSE>> \in Boosters
          BY DEF Boosters
        <5> QED  BY <2>3, <4>2, <5>1
      <4>3. ASSUME NEW l \in Lists, NEW b \in Boosters, StartOf(file, Written(l, b))
            PROVE  Len(file) <= bound
        <5>1. Len(file) <= Len(Written(l, b)) /\ Len(Written(l, b)) <= bound
          BY <2>3, <4>3 DEF StartOf
        <5>2. Len(Written(l, b)) \in Nat /\ bound \in Nat
          BY <2>2, LoadAll, LenProperties DEF bound
        <5> QED  BY <2>2, <5>1, <5>2
      <4>4. Len(file) <= bound
        BY <4>2, <4>3 DEF IInv, KnownFile
      <4> QED  BY <2>2, <4>1, <4>4
    <3> QED  BY <3>1, <3>2 DEF IInv, Types
  <2> QED  BY <2>1, <2>4 DEF IInv, Types, TypeOK, Boosters, bound
<1> QED  BY <1>1, Invariance, PTL

(* For any servers, New and Delete have saved the list when they return,   *)
(* unless the user was told that they failed (addServer, writeFile).       *)
THEOREM ListSavedCorrect == Spec => []ListSaved
<1>1. IInv => ListSaved
  BY DEF IInv
<1> QED  BY <1>1, Invariance, PTL

(* For any servers, OnNewDocument brings back the list and the ping        *)
(* booster that ~CServerDoc wrote, each setting in its field; from a file  *)
(* of version 0x200, too, whose times have another form.                   *)
THEOREM ExitCorrect == Spec => ExitRestored
<1>1. IInv /\ [Next]_vars
      => [(~up /\ up' /\ left # <<>>) => <<mem', booster'>> = left]_vars
  <2> SUFFICES ASSUME IInv, Next, ~up, up', left # <<>>
               PROVE  <<mem', booster'>> = left
    BY DEF vars
  <2>1. OnNewDocument
    BY DEF Next, addServer, delSelectedServer, Change, ChangeBooster, Destroy, Flush, Close,
           WriteError, Crash, End
  <2>2. PICK l \in Lists, b \in Boosters :
          left = <<l, b>> /\ (file = Written(l, b) \/ (file = OldFile(l) /\ b = NoBooster))
    BY DEF IInv, LeftFile
  <2>3. mem' = l /\ booster' = b
    BY <2>1, <2>2, LoadAll, LoadOld DEF OnNewDocument
  <2> QED  BY <2>2, <2>3
<1> QED  BY <1>1, Invariance, PTL DEF ExitRestored, Spec

-----------------------------------------------------------------------------
(* Persistence implements ServerStore: what is stored, as a start would    *)
(* find it, is a list that was saved, or nothing.                          *)

Stored == Load(file).servers

\* A write under way has nothing stored, until the last server is in the file.
LEMMA StoredWriting ==
  ASSUME NEW l \in Lists, NEW b \in Boosters, NEW f, StartOf(f, Written(l, b))
  PROVE  Load(f).servers \in {<<>>, l}
BY LoadWritten

LEMMA EmptyStored == Load(<<>>).servers = <<>>
BY DEF Load

LEMMA InitMaps == Init => Store!Init
<1> SUFFICES ASSUME Init PROVE Store!Init
  OBVIOUS
<1>1. Load(file).servers \in Lists
  BY InitHolds, LoadKnown DEF IInv
<1> QED  BY <1>1 DEF Init, Store!Init

LEMMA WriteMaps ==
  ASSUME IInv, up, NEW who, writeFile(who), mem' \in Lists, UNCHANGED up
  PROVE  Store!Change
<1>1. Load(file)'.servers \in {Load(file).servers, <<>>}
  BY EmptyStored DEF writeFile
<1> QED  BY <1>1 DEF Store!Change

LEMMA FlushMaps ==
  ASSUME IInv, Flush
  PROVE  Store!Save \/ UNCHANGED <<up, mem, Load(file).servers>>
<1> DEFINE w == Written(mem, booster)
           n == Len(mem)
<1>1. /\ saving \in {"add", "delete", "exit"} /\ up = TRUE /\ Pending(file, out, w)
      /\ UNCHANGED <<up, mem>>
  BY DEF IInv, Types, Writing, NotWriting, Flush
<1>2. w \in Seq(Value) /\ file \in Seq(Value) /\ out \in Seq(Value)
      /\ mem \in Lists /\ booster \in Boosters
  BY LoadAll DEF IInv, Types
<1> HIDE DEF w, n
<1>3. /\ file' \in Seq(Value) /\ out' \in Seq(Value) /\ Pending(file', out', w)
      /\ Len(file') = Len(file) + 1
  BY <1>1, <1>2, PendingFlush DEF Flush
<1>4. StartOf(file, w) /\ StartOf(file', w)
  BY <1>1, <1>2, <1>3, PendingStarts
<1>5. /\ Load(file).servers = IF Len(file) < 1 + n * 27 THEN <<>> ELSE mem
      /\ Load(file').servers = IF Len(file') < 1 + n * 27 THEN <<>> ELSE mem
  BY <1>2, <1>4, LoadWritten DEF w, n
<1>6. CASE Load(file').servers = mem
  BY <1>1, <1>6 DEF Store!Save
<1>7. CASE Load(file').servers # mem
  <2>1. Len(file') < 1 + n * 27
    BY <1>5, <1>7
  <2>2. Len(file) < 1 + n * 27
    <3>1. Len(file) \in Nat /\ n \in Nat
      BY <1>2, ListIs, LenProperties, PersistenceAssumption DEF n
    <3> QED  BY <1>3, <2>1, <3>1
  <2>3. Load(file').servers = Load(file).servers
    BY <1>5, <2>1, <2>2
  <2> QED  BY <1>1, <2>3
<1> QED  BY <1>6, <1>7

LEMMA StepMaps ==
  IInv /\ IInv' /\ [Next]_vars => [Store!Next]_<<up, mem, Load(file).servers>>
<1> SUFFICES ASSUME IInv, IInv', [Next]_vars
             PROVE  Store!Next \/ UNCHANGED <<up, mem, Load(file).servers>>
  BY DEF Store!Next
<1>0. mem \in Lists /\ mem' \in Lists
  BY DEF IInv, Types
<1>1. CASE OnNewDocument
  BY <1>1 DEF OnNewDocument, Store!Next, Store!Start
<1>2. ASSUME NEW s \in Names, addServer(s) PROVE Store!Change
  BY <1>0, <1>2, WriteMaps DEF addServer
<1>3. ASSUME NEW i \in DOMAIN mem, delSelectedServer(i) PROVE Store!Change
  BY <1>0, <1>3, WriteMaps DEF delSelectedServer
<1>4. ASSUME NEW i \in DOMAIN mem, Change(i) PROVE Store!Change
  BY <1>0, <1>4 DEF Change, Store!Change
<1>5. CASE ChangeBooster
  BY <1>5 DEF ChangeBooster
<1>6. CASE Destroy
  BY <1>0, <1>6, WriteMaps DEF Destroy, Store!Next
<1>7. CASE Flush
  BY <1>7, FlushMaps DEF Store!Next
<1>8. CASE Close
  <2>1. CASE saving = "exit"
    <3>1. up = TRUE
      BY <2>1 DEF IInv, Writing
    <3> QED  BY <1>8, <2>1, <3>1 DEF Close, End, Store!Next, Store!End
  <2>2. CASE saving # "exit"
    BY <1>8, <2>2 DEF Close
  <2> QED  BY <2>1, <2>2
<1>9. CASE WriteError
  BY <1>9 DEF WriteError
<1>10. CASE Crash
  BY <1>10 DEF Crash, End, Store!Next, Store!End
<1>11. CASE UNCHANGED vars
  BY <1>11 DEF vars
<1> QED  BY <1>1, <1>2, <1>3, <1>4, <1>5, <1>6, <1>7, <1>8, <1>9, <1>10, <1>11
         DEF Next, Store!Next

(* Whatever is interrupted, a start of the program finds all of a list     *)
(* that was saved or none of it, for any servers (writeFile,               *)
(* OnNewDocument).                                                         *)
THEOREM StoreImplemented == Spec => Refines
<1>1. Spec => []IInv
  BY Invariance
<1> QED  BY <1>1, InitMaps, StepMaps, PTL DEF Spec, Refines, Store!Spec
=============================================================================
