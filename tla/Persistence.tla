---------------------------- MODULE Persistence ----------------------------
(***************************************************************************)
(* The file servers.sch: writeFile and OnNewDocument (ServerDoc.cpp),      *)
(* Serialize and the operators << and >> of SYSTEMTIME (Control.cpp), with *)
(* crashes and errors at any point of a write, and files of the previous   *)
(* version.  CFile truncates the file when it opens it and CArchive hands  *)
(* the values over in pieces, so any prefix of them may be on disk.        *)
(*                                                                         *)
(* The file is the sequence of values the archive holds.  The value of     *)
(* field f of revision r of server s is <<f, s, r>>, so a value that is    *)
(* read into another field or another server shows.                        *)
(***************************************************************************)
EXTENDS Integers, Sequences, SequencesExt

CONSTANTS
  Names,         \* servers the user may add
  MaxServers,    \* bound: length of the list
  MaxRevision    \* bound: changes to the settings of a server

ASSUME PersistenceAssumption == MaxServers \in Nat /\ MaxRevision \in Nat

VARIABLES
  up,         \* the program runs
  mem,        \* m_Servers: of each server, the value of each field
  booster,    \* pingboostervalue and pingboost
  file,       \* servers.sch; an empty one is treated like a missing one
  out,        \* what a write has not put into the file yet
  saving,     \* who called writeFile: add, delete, exit or nobody; broken after a failed add
  failed,     \* history: the last write since the start of the program failed
  left        \* history: what the last run wrote at a regular exit, until the next start

vars == <<up, mem, booster, file, out, saving, failed, left>>

-----------------------------------------------------------------------------
\* The values Serialize stores and the order in which they are read back.  A field is
\* a name and "whole" or, in a SYSTEMTIME, a word of it.
Plain(names) == [i \in DOMAIN names |-> <<names[i], "whole">>]

Settings == Plain(<<"server", "port", "name", "ping_type", "executable", "timeout",
                    "time_pause", "time_startup", "priority">>)

TimeWords == <<"wDay", "wDayOfWeek", "wHour", "wMilliseconds",
               "wMinute", "wMonth", "wSecond", "wYear">>

\* The operator << for a SYSTEMTIME, and the operator >>.
StoreTime(t) == [i \in 1..8 |-> <<t, TimeWords[i]>>]
LoadTime(t) == [i \in 1..8 |-> <<t, TimeWords[i]>>]

StoreOrder == Settings \o StoreTime("starttime") \o StoreTime("stoptime") \o Plain(<<"timecontrol">>)

\* As LoadOrder with the two times exchanged.
LoadOrderSwapped ==
  Settings \o LoadTime("stoptime") \o LoadTime("starttime") \o Plain(<<"timecontrol">>)

LoadOrder == Settings \o LoadTime("starttime") \o LoadTime("stoptime") \o Plain(<<"timecontrol">>)

\* What the program of version 0x200 stored, each time as one CTime; only its reader is left.
OldStoreOrder == Settings \o Plain(<<"starttime", "stoptime", "timecontrol">>)

\* As OldOrder with one value too many between the settings and the times.
OldOrderShifted == Settings \o Plain(<<"no_kill", "starttime", "stoptime", "timecontrol">>)

\* How an object of version 0x200 is read.
OldOrder == Settings \o Plain(<<"starttime", "stoptime", "timecontrol">>)

Fields == ToSet(StoreOrder)

Server(s, r) == [f \in Fields |-> <<f, s, r>>]
Servers == {Server(s, r) : s \in Names, r \in 0..MaxRevision}

NameOf(sc) == sc[<<"name", "whole">>][2]
RevisionOf(sc) == sc[<<"name", "whole">>][3]
NamesOf(list) == [i \in DOMAIN list |-> NameOf(list[i])]

Lists == {l \in UNION {[1..n -> Servers] : n \in 0..MaxServers} : IsInjective(NamesOf(l))}

\* GetAsSystemTime: the words of a time that was stored as a CTime.
GetAsSystemTime(v, w) == <<<<v[1][1], w>>, v[2], v[3]>>

\* ReadObject, from a tag with the version: Serialize in the direction of reading.
ReadObject(values, at) ==
  LET position(order, f) == CHOOSE i \in DOMAIN order : order[i] = f
  IN [f \in Fields |->
       IF values[at] = "0x201" THEN values[at + position(LoadOrder, f)]
       ELSE IF f \in ToSet(OldOrder) THEN values[at + position(OldOrder, f)]
       ELSE GetAsSystemTime(values[at + position(OldOrder, <<f[1], "whole">>)], f[2])]

\* How many values each object of a file takes, its tag included.
ObjectLength(values) ==
  IF values[1] >= 0 /\ Len(values) > 1 /\ values[2] = "0x200" THEN 1 + Len(OldOrder)
  ELSE 1 + Len(LoadOrder)

WriteObject(sc) == <<"0x201">> \o [i \in DOMAIN StoreOrder |-> sc[StoreOrder[i]]]

\* writeFile: the highest index, the servers, the ping booster.
Written(servers, b) ==
  <<Len(servers) - 1>> \o FlattenSeq([i \in DOMAIN servers |-> WriteObject(servers[i])])
    \o <<b[1], b[2]>>

\* A file of the version before the ping booster, with times of version 0x200.
OldFile(servers) ==
  LET value(sc, f) == IF f \in Fields THEN sc[f] ELSE <<f, NameOf(sc), RevisionOf(sc)>>
  IN <<Len(servers) - 1>> \o
       FlattenSeq([i \in DOMAIN servers |->
         <<"0x200">> \o [j \in DOMAIN OldStoreOrder |-> value(servers[i], OldStoreOrder[j])]])

NoBooster == <<1, FALSE>>   \* as the constructor leaves it

\* As Load with the servers read so far kept when a later one cannot be read.
LoadSome(values) ==
  IF values = <<>> THEN [servers |-> <<>>, booster |-> NoBooster]
  ELSE LET size == ObjectLength(values)
           n == values[1] + 1
           whole == (Len(values) - 1) \div size
           end == 1 + n * size
       IN [servers |-> [i \in 1..(IF whole < n THEN whole ELSE n) |->
                          ReadObject(values, 2 + (i - 1) * size)],
           booster |-> <<IF Len(values) > end THEN values[end + 1] ELSE 1,
                         Len(values) > end + 1 /\ values[end + 2]>>]

\* The try block of OnNewDocument.  A value that is missing throws: before the last server
\* was read, the list is emptied; after it, what was read is kept.
Load(values) ==
  LET size == ObjectLength(values)
      n == values[1] + 1
      end == 1 + n * size
  IN IF values = <<>> \/ Len(values) < end
     THEN [servers |-> <<>>, booster |-> NoBooster]
     ELSE [servers |-> [i \in 1..n |-> ReadObject(values, 2 + (i - 1) * size)],
           booster |-> <<IF Len(values) > end THEN values[end + 1] ELSE 1,
                         Len(values) > end + 1 /\ values[end + 2]>>]

-----------------------------------------------------------------------------
TypeOK ==
  /\ up \in BOOLEAN
  /\ mem \in Lists
  /\ booster \in {1, 2} \X BOOLEAN
  /\ Len(file) + Len(out) <= 3 + MaxServers * (1 + Len(LoadOrder))
  /\ saving \in {"nobody", "add", "delete", "exit", "broken"}
  /\ failed \in BOOLEAN

Init ==
  /\ up = FALSE /\ mem = <<>> /\ booster = NoBooster
  /\ out = <<>> /\ saving = "nobody"
  /\ failed = FALSE
  /\ \/ file = <<>> /\ left = <<>>
     \/ \E l \in {l \in Lists : \A i \in DOMAIN l : RevisionOf(l[i]) = 0} :
          file \in {OldFile(l), Written(l, NoBooster)} /\ left = <<l, NoBooster>>

OnNewDocument ==
  /\ ~up /\ up' = TRUE
  /\ mem' = Load(file).servers /\ booster' = Load(file).booster
  /\ failed' = FALSE /\ left' = <<>>
  /\ UNCHANGED <<file, out, saving>>

\* writeFile, called by who with the list as it is in mem'.  It opens the file, which
\* throws and leaves it as it is, or truncates it.
writeFile(who) ==
  /\ \/ /\ file' = <<>> /\ out' = Written(mem', booster)
        /\ saving' = who /\ UNCHANGED failed
     \/ /\ who # "exit" /\ failed' = TRUE
        /\ UNCHANGED <<file, out>>
        /\ saving' = IF who = "add" THEN "broken" ELSE "nobody"

\* As addServer without the call of writeFile.
addServerOnly(s) ==
  /\ up /\ saving = "nobody" /\ Len(mem) < MaxServers
  /\ s \notin ToSet(NamesOf(mem))
  /\ mem' = Append(mem, Server(s, 0))
  /\ UNCHANGED <<up, booster, left, file, out, saving, failed>>

addServer(s) ==
  /\ up /\ saving = "nobody" /\ Len(mem) < MaxServers
  /\ s \notin ToSet(NamesOf(mem))
  /\ mem' = Append(mem, Server(s, 0))
  /\ writeFile("add")
  /\ UNCHANGED <<up, booster, left>>

delSelectedServer(i) ==
  /\ up /\ saving = "nobody"
  /\ mem' = RemoveAt(mem, i)
  /\ writeFile("delete")
  /\ UNCHANGED <<up, booster, left>>

\* Save, the priority and the time control box change a server but not the file.
Change(i) ==
  /\ up /\ saving = "nobody" /\ RevisionOf(mem[i]) < MaxRevision
  /\ mem' = [mem EXCEPT ![i] = Server(NameOf(@), RevisionOf(@) + 1)]
  /\ UNCHANGED <<up, booster, file, out, saving, failed, left>>

\* The menu turns the ping booster on or off; its value changes while it is off.
ChangeBooster ==
  /\ up /\ saving = "nobody"
  /\ booster' \in {<<booster[1], ~booster[2]>>}
                    \cup (IF booster[2] THEN {} ELSE {<<3 - booster[1], FALSE>>})
  /\ UNCHANGED <<up, mem, file, out, saving, failed, left>>

\* ~CServerDoc; an error while it saves ends the program like a crash.
Destroy ==
  /\ up /\ saving = "nobody"
  /\ UNCHANGED <<up, mem, booster, left>>
  /\ writeFile("exit")

\* The archive puts the next value into the file.
Flush ==
  /\ out # <<>>
  /\ file' = Append(file, Head(out)) /\ out' = Tail(out)
  /\ UNCHANGED <<up, mem, booster, saving, failed, left>>

End ==
  /\ up' = FALSE /\ mem' = <<>> /\ booster' = NoBooster
  /\ out' = <<>> /\ saving' = "nobody"
  /\ failed' = FALSE /\ UNCHANGED file

\* The file is closed and writeFile returns.
Close ==
  /\ saving \in {"add", "delete", "exit"} /\ out = <<>>
  /\ IF saving = "exit"
     THEN left' = <<mem, booster>> /\ End
     ELSE /\ saving' = "nobody" /\ failed' = FALSE
          /\ UNCHANGED <<up, mem, booster, file, out, left>>

\* Writing throws.  After a Delete the program goes on; New has left a deleted server in
\* the list, on which the next UpdateAllViews fails (ServerList).
WriteError ==
  /\ saving \in {"add", "delete"} /\ out # <<>>
  /\ out' = <<>> /\ failed' = TRUE
  /\ saving' = IF saving = "add" THEN "broken" ELSE "nobody"
  /\ UNCHANGED <<up, mem, booster, file, left>>

Crash == up /\ left' = <<>> /\ End

Next ==
  \/ OnNewDocument
  \/ \E s \in Names : addServer(s)
  \/ \E i \in DOMAIN mem : delSelectedServer(i) \/ Change(i)
  \/ ChangeBooster \/ Destroy
  \/ Flush \/ Close \/ WriteError \/ Crash

Spec == Init /\ [][Next]_vars

-----------------------------------------------------------------------------
\* What OnNewDocument brings back after a regular exit is the list, with every setting
\* in its field, and the ping booster as they were when ~CServerDoc wrote them; also when
\* the exit was one of version 0x200, whose times have another form and which had no booster.
ExitRestored ==
  [][(~up /\ up' /\ left # <<>>) => <<mem', booster'>> = left]_vars

\* While the program runs and its last write did not fail, a crash would lose settings
\* but no server: New and Delete have saved the list.
ListSaved ==
  up /\ saving = "nobody" /\ ~failed => NamesOf(Load(file).servers) = NamesOf(mem)

\* Persistence implements ServerStore, with what Load finds in the file as its store:
\* whatever is interrupted, a start finds all of a list that was saved, or nothing.
Store == INSTANCE ServerStore WITH list <- mem, stored <- Load(file).servers

Refines == Store!Spec
=============================================================================
