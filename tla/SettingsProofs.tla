--------------------------- MODULE SettingsProofs ---------------------------
(* The properties of Settings for any servers, hosts, texts and widths. *)
EXTENDS Settings, TLAPS

Long == -(Word \div 2)..(Word \div 2) - 1

-----------------------------------------------------------------------------
(* Conversions.                                                            *)

LEMMA Division ==
  ASSUME NEW d \in Nat \ {0}, NEW n \in Int
  PROVE  /\ n \div d \in Int /\ n % d \in 0..(d - 1)
         /\ n = (n \div d) * d + (n % d)
<1>1. d \in Int /\ d > 0
  OBVIOUS
<1>2. n \div d \in Int
  BY <1>1
<1>3. n % d \in 0..(d - 1)
  BY <1>1
<1>4. n = (n \div d) * d + (n % d)
  BY <1>1
<1> QED  BY <1>2, <1>3, <1>4

LEMMA Multiple ==
  ASSUME NEW d \in Int, d > 0, NEW q \in Int
  PROVE  (q * d) \div d = q /\ (q * d) % d = 0
<1> DEFINE n == q * d
<1>1. n \in Int /\ n = q * d
  OBVIOUS
<1> HIDE DEF n
<1>2. n \div d = q
  BY <1>1
<1>3. n % d = 0
  BY <1>1
<1> QED  BY <1>2, <1>3 DEF n

LEMMA HalfWord == Word \div 2 \in Nat /\ Word \div 2 > 1 /\ Word = 2 * (Word \div 2)
BY SettingsAssumption

LEMMA LongInt == \A n \in Long : n \in Int
BY HalfWord DEF Long

(* An int keeps a value it can hold. *)
LEMMA Int32Fits ==
  ASSUME NEW n \in Int
  PROVE  Int32(n) \in Long /\ (n \in Long => Int32(n) = n)
<1> DEFINE h == Word \div 2
<1>1. h \in Nat /\ Word = 2 * h /\ Word \in Nat \ {0}
  BY HalfWord, SettingsAssumption
<1>2. (n + h) % Word \in 0..(Word - 1)
  BY <1>1, Division
<1>3. Int32(n) = ((n + h) % Word) - h
  BY DEF Int32
<1>4. ASSUME n \in -h..h - 1 PROVE (n + h) % Word = n + h
  BY <1>1, <1>4
<1> HIDE DEF h
<1>5. Int32(n) \in -h..h - 1
  BY <1>1, <1>2, <1>3
<1>6. n \in -h..h - 1 => Int32(n) = n
  BY <1>1, <1>3, <1>4
<1> QED  BY <1>5, <1>6 DEF Long, h

(* A quotient is nearer to zero, and undoes a multiple. *)
LEMMA QuotientIs ==
  ASSUME NEW n \in Int, NEW d \in Nat \ {0}
  PROVE  /\ Quotient(n, d) \in Int
         /\ n >= 0 => Quotient(n, d) \in 0..n
         /\ n < 0 => Quotient(n, d) \in n..0
         /\ n % d = 0 => Quotient(n, d) * d = n
<1> DEFINE q == n \div d
           r == (-n) \div d
<1>0. -n \in Int
  OBVIOUS
<1>a. q \in Int /\ n % d \in 0..(d - 1) /\ n = q * d + (n % d)
  BY Division
<1>b. r \in Int /\ (-n) % d \in 0..(d - 1) /\ -n = r * d + ((-n) % d)
  BY <1>0, Division
<1>1. /\ q \in Int /\ n % d \in 0..(d - 1) /\ n = q * d + (n % d)
      /\ r \in Int /\ (-n) % d \in 0..(d - 1) /\ -n = r * d + ((-n) % d)
  BY <1>a, <1>b
<1>2. Quotient(n, d) = IF n >= 0 THEN q ELSE -r
  BY DEF Quotient
<1>3. ASSUME NEW a \in Nat, NEW b \in Int, NEW c \in 0..(d - 1), a = b * d + c
      PROVE  b \in 0..a
  <2>1. CASE b < 0
    <3>1. b * d <= -d
      BY <2>1
    <3> QED  BY <1>3, <3>1
  <2>2. CASE b >= 0
    <3>1. b <= b * d
      BY <2>2
    <3> QED  BY <1>3, <2>2, <3>1
  <2> QED  BY <2>1, <2>2
<1>4. CASE n >= 0
  <2>1. q \in 0..n
    BY <1>1, <1>3, <1>4
  <2> HIDE DEF q
  <2>2. n % d = 0 => q * d = n
    BY <1>1
  <2> QED  BY <1>2, <1>4, <2>1, <2>2
<1>5. CASE n < 0
  <2>1. r \in 0..(-n)
    BY <1>1, <1>3, <1>5
  <2>2. ASSUME n % d = 0 PROVE (-r) * d = n
    <3>1. n = q * d /\ -n = (-q) * d
      BY <1>1, <2>2
    <3>2. r = -q
      <4>1. d \in Int /\ d > 0 /\ -q \in Int
        BY <1>1
      <4> HIDE DEF q
      <4> QED  BY <3>1, <4>1, Multiple
    <3> QED  BY <3>1, <3>2
  <2> HIDE DEF q, r
  <2> QED  BY <1>1, <1>2, <1>5, <2>1, <2>2
<1> QED  BY <1>4, <1>5

LEMMA SecondsFit == ASSUME NEW n \in Long PROVE Seconds(n) \in Long
<1> DEFINE h == Word \div 2
<1>1. h \in Nat /\ n \in -h..h - 1
  BY HalfWord DEF Long
<1>a. n \in Int /\ Thousand \in Nat \ {0}
  BY <1>1, SettingsAssumption
<1>2. n >= 0 => Seconds(n) \in 0..n
  BY <1>a, QuotientIs DEF Seconds
<1>3. n < 0 => Seconds(n) \in n..0
  BY <1>a, QuotientIs DEF Seconds
<1> HIDE DEF h
<1>4. Seconds(n) \in -h..h - 1
  BY <1>1, <1>2, <1>3
<1> QED  BY <1>4 DEF Long, h

(* Whole seconds survive being shown and read. *)
LEMMA MsecOfSeconds ==
  ASSUME NEW n \in Long, n % Thousand = 0
  PROVE  Msec(Seconds(n)) = n
<1>1. n \in Int /\ Thousand \in Nat \ {0}
  BY HalfWord, SettingsAssumption DEF Long
<1>2. Seconds(n) * Thousand = n
  BY <1>1, QuotientIs DEF Seconds
<1> QED  BY <1>1, <1>2, Int32Fits DEF Msec

LEMMA MsecFits == ASSUME NEW n \in Int PROVE Msec(n) \in Long
BY Int32Fits, SettingsAssumption DEF Msec

(* A port is any number but USHRT_MAX, which becomes 0. *)
LEMMA PortIs ==
  ASSUME NEW n \in Int
  PROVE  PortOf(n) \in 0..PortMax /\ (n \in 0..(PortMax - 1) => PortOf(n) = n)
<1>1. PortMax \in Nat \ {0} /\ PortMax + 1 \in Nat \ {0}
  BY SettingsAssumption
<1>2. Quotient(n, PortMax) \in Int
  BY <1>1, QuotientIs
<1> DEFINE m == n - PortMax * Quotient(n, PortMax)
<1>3. m \in Int
  BY <1>1, <1>2
<1>4. PortOf(n) \in 0..PortMax
  <2>1. PortOf(n) = m % (PortMax + 1)
    BY DEF PortOf
  <2> HIDE DEF m
  <2>2. m % (PortMax + 1) \in 0..((PortMax + 1) - 1)
    BY <1>1, <1>3, Division
  <2>3. (PortMax + 1) - 1 = PortMax
    BY <1>1
  <2> QED  BY <2>1, <2>2, <2>3
<1>5. ASSUME n \in 0..(PortMax - 1) PROVE PortOf(n) = n
  <2>1. n \div PortMax = 0
    BY <1>1, <1>5
  <2>2. Quotient(n, PortMax) = 0
    BY <1>5, <2>1 DEF Quotient
  <2>3. n - PortMax * Quotient(n, PortMax) = n
    BY <1>1, <2>2
  <2>4. n % (PortMax + 1) = n
    BY <1>1, <1>5
  <2> QED  BY <2>3, <2>4 DEF PortOf
<1> QED  BY <1>4, <1>5

-----------------------------------------------------------------------------
(* Settings and fields, and what the setters make of them.                 *)

Setters == {"server", "game", "executable", "timeout", "pause", "startup", "name", "times"}

(* The settings of a server. *)
Setting(st) ==
  /\ st = [f \in Fields |-> st[f]]
  /\ st["ip"] \in Resolved /\ st["port"] \in 0..PortMax
  /\ \A f \in Waits : st[f] \in Long
  /\ \A f \in {"game", "executable", "name"} : st[f] \in Texts[f]
  /\ st["times"] \in Texts["times"] \cup {Unset}

(* The fields whatever is selected, and those of a selected server. *)
Filled(t) == t = [f \in Fields |-> t[f]] /\ t["times"] \in Texts["times"]

Typed(t) ==
  /\ t["ip"] \in Hosts /\ t["port"] \in Int
  /\ \A f \in Waits : t[f] \in Long
  /\ \A f \in {"game", "executable", "name"} : t[f] \in Texts[f]

(* What the setter of field f makes of it, given the texts. *)
Meant(t, f) ==
  IF f = "ip" THEN Address[t[f]]
  ELSE IF f \in {"pause", "startup"} THEN Msec(t[f]) ELSE t[f]

LEMMA ChainIs ==
  /\ Len(Chain) = 8 /\ Chain[1] = "server"
  /\ \A i \in 1..8 : Chain[i] \in Setters /\ (i # 1 => Chain[i] # "server")
<1>1. Len(Chain) = 8 /\ Chain[1] = "server"
  BY DEF Chain
<1>2. ASSUME NEW i \in 1..8 PROVE Chain[i] \in Setters /\ (i # 1 => Chain[i] # "server")
  <2>1. i = 1 \/ i = 2 \/ i = 3 \/ i = 4 \/ i = 5 \/ i = 6 \/ i = 7 \/ i = 8
    OBVIOUS
  <2> QED  BY <2>1 DEF Chain, Setters
<1> QED  BY <1>1, <1>2

LEMMA UnsetIs == Unset \notin Texts["times"]
BY SettingsAssumption

LEMMA TextsFit ==
  ASSUME NEW f \in Fields, NEW x \in Texts[f]
  PROVE  /\ f = "ip" => x \in Hosts
         /\ f = "port" => x \in Int
         /\ f \in Waits => x \in Long
<1>1. f = "ip" => x \in Hosts
  BY SettingsAssumption
<1>2. f \in Waits \cup {"port"} => x \in Long
  BY SettingsAssumption DEF Long
<1>3. f = "port" => x \in Int
  BY <1>2, HalfWord DEF Long
<1> QED  BY <1>1, <1>2, <1>3

(* Emptying empty fields changes nothing. *)
LEMMA BlankIs ==
  ASSUME NEW t, Filled(t)
  PROVE  Filled(Blank(t)) /\ Blank(Blank(t)) = Blank(t)
<1>1. Filled(Blank(t))
  BY DEF Filled, Blank, Fields
<1>2. ASSUME NEW f \in Fields PROVE Blank(Blank(t))[f] = Blank(t)[f]
  BY DEF Blank
<1>3. Blank(Blank(t)) = Blank(t)
  BY <1>2 DEF Blank
<1> QED  BY <1>1, <1>3

(* What a field shows depends on the texts only for times never set. *)
LEMMA ShownField ==
  ASSUME NEW st, Setting(st), NEW t, NEW f \in Fields
  PROVE  Shown(st, t)[f] = IF f \in {"pause", "startup"} THEN Seconds(st[f])
                           ELSE IF f = "times" /\ st[f] = Unset THEN t[f] ELSE st[f]
BY DEF Shown

(* Showing the same settings again changes nothing. *)
LEMMA ShownIs ==
  ASSUME NEW st, Setting(st), NEW t, Filled(t)
  PROVE  /\ Filled(Shown(st, t)) /\ Typed(Shown(st, t))
         /\ Shown(st, Shown(st, t)) = Shown(st, t)
<1>1. Filled(Shown(st, t))
  <2>1. Shown(st, t)["times"] \in Texts["times"]
    BY ShownField DEF Setting, Filled, Fields
  <2> QED  BY <2>1 DEF Filled, Shown
<1>2. Typed(Shown(st, t))
  <2>1. Shown(st, t)["ip"] \in Hosts
    BY ShownField, SettingsAssumption DEF Setting, Fields
  <2>2. Shown(st, t)["port"] \in Int
    <3>1. Shown(st, t)["port"] = st["port"]
      BY ShownField DEF Fields
    <3>2. st["port"] \in 0..PortMax /\ PortMax \in Int
      BY SettingsAssumption DEF Setting
    <3> QED  BY <3>1, <3>2
  <2>3. ASSUME NEW f \in Waits PROVE Shown(st, t)[f] \in Long
    <3>1. st[f] \in Long /\ f \in Fields /\ f # "times"
      BY DEF Setting, Waits, Fields
    <3>2. Shown(st, t)[f] = IF f \in {"pause", "startup"} THEN Seconds(st[f]) ELSE st[f]
      BY <3>1, ShownField
    <3> QED  BY <3>1, <3>2, SecondsFit
  <2>4. ASSUME NEW f \in {"game", "executable", "name"} PROVE Shown(st, t)[f] \in Texts[f]
    BY ShownField DEF Setting, Fields
  <2> QED  BY <2>1, <2>2, <2>3, <2>4 DEF Typed
<1>3. ASSUME NEW f \in Fields PROVE Shown(st, Shown(st, t))[f] = Shown(st, t)[f]
  BY ShownField
<1>4. Shown(st, Shown(st, t)) = Shown(st, t)
  BY <1>3 DEF Shown
<1> QED  BY <1>1, <1>2, <1>4

(* A setter makes settings of settings: every field is as it was or as was meant. *)
LEMMA SetIs ==
  ASSUME NEW st, Setting(st), NEW t, Filled(t), Typed(t), t["port"] \in 0..PortMax,
         NEW setter \in Setters, setter = "server" => Address[t["ip"]] # ""
  PROVE  /\ Setting(Set(st, setter, t))
         /\ \A f \in Fields : Set(st, setter, t)[f] \in {st[f], Meant(t, f)}
<1> DEFINE new == Set(st, setter, t)
<1>1. CASE setter = "server"
  <2>1. new = [st EXCEPT !["ip"] = Address[t["ip"]], !["port"] = t["port"]]
    BY <1>1 DEF Set
  <2>2. Address[t["ip"]] \in Resolved
    BY <1>1 DEF Typed, Resolved
  <2>3. new = [f \in Fields |-> IF f = "ip" THEN Address[t["ip"]]
                               ELSE IF f = "port" THEN t["port"] ELSE st[f]]
    BY <2>1 DEF Setting, Fields
  <2> HIDE DEF new
  <2>4. Setting(new)
    BY <2>2, <2>3 DEF Setting, Fields, Waits
  <2>5. \A f \in Fields : new[f] \in {st[f], Meant(t, f)}
    BY <2>3 DEF Meant
  <2> QED  BY <2>4, <2>5 DEF new
<1>2. CASE setter \in {"pause", "startup"}
  <2>1. new = [f \in Fields |-> IF f = setter THEN Msec(t[setter]) ELSE st[f]]
    BY <1>2 DEF Set, Setting, Fields
  <2>2. Msec(t[setter]) \in Long
    <3>1. t[setter] \in Long
      BY <1>2 DEF Typed, Waits
    <3> QED  BY <3>1, LongInt, MsecFits
  <2> HIDE DEF new
  <2>3. Setting(new)
    BY <1>2, <2>1, <2>2 DEF Setting, Fields, Waits
  <2>4. \A f \in Fields : new[f] \in {st[f], Meant(t, f)}
    BY <1>2, <2>1 DEF Meant
  <2> QED  BY <2>3, <2>4 DEF new
<1>3. CASE setter \in {"game", "executable", "timeout", "name", "times"}
  <2>1. new = [f \in Fields |-> IF f = setter THEN t[setter] ELSE st[f]]
    BY <1>3 DEF Set, Setting, Fields
  <2> HIDE DEF new
  <2>2. Setting(new)
    BY <1>3, <2>1 DEF Setting, Typed, Filled, Fields, Waits
  <2>3. \A f \in Fields : new[f] \in {st[f], Meant(t, f)}
    BY <1>3, <2>1 DEF Meant
  <2> QED  BY <2>2, <2>3 DEF new
<1> QED  BY <1>1, <1>2, <1>3 DEF Setters

-----------------------------------------------------------------------------
(* The inductive invariant: the properties and what they rest on.           *)

Saving == ui \in {"test", "write"}

(* OnBnClickedUpdate's locals, and the history of an Update. *)
SaveTyped(sv) ==
  /\ sv = [sc |-> sv.sc, text |-> sv.text, step |-> sv.step]
  /\ sv.sc \in Servers \cup {"none"} /\ sv.step \in 1..8 /\ DOMAIN sv.text = Fields

LastTyped(l) ==
  /\ l = [outcome |-> l.outcome, before |-> l.before, edits |-> l.edits,
          late |-> l.late, raced |-> l.raced]
  /\ l.outcome \in {"none", "saved", "failed"} /\ l.late \in 0..1
  /\ l.edits \subseteq Fields /\ l.raced \in BOOLEAN /\ DOMAIN l.before = Fields

(* Types, with the shapes of what is assigned field by field. *)
Shapes ==
  /\ stored = [s \in Servers |-> stored[s]] /\ \A s \in Servers : Setting(stored[s])
  /\ timecontrol \in [Servers -> BOOLEAN] /\ monitor \in [Servers -> {"none", "thread", "busy"}]
  /\ sel \in Servers \cup {"none"} /\ button \in BOOLEAN /\ edited \subseteq Fields
  /\ ui \in {"idle", "portbox", "test", "write"}
  /\ Filled(pane)
  /\ SaveTyped(save) /\ LastTyped(last)

(* What a field shows that nobody has edited. *)
Expected(t) == IF sel = "none" THEN Blank(t) ELSE Shown(stored[sel], t)

Faithful ==
  /\ sel # "none" => Typed(pane)
  /\ ~button => edited = {}
  /\ ~Saving => \A f \in Fields \ edited : pane[f] = Expected(pane)[f]

(* OnBnClickedUpdate's locals while it writes, and that it writes the selected server;
   behind the port's box, the game is the server's unless it was edited before. *)
Locals ==
  /\ Saving => /\ save.sc = sel /\ sel # "none" /\ last.outcome = "none"
               /\ Filled(save.text) /\ Typed(save.text) /\ save.text["port"] \in 0..PortMax
  /\ ui = "idle" => save.sc = "none"
  /\ ui = "portbox" =>
       /\ save.sc = sel /\ sel # "none" /\ last.outcome = "none"
       /\ Typed(save.text) /\ last.edits \subseteq {"game"}
       /\ "game" \in last.edits \/ save.text["game"] = stored[sel]["game"]

(* The settings that do not survive being shown and read. *)
Lossy(f) ==
  \/ f = "port" /\ last.before[f] = PortMax
  \/ f = "times" /\ last.before[f] = Unset
  \/ f \in {"pause", "startup"} /\ last.before[f] % Thousand # 0

(* Every other field that was not edited has its value, and is meant to keep it. *)
Restores ==
  Saving => \A f \in Fields \ last.edits :
    Lossy(f) \/ (stored[sel][f] = last.before[f] /\ Meant(save.text, f) = last.before[f])

(* Before the first write nothing has changed. *)
Untouched == Saving /\ save.step = 1 => stored[sel] = last.before

(* From the first test that passed, a monitor is busy only if it set busy since. *)
Noticed ==
  ui = "write" \/ (ui = "test" /\ save.step > 1) =>
    (monitor[sel] = "busy" => last.raced)

(* A setter writes late at most once: the next one finds busy set. *)
LateOnce ==
  /\ ui = "write" => last.late = 0
  /\ ui = "test" /\ last.late # 0 => monitor[sel] = "busy"

IInv ==
  /\ Shapes /\ Faithful /\ Locals /\ Restores /\ Untouched /\ Noticed /\ LateOnce
  /\ AllOrNothing /\ OnlyEdited

LEMMA IInvTypes == IInv => TypeOK /\ OneLateWrite
<1> SUFFICES ASSUME IInv PROVE TypeOK /\ OneLateWrite
  OBVIOUS
<1>1. ASSUME NEW s \in Servers PROVE DOMAIN stored[s] = Fields
  BY DEF IInv, Shapes, Setting
<1>2. last.late \in 0..Len(Chain) /\ last.late <= 1
  BY ChainIs DEF IInv, Shapes, LastTyped
<1>3. OneLateWrite
  BY <1>2 DEF OneLateWrite
<1>4. DOMAIN pane = Fields
  BY DEF IInv, Shapes, Filled
<1>5. save.step \in 1..Len(Chain)
  BY ChainIs DEF IInv, Shapes, SaveTyped
<1>6. TypeOK
  BY <1>1, <1>2, <1>4, <1>5 DEF IInv, Shapes, SaveTyped, LastTyped, Setting, Long, TypeOK
<1> QED  BY <1>3, <1>6

LEMMA IInvPaneTruth == IInv => PaneTruth
<1> SUFFICES ASSUME IInv, ui = "idle", ~button PROVE pane = Expected(pane)
  BY DEF PaneTruth, Expected
<1>1. \A f \in Fields : pane[f] = Expected(pane)[f]
  BY DEF IInv, Faithful, Saving
<1>2. Expected(pane) = [f \in Fields |-> Expected(pane)[f]]
  <2>1. Blank(pane) = [f \in Fields |-> Blank(pane)[f]]
    BY DEF Blank
  <2>2. Shown(stored[sel], pane) = [f \in Fields |-> Shown(stored[sel], pane)[f]]
    BY DEF Shown
  <2> QED  BY <2>1, <2>2 DEF Expected
<1>3. pane = [f \in Fields |-> pane[f]]
  BY DEF IInv, Shapes, Filled
<1> QED  BY <1>1, <1>2, <1>3

-----------------------------------------------------------------------------
(* The initial states.                                                      *)

LEMMA InitIs == Init => IInv
<1> SUFFICES ASSUME Init PROVE IInv
  OBVIOUS
<1>1. AnyTime["times"] \in Texts["times"]
  BY SettingsAssumption DEF AnyTime, Fields
<1>2. Filled(Blank(AnyTime)) /\ DOMAIN Blank(AnyTime) = Fields
  BY <1>1 DEF Filled, Blank, Fields
<1>3. ASSUME NEW s \in Servers PROVE Setting(stored[s])
  <2>0. stored \in [Servers -> {Made(a, p, t) : a \in Resolved \cap Texts["ip"],
              p \in Texts["port"] \cap 0..PortMax, t \in Texts["times"] \cup {Unset}}]
    BY DEF Init
  <2>1. PICK a \in Resolved \cap Texts["ip"], p \in Texts["port"] \cap 0..PortMax,
             t \in Texts["times"] \cup {Unset} : stored[s] = Made(a, p, t)
    BY <2>0
  <2> DEFINE Rest(f) == CHOOSE x \in Texts[f] : TRUE
  <2>a. ASSUME NEW f \in Fields PROVE Rest(f) \in Texts[f]
    BY SettingsAssumption
  <2>b. stored[s] = [f \in Fields |->
                    CASE f = "ip" -> a [] f = "port" -> p [] f = "times" -> t
                      [] f = "timeout" -> 1 [] f \in {"pause", "startup"} -> Msec(1)
                      [] OTHER -> Rest(f)]
    BY <2>1 DEF Made
  <2> HIDE DEF Rest
  <2>2. stored[s] = [f \in Fields |-> stored[s][f]]
    BY <2>b
  <2>3. stored[s]["ip"] = a /\ stored[s]["port"] = p /\ stored[s]["times"] = t
        /\ stored[s]["timeout"] = 1 /\ stored[s]["pause"] = Msec(1)
        /\ stored[s]["startup"] = Msec(1)
    BY <2>b DEF Fields
  <2>4. ASSUME NEW f \in {"game", "executable", "name"} PROVE stored[s][f] \in Texts[f]
    BY <2>a, <2>b DEF Fields
  <2>5. 1 \in Long /\ Msec(1) \in Long
    <3>1. 1 \in Long
      BY HalfWord DEF Long
    <3> QED  BY <3>1, MsecFits
  <2> QED  BY <2>2, <2>3, <2>4, <2>5 DEF Setting, Waits
<1>4. Shapes
  <2>1. stored = [s \in Servers |-> stored[s]]
    BY DEF Init
  <2>2. SaveTyped(save)
    BY <1>2 DEF Init, NoSave, SaveTyped
  <2>3. LastTyped(last)
    BY <1>2 DEF Init, NoOutcome, LastTyped
  <2>4. /\ timecontrol \in [Servers -> BOOLEAN]
        /\ monitor \in [Servers -> {"none", "thread", "busy"}]
    BY DEF Init
  <2>5. /\ sel \in Servers \cup {"none"} /\ button \in BOOLEAN /\ edited \subseteq Fields
        /\ ui \in {"idle", "portbox", "test", "write"} /\ Filled(pane)
    BY <1>2 DEF Init
  <2> QED  BY <1>3, <2>1, <2>2, <2>3, <2>4, <2>5 DEF Shapes
<1>5. Faithful
  BY <1>2, BlankIs DEF Init, Faithful, Expected, Filled, Blank, Saving, Fields
<1>6. Locals /\ Restores /\ Untouched /\ Noticed /\ LateOnce
  BY DEF Init, NoSave, NoOutcome, Locals, Restores, Untouched, Noticed, LateOnce, Saving
<1>7. AllOrNothing /\ OnlyEdited
  BY DEF Init, NoOutcome, AllOrNothing, OnlyEdited
<1> QED  BY <1>4, <1>5, <1>6, <1>7 DEF IInv

-----------------------------------------------------------------------------
(* The steps, by what they do to the fields and to an Update.              *)

(* UpdateAllViews of any selection ends the interest in the last Update, but for one that
   waits in its box. *)
Refreshes ==
  /\ ui \in {"idle", "portbox"} /\ (ui = "portbox" => sel' = sel)
  /\ UpdateAllViews(sel', stored)
  /\ (ui = "idle" => Forget) /\ (ui = "portbox" => UNCHANGED last)
  /\ UNCHANGED <<stored, ui, save>>

(* Update is clicked, and the port's box opens, ... *)
Asks ==
  /\ ui = "idle" /\ sel # "none" /\ PortBox
  /\ UNCHANGED <<stored, monitor, sel>>

(* ... or the fields are read. *)
Reads(port, game, edits) ==
  /\ ui \in {"idle", "portbox"} /\ sel # "none"
  /\ \/ port = PortOf(pane["port"]) /\ game = pane["game"] /\ edits = edited
     \/ /\ ui = "portbox" /\ port = 0 /\ game = save.text["game"]
        /\ edits = edited \cup {"port"} \cup last.edits
  /\ ReadFields(port, game, edits)
  /\ UNCHANGED <<stored, monitor, sel>>

Passes ==
  /\ ui = "test" /\ ui' = "write" /\ monitor[save.sc] # "busy"
  /\ UNCHANGED <<stored, monitor, sel, pane, button, save, edited, last>>

Fails ==
  /\ \/ ui = "test" /\ monitor[save.sc] = "busy"
     \/ ui = "write" /\ save.step = 1
  /\ SaveOver("failed", stored)
  /\ UNCHANGED <<stored, monitor, sel>>

Kinds ==
  \/ Refreshes \/ Asks \/ Passes \/ Fails \/ Write
  \/ \E port, game, edits : Reads(port, game, edits)
  \/ \E s \in Servers : Check(s)
  \/ \E f \in Fields : \E text \in Texts[f] : Edit(f, text)
  \/ UNCHANGED vars

LEMMA StepIs ==
  ASSUME IInv, [Next]_vars
  PROVE  Kinds
<1>1. ASSUME NEW s \in Servers, SelectServer(s) PROVE Refreshes
  BY <1>1 DEF SelectServer, Refreshes
<1>2. ASSUME NEW s \in Servers, StartStop(s) PROVE Refreshes
  BY <1>2 DEF StartStop, Refreshes
<1>3. ASSUME OnBnClickedTimecontrol PROVE Refreshes
  BY <1>3 DEF OnBnClickedTimecontrol, Refreshes
<1>4. ASSUME OnBnClickedUpdate PROVE Kinds
  <2>1. CASE sel = "none"
    BY <1>4, <2>1 DEF OnBnClickedUpdate, Refreshes, Kinds
  <2>2. CASE sel # "none" /\ pane["game"] # Program /\ PortOf(pane["port"]) = 0
    BY <1>4, <2>2 DEF OnBnClickedUpdate, Asks, Kinds
  <2>3. CASE sel # "none" /\ ~(pane["game"] # Program /\ PortOf(pane["port"]) = 0)
    <3>1. Reads(PortOf(pane["port"]), pane["game"], edited)
      BY <1>4, <2>3 DEF OnBnClickedUpdate, Reads
    <3> QED  BY <3>1 DEF Kinds
  <2> QED  BY <2>1, <2>2, <2>3
<1>5. ASSUME PortBoxClosed PROVE Kinds
  <2>1. Reads(0, save.text["game"], edited \cup {"port"} \cup last.edits)
    BY <1>5 DEF PortBoxClosed, Reads, IInv, Locals
  <2> QED  BY <2>1 DEF Kinds
<1>6. ASSUME Test PROVE Passes \/ Fails
  BY <1>6 DEF Test, Passes, Fails
<1>7. ASSUME WriteThrows PROVE Fails
  <2>1. save.step = 1
    BY <1>7, ChainIs DEF WriteThrows, SetterThrows, IInv, Shapes, SaveTyped
  <2> QED  BY <1>7, <2>1 DEF WriteThrows, Fails
<1> QED  BY <1>1, <1>2, <1>3, <1>4, <1>5, <1>6, <1>7 DEF Next, Kinds

(* What UpdateAllViews leaves in the fields it would put there again. *)
LEMMA Filling ==
  ASSUME NEW s, NEW st, s # "none" => Setting(st[s]), Filled(pane), UpdateAllViews(s, st)
  PROVE  /\ Filled(pane') /\ (s # "none" => Typed(pane'))
         /\ button' = FALSE /\ edited' = {}
         /\ pane' = IF s = "none" THEN Blank(pane') ELSE Shown(st[s], pane')
<1>1. button' = FALSE /\ edited' = {}
  BY DEF UpdateAllViews
<1>2. CASE s = "none"
  <2>1. pane' = Blank(pane)
    BY <1>2 DEF UpdateAllViews
  <2>2. Filled(pane') /\ Blank(pane') = pane'
    BY <2>1, BlankIs
  <2> QED  BY <1>1, <1>2, <2>2
<1>3. CASE s # "none"
  <2>1. pane' = Shown(st[s], pane)
    BY <1>3 DEF UpdateAllViews
  <2>2. Filled(pane') /\ Typed(pane') /\ Shown(st[s], pane') = pane'
    BY <1>3, <2>1, ShownIs
  <2> QED  BY <1>1, <1>3, <2>2
<1> QED  BY <1>2, <1>3

(* A setting that is shown and read unedited is meant to stay what it is. *)
LEMMA Survives ==
  ASSUME NEW st, Setting(st), NEW t, NEW text, NEW f \in Fields, t[f] = Shown(st, t)[f],
         text[f] = IF f = "port" THEN PortOf(t[f]) ELSE t[f],
         ~(f = "port" /\ st[f] = PortMax), ~(f = "times" /\ st[f] = Unset),
         ~(f \in {"pause", "startup"} /\ st[f] % Thousand # 0)
  PROVE  Meant(text, f) = st[f]
<1>1. CASE f = "ip"
  <2>1. text[f] = st[f] /\ st[f] \in Resolved
    BY <1>1, ShownField DEF Setting
  <2>2. Address[st[f]] = st[f]
    BY <2>1, SettingsAssumption
  <2> QED  BY <1>1, <2>1, <2>2 DEF Meant
<1>2. CASE f = "port"
  <2>1. t[f] = st[f] /\ st[f] \in 0..PortMax
    BY <1>2, ShownField DEF Setting
  <2>2. st[f] \in 0..(PortMax - 1) /\ st[f] \in Int
    BY <1>2, <2>1, SettingsAssumption
  <2>3. PortOf(st[f]) = st[f]
    BY <2>2, PortIs
  <2> QED  BY <1>2, <2>1, <2>3 DEF Meant
<1>3. CASE f \in {"pause", "startup"}
  <2>1. text[f] = Seconds(st[f])
    BY <1>3, ShownField
  <2>2. st[f] \in Long
    BY <1>3 DEF Setting, Waits
  <2>3. Msec(Seconds(st[f])) = st[f]
    BY <1>3, <2>2, MsecOfSeconds
  <2> QED  BY <1>3, <2>1, <2>3 DEF Meant
<1>4. CASE f \notin {"ip", "port", "pause", "startup"}
  BY <1>4, ShownField DEF Meant
<1> QED  BY <1>1, <1>2, <1>3, <1>4

(* A write makes settings of settings, and is late if its monitor is busy by now. *)
Late == IF monitor[sel] = "busy" THEN 1 ELSE 0

Written ==
  /\ ui = "write" /\ UNCHANGED <<monitor, sel>>
  /\ stored' = [s \in Servers |-> stored'[s]]
  /\ \A s \in Servers : Setting(stored'[s])
  /\ \A f \in Fields : stored'[sel][f] \in {stored[sel][f], Meant(save.text, f)}

WritesOn ==
  /\ ui' = "test" /\ UNCHANGED <<pane, button, edited>>
  /\ save' = [sc |-> sel, text |-> save.text, step |-> save.step + 1] /\ save.step \in 1..7
  /\ last' = [last EXCEPT !.late = Late]

WritesLast ==
  /\ ui' = "idle" /\ save' = NoSave /\ UpdateAllViews(sel, stored')
  /\ last' = [last EXCEPT !.late = Late, !.outcome = "saved"]

LEMMA WriteIs ==
  ASSUME IInv, Write
  PROVE  Written /\ (WritesOn \/ WritesLast)
<1>1. /\ ui = "write" /\ save.sc = sel /\ sel \in Servers /\ last.late = 0
      /\ Filled(save.text) /\ Typed(save.text) /\ save.text["port"] \in 0..PortMax
  BY DEF Write, IInv, Locals, LateOnce, Shapes, Saving
<1>2. save.step \in 1..8 /\ Chain[save.step] \in Setters /\ Len(Chain) = 8
  BY ChainIs DEF IInv, Shapes, SaveTyped
<1> DEFINE new == Set(stored[sel], Chain[save.step], save.text)
<1>3. stored' = [stored EXCEPT ![sel] = new]
  BY <1>1 DEF Write
<1>4. Setting(new) /\ \A f \in Fields : new[f] \in {stored[sel][f], Meant(save.text, f)}
  <2>1. Setting(stored[sel])
    BY <1>1 DEF IInv, Shapes
  <2>2. Chain[save.step] = "server" => Address[save.text["ip"]] # ""
    BY DEF Write, SetterThrows
  <2> QED  BY <1>1, <1>2, <2>1, <2>2, SetIs
<1>5. Written
  <2> HIDE DEF new
  <2>1. stored = [s \in Servers |-> stored[s]] /\ \A s \in Servers : Setting(stored[s])
    BY DEF IInv, Shapes
  <2>2. stored' = [s \in Servers |-> IF s = sel THEN new ELSE stored[s]]
    BY <1>3, <2>1
  <2>3. UNCHANGED <<monitor, sel>>
    BY DEF Write
  <2>4. stored' = [s \in Servers |-> stored'[s]]
    BY <2>2
  <2>5. \A s \in Servers : Setting(stored'[s])
    BY <1>4, <2>1, <2>2
  <2>6. stored'[sel] = new
    BY <1>1, <2>2
  <2> QED  BY <1>1, <1>4, <2>3, <2>4, <2>5, <2>6 DEF Written
<1>6. last.late + (IF monitor[save.sc] = "busy" THEN 1 ELSE 0) = Late
  BY <1>1 DEF Late
<1>7. CASE save.step < Len(Chain)
  <2>1. save' = [sc |-> sel, text |-> save.text, step |-> save.step + 1]
    <3>1. save = [sc |-> sel, text |-> save.text, step |-> save.step]
      BY <1>1 DEF IInv, Shapes, SaveTyped
    <3>2. save' = [save EXCEPT !.step = @ + 1]
      BY <1>7 DEF Write
    <3> QED  BY <3>1, <3>2
  <2>2. save.step \in 1..7
    BY <1>2, <1>7
  <2>3. ui' = "test" /\ last' = [last EXCEPT !.late = Late] /\ UNCHANGED <<pane, button, edited>>
    BY <1>6, <1>7 DEF Write
  <2> QED  BY <1>5, <2>1, <2>2, <2>3 DEF WritesOn
<1>8. CASE ~(save.step < Len(Chain))
  BY <1>5, <1>6, <1>8 DEF Write, WritesLast
<1> QED  BY <1>5, <1>7, <1>8

-----------------------------------------------------------------------------
(* Shapes.                                                                  *)

LEMMA ControlsTyped ==
  ASSUME IInv, [Next]_vars
  PROVE  /\ timecontrol' \in [Servers -> BOOLEAN]
         /\ monitor' \in [Servers -> {"none", "thread", "busy"}]
         /\ sel' \in Servers \cup {"none"}
<1>1. /\ timecontrol \in [Servers -> BOOLEAN] /\ sel \in Servers \cup {"none"}
      /\ monitor \in [Servers -> {"none", "thread", "busy"}]
  BY DEF IInv, Shapes
<1>2. ASSUME NEW s \in Servers, SelectServer(s) \/ StartStop(s) \/ Check(s)
      PROVE  /\ monitor' \in [Servers -> {"none", "thread", "busy"}]
             /\ timecontrol' = timecontrol /\ sel' \in Servers \cup {"none"}
  <2>1. CASE SelectServer(s)
    BY <1>1, <2>1 DEF SelectServer
  <2>2. CASE StartStop(s)
    BY <1>1, <2>2 DEF StartStop
  <2>3. CASE Check(s)
    BY <1>1, <2>3 DEF Check
  <2> QED  BY <1>2, <2>1, <2>2, <2>3
<1>3. CASE OnBnClickedTimecontrol
  BY <1>1, <1>3 DEF OnBnClickedTimecontrol
<1>4. CASE OnBnClickedUpdate \/ PortBoxClosed \/ Test \/ Write \/ WriteThrows \/ UNCHANGED vars
  BY <1>1, <1>4 DEF OnBnClickedUpdate, PortBoxClosed, Test, Write, WriteThrows, vars
<1>5. ASSUME NEW f \in Fields, NEW text \in Texts[f], Edit(f, text)
      PROVE  UNCHANGED <<timecontrol, monitor, sel>>
  BY <1>5 DEF Edit
<1> QED  BY <1>1, <1>2, <1>3, <1>4, <1>5 DEF Next

LEMMA NothingTyped == SaveTyped(NoSave) /\ LastTyped(NoOutcome)
<1>1. DOMAIN Blank(AnyTime) = Fields
  BY DEF Blank
<1>2. SaveTyped(NoSave)
  BY <1>1 DEF SaveTyped, NoSave
<1>3. LastTyped(NoOutcome)
  BY <1>1 DEF LastTyped, NoOutcome
<1> QED  BY <1>2, <1>3

LEMMA LastFits ==
  ASSUME NEW l, LastTyped(l)
  PROVE  /\ \A o \in {"none", "saved", "failed"} : LastTyped([l EXCEPT !.outcome = o])
         /\ \A n \in 0..1 : /\ LastTyped([l EXCEPT !.late = n])
                            /\ LastTyped([l EXCEPT !.late = n, !.outcome = "saved"])
         /\ \A b \in BOOLEAN : LastTyped([l EXCEPT !.raced = b])
         /\ \A e \in SUBSET Fields : \A st : DOMAIN st = Fields =>
              LastTyped([l EXCEPT !.before = st, !.edits = e])
<1>1. ASSUME NEW o \in {"none", "saved", "failed"} PROVE LastTyped([l EXCEPT !.outcome = o])
  BY DEF LastTyped
<1>2. ASSUME NEW n \in 0..1
      PROVE  /\ LastTyped([l EXCEPT !.late = n])
             /\ LastTyped([l EXCEPT !.late = n, !.outcome = "saved"])
  <2>1. LastTyped([l EXCEPT !.late = n])
    BY DEF LastTyped
  <2> DEFINE m == [l EXCEPT !.late = n]
  <2>2. [l EXCEPT !.late = n, !.outcome = "saved"] = [m EXCEPT !.outcome = "saved"]
    OBVIOUS
  <2> HIDE DEF m
  <2>3. LastTyped(m) => LastTyped([m EXCEPT !.outcome = "saved"])
    BY DEF LastTyped
  <2> QED  BY <2>1, <2>2, <2>3 DEF m
<1>3. ASSUME NEW b \in BOOLEAN PROVE LastTyped([l EXCEPT !.raced = b])
  BY DEF LastTyped
<1>4. ASSUME NEW e \in SUBSET Fields, NEW st, DOMAIN st = Fields
      PROVE  LastTyped([l EXCEPT !.before = st, !.edits = e])
  <2> DEFINE m == [l EXCEPT !.before = st]
  <2>1. [l EXCEPT !.before = st, !.edits = e] = [m EXCEPT !.edits = e]
    OBVIOUS
  <2>2. LastTyped(m)
    BY <1>4 DEF LastTyped
  <2> HIDE DEF m
  <2>3. LastTyped([m EXCEPT !.edits = e])
    BY <2>2 DEF LastTyped
  <2> QED  BY <2>1, <2>3
<1> QED  BY <1>1, <1>2, <1>3, <1>4

(* How a step leaves the history of an Update. *)
Leaves(outcome, late) ==
  /\ LastTyped(last') /\ last'.outcome = outcome /\ last'.late = late
  /\ last'.before = last.before /\ last'.edits = last.edits /\ last'.raced = last.raced

LEMMA LastIs ==
  ASSUME IInv
  PROVE  /\ Fails => Leaves("failed", last.late)
         /\ WritesOn => Leaves(last.outcome, Late)
         /\ WritesLast => Leaves("saved", Late)
<1>1. LastTyped(last) /\ Late \in 0..1
  BY DEF IInv, Shapes, Late
<1>2. ASSUME Fails PROVE Leaves("failed", last.late)
  <2>1. last' = [last EXCEPT !.outcome = "failed"]
    BY <1>2 DEF Fails, SaveOver
  <2>2. LastTyped(last')
    BY <1>1, <2>1, LastFits
  <2> QED  BY <1>1, <2>1, <2>2 DEF Leaves, LastTyped
<1>3. ASSUME WritesOn PROVE Leaves(last.outcome, Late)
  <2>1. last' = [last EXCEPT !.late = Late]
    BY <1>3 DEF WritesOn
  <2>2. LastTyped(last')
    BY <1>1, <2>1, LastFits
  <2> HIDE DEF Late
  <2> QED  BY <1>1, <2>1, <2>2 DEF Leaves, LastTyped
<1>4. ASSUME WritesLast PROVE Leaves("saved", Late)
  <2> DEFINE m == [last EXCEPT !.late = Late]
  <2>1. last' = [m EXCEPT !.outcome = "saved"]
    BY <1>4 DEF WritesLast
  <2>2. last' = [last EXCEPT !.late = Late, !.outcome = "saved"]
    BY <1>4 DEF WritesLast
  <2>3. LastTyped(last') /\ LastTyped(m)
    BY <1>1, <2>2, LastFits
  <2>4. m.late = Late /\ m.before = last.before /\ m.edits = last.edits /\ m.raced = last.raced
    BY <1>1 DEF LastTyped
  <2> HIDE DEF m
  <2> QED  BY <2>1, <2>3, <2>4 DEF Leaves, LastTyped
<1> QED  BY <1>2, <1>3, <1>4

(* What is read for an Update, and what is refused at once. *)
Read(port, game) == [pane EXCEPT !["port"] = port, !["game"] = game]

Tried(edits) ==
  /\ LastTyped(last') /\ last'.before = stored[sel] /\ last'.edits = edits
  /\ last'.late = 0 /\ last'.raced = FALSE

Begun(port, game) ==
  /\ ui' = "test" /\ save' = [sc |-> sel, text |-> Read(port, game), step |-> 1]
  /\ Filled(Read(port, game)) /\ Typed(Read(port, game)) /\ port \in 0..PortMax
  /\ last'.outcome = "none" /\ UNCHANGED <<pane, button, edited>>

Refused ==
  /\ ui' = "idle" /\ save' = NoSave /\ UpdateAllViews(sel, stored)
  /\ last'.outcome = "failed"

LEMMA PortAndGame ==
  ASSUME NEW t, Filled(t), NEW port, NEW game
  PROVE  [t EXCEPT !["port"] = port, !["game"] = game] =
           [f \in Fields |-> IF f = "port" THEN port ELSE IF f = "game" THEN game ELSE t[f]]
<1> DEFINE u == [t EXCEPT !["port"] = port]
<1>1. u = [f \in Fields |-> IF f = "port" THEN port ELSE t[f]]
  BY DEF Filled
<1>2. [t EXCEPT !["port"] = port, !["game"] = game] = [u EXCEPT !["game"] = game]
  OBVIOUS
<1> HIDE DEF u
<1>3. [u EXCEPT !["game"] = game] =
        [f \in Fields |-> IF f = "game" THEN game ELSE u[f]]
  BY <1>1
<1> QED  BY <1>1, <1>2, <1>3

(* The game is known and the port's box opens. *)
LEMMA AsksIs ==
  ASSUME IInv, Asks
  PROVE  /\ ui = "idle" /\ ui' = "portbox" /\ sel # "none"
         /\ LastTyped(last') /\ last'.outcome = "none" /\ last'.edits = edited \cap {"game"}
         /\ save' = [sc |-> sel, text |-> pane, step |-> 1]
         /\ UNCHANGED <<stored, monitor, sel, pane, button, edited>>
<1>1. /\ ui = "idle" /\ ui' = "portbox" /\ sel # "none"
      /\ last' = [NoOutcome EXCEPT !.edits = edited \cap {"game"}]
      /\ save' = [sc |-> sel, text |-> pane, step |-> 1]
      /\ UNCHANGED <<stored, monitor, sel, pane, button, edited>>
  BY DEF Asks, PortBox
<1>2. last'.outcome = "none" /\ last'.edits = edited \cap {"game"}
  BY <1>1 DEF NoOutcome
<1>3. LastTyped(last')
  BY <1>1, NothingTyped DEF LastTyped, Fields
<1> QED  BY <1>1, <1>2, <1>3

LEMMA ReadsIs ==
  ASSUME IInv, NEW port, NEW game, NEW edits, Reads(port, game, edits)
  PROVE  Tried(edits) /\ (Begun(port, game) \/ Refused)
<1>1. /\ sel \in Servers /\ Setting(stored[sel]) /\ edited \subseteq Fields
      /\ Filled(pane) /\ Typed(pane)
  BY DEF Reads, IInv, Shapes, Faithful
<1>2. port \in 0..PortMax
  BY <1>1, PortIs, SettingsAssumption DEF Reads, Typed
<1>3. edits \in SUBSET Fields
  BY <1>1 DEF Reads, Fields, IInv, Shapes, LastTyped
<1>4. Filled(Read(port, game)) /\ Typed(Read(port, game))
  <2>1. port \in Int
    BY <1>2, SettingsAssumption
  <2>2. Read(port, game) = [f \in Fields |-> IF f = "port" THEN port
                                         ELSE IF f = "game" THEN game ELSE pane[f]]
    BY <1>1, PortAndGame DEF Read
  <2>3. Filled(Read(port, game))
    BY <1>1, <2>2 DEF Filled, Fields
  <2>5. game \in Texts["game"]
    BY <1>1 DEF Reads, IInv, Locals, Typed
  <2>4. Typed(Read(port, game))
    BY <1>1, <2>1, <2>2, <2>5 DEF Typed, Fields, Waits
  <2> QED  BY <2>3, <2>4
<1> DEFINE m == [NoOutcome EXCEPT !.before = stored[sel]]
           tried == [m EXCEPT !.edits = edits]
<1>5. tried = [NoOutcome EXCEPT !.before = stored[sel], !.edits = edits]
  OBVIOUS
<1>6. LastTyped(tried)
  <2>1. LastTyped(NoOutcome) /\ DOMAIN stored[sel] = Fields
    BY <1>1, NothingTyped DEF Setting
  <2> HIDE DEF tried
  <2> QED  BY <1>3, <1>5, <2>1, LastFits
<1>7. /\ tried.outcome = "none" /\ tried.before = stored[sel] /\ tried.edits = edits
      /\ tried.late = 0 /\ tried.raced = FALSE
  <2>1. /\ m.outcome = "none" /\ m.before = stored[sel] /\ m.late = 0 /\ m.raced = FALSE
        /\ DOMAIN m = {"outcome", "before", "edits", "late", "raced"}
    BY DEF NoOutcome
  <2> HIDE DEF m
  <2> QED  BY <2>1
<1>8. CASE \A f \in Waits : Read(port, game)[f] > 0
  <2>1. /\ ui' = "test" /\ save' = [sc |-> sel, text |-> Read(port, game), step |-> 1]
        /\ last' = tried /\ UNCHANGED <<pane, button, edited>>
    <3> HIDE DEF tried
    <3> QED  BY <1>5, <1>8 DEF Reads, ReadFields, Read
  <2> HIDE DEF tried
  <2> QED  BY <1>2, <1>4, <1>6, <1>7, <2>1 DEF Tried, Begun
<1>9. CASE ~\A f \in Waits : Read(port, game)[f] > 0
  <2>1. /\ ui' = "idle" /\ save' = NoSave /\ UpdateAllViews(sel, stored)
        /\ last' = [tried EXCEPT !.outcome = "failed"]
    <3> HIDE DEF tried
    <3> QED  BY <1>5, <1>9 DEF Reads, ReadFields, Read
  <2> HIDE DEF tried
  <2>2. LastTyped(last')
    BY <1>6, <2>1, LastFits
  <2> QED  BY <1>6, <1>7, <2>1, <2>2 DEF Tried, Refused, LastTyped
<1> QED  BY <1>8, <1>9

(* A monitor that sets busy, or fails, in the middle of an Update. *)
LEMMA CheckIs ==
  ASSUME IInv, NEW s \in Servers, Check(s)
  PROVE  /\ LastTyped(last') /\ last'.outcome = last.outcome
         /\ last'.before = last.before /\ last'.edits = last.edits
         /\ UNCHANGED <<stored, sel, pane, button, ui, save, edited>>
         /\ \/ /\ monitor'[s] = "busy" /\ \A z \in Servers \ {s} : monitor'[z] = monitor[z]
               /\ last'.late = last.late
               /\ last'.raced <=> last.raced \/ (s = save.sc /\ (ui = "write" \/ save.step > 1))
            \/ /\ monitor'[s] # "busy" /\ \A z \in Servers \ {s} : monitor'[z] = monitor[z]
               /\ last'.late = (IF s = save.sc THEN 0 ELSE last.late)
               /\ last'.raced = last.raced
<1>1. /\ LastTyped(last) /\ monitor \in [Servers -> {"none", "thread", "busy"}]
      /\ UNCHANGED <<stored, sel, pane, button, ui, save, edited>>
  BY DEF IInv, Shapes, Check
<1> DEFINE races == s = save.sc /\ (ui = "write" \/ save.step > 1)
<1>2. CASE /\ monitor[s] = "thread" /\ monitor' = [monitor EXCEPT ![s] = "busy"]
           /\ last' = [last EXCEPT !.raced = @ \/ races]
  <2>1. last.raced \/ races \in BOOLEAN
    BY <1>1 DEF LastTyped
  <2>2. last' = [last EXCEPT !.raced = last.raced \/ races]
    BY <1>2
  <2>3. LastTyped(last')
    BY <1>1, <2>1, <2>2, LastFits
  <2>4. /\ last'.outcome = last.outcome /\ last'.before = last.before
        /\ last'.edits = last.edits /\ last'.late = last.late
        /\ last'.raced = (last.raced \/ races)
    <3> HIDE DEF races
    <3> QED  BY <1>1, <2>2 DEF LastTyped
  <2>5. monitor'[s] = "busy" /\ \A z \in Servers \ {s} : monitor'[z] = monitor[z]
    BY <1>1, <1>2
  <2> QED  BY <1>1, <2>3, <2>4, <2>5
<1>3. CASE /\ monitor[s] = "busy"
           /\ \E m \in {"thread", "none"} : monitor' = [monitor EXCEPT ![s] = m]
           /\ last' = IF s = save.sc THEN [last EXCEPT !.late = 0] ELSE last
  <2>1. LastTyped(last')
    <3>1. LastTyped([last EXCEPT !.late = 0])
      BY <1>1 DEF LastTyped
    <3> QED  BY <1>1, <1>3, <3>1
  <2>2. /\ last'.outcome = last.outcome /\ last'.before = last.before
        /\ last'.edits = last.edits /\ last'.raced = last.raced
        /\ last'.late = (IF s = save.sc THEN 0 ELSE last.late)
    BY <1>1, <1>3 DEF LastTyped
  <2>3. monitor'[s] # "busy" /\ \A z \in Servers \ {s} : monitor'[z] = monitor[z]
    BY <1>1, <1>3
  <2> QED  BY <1>1, <2>1, <2>2, <2>3
<1> QED  BY <1>2, <1>3 DEF Check

(* What the user types keeps the fields' types. *)
LEMMA EditIs ==
  ASSUME IInv, NEW f \in Fields, NEW text \in Texts[f], Edit(f, text)
  PROVE  /\ Filled(pane') /\ (sel # "none" => Typed(pane'))
         /\ pane' = [x \in Fields |-> IF x = f THEN text ELSE pane[x]]
         /\ button' = TRUE /\ edited' = edited \cup {f} /\ ui = "idle" /\ last' = NoOutcome
         /\ UNCHANGED <<stored, monitor, sel, ui, save>>
<1>1. Filled(pane) /\ (sel # "none" => Typed(pane))
  BY DEF IInv, Shapes, Faithful
<1>2. /\ pane' = [pane EXCEPT ![f] = text] /\ button' = TRUE /\ edited' = edited \cup {f}
      /\ ui = "idle" /\ last' = NoOutcome /\ UNCHANGED <<stored, monitor, sel, ui, save>>
  BY DEF Edit, Forget
<1>3. pane' = [x \in Fields |-> IF x = f THEN text ELSE pane[x]]
  BY <1>1, <1>2 DEF Filled
<1>4. Filled(pane')
  BY <1>1, <1>3 DEF Filled, Fields
<1>5. ASSUME sel # "none" PROVE Typed(pane')
  <2>1. Typed(pane)
    BY <1>1, <1>5
  <2>2. /\ f = "ip" => text \in Hosts
        /\ f = "port" => text \in Int
        /\ f \in Waits => text \in Long
    BY TextsFit
  <2> QED  BY <1>3, <2>1, <2>2 DEF Typed, Fields, Waits
<1> QED  BY <1>2, <1>3, <1>4, <1>5

LEMMA ShapesStep == ASSUME IInv, [Next]_vars PROVE Shapes'
<1> USE DEF IInv
<1>1. /\ stored = [s \in Servers |-> stored[s]] /\ \A s \in Servers : Setting(stored[s])
      /\ sel \in Servers \cup {"none"} /\ button \in BOOLEAN /\ edited \subseteq Fields
      /\ ui \in {"idle", "portbox", "test", "write"} /\ Filled(pane)
      /\ SaveTyped(save) /\ LastTyped(last)
  BY DEF Shapes
<1>2. /\ stored' = [s \in Servers |-> stored'[s]] /\ \A s \in Servers : Setting(stored'[s])
  <2>1. CASE Write
    BY <2>1, WriteIs DEF Written
  <2>2. CASE stored' = stored
    BY <1>1, <2>2
  <2>3. Write \/ stored' = stored
    BY StepIs DEF Kinds, Refreshes, Asks, Passes, Fails, Reads, Check, Edit, vars
  <2> QED  BY <2>1, <2>2, <2>3
<1>3. sel' \in Servers \cup {"none"}
  BY ControlsTyped
<1>4. ASSUME NEW s \in Servers \cup {"none"}, UpdateAllViews(s, stored')
      PROVE  button' \in BOOLEAN /\ edited' \subseteq Fields /\ Filled(pane')
  <2>1. s # "none" => Setting(stored'[s])
    BY <1>2
  <2> QED  BY <1>1, <1>4, <2>1, Filling
<1>5. /\ button' \in BOOLEAN /\ edited' \subseteq Fields /\ Filled(pane')
      /\ ui' \in {"idle", "portbox", "test", "write"}
      /\ SaveTyped(save') /\ LastTyped(last')
  <2>1. CASE Refreshes
    <3>1. /\ UpdateAllViews(sel', stored') /\ last' \in {last, NoOutcome}
          /\ UNCHANGED <<ui, save>>
      BY <2>1 DEF Refreshes, Forget
    <3> QED  BY <1>1, <1>3, <1>4, <3>1, NothingTyped
  <2>2. CASE Asks
    <3>1. SaveTyped(save')
      BY <1>1, <2>2, AsksIs DEF SaveTyped, Filled
    <3> QED  BY <1>1, <2>2, <3>1, AsksIs
  <2>3. CASE Passes
    BY <1>1, <2>3 DEF Passes
  <2>4. CASE Fails
    <3>1. UpdateAllViews(sel, stored') /\ ui' = "idle" /\ save' = NoSave
      BY <2>4 DEF Fails, SaveOver
    <3> QED  BY <1>1, <1>4, <2>4, <3>1, LastIs, NothingTyped DEF Leaves
  <2>5. CASE Write
    <3>1. CASE WritesOn
      <4>1. SaveTyped(save')
        BY <1>1, <3>1 DEF WritesOn, SaveTyped
      <4> QED  BY <1>1, <3>1, <4>1, LastIs DEF WritesOn, Leaves
    <3>2. CASE WritesLast
      BY <1>1, <1>4, <3>2, LastIs, NothingTyped DEF WritesLast, Leaves
    <3> QED  BY <2>5, <3>1, <3>2, WriteIs
  <2>6. ASSUME NEW port, NEW game, NEW edits, Reads(port, game, edits)
        PROVE  /\ button' \in BOOLEAN /\ edited' \subseteq Fields /\ Filled(pane')
               /\ ui' \in {"idle", "portbox", "test", "write"}
               /\ SaveTyped(save') /\ LastTyped(last')
    <3>1. stored' = stored /\ LastTyped(last')
      BY <2>6, ReadsIs DEF Reads, Tried
    <3>2. CASE Begun(port, game)
      <4>1. SaveTyped(save')
        BY <1>1, <3>2 DEF Begun, SaveTyped, Filled
      <4> QED  BY <1>1, <3>1, <3>2, <4>1 DEF Begun
    <3>3. CASE Refused
      BY <1>1, <1>4, <3>1, <3>3, NothingTyped DEF Refused
    <3> QED  BY <2>6, <3>2, <3>3, ReadsIs
  <2>7. ASSUME NEW s \in Servers, Check(s)
        PROVE  LastTyped(last') /\ UNCHANGED <<pane, button, ui, save, edited>>
    BY <2>7, CheckIs
  <2>8. ASSUME NEW f \in Fields, NEW text \in Texts[f], Edit(f, text)
        PROVE  /\ button' \in BOOLEAN /\ edited' \subseteq Fields /\ Filled(pane')
               /\ UNCHANGED <<ui, save>> /\ LastTyped(last')
    BY <1>1, <2>8, EditIs, NothingTyped
  <2>9. CASE UNCHANGED vars
    BY <1>1, <2>9 DEF vars
  <2> QED  BY <1>1, <2>1, <2>2, <2>3, <2>4, <2>5, <2>6, <2>7, <2>8, <2>9, StepIs DEF Kinds
<1> QED  BY <1>2, <1>3, <1>5, ControlsTyped DEF Shapes

-----------------------------------------------------------------------------
(* The fields.                                                              *)

LEMMA FaithfulStep == ASSUME IInv, [Next]_vars PROVE Faithful'
<1>1. /\ Filled(pane) /\ (sel # "none" => Typed(pane)) /\ (~button => edited = {})
      /\ sel \in Servers \cup {"none"} /\ \A s \in Servers : Setting(stored[s])
  BY DEF IInv, Shapes, Faithful
<1>2. ~Saving => \A f \in Fields \ edited : pane[f] = Expected(pane)[f]
  BY DEF IInv, Faithful
<1>3. ASSUME UpdateAllViews(sel', stored') PROVE Faithful'
  <2>1. sel' \in Servers \cup {"none"} /\ \A s \in Servers : Setting(stored'[s])
    BY ControlsTyped, ShapesStep DEF Shapes
  <2>2. /\ sel' # "none" => Typed(pane')
        /\ button' = FALSE /\ edited' = {}
        /\ pane' = IF sel' = "none" THEN Blank(pane') ELSE Shown(stored'[sel'], pane')
    BY <1>1, <1>3, <2>1, Filling
  <2> QED  BY <2>2 DEF Faithful, Expected
<1>4. CASE Refreshes
  <2>1. UpdateAllViews(sel', stored')
    BY <1>4 DEF Refreshes
  <2> QED  BY <1>3, <2>1
<1>5. CASE Asks
  <2>1. ~Saving /\ UNCHANGED <<sel, stored, pane, button, edited>>
    BY <1>5, AsksIs DEF Saving
  <2> QED  BY <1>1, <1>2, <2>1 DEF Faithful, Expected
<1>6. CASE Passes
  BY <1>1, <1>6 DEF Passes, Faithful, Saving
<1>7. CASE Fails
  <2>1. UpdateAllViews(sel', stored')
    BY <1>7 DEF Fails, SaveOver
  <2> QED  BY <1>3, <2>1
<1>8. CASE Write
  <2>1. sel' = sel
    BY <1>8 DEF Write
  <2>2. CASE WritesOn
    BY <1>1, <2>1, <2>2 DEF WritesOn, Faithful, Saving
  <2>3. CASE WritesLast
    <3>1. UpdateAllViews(sel', stored')
      BY <2>1, <2>3 DEF WritesLast
    <3> QED  BY <1>3, <3>1
  <2> QED  BY <1>8, <2>2, <2>3, WriteIs
<1>9. ASSUME NEW port, NEW game, NEW edits, Reads(port, game, edits) PROVE Faithful'
  <2>1. sel' = sel /\ stored' = stored
    BY <1>9 DEF Reads
  <2>2. CASE Begun(port, game)
    BY <1>1, <2>1, <2>2 DEF Begun, Faithful, Saving
  <2>3. CASE Refused
    <3>1. UpdateAllViews(sel', stored')
      BY <2>1, <2>3 DEF Refused
    <3> QED  BY <1>3, <3>1
  <2> QED  BY <1>9, <2>2, <2>3, ReadsIs
<1>10. ASSUME NEW s \in Servers, Check(s) PROVE Faithful'
  <2>1. UNCHANGED <<stored, sel, pane, button, ui, edited>>
    BY <1>10, CheckIs
  <2> QED  BY <1>1, <1>2, <2>1 DEF Faithful, Expected, Saving
<1>11. ASSUME NEW f \in Fields, NEW text \in Texts[f], Edit(f, text) PROVE Faithful'
  <2>1. /\ sel # "none" => Typed(pane')
        /\ pane' = [x \in Fields |-> IF x = f THEN text ELSE pane[x]]
        /\ button' = TRUE /\ edited' = edited \cup {f} /\ ui = "idle"
        /\ UNCHANGED <<stored, sel, ui>>
    BY <1>11, EditIs
  <2>2. ASSUME NEW x \in Fields \ edited' PROVE pane'[x] = Expected(pane)'[x]
    <3>1. pane'[x] = pane[x] /\ x \in Fields \ edited /\ ~Saving
      BY <2>1 DEF Saving
    <3>2. pane[x] = Expected(pane)[x]
      BY <1>2, <3>1
    <3>3. CASE sel = "none"
      BY <2>1, <3>1, <3>2, <3>3 DEF Expected, Blank
    <3>4. CASE sel # "none"
      <4>1. Setting(stored[sel])
        BY <1>1, <3>4
      <4>2. Shown(stored[sel], pane')[x] = Shown(stored[sel], pane)[x]
        BY <3>1, <4>1, ShownField
      <4> QED  BY <2>1, <3>1, <3>2, <3>4, <4>2 DEF Expected
    <3> QED  BY <3>3, <3>4
  <2> QED  BY <2>1, <2>2 DEF Faithful
<1>12. CASE UNCHANGED vars
  BY <1>1, <1>2, <1>12 DEF vars, Faithful, Expected, Saving
<1> QED  BY <1>4, <1>5, <1>6, <1>7, <1>8, <1>9, <1>10, <1>11, <1>12, StepIs DEF Kinds

-----------------------------------------------------------------------------
(* The Update.                                                              *)

LEMMA LocalsStep == ASSUME IInv, [Next]_vars PROVE Locals'
<1>1. Locals
  BY DEF IInv
<1>2. CASE Refreshes
  BY <1>1, <1>2 DEF Refreshes, Locals, Saving
<1>3. CASE Asks
  <2>1. save'.sc = sel /\ save'.text = pane
    BY <1>3, AsksIs
  <2>2. sel \in Servers /\ Setting(stored[sel]) /\ Typed(pane) /\ ~Saving
    BY <1>3, AsksIs DEF IInv, Shapes, Faithful, Saving
  <2>3. "game" \in edited \/ pane["game"] = stored[sel]["game"]
    <3>1. "game" \in edited \/ pane["game"] = Shown(stored[sel], pane)["game"]
      BY <1>3, <2>2, AsksIs DEF IInv, Faithful, Expected, Fields
    <3> QED  BY <2>2, <3>1, ShownField DEF Fields
  <2> QED  BY <1>3, <2>1, <2>2, <2>3, AsksIs DEF Locals, Saving
<1>4. CASE Passes
  BY <1>1, <1>4 DEF Passes, Locals, Saving
<1>5. CASE Fails
  BY <1>1, <1>5 DEF Fails, SaveOver, NoSave, Locals, Saving
<1>6. CASE Write
  <2>1. ui = "write" /\ sel' = sel
    BY <1>6 DEF Write
  <2>2. CASE WritesOn
    <3>1. last'.outcome = last.outcome
      BY <2>2, LastIs DEF Leaves
    <3> QED  BY <1>1, <2>1, <2>2, <3>1 DEF WritesOn, Locals, Saving
  <2>3. CASE WritesLast
    BY <2>3 DEF WritesLast, NoSave, Locals, Saving
  <2> QED  BY <1>6, <2>2, <2>3, WriteIs
<1>7. ASSUME NEW port, NEW game, NEW edits, Reads(port, game, edits) PROVE Locals'
  <2>1. sel # "none" /\ sel' = sel
    BY <1>7 DEF Reads
  <2>2. CASE Begun(port, game)
    <3>0. Read(port, game) = [f \in Fields |-> IF f = "port" THEN port
                                           ELSE IF f = "game" THEN game ELSE pane[f]]
      BY PortAndGame DEF Read, IInv, Shapes
    <3>1. Read(port, game)["port"] = port
      BY <3>0 DEF Fields
    <3> QED  BY <2>1, <2>2, <3>1 DEF Begun, Locals, Saving
  <2>3. CASE Refused
    BY <2>3 DEF Refused, NoSave, Locals, Saving
  <2> QED  BY <1>7, <2>2, <2>3, ReadsIs
<1>8. ASSUME NEW s \in Servers, Check(s) PROVE Locals'
  <2>1. /\ UNCHANGED <<sel, ui, save, stored>>
        /\ last'.outcome = last.outcome /\ last'.edits = last.edits
    BY <1>8, CheckIs
  <2> QED  BY <1>1, <2>1 DEF Locals, Saving
<1>9. ASSUME NEW f \in Fields, NEW text \in Texts[f], Edit(f, text) PROVE Locals'
  <2>1. UNCHANGED <<sel, ui, save>> /\ ui = "idle"
    BY <1>9, EditIs
  <2> QED  BY <1>1, <2>1 DEF Locals, Saving
<1>10. CASE UNCHANGED vars
  BY <1>1, <1>10 DEF vars, Locals, Saving
<1> QED  BY <1>2, <1>3, <1>4, <1>5, <1>6, <1>7, <1>8, <1>9, <1>10, StepIs DEF Kinds

LEMMA RestoresStep == ASSUME IInv, [Next]_vars PROVE Restores'
<1>1. Restores
  BY DEF IInv
<1>2. CASE Refreshes
  BY <1>2 DEF Refreshes, Restores, Saving
<1>3. CASE Asks
  BY <1>3, AsksIs DEF Restores, Saving
<1>4. CASE Passes
  BY <1>1, <1>4 DEF Passes, Restores, Saving, Lossy
<1>5. CASE Fails
  BY <1>5 DEF Fails, SaveOver, Restores, Saving
<1>6. CASE Write
  <2>1. CASE WritesOn
    <3>1. /\ last'.before = last.before /\ last'.edits = last.edits /\ sel' = sel
          /\ save'.text = save.text /\ Saving
      BY <1>6, <2>1, LastIs DEF Leaves, WritesOn, Write, Saving
    <3>2. \A f \in Fields : stored'[sel][f] \in {stored[sel][f], Meant(save.text, f)}
      BY <1>6, WriteIs DEF Written
    <3>3. ASSUME NEW f \in Fields \ last.edits, ~Lossy(f)
          PROVE  stored'[sel][f] = last.before[f] /\ Meant(save.text, f) = last.before[f]
      <4>1. stored[sel][f] = last.before[f] /\ Meant(save.text, f) = last.before[f]
        BY <1>1, <3>1, <3>3 DEF Restores
      <4> QED  BY <3>2, <4>1
    <3> QED  BY <3>1, <3>3 DEF Restores, Lossy
  <2>2. CASE WritesLast
    BY <2>2 DEF WritesLast, Restores, Saving
  <2> QED  BY <1>6, <2>1, <2>2, WriteIs
<1>7. ASSUME NEW port, NEW game, NEW edits, Reads(port, game, edits) PROVE Restores'
  <2>1. CASE Begun(port, game)
    <3>1. /\ last'.before = stored[sel] /\ last'.edits = edits /\ stored' = stored /\ sel' = sel
          /\ save'.text = Read(port, game)
      BY <1>7, <2>1, ReadsIs DEF Tried, Reads, Begun
    <3>2. Setting(stored[sel]) /\ Filled(pane) /\ sel # "none" /\ ~Saving
      BY <1>7 DEF IInv, Shapes, Reads, Saving
    <3>3. ASSUME NEW f \in Fields \ edits,
                 ~(f = "port" /\ stored[sel][f] = PortMax),
                 ~(f = "times" /\ stored[sel][f] = Unset),
                 ~(f \in {"pause", "startup"} /\ stored[sel][f] % Thousand # 0)
          PROVE  Meant(Read(port, game), f) = stored[sel][f]
      <4>1. pane[f] = Shown(stored[sel], pane)[f]
        <5>1. f \in Fields \ edited
          BY <1>7 DEF Reads
        <5> QED  BY <3>2, <5>1 DEF IInv, Faithful, Expected
      <4>2. Read(port, game)[f] = IF f = "port" THEN PortOf(pane[f]) ELSE pane[f]
        <5>1. Read(port, game) = [x \in Fields |-> IF x = "port" THEN port
                                             ELSE IF x = "game" THEN game ELSE pane[x]]
          BY <3>2, PortAndGame DEF Read
        <5>2. f = "port" => port = PortOf(pane["port"])
          BY <1>7, <3>3 DEF Reads
        <5>3. f = "game" => game = pane["game"]
          <6>1. CASE f = "game" /\ ui = "portbox" /\ game = save.text["game"]
                     /\ edits = edited \cup {"port"} \cup last.edits
            <7>1. game = stored[sel]["game"]
              BY <3>3, <6>1 DEF IInv, Locals
            <7>2. pane["game"] = stored[sel]["game"]
              BY <3>2, <4>1, <6>1, ShownField DEF Fields
            <7> QED  BY <7>1, <7>2
          <6> QED  BY <1>7, <6>1 DEF Reads
        <5> QED  BY <5>1, <5>2, <5>3
      <4> QED  BY <3>2, <3>3, <4>1, <4>2, Survives
    <3> QED  BY <3>1, <3>3 DEF Restores, Lossy
  <2>2. CASE Refused
    BY <2>2 DEF Refused, Restores, Saving
  <2> QED  BY <1>7, <2>1, <2>2, ReadsIs
<1>8. ASSUME NEW s \in Servers, Check(s) PROVE Restores'
  <2>1. /\ UNCHANGED <<stored, sel, ui, save>>
        /\ last'.before = last.before /\ last'.edits = last.edits
    BY <1>8, CheckIs
  <2> QED  BY <1>1, <2>1 DEF Restores, Saving, Lossy
<1>9. ASSUME NEW f \in Fields, NEW text \in Texts[f], Edit(f, text) PROVE Restores'
  <2>1. UNCHANGED ui /\ ui = "idle"
    BY <1>9, EditIs
  <2> QED  BY <2>1 DEF Restores, Saving
<1>10. CASE UNCHANGED vars
  BY <1>1, <1>10 DEF vars, Restores, Saving, Lossy
<1> QED  BY <1>2, <1>3, <1>4, <1>5, <1>6, <1>7, <1>8, <1>9, <1>10, StepIs DEF Kinds

(* Where in the chain an Update is, and what its monitor has done since. *)
Place == Untouched /\ Noticed /\ LateOnce

LEMMA PlaceStep == ASSUME IInv, [Next]_vars PROVE Place'
<1>1. Untouched /\ Noticed /\ LateOnce
  BY DEF IInv
<1>2. CASE Refreshes
  BY <1>2 DEF Refreshes, Place, Untouched, Noticed, LateOnce, Saving
<1>3. CASE Asks
  BY <1>3, AsksIs DEF Place, Untouched, Noticed, LateOnce, Saving
<1>4. CASE Passes
  <2>1. save.sc = sel
    BY <1>4 DEF Passes, IInv, Locals, Saving
  <2> QED  BY <1>1, <1>4, <2>1 DEF Passes, Place, Untouched, Noticed, LateOnce, Saving
<1>5. CASE Fails
  BY <1>5 DEF Fails, SaveOver, Place, Untouched, Noticed, LateOnce, Saving
<1>6. CASE Write
  <2>1. ui = "write" /\ UNCHANGED <<monitor, sel>>
    BY <1>6 DEF Write
  <2>2. CASE WritesOn
    <3>1. last'.raced = last.raced /\ last'.late = Late
      BY <2>2, LastIs DEF Leaves
    <3>2. save'.step = save.step + 1 /\ save.step \in 1..7 /\ ui' = "test"
      BY <2>2 DEF WritesOn
    <3>3. Untouched'
      BY <3>2 DEF Untouched
    <3>4. Noticed'
      BY <1>1, <2>1, <3>1, <3>2 DEF Noticed
    <3>5. LateOnce'
      BY <2>1, <3>1, <3>2 DEF LateOnce, Late
    <3> QED  BY <3>3, <3>4, <3>5 DEF Place
  <2>3. CASE WritesLast
    BY <2>3 DEF WritesLast, Place, Untouched, Noticed, LateOnce, Saving
  <2> QED  BY <1>6, <2>2, <2>3, WriteIs
<1>7. ASSUME NEW port, NEW game, NEW edits, Reads(port, game, edits) PROVE Place'
  <2>1. CASE Begun(port, game)
    <3>1. /\ last'.before = stored[sel] /\ last'.late = 0 /\ UNCHANGED <<stored, sel>>
          /\ save'.step = 1 /\ ui' = "test"
      BY <1>7, <2>1, ReadsIs DEF Tried, Reads, Begun
    <3> QED  BY <3>1 DEF Place, Untouched, Noticed, LateOnce
  <2>2. CASE Refused
    BY <2>2 DEF Refused, Place, Untouched, Noticed, LateOnce, Saving
  <2> QED  BY <1>7, <2>1, <2>2, ReadsIs
<1>8. ASSUME NEW s \in Servers, Check(s) PROVE Place'
  <2>1. /\ UNCHANGED <<stored, sel, ui, save>> /\ last'.before = last.before
        /\ \/ /\ monitor'[s] = "busy" /\ \A z \in Servers \ {s} : monitor'[z] = monitor[z]
              /\ last'.late = last.late
              /\ last'.raced <=> last.raced \/ (s = save.sc /\ (ui = "write" \/ save.step > 1))
           \/ /\ monitor'[s] # "busy" /\ \A z \in Servers \ {s} : monitor'[z] = monitor[z]
              /\ last'.late = (IF s = save.sc THEN 0 ELSE last.late)
              /\ last'.raced = last.raced
    BY <1>8, CheckIs
  <2>2. Saving => save.sc = sel /\ sel \in Servers
    BY DEF IInv, Locals, Shapes
  <2>3. Untouched'
    BY <1>1, <2>1 DEF Untouched, Saving
  <2>4. ASSUME ui = "write" \/ (ui = "test" /\ save.step > 1), monitor'[sel] = "busy"
        PROVE  last'.raced
    <3>1. sel \in Servers /\ save.sc = sel
      BY <2>2, <2>4 DEF Saving
    <3>2. CASE s = sel
      BY <2>1, <2>4, <3>1, <3>2
    <3>3. CASE s # sel
      <4>1. monitor[sel] = "busy"
        BY <2>1, <2>4, <3>1, <3>3
      <4>2. last.raced
        BY <1>1, <2>4, <4>1 DEF Noticed
      <4> QED  BY <2>1, <3>1, <3>3, <4>2
    <3> QED  BY <3>2, <3>3
  <2>5. LateOnce'
    BY <1>1, <2>1, <2>2 DEF LateOnce, Saving
  <2> QED  BY <2>1, <2>3, <2>4, <2>5 DEF Place, Noticed
<1>9. ASSUME NEW f \in Fields, NEW text \in Texts[f], Edit(f, text) PROVE Place'
  <2>1. UNCHANGED ui /\ ui = "idle"
    BY <1>9, EditIs
  <2> QED  BY <2>1 DEF Place, Untouched, Noticed, LateOnce, Saving
<1>10. CASE UNCHANGED vars
  BY <1>1, <1>10 DEF vars, Place, Untouched, Noticed, LateOnce, Saving
<1> QED  BY <1>2, <1>3, <1>4, <1>5, <1>6, <1>7, <1>8, <1>9, <1>10, StepIs DEF Kinds

(* How an Update may end. *)
LEMMA OutcomeStep == ASSUME IInv, [Next]_vars PROVE AllOrNothing' /\ OnlyEdited'
<1> DEFINE Good == AllOrNothing /\ OnlyEdited
<1>1. AllOrNothing /\ OnlyEdited
  BY DEF IInv
<1>2. ASSUME last'.outcome = "none" PROVE Good'
  BY <1>2 DEF AllOrNothing, OnlyEdited
<1>3. CASE Refreshes
  <2>1. last'.outcome = "none"
    BY <1>3 DEF Refreshes, Forget, NoOutcome, IInv, Locals
  <2> QED  BY <1>2, <2>1
<1>4. CASE Asks
  BY <1>2, <1>4, AsksIs
<1>5. CASE Passes
  BY <1>1, <1>5 DEF Passes, AllOrNothing, OnlyEdited
<1>6. CASE Fails
  <2>1. /\ last'.outcome = "failed" /\ last'.before = last.before /\ last'.raced = last.raced
        /\ UNCHANGED <<stored, sel>>
    BY <1>6, LastIs DEF Leaves, Fails
  <2>2. ASSUME ~last.raced PROVE stored[sel] = last.before
    <3>1. Saving /\ save.sc = sel
      BY <1>6 DEF Fails, IInv, Locals, Saving
    <3>2. save.step = 1
      <4>1. save.step \in 1..8
        BY DEF IInv, Shapes, SaveTyped
      <4>2. ui = "test" /\ save.step > 1 => monitor[sel] # "busy"
        BY <2>2 DEF IInv, Noticed
      <4> QED  BY <1>6, <3>1, <4>1, <4>2 DEF Fails
    <3> QED  BY <3>1, <3>2 DEF IInv, Untouched
  <2>3. AllOrNothing'
    BY <2>1, <2>2 DEF AllOrNothing
  <2>4. OnlyEdited'
    BY <2>1 DEF OnlyEdited
  <2> QED  BY <2>3, <2>4
<1>7. CASE Write
  <2>1. ui = "write" /\ Saving /\ last.outcome = "none" /\ sel' = sel
    BY <1>7 DEF Write, Saving, IInv, Locals
  <2>2. CASE WritesOn
    BY <1>2, <2>1, <2>2, LastIs DEF Leaves
  <2>3. CASE WritesLast
    <3>1. last'.outcome = "saved" /\ last'.before = last.before /\ last'.edits = last.edits
      BY <2>3, LastIs DEF Leaves
    <3>2. \A f \in Fields : stored'[sel][f] \in {stored[sel][f], Meant(save.text, f)}
      BY <1>7, WriteIs DEF Written
    <3>3. ASSUME NEW f \in Fields \ last.edits, ~Lossy(f) PROVE stored'[sel][f] = last.before[f]
      <4>1. stored[sel][f] = last.before[f] /\ Meant(save.text, f) = last.before[f]
        BY <2>1, <3>3 DEF IInv, Restores
      <4> QED  BY <3>2, <4>1
    <3>4. OnlyEdited'
      BY <2>1, <3>1, <3>3 DEF OnlyEdited, Lossy
    <3>5. AllOrNothing'
      BY <3>1 DEF AllOrNothing
    <3> QED  BY <3>4, <3>5
  <2> QED  BY <1>7, <2>2, <2>3, WriteIs
<1>8. ASSUME NEW port, NEW game, NEW edits, Reads(port, game, edits) PROVE Good'
  <2>1. CASE Begun(port, game)
    BY <1>2, <2>1 DEF Begun
  <2>2. CASE Refused
    <3>1. last'.before = stored[sel] /\ last'.outcome = "failed" /\ UNCHANGED <<stored, sel>>
      BY <1>8, <2>2, ReadsIs DEF Tried, Refused, Reads
    <3> QED  BY <3>1 DEF AllOrNothing, OnlyEdited
  <2> QED  BY <1>8, <2>1, <2>2, ReadsIs
<1>9. ASSUME NEW s \in Servers, Check(s) PROVE Good'
  <2>1. CASE last.outcome = "none"
    BY <1>2, <1>9, <2>1, CheckIs
  <2>2. CASE last.outcome # "none"
    <3>1. ui = "idle"
      BY <2>2 DEF IInv, Locals, Shapes, Saving
    <3>2. save.sc = "none" /\ s # "none"
      BY <3>1, SettingsAssumption DEF IInv, Locals
    <3>3. /\ UNCHANGED <<stored, sel>> /\ last'.outcome = last.outcome
          /\ last'.before = last.before /\ last'.edits = last.edits
          /\ (last'.raced <=> last.raced)
      BY <1>9, <3>2, CheckIs
    <3> QED  BY <1>1, <3>3 DEF AllOrNothing, OnlyEdited
  <2> QED  BY <2>1, <2>2
<1>10. ASSUME NEW f \in Fields, NEW text \in Texts[f], Edit(f, text) PROVE Good'
  <2>1. last'.outcome = "none"
    <3>1. last' = NoOutcome
      BY <1>10, EditIs
    <3> QED  BY <3>1 DEF NoOutcome
  <2> QED  BY <1>2, <2>1
<1>11. CASE UNCHANGED vars
  BY <1>1, <1>11 DEF vars, AllOrNothing, OnlyEdited
<1> QED
  BY <1>3, <1>4, <1>5, <1>6, <1>7, <1>8, <1>9, <1>10, <1>11, StepIs DEF Kinds

LEMMA IInvStep == IInv /\ [Next]_vars => IInv'
<1> SUFFICES ASSUME IInv, [Next]_vars PROVE IInv'
  OBVIOUS
<1>1. Shapes' /\ Faithful' /\ Locals' /\ Restores'
  BY ShapesStep, FaithfulStep, LocalsStep, RestoresStep
<1>2. Untouched' /\ Noticed' /\ LateOnce'
  BY PlaceStep DEF Place
<1> QED  BY <1>1, <1>2, OutcomeStep DEF IInv

(* The inductive invariant holds for any servers, host names, texts and widths. *)
THEOREM Invariance == Spec => []IInv
BY InitIs, IInvStep, PTL DEF Spec

(* Settings, texts and the setter in turn have their types: a port and the waits in
   milliseconds stay in their widths (Control.h), whatever is typed. *)
THEOREM TypeCorrect == Spec => []TypeOK
<1>1. IInv => TypeOK
  BY IInvTypes
<1> QED  BY <1>1, Invariance, PTL

(* OnBnClickedUpdate: an Update that fails has changed nothing, unless the monitor set
   busy in the middle of it. *)
THEOREM AllOrNothingCorrect == Spec => []AllOrNothing
<1>1. IInv => AllOrNothing
  BY DEF IInv
<1> QED  BY <1>1, Invariance, PTL

(* The setters' test of busy: a monitor that is busy meets at most one late write. *)
THEOREM OneLateWriteCorrect == Spec => []OneLateWrite
<1>1. IInv => OneLateWrite
  BY IInvTypes
<1> QED  BY <1>1, Invariance, PTL

(* OnUpdate and OnBnClickedUpdate: what was not edited survives being shown and read,
   but for a port of USHRT_MAX, times never set and parts of seconds. *)
THEOREM OnlyEditedCorrect == Spec => []OnlyEdited
<1>1. IInv => OnlyEdited
  BY DEF IInv
<1> QED  BY <1>1, Invariance, PTL

(* OnUpdate: while Update is disabled the fields show the selected server's settings. *)
THEOREM PaneTruthCorrect == Spec => []PaneTruth
<1>1. IInv => PaneTruth
  BY IInvPaneTruth
<1> QED  BY <1>1, Invariance, PTL
=============================================================================
