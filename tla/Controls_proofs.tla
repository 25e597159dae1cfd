--------------------------- MODULE Controls_proofs --------------------------
(***************************************************************************)
(* What holds of the keyboard row, the turbo switch and the tray's menu,   *)
(* for every set of colours and positions and for queues of any length.    *)
(***************************************************************************)
EXTENDS Controls, TLAPS

-----------------------------------------------------------------------------
(* What is on its way between the two clients and the daemon. *)

Widgets == [on : BOOLEAN, colour : Colours \cup {None},
            percent : Percents \cup {None}, turbo : BOOLEAN]
Keyboards == [on : BOOLEAN, colour : Colours, percent : Percents]
States == [keyboard : Keyboards, turbo : BOOLEAN]
Wishes ==
    [kind : {"on", "turbo"}, value : BOOLEAN]
    \cup [kind : {"colour"}, value : Colours] \cup [kind : {"percent"}, value : Percents]
Callers == {"window", "tray"}
Calls ==
    [from : Callers, kind : {"on"}, value : BOOLEAN]
    \cup [from : {"window"}, kind : {"turbo"}, value : BOOLEAN]
    \cup [from : {"window"}, kind : {"colour"}, value : Colours]
    \cup [from : {"window"}, kind : {"percent"}, value : Percents]
Messages ==
    [kind : {"here"}, state : States] \cup [kind : {"keyboard"}, state : Keyboards]
    \cup [kind : {"turbo"}, state : BOOLEAN] \cup [kind : {"gone"}]
    \cup [kind : {"error"}, to : Callers]

ControlTypes ==
    /\ widget \in Widgets /\ pending \in Percents \cup {None}
    /\ cache \in States \cup {None} /\ (here <=> cache # None)
    /\ here \in BOOLEAN /\ resync \in BOOLEAN /\ half \in BOOLEAN
    /\ up \in BOOLEAN /\ turbo \in BOOLEAN /\ doubt \in BOOLEAN
    /\ tray \in [here : BOOLEAN, on : BOOLEAN \cup {None}]
    /\ tray.here => tray.on \in BOOLEAN
    /\ keyboard \in Keyboards
    /\ toDaemon \in Seq(Calls) /\ toClient \in Seq(Messages)
    /\ half => toClient # <<>> /\ toClient[1].kind # "error"
    /\ owed \in Wishes \cup {None}

(* The menu is the one of the client's last state, but for a host that has still *)
(* to read it.                                                                   *)
MenuFollows ==
    /\ items = Build(tray)
    /\ menu # None /\ ~stale => menu = items

(* The news of the daemon's name, of its backlight and of its turbo state: which *)
(* message is the last of its kinds, and whether none of them comes after the    *)
(* first n messages.                                                             *)
Arrivals == {"here", "gone"}
Backlights == {"here", "gone", "keyboard"}
Turbos == {"here", "gone", "turbo"}
LastOf(kinds, q, i) ==
    q[i].kind \in kinds /\ \A j \in 1 .. Len(q) : j > i => q[j].kind \notin kinds
Over(kinds, q, n) == \A i \in 1 .. Len(q) : i > n => q[i].kind \notin kinds

BacklightIn(m) == IF m.kind = "here" THEN m.state.keyboard ELSE m.state
TurboIn(m) == IF m.kind = "here" THEN m.state.turbo ELSE m.state

(* The last news on their way of a daemon that runs (on) with backlight k and *)
(* turbo state t are true.                                                    *)
NewsFits(q, on, k, t) ==
    /\ \A i \in 1 .. Len(q) : LastOf(Arrivals, q, i) => (on <=> q[i].kind = "here")
    /\ on => \A i \in 1 .. Len(q) :
                LastOf(Backlights, q, i) => q[i].kind # "gone" /\ BacklightIn(q[i]) = k
    /\ on => \A i \in 1 .. Len(q) :
                LastOf(Turbos, q, i) => q[i].kind # "gone" /\ TurboIn(q[i]) = t

(* A client for whom no more news are on their way has what is true: the window *)
(* its cache, the tray its mark.                                                *)
WindowKnows(q, n, on, k, t, has) ==
    /\ Over(Arrivals, q, n) => (on <=> has # None)
    /\ on /\ Over(Backlights, q, n) => has.keyboard = k
    /\ on /\ Over(Turbos, q, n) => has.turbo = t
TrayKnows(q, n, on, k, sees) ==
    /\ Over(Arrivals, q, n) => (on <=> sees.here)
    /\ on /\ Over(Backlights, q, n) => sees.on = k.on

(* The tray's client has taken the first message already while half is TRUE. *)
Taken == IF half THEN 1 ELSE 0

NewsIsTrue ==
    /\ NewsFits(toClient, up, keyboard, turbo)
    /\ WindowKnows(toClient, 0, up, keyboard, turbo, cache)
    /\ TrayKnows(toClient, Taken, up, keyboard, tray)

(* The window agrees with the daemon, or something is still to happen: a message *)
(* that makes it look, or a call of its own.                                     *)
Concerns(m) == m.kind # "error" \/ m.to = "window"
Settled ==
    /\ up /\ ~doubt /\ ~resync
    /\ \A i \in 1 .. Len(toClient) : ~Concerns(toClient[i])
RowAgrees(k) == widget.on = k.on /\ widget.colour = k.colour /\ widget.percent = k.percent
OwnCall(q) == \E i \in 1 .. Len(q) : q[i].from = "window" /\ q[i].kind # "turbo"
LastTurbo(q, v) ==
    \E i \in 1 .. Len(q) : /\ q[i].kind = "turbo" /\ q[i].value = v
                           /\ \A j \in 1 .. Len(q) : j > i => q[j].kind # "turbo"
AgreesInTheEnd ==
    Settled => /\ pending # None \/ RowAgrees(keyboard) \/ OwnCall(toDaemon)
               /\ widget.turbo = turbo \/ LastTurbo(toDaemon, widget.turbo)

(* The last choice waits for the slider's timer, is obeyed already or is on its *)
(* way, and nothing that waits or comes after it undoes it.                     *)
Obeyed(w, k, t) == IF w.kind = "turbo" THEN t = w.value ELSE k = Obeying(k, w)
Bearing(w) == w.kind # "percent" /\ ~(w.kind = "on" /\ w.value = FALSE)
Waits(w, p) == w.kind = "percent" /\ p = w.value
OnlyPositions(q, w) == \A i \in 1 .. Len(q) : q[i].kind = "percent" /\ Bearing(w)
Comes(q, w) ==
    \E i \in 1 .. Len(q) : /\ q[i].kind = w.kind /\ q[i].value = w.value
                           /\ \A j \in 1 .. Len(q) : j > i => q[j].kind = "percent" /\ Bearing(w)
ChoiceOnItsWay ==
    owed # None =>
        /\ pending # None => Waits(owed, pending) \/ Bearing(owed)
        /\ \/ Waits(owed, pending)
           \/ Obeyed(owed, keyboard, turbo) /\ OnlyPositions(toDaemon, owed)
           \/ Comes(toDaemon, owed)

ControlInv ==
    /\ ControlTypes /\ MenuFollows /\ NewsIsTrue /\ SliderIsWhatWeSend
    /\ AgreesInTheEnd /\ ChoiceOnItsWay

-----------------------------------------------------------------------------
(* Calls and messages. *)

LEMMA NoNones == None \notin Percents /\ None \notin States
  BY ParameterAssumption DEF States, Keyboards

LEMMA MessagesAre ==
    /\ [kind |-> "gone"] \in Messages
    /\ \A c \in Callers : [kind |-> "error", to |-> c] \in Messages
    /\ \A s \in States : [kind |-> "here", state |-> s] \in Messages
    /\ \A s \in Keyboards : [kind |-> "keyboard", state |-> s] \in Messages
    /\ \A s \in BOOLEAN : [kind |-> "turbo", state |-> s] \in Messages
  BY DEF Messages

LEMMA MessagesHave ==
    ASSUME NEW m \in Messages
    PROVE  /\ m.kind \in {"here", "gone", "keyboard", "turbo", "error"}
           /\ m.kind = "here" => m.state \in States
           /\ m.kind = "keyboard" => m.state \in Keyboards
           /\ m.kind = "turbo" => m.state \in BOOLEAN
           /\ m.kind = "error" => m.to \in Callers
  BY DEF Messages

LEMMA CallsAre ==
    /\ \A v \in BOOLEAN : /\ [from |-> "window", kind |-> "on", value |-> v] \in Calls
                          /\ [from |-> "tray", kind |-> "on", value |-> v] \in Calls
                          /\ [from |-> "window", kind |-> "turbo", value |-> v] \in Calls
    /\ \A v \in Colours : [from |-> "window", kind |-> "colour", value |-> v] \in Calls
    /\ \A v \in Percents : [from |-> "window", kind |-> "percent", value |-> v] \in Calls
  BY DEF Calls, Callers

LEMMA CallsHave ==
    ASSUME NEW c \in Calls
    PROVE  /\ c.kind \in {"on", "turbo", "colour", "percent"} /\ c.from \in Callers
           /\ c.kind # "on" => c.from = "window"
           /\ c.kind \in {"on", "turbo"} => c.value \in BOOLEAN
           /\ c.kind = "colour" => c.value \in Colours
           /\ c.kind = "percent" => c.value \in Percents
  BY DEF Calls, Callers

LEMMA ObeyingIsTyped ==
    ASSUME NEW k \in Keyboards, NEW c, c.kind \in {"on", "colour", "percent"},
           c.kind = "on" => c.value \in BOOLEAN,
           c.kind = "colour" => c.value \in Colours,
           c.kind = "percent" => c.value \in Percents
    PROVE  Obeying(k, c) \in Keyboards
  BY DEF Obeying, Keyboards

-----------------------------------------------------------------------------
(* The news among messages: what appending a message, or taking one, does. *)

(* A message of another kind. *)
LEMMA OtherAppended ==
    ASSUME NEW q \in Seq(Messages), NEW m \in Messages, NEW kinds, m.kind \notin kinds, NEW n \in Nat
    PROVE  LET r == Append(q, m)
           IN  /\ \A i \in 1 .. Len(r) :
                      LastOf(kinds, r, i) => i \in 1 .. Len(q) /\ r[i] = q[i] /\ LastOf(kinds, q, i)
               /\ Over(kinds, r, n) => Over(kinds, q, n)
<1> DEFINE r == Append(q, m)
<1>1. /\ Len(q) \in Nat /\ Len(r) = Len(q) + 1 /\ r[Len(q) + 1] = m
      /\ \A i \in 1 .. Len(q) : r[i] = q[i]
  OBVIOUS
<1> HIDE DEF r
<1>2. \A i \in 1 .. Len(r) : i \in 1 .. Len(q) \/ i = Len(q) + 1
  BY <1>1
<1>3. \A i \in 1 .. Len(q) : i \in 1 .. Len(r)
  BY <1>1
<1>4. \A i \in 1 .. Len(r) :
          LastOf(kinds, r, i) => i \in 1 .. Len(q) /\ r[i] = q[i] /\ LastOf(kinds, q, i)
  BY <1>1, <1>2, <1>3 DEF LastOf
<1>5. Over(kinds, r, n) => Over(kinds, q, n)
  BY <1>1, <1>3 DEF Over
<1> QED BY <1>4, <1>5 DEF r

(* One of these kinds is the last news. *)
LEMMA NewsAppended ==
    ASSUME NEW q \in Seq(Messages), NEW m \in Messages, NEW kinds, m.kind \in kinds,
           NEW n \in 0 .. Len(q)
    PROVE  LET r == Append(q, m)
           IN  /\ \A i \in 1 .. Len(r) : LastOf(kinds, r, i) => r[i] = m
               /\ ~Over(kinds, r, n)
<1> DEFINE r == Append(q, m)
<1>1. /\ Len(q) \in Nat /\ Len(r) = Len(q) + 1 /\ r[Len(q) + 1] = m
      /\ \A i \in 1 .. Len(q) : r[i] = q[i]
  OBVIOUS
<1> HIDE DEF r
<1>2. \A i \in 1 .. Len(r) : i \in 1 .. Len(q) \/ i = Len(q) + 1
  BY <1>1
<1>3. /\ Len(q) + 1 \in 1 .. Len(r) /\ Len(q) + 1 > n
      /\ \A i \in 1 .. Len(q) : i \in 1 .. Len(r) /\ Len(q) + 1 > i
  BY <1>1
<1>4. \A i \in 1 .. Len(r) : LastOf(kinds, r, i) => r[i] = m
  BY <1>1, <1>2, <1>3 DEF LastOf
<1>5. ~Over(kinds, r, n)
  BY <1>1, <1>3 DEF Over
<1> QED BY <1>4, <1>5 DEF r

(* The daemon's end, followed by an error for each call it has not answered. *)
Ended(q, calls) ==
    q \o <<[kind |-> "gone"]>> \o [i \in 1 .. Len(calls) |-> [kind |-> "error", to |-> calls[i].from]]

LEMMA EndIsTyped ==
    ASSUME NEW q \in Seq(Messages), NEW calls \in Seq(Calls)
    PROVE  /\ Ended(q, calls) \in Seq(Messages)
           /\ Len(Ended(q, calls)) = Len(q) + 1 + Len(calls)
           /\ \A i \in 1 .. Len(q) : Ended(q, calls)[i] = q[i]
           /\ Ended(q, calls)[Len(q) + 1] = [kind |-> "gone"]
           /\ \A i \in 1 .. Len(Ended(q, calls)) : i > Len(q) + 1 => Ended(q, calls)[i].kind = "error"
<1> DEFINE m == [kind |-> "gone"]
           es == [i \in 1 .. Len(calls) |-> [kind |-> "error", to |-> calls[i].from]]
           h == q \o <<m>>
           r == h \o es
<1>1. m \in Messages
  BY MessagesAre
<1>2. Ended(q, calls) = r
  BY DEF Ended
<1>3. Len(calls) \in Nat
  OBVIOUS
<1>4. \A i \in 1 .. Len(calls) : es[i] \in Messages /\ es[i].kind = "error"
  <2> TAKE i \in 1 .. Len(calls)
  <2>1. calls[i].from \in Callers
    BY CallsHave
  <2> QED BY <2>1, MessagesAre
<1> HIDE DEF m
<1>5. es \in Seq(Messages) /\ Len(es) = Len(calls)
  BY <1>4, <1>3
<1>6. /\ h \in Seq(Messages) /\ Len(q) \in Nat /\ Len(h) = Len(q) + 1 /\ h[Len(q) + 1] = m
      /\ \A i \in 1 .. Len(q) : h[i] = q[i]
  BY <1>1
<1> HIDE DEF h, es
<1>7. /\ r \in Seq(Messages) /\ Len(r) = Len(h) + Len(es)
      /\ \A i \in 1 .. Len(h) : r[i] = h[i]
      /\ \A i \in 1 .. Len(es) : r[Len(h) + i] = es[i]
  <2>1. h \in Seq(Messages) /\ es \in Seq(Messages)
    BY <1>5, <1>6
  <2> QED BY <2>1
<1> HIDE DEF r
<1>8. Len(r) = Len(q) + 1 + Len(calls) /\ r[Len(q) + 1] = m /\ \A i \in 1 .. Len(q) : r[i] = q[i]
  BY <1>5, <1>6, <1>7, <1>3
<1>9. \A i \in 1 .. Len(r) : i > Len(q) + 1 => r[i].kind = "error"
  <2> SUFFICES ASSUME NEW i \in 1 .. Len(r), i > Len(q) + 1 PROVE r[i].kind = "error"
    OBVIOUS
  <2> DEFINE j == i - Len(h)
  <2>1. j \in 1 .. Len(es) /\ i = Len(h) + j
    BY <1>5, <1>6, <1>7, <1>3
  <2> HIDE DEF j
  <2>2. r[i] = es[j]
    BY <1>7, <2>1
  <2>3. es[j].kind = "error"
    BY <1>5, <1>4, <2>1
  <2> QED BY <2>2, <2>3
<1> QED BY <1>2, <1>7, <1>8, <1>9 DEF m

LEMMA EndAppended ==
    ASSUME NEW q \in Seq(Messages), NEW calls \in Seq(Calls), NEW kinds, "gone" \in kinds,
           "error" \notin kinds, NEW n \in 0 .. Len(q)
    PROVE  /\ \A i \in 1 .. Len(Ended(q, calls)) :
                  LastOf(kinds, Ended(q, calls), i) => Ended(q, calls)[i] = [kind |-> "gone"]
           /\ ~Over(kinds, Ended(q, calls), n)
<1> DEFINE r == Ended(q, calls)
           g == Len(q) + 1
<1>1. /\ Len(q) \in Nat /\ Len(r) \in Nat /\ g \in 1 .. Len(r) /\ g > n
      /\ r[g] = [kind |-> "gone"]
      /\ \A i \in 1 .. Len(r) : i > g => r[i].kind = "error"
  <2>1. Len(q) \in Nat /\ Len(calls) \in Nat /\ Len(r) = Len(q) + 1 + Len(calls)
    BY EndIsTyped
  <2>2. /\ r[g] = [kind |-> "gone"]
        /\ \A i \in 1 .. Len(r) : i > g => r[i].kind = "error"
    BY EndIsTyped
  <2>3. Len(r) \in Nat /\ g \in 1 .. Len(r) /\ g > n
    BY <2>1
  <2> QED BY <2>1, <2>2, <2>3
<1> HIDE DEF r, g
<1>2. \A i \in 1 .. Len(r) : LastOf(kinds, r, i) => r[i] = [kind |-> "gone"]
  <2> SUFFICES ASSUME NEW i \in 1 .. Len(r), LastOf(kinds, r, i) PROVE r[i] = [kind |-> "gone"]
    OBVIOUS
  <2>1. g \in Nat /\ i \in Nat
    BY <1>1
  <2>2. ~(i > g)
    BY <1>1 DEF LastOf
  <2>3. ~(g > i)
    BY <1>1 DEF LastOf
  <2>4. i = g
    BY <2>1, <2>2, <2>3
  <2> QED BY <1>1, <2>4
<1>3. ~Over(kinds, r, n)
  BY <1>1 DEF Over
<1> QED BY <1>2, <1>3 DEF r

(* Taking the first message. *)
LEMMA FirstTaken ==
    ASSUME NEW q \in Seq(Messages), q # <<>>, NEW kinds
    PROVE  /\ Tail(q) \in Seq(Messages) /\ Head(q) = q[1] /\ q[1] \in Messages /\ 1 \in 1 .. Len(q)
           /\ \A i \in 1 .. Len(Tail(q)) :
                  LastOf(kinds, Tail(q), i) => \E k \in 1 .. Len(q) : Tail(q)[i] = q[k] /\ LastOf(kinds, q, k)
           /\ Over(kinds, Tail(q), 0) => Over(kinds, q, 1)
           /\ Over(kinds, q, 1) /\ q[1].kind \in kinds => LastOf(kinds, q, 1)
           /\ Over(kinds, q, 1) /\ q[1].kind \notin kinds => Over(kinds, q, 0)
<1> DEFINE t == Tail(q)
<1>1. /\ Len(q) \in Nat \ {0} /\ Len(t) = Len(q) - 1 /\ t \in Seq(Messages)
      /\ \A i \in 1 .. Len(t) : t[i] = q[i + 1]
      /\ Head(q) = q[1] /\ q[1] \in Messages
  OBVIOUS
<1> HIDE DEF t
<1>2. /\ \A i \in 1 .. Len(q) : i > 1 => (i - 1 \in 1 .. Len(t) /\ t[i - 1] = q[i] /\ i - 1 > 0)
      /\ \A i \in 1 .. Len(t) : i + 1 \in 1 .. Len(q)
      /\ 1 \in 1 .. Len(q)
      /\ \A i \in 1 .. Len(q) : i = 1 \/ i > 1
  BY <1>1
<1>3. ASSUME NEW i \in 1 .. Len(t), LastOf(kinds, t, i)
      PROVE  t[i] = q[i + 1] /\ LastOf(kinds, q, i + 1)
  <2>1. \A j \in 1 .. Len(q) : j > i + 1 => j > 1 /\ j - 1 > i
    BY <1>1
  <2> QED BY <1>1, <1>2, <1>3, <2>1 DEF LastOf
<1>4. Over(kinds, t, 0) => Over(kinds, q, 1)
  BY <1>1, <1>2 DEF Over
<1>5. Over(kinds, q, 1) /\ q[1].kind \in kinds => LastOf(kinds, q, 1)
  BY <1>2 DEF Over, LastOf
<1>6. Over(kinds, q, 1) /\ q[1].kind \notin kinds => Over(kinds, q, 0)
  BY <1>2 DEF Over
<1> QED BY <1>1, <1>2, <1>3, <1>4, <1>5, <1>6 DEF t

(* Errors are no news. *)
LEMMA ErrorIsNoNews ==
    ASSUME NEW q \in Seq(Messages), NEW m \in Messages, m.kind = "error", NEW n \in Nat,
           NEW on, NEW k, NEW t, NEW has, NEW sees
    PROVE  /\ NewsFits(q, on, k, t) => NewsFits(Append(q, m), on, k, t)
           /\ WindowKnows(q, 0, on, k, t, has) => WindowKnows(Append(q, m), 0, on, k, t, has)
           /\ TrayKnows(q, n, on, k, sees) => TrayKnows(Append(q, m), n, on, k, sees)
<1> DEFINE r == Append(q, m)
<1>1. m.kind \notin Arrivals /\ m.kind \notin Backlights /\ m.kind \notin Turbos
  BY DEF Arrivals, Backlights, Turbos
<1>2. \A i \in 1 .. Len(r) :
          LastOf(Arrivals, r, i) => i \in 1 .. Len(q) /\ r[i] = q[i] /\ LastOf(Arrivals, q, i)
  BY <1>1, OtherAppended
<1>3. \A i \in 1 .. Len(r) :
          LastOf(Backlights, r, i) => i \in 1 .. Len(q) /\ r[i] = q[i] /\ LastOf(Backlights, q, i)
  BY <1>1, OtherAppended
<1>4. \A i \in 1 .. Len(r) :
          LastOf(Turbos, r, i) => i \in 1 .. Len(q) /\ r[i] = q[i] /\ LastOf(Turbos, q, i)
  BY <1>1, OtherAppended
<1>5. \A p \in Nat : /\ Over(Arrivals, r, p) => Over(Arrivals, q, p)
                     /\ Over(Backlights, r, p) => Over(Backlights, q, p)
                     /\ Over(Turbos, r, p) => Over(Turbos, q, p)
  BY <1>1, OtherAppended
<1> HIDE DEF r
<1>6. NewsFits(q, on, k, t) => NewsFits(r, on, k, t)
  BY <1>2, <1>3, <1>4 DEF NewsFits
<1>7. WindowKnows(q, 0, on, k, t, has) => WindowKnows(r, 0, on, k, t, has)
  BY <1>5 DEF WindowKnows
<1>8. TrayKnows(q, n, on, k, sees) => TrayKnows(r, n, on, k, sees)
  BY <1>5 DEF TrayKnows
<1> QED BY <1>6, <1>7, <1>8 DEF r

LEMMA BacklightIsNews ==
    ASSUME NEW q \in Seq(Messages), NEW m \in Messages, m.kind = "keyboard", NEW n \in 0 .. Len(q),
           NEW on, NEW k, NEW t, NEW has, NEW sees
    PROVE  /\ NewsFits(q, on, k, t) => NewsFits(Append(q, m), on, m.state, t)
           /\ WindowKnows(q, 0, on, k, t, has) => WindowKnows(Append(q, m), 0, on, m.state, t, has)
           /\ TrayKnows(q, n, on, k, sees) => TrayKnows(Append(q, m), n, on, m.state, sees)
<1> DEFINE r == Append(q, m)
<1>1. m.kind \notin Arrivals /\ m.kind \in Backlights /\ m.kind \notin Turbos
  BY DEF Arrivals, Backlights, Turbos
<1>2. \A i \in 1 .. Len(r) :
          LastOf(Arrivals, r, i) => i \in 1 .. Len(q) /\ r[i] = q[i] /\ LastOf(Arrivals, q, i)
  BY <1>1, OtherAppended
<1>3. \A i \in 1 .. Len(r) : LastOf(Backlights, r, i) => r[i] = m
  BY <1>1, NewsAppended
<1>4. \A i \in 1 .. Len(r) :
          LastOf(Turbos, r, i) => i \in 1 .. Len(q) /\ r[i] = q[i] /\ LastOf(Turbos, q, i)
  BY <1>1, OtherAppended
<1>5. \A p \in 0 .. Len(q) : /\ Over(Arrivals, r, p) => Over(Arrivals, q, p)
                             /\ ~Over(Backlights, r, p)
                             /\ Over(Turbos, r, p) => Over(Turbos, q, p)
  BY <1>1, OtherAppended, NewsAppended
<1>6. 0 \in 0 .. Len(q)
  OBVIOUS
<1> HIDE DEF r
<1>7. NewsFits(q, on, k, t) => NewsFits(r, on, m.state, t)
  BY <1>2, <1>3, <1>4 DEF NewsFits, BacklightIn
<1>8. WindowKnows(q, 0, on, k, t, has) => WindowKnows(r, 0, on, m.state, t, has)
  BY <1>5, <1>6 DEF WindowKnows
<1>9. TrayKnows(q, n, on, k, sees) => TrayKnows(r, n, on, m.state, sees)
  BY <1>5 DEF TrayKnows
<1> QED BY <1>7, <1>8, <1>9 DEF r

LEMMA TurboIsNews ==
    ASSUME NEW q \in Seq(Messages), NEW m \in Messages, m.kind = "turbo", NEW n \in Nat,
           NEW on, NEW k, NEW t, NEW has, NEW sees
    PROVE  /\ NewsFits(q, on, k, t) => NewsFits(Append(q, m), on, k, m.state)
           /\ WindowKnows(q, 0, on, k, t, has) => WindowKnows(Append(q, m), 0, on, k, m.state, has)
           /\ TrayKnows(q, n, on, k, sees) => TrayKnows(Append(q, m), n, on, k, sees)
<1> DEFINE r == Append(q, m)
<1>1. m.kind \notin Arrivals /\ m.kind \notin Backlights /\ m.kind \in Turbos
  BY DEF Arrivals, Backlights, Turbos
<1>2. \A i \in 1 .. Len(r) :
          LastOf(Arrivals, r, i) => i \in 1 .. Len(q) /\ r[i] = q[i] /\ LastOf(Arrivals, q, i)
  BY <1>1, OtherAppended
<1>3. \A i \in 1 .. Len(r) :
          LastOf(Backlights, r, i) => i \in 1 .. Len(q) /\ r[i] = q[i] /\ LastOf(Backlights, q, i)
  BY <1>1, OtherAppended
<1>4. \A i \in 1 .. Len(r) : LastOf(Turbos, r, i) => r[i] = m
  BY <1>1, NewsAppended
<1>5. \A p \in Nat : /\ Over(Arrivals, r, p) => Over(Arrivals, q, p)
                     /\ Over(Backlights, r, p) => Over(Backlights, q, p)
  BY <1>1, OtherAppended
<1>6. 0 \in 0 .. Len(q) /\ ~Over(Turbos, r, 0)
  BY <1>1, NewsAppended
<1> HIDE DEF r
<1>7. NewsFits(q, on, k, t) => NewsFits(r, on, k, m.state)
  BY <1>2, <1>3, <1>4 DEF NewsFits, TurboIn
<1>8. WindowKnows(q, 0, on, k, t, has) => WindowKnows(r, 0, on, k, m.state, has)
  BY <1>5, <1>6 DEF WindowKnows
<1>9. TrayKnows(q, n, on, k, sees) => TrayKnows(r, n, on, k, sees)
  BY <1>5 DEF TrayKnows
<1> QED BY <1>7, <1>8, <1>9 DEF r

LEMMA ArrivalIsNews ==
    ASSUME NEW q \in Seq(Messages), NEW m \in Messages, m.kind = "here", NEW n \in 0 .. Len(q),
           NEW has, NEW sees
    PROVE  /\ NewsFits(Append(q, m), TRUE, m.state.keyboard, m.state.turbo)
           /\ WindowKnows(Append(q, m), 0, TRUE, m.state.keyboard, m.state.turbo, has)
           /\ TrayKnows(Append(q, m), n, TRUE, m.state.keyboard, sees)
<1> DEFINE r == Append(q, m)
<1>1. m.kind \in Arrivals /\ m.kind \in Backlights /\ m.kind \in Turbos
  BY DEF Arrivals, Backlights, Turbos
<1>2. \A i \in 1 .. Len(r) : LastOf(Arrivals, r, i) => r[i] = m
  BY <1>1, NewsAppended
<1>3. \A i \in 1 .. Len(r) : LastOf(Backlights, r, i) => r[i] = m
  BY <1>1, NewsAppended
<1>4. \A i \in 1 .. Len(r) : LastOf(Turbos, r, i) => r[i] = m
  BY <1>1, NewsAppended
<1>5. \A p \in 0 .. Len(q) : ~Over(Arrivals, r, p) /\ ~Over(Backlights, r, p) /\ ~Over(Turbos, r, p)
  BY <1>1, NewsAppended
<1>6. 0 \in 0 .. Len(q)
  OBVIOUS
<1> HIDE DEF r
<1>7. NewsFits(r, TRUE, m.state.keyboard, m.state.turbo)
  BY <1>2, <1>3, <1>4 DEF NewsFits, BacklightIn, TurboIn
<1>8. WindowKnows(r, 0, TRUE, m.state.keyboard, m.state.turbo, has)
  BY <1>5, <1>6 DEF WindowKnows
<1>9. TrayKnows(r, n, TRUE, m.state.keyboard, sees)
  BY <1>5 DEF TrayKnows
<1> QED BY <1>7, <1>8, <1>9 DEF r

LEMMA EndIsNews ==
    ASSUME NEW q \in Seq(Messages), NEW calls \in Seq(Calls), NEW n \in 0 .. Len(q),
           NEW k, NEW t, NEW has, NEW sees
    PROVE  /\ NewsFits(Ended(q, calls), FALSE, k, t)
           /\ WindowKnows(Ended(q, calls), 0, FALSE, k, t, has)
           /\ TrayKnows(Ended(q, calls), n, FALSE, k, sees)
<1>1. "gone" \in Arrivals /\ "error" \notin Arrivals
  BY DEF Arrivals
<1>2. \A i \in 1 .. Len(Ended(q, calls)) :
          LastOf(Arrivals, Ended(q, calls), i) => Ended(q, calls)[i] = [kind |-> "gone"]
  BY <1>1, EndAppended
<1>3. \A p \in 0 .. Len(q) : ~Over(Arrivals, Ended(q, calls), p)
  BY <1>1, EndAppended
<1>4. 0 \in 0 .. Len(q)
  OBVIOUS
<1>5. NewsFits(Ended(q, calls), FALSE, k, t)
  BY <1>2 DEF NewsFits
<1>6. WindowKnows(Ended(q, calls), 0, FALSE, k, t, has)
  BY <1>3, <1>4 DEF WindowKnows
<1>7. TrayKnows(Ended(q, calls), n, FALSE, k, sees)
  BY <1>3 DEF TrayKnows
<1> QED BY <1>5, <1>6, <1>7

(* Taking the first message leaves the rest as true as it was. *)
LEMMA NewsStayTrue ==
    ASSUME NEW q \in Seq(Messages), q # <<>>, NEW on, NEW k, NEW t, NewsFits(q, on, k, t)
    PROVE  NewsFits(Tail(q), on, k, t)
<1>1. \A i \in 1 .. Len(Tail(q)) :
          LastOf(Arrivals, Tail(q), i)
            => \E j \in 1 .. Len(q) : Tail(q)[i] = q[j] /\ LastOf(Arrivals, q, j)
  BY FirstTaken
<1>2. \A i \in 1 .. Len(Tail(q)) :
          LastOf(Backlights, Tail(q), i)
            => \E j \in 1 .. Len(q) : Tail(q)[i] = q[j] /\ LastOf(Backlights, q, j)
  BY FirstTaken
<1>3. \A i \in 1 .. Len(Tail(q)) :
          LastOf(Turbos, Tail(q), i)
            => \E j \in 1 .. Len(q) : Tail(q)[i] = q[j] /\ LastOf(Turbos, q, j)
  BY FirstTaken
<1> DEFINE r == Tail(q)
<1> HIDE DEF r
<1>4. /\ \A i \in 1 .. Len(r) :
            LastOf(Arrivals, r, i) => \E j \in 1 .. Len(q) : r[i] = q[j] /\ LastOf(Arrivals, q, j)
      /\ \A i \in 1 .. Len(r) :
            LastOf(Backlights, r, i) => \E j \in 1 .. Len(q) : r[i] = q[j] /\ LastOf(Backlights, q, j)
      /\ \A i \in 1 .. Len(r) :
            LastOf(Turbos, r, i) => \E j \in 1 .. Len(q) : r[i] = q[j] /\ LastOf(Turbos, q, j)
  BY <1>1, <1>2, <1>3 DEF r
<1>5. \A i \in 1 .. Len(r) : LastOf(Arrivals, r, i) => (on <=> r[i].kind = "here")
  BY <1>4 DEF NewsFits
<1>6. on => \A i \in 1 .. Len(r) :
               LastOf(Backlights, r, i) => r[i].kind # "gone" /\ BacklightIn(r[i]) = k
  BY <1>4 DEF NewsFits
<1>7. on => \A i \in 1 .. Len(r) :
               LastOf(Turbos, r, i) => r[i].kind # "gone" /\ TurboIn(r[i]) = t
  BY <1>4 DEF NewsFits
<1>8. NewsFits(r, on, k, t)
  BY <1>5, <1>6, <1>7 DEF NewsFits
<1> QED BY <1>8 DEF r

(* The window's client takes the first message. *)
LEMMA SeenIsTyped ==
    ASSUME NEW has \in States \cup {None}, NEW m \in Messages, m.kind # "error"
    PROVE  /\ Seen(has, m) \in States \cup {None}
           /\ m.kind = "here" => Seen(has, m) = m.state
           /\ m.kind = "gone" => Seen(has, m) = None
           /\ m.kind = "keyboard" /\ has = None => Seen(has, m) = None
           /\ m.kind = "keyboard" /\ has # None =>
                  Seen(has, m) # None /\ Seen(has, m).keyboard = m.state /\ Seen(has, m).turbo = has.turbo
           /\ m.kind = "turbo" /\ has = None => Seen(has, m) = None
           /\ m.kind = "turbo" /\ has # None =>
                  Seen(has, m) # None /\ Seen(has, m).turbo = m.state /\ Seen(has, m).keyboard = has.keyboard
<1>1. CASE m.kind = "here"
  BY <1>1, MessagesHave DEF Seen
<1>2. CASE m.kind = "gone"
  BY <1>2 DEF Seen
<1>3. CASE m.kind = "keyboard"
  <2>1. m.state \in Keyboards
    BY <1>3, MessagesHave
  <2>2. CASE has = None
    BY <1>3, <2>2 DEF Seen
  <2>3. CASE has # None
    <3>1. has \in States /\ Seen(has, m) = [has EXCEPT !.keyboard = m.state]
      BY <1>3, <2>3 DEF Seen
    <3>2. /\ Seen(has, m) \in States
          /\ Seen(has, m).keyboard = m.state /\ Seen(has, m).turbo = has.turbo
      BY <2>1, <3>1 DEF States
    <3> QED BY <1>3, <2>3, <3>2, NoNones
  <2> QED BY <2>2, <2>3
<1>4. CASE m.kind = "turbo"
  <2>1. m.state \in BOOLEAN
    BY <1>4, MessagesHave
  <2>2. CASE has = None
    BY <1>4, <2>2 DEF Seen
  <2>3. CASE has # None
    <3>1. has \in States /\ Seen(has, m) = [has EXCEPT !.turbo = m.state]
      BY <1>4, <2>3 DEF Seen
    <3>2. /\ Seen(has, m) \in States
          /\ Seen(has, m).turbo = m.state /\ Seen(has, m).keyboard = has.keyboard
      BY <2>1, <3>1 DEF States
    <3> QED BY <1>4, <2>3, <3>2, NoNones
  <2> QED BY <2>2, <2>3
<1> QED BY <1>1, <1>2, <1>3, <1>4, MessagesHave

LEMMA WindowTakes ==
    ASSUME NEW q \in Seq(Messages), q # <<>>, NEW on \in BOOLEAN, NEW k, NEW t,
           NEW has \in States \cup {None}, q[1].kind # "error",
           NewsFits(q, on, k, t), WindowKnows(q, 0, on, k, t, has)
    PROVE  WindowKnows(Tail(q), 0, on, k, t, Seen(has, q[1]))
<1> DEFINE m == q[1]
           now == Seen(has, m)
           r == Tail(q)
<1>1. m \in Messages /\ 1 \in 1 .. Len(q)
  BY FirstTaken
<1>2. /\ Over(Arrivals, r, 0) /\ m.kind \in Arrivals => LastOf(Arrivals, q, 1)
      /\ Over(Arrivals, r, 0) /\ m.kind \notin Arrivals => Over(Arrivals, q, 0)
  BY FirstTaken
<1>3. /\ Over(Backlights, r, 0) /\ m.kind \in Backlights => LastOf(Backlights, q, 1)
      /\ Over(Backlights, r, 0) /\ m.kind \notin Backlights => Over(Backlights, q, 0)
  BY FirstTaken
<1>4. /\ Over(Turbos, r, 0) /\ m.kind \in Turbos => LastOf(Turbos, q, 1)
      /\ Over(Turbos, r, 0) /\ m.kind \notin Turbos => Over(Turbos, q, 0)
  BY FirstTaken
<1>5. (Over(Backlights, r, 0) \/ Over(Turbos, r, 0)) => Over(Arrivals, r, 0)
  BY DEF Over, Arrivals, Backlights, Turbos
<1>6. m.kind \in {"here", "gone", "keyboard", "turbo"}
  BY <1>1, MessagesHave
<1>7. /\ m.kind = "here" => now = m.state /\ m.state # None
      /\ m.kind = "gone" => now = None
      /\ m.kind = "keyboard" /\ has = None => now = None
      /\ m.kind = "keyboard" /\ has # None =>
             now # None /\ now.keyboard = m.state /\ now.turbo = has.turbo
      /\ m.kind = "turbo" /\ has = None => now = None
      /\ m.kind = "turbo" /\ has # None =>
             now # None /\ now.turbo = m.state /\ now.keyboard = has.keyboard
  BY <1>1, SeenIsTyped, MessagesHave, NoNones
<1> HIDE DEF now, r, m
<1>8. m = q[1]
  BY DEF m
<1>9. Over(Arrivals, r, 0) => (on <=> now # None)
  <2> SUFFICES ASSUME Over(Arrivals, r, 0) PROVE on <=> now # None
    OBVIOUS
  <2>1. CASE m.kind \in Arrivals
    <3>1. on <=> m.kind = "here"
      BY <1>1, <1>2, <1>8, <2>1 DEF NewsFits
    <3> QED BY <1>7, <2>1, <3>1 DEF Arrivals
  <2>2. CASE m.kind \notin Arrivals
    <3>1. on <=> has # None
      BY <1>2, <2>2 DEF WindowKnows
    <3>2. m.kind \in {"keyboard", "turbo"}
      BY <1>6, <2>2 DEF Arrivals
    <3> QED BY <1>7, <3>1, <3>2
  <2> QED BY <2>1, <2>2
<1>10. on /\ Over(Backlights, r, 0) => now.keyboard = k
  <2> SUFFICES ASSUME on, Over(Backlights, r, 0) PROVE now.keyboard = k
    OBVIOUS
  <2>1. now # None
    BY <1>5, <1>9
  <2>2. CASE m.kind \in Backlights
    <3>1. m.kind # "gone" /\ BacklightIn(m) = k
      BY <1>1, <1>3, <1>8, <2>2 DEF NewsFits
    <3>2. m.kind \in {"here", "keyboard"}
      BY <2>2, <3>1 DEF Backlights
    <3> QED BY <1>7, <2>1, <3>1, <3>2 DEF BacklightIn
  <2>3. CASE m.kind \notin Backlights
    <3>1. has.keyboard = k
      BY <1>3, <2>3 DEF WindowKnows
    <3>2. m.kind = "turbo"
      BY <1>6, <2>3 DEF Backlights
    <3> QED BY <1>7, <2>1, <3>1, <3>2
  <2> QED BY <2>2, <2>3
<1>11. on /\ Over(Turbos, r, 0) => now.turbo = t
  <2> SUFFICES ASSUME on, Over(Turbos, r, 0) PROVE now.turbo = t
    OBVIOUS
  <2>1. now # None
    BY <1>5, <1>9
  <2>2. CASE m.kind \in Turbos
    <3>1. m.kind # "gone" /\ TurboIn(m) = t
      BY <1>1, <1>4, <1>8, <2>2 DEF NewsFits
    <3>2. m.kind \in {"here", "turbo"}
      BY <2>2, <3>1 DEF Turbos
    <3> QED BY <1>7, <2>1, <3>1, <3>2 DEF TurboIn
  <2>3. CASE m.kind \notin Turbos
    <3>1. has.turbo = t
      BY <1>4, <2>3 DEF WindowKnows
    <3>2. m.kind = "keyboard"
      BY <1>6, <2>3 DEF Turbos
    <3> QED BY <1>7, <2>1, <3>1, <3>2
  <2> QED BY <2>2, <2>3
<1>12. WindowKnows(r, 0, on, k, t, now)
  BY <1>9, <1>10, <1>11 DEF WindowKnows
<1> QED BY <1>12 DEF now, r, m

(* The tray's client has taken it before. *)
LEMMA TrayTakes ==
    ASSUME NEW q \in Seq(Messages), q # <<>>, NEW on \in BOOLEAN, NEW k, NEW t,
           NEW sees \in [here : BOOLEAN, on : BOOLEAN \cup {None}], q[1].kind # "error",
           NewsFits(q, on, k, t), TrayKnows(q, 0, on, k, sees),
           NEW now \in [here : BOOLEAN, on : BOOLEAN \cup {None}],
           q[1].kind = "here" => now.here /\ now.on = q[1].state.keyboard.on,
           q[1].kind = "gone" => ~now.here,
           q[1].kind = "keyboard" => now.here = sees.here /\ (sees.here => now.on = q[1].state.on),
           q[1].kind = "turbo" => now = sees
    PROVE  TrayKnows(q, 1, on, k, now)
<1> DEFINE m == q[1]
<1>1. m \in Messages /\ 1 \in 1 .. Len(q)
  BY FirstTaken
<1>2. /\ Over(Arrivals, q, 1) /\ m.kind \in Arrivals => LastOf(Arrivals, q, 1)
      /\ Over(Arrivals, q, 1) /\ m.kind \notin Arrivals => Over(Arrivals, q, 0)
  BY FirstTaken
<1>3. /\ Over(Backlights, q, 1) /\ m.kind \in Backlights => LastOf(Backlights, q, 1)
      /\ Over(Backlights, q, 1) /\ m.kind \notin Backlights => Over(Backlights, q, 0)
  BY FirstTaken
<1>4. m.kind \in {"here", "gone", "keyboard", "turbo"}
  BY <1>1, MessagesHave
<1>5. Over(Arrivals, q, 1) => (on <=> now.here)
  <2>1. CASE m.kind \in Arrivals
    <3>1. Over(Arrivals, q, 1) => (on <=> m.kind = "here")
      BY <1>1, <1>2, <2>1 DEF NewsFits
    <3> QED BY <2>1, <3>1 DEF Arrivals
  <2>2. CASE m.kind \notin Arrivals
    <3>1. Over(Arrivals, q, 1) => (on <=> sees.here)
      BY <1>2, <2>2 DEF TrayKnows
    <3>2. m.kind \in {"keyboard", "turbo"}
      BY <1>4, <2>2 DEF Arrivals
    <3> QED BY <3>1, <3>2
  <2> QED BY <2>1, <2>2
<1>6. ASSUME on, Over(Backlights, q, 1) PROVE now.on = k.on
  <2>1. Over(Arrivals, q, 1)
    BY <1>6 DEF Over, Arrivals, Backlights
  <2>2. CASE m.kind \in Backlights
    <3>1. m.kind # "gone" /\ BacklightIn(m) = k
      BY <1>1, <1>3, <1>6, <2>2 DEF NewsFits
    <3>2. m.kind = "here" => now.on = k.on
      BY <3>1 DEF BacklightIn
    <3>3. m.kind = "keyboard" => now.on = k.on
      <4>1. m.kind = "keyboard" => sees.here
        BY <1>2, <1>6, <2>1 DEF TrayKnows, Arrivals
      <4> QED BY <3>1, <4>1 DEF BacklightIn
    <3> QED BY <1>4, <2>2, <3>1, <3>2, <3>3 DEF Backlights
  <2>3. CASE m.kind \notin Backlights
    <3>1. sees.on = k.on
      BY <1>3, <1>6, <2>3 DEF TrayKnows
    <3>2. m.kind = "turbo"
      BY <1>4, <2>3 DEF Backlights
    <3> QED BY <3>1, <3>2
  <2> QED BY <2>2, <2>3
<1> QED BY <1>5, <1>6 DEF TrayKnows

LEMMA TrayMovesOn ==
    ASSUME NEW q \in Seq(Messages), q # <<>>, NEW on, NEW k, NEW sees, TrayKnows(q, 1, on, k, sees)
    PROVE  TrayKnows(Tail(q), 0, on, k, sees)
<1>1. /\ Over(Arrivals, Tail(q), 0) => Over(Arrivals, q, 1)
      /\ Over(Backlights, Tail(q), 0) => Over(Backlights, q, 1)
  BY FirstTaken
<1> QED BY <1>1 DEF TrayKnows

(* Nobody learns anything from an error. *)
LEMMA ErrorTaken ==
    ASSUME NEW q \in Seq(Messages), q # <<>>, q[1].kind = "error", NEW on, NEW k, NEW t,
           NEW has, NEW sees,
           WindowKnows(q, 0, on, k, t, has), TrayKnows(q, 0, on, k, sees)
    PROVE  WindowKnows(Tail(q), 0, on, k, t, has) /\ TrayKnows(Tail(q), 0, on, k, sees)
<1>1. /\ q[1].kind \notin Arrivals /\ q[1].kind \notin Backlights /\ q[1].kind \notin Turbos
  BY DEF Arrivals, Backlights, Turbos
<1>2. Over(Arrivals, Tail(q), 0) => Over(Arrivals, q, 0)
  BY <1>1, FirstTaken
<1>3. Over(Backlights, Tail(q), 0) => Over(Backlights, q, 0)
  BY <1>1, FirstTaken
<1>4. Over(Turbos, Tail(q), 0) => Over(Turbos, q, 0)
  BY <1>1, FirstTaken
<1> QED BY <1>2, <1>3, <1>4 DEF WindowKnows, TrayKnows

-----------------------------------------------------------------------------
(* The calls on their way. *)

LEMMA CallAppended ==
    ASSUME NEW q \in Seq(Calls), NEW c \in Calls, NEW w, NEW v
    PROVE  LET r == Append(q, c)
           IN  /\ OwnCall(q) => OwnCall(r)
               /\ c.from = "window" /\ c.kind # "turbo" => OwnCall(r)
               /\ LastTurbo(q, v) /\ c.kind # "turbo" => LastTurbo(r, v)
               /\ c.kind = "turbo" => LastTurbo(r, c.value)
               /\ c.kind = w.kind /\ c.value = w.value => Comes(r, w)
               /\ Comes(q, w) /\ c.kind = "percent" /\ Bearing(w) => Comes(r, w)
               /\ OnlyPositions(q, w) /\ c.kind = "percent" /\ Bearing(w) => OnlyPositions(r, w)
<1> DEFINE r == Append(q, c)
           last == Len(q) + 1
<1>1. /\ Len(q) \in Nat /\ Len(r) = last /\ r[last] = c
      /\ \A i \in 1 .. Len(q) : r[i] = q[i]
  OBVIOUS
<1> HIDE DEF r
<1>2. /\ \A i \in 1 .. Len(r) : i \in 1 .. Len(q) \/ i = last
      /\ \A i \in 1 .. Len(q) : i \in 1 .. Len(r)
      /\ last \in 1 .. Len(r) /\ \A i \in 1 .. Len(r) : ~(i > last)
  BY <1>1
<1> HIDE DEF last
<1>3. OwnCall(q) => OwnCall(r)
  BY <1>1, <1>2 DEF OwnCall
<1>4. c.from = "window" /\ c.kind # "turbo" => OwnCall(r)
  BY <1>1, <1>2 DEF OwnCall
<1>5. LastTurbo(q, v) /\ c.kind # "turbo" => LastTurbo(r, v)
  BY <1>1, <1>2 DEF LastTurbo
<1>6. c.kind = "turbo" => LastTurbo(r, c.value)
  BY <1>1, <1>2 DEF LastTurbo
<1>7. c.kind = w.kind /\ c.value = w.value => Comes(r, w)
  BY <1>1, <1>2 DEF Comes
<1>8. Comes(q, w) /\ c.kind = "percent" /\ Bearing(w) => Comes(r, w)
  BY <1>1, <1>2 DEF Comes
<1>9. OnlyPositions(q, w) /\ c.kind = "percent" /\ Bearing(w) => OnlyPositions(r, w)
  BY <1>1, <1>2 DEF OnlyPositions
<1> QED BY <1>3, <1>4, <1>5, <1>6, <1>7, <1>8, <1>9 DEF r

LEMMA CallTaken ==
    ASSUME NEW q \in Seq(Calls), q # <<>>, NEW w, NEW v
    PROVE  /\ Tail(q) \in Seq(Calls) /\ Head(q) \in Calls /\ Head(q) = q[1] /\ 1 \in 1 .. Len(q)
           /\ OwnCall(q) /\ (Head(q).from # "window" \/ Head(q).kind = "turbo") => OwnCall(Tail(q))
           /\ LastTurbo(q, v) => LastTurbo(Tail(q), v) \/ (Head(q).kind = "turbo" /\ Head(q).value = v)
           /\ OnlyPositions(q, w) => /\ OnlyPositions(Tail(q), w)
                                     /\ Head(q).kind = "percent" /\ Bearing(w)
           /\ Comes(q, w) => \/ Comes(Tail(q), w)
                             \/ /\ Head(q).kind = w.kind /\ Head(q).value = w.value
                                /\ OnlyPositions(Tail(q), w)
<1> DEFINE r == Tail(q)
           c == Head(q)
<1>1. /\ Len(q) \in Nat \ {0} /\ Len(r) = Len(q) - 1 /\ r \in Seq(Calls)
      /\ \A i \in 1 .. Len(r) : r[i] = q[i + 1]
      /\ c = q[1] /\ c \in Calls
  OBVIOUS
<1> HIDE DEF r, c
<1>2. /\ \A i \in 1 .. Len(q) : i = 1 \/ (i - 1 \in 1 .. Len(r) /\ r[i - 1] = q[i])
      /\ \A i \in 1 .. Len(r) : i + 1 \in 1 .. Len(q) /\ i + 1 > 1
      /\ 1 \in 1 .. Len(q)
  BY <1>1
<1>3. \A i \in 1 .. Len(q), j \in 1 .. Len(r) : j > i - 1 => j + 1 > i
  BY <1>1
<1>4. OwnCall(q) /\ (c.from # "window" \/ c.kind = "turbo") => OwnCall(r)
  BY <1>1, <1>2 DEF OwnCall
<1>5. ASSUME LastTurbo(q, v)
      PROVE  LastTurbo(r, v) \/ (c.kind = "turbo" /\ c.value = v)
  <2>1. PICK i \in 1 .. Len(q) : /\ q[i].kind = "turbo" /\ q[i].value = v
                                 /\ \A j \in 1 .. Len(q) : j > i => q[j].kind # "turbo"
    BY <1>5 DEF LastTurbo
  <2>2. CASE i = 1
    BY <1>1, <2>1, <2>2
  <2>3. CASE i # 1
    <3>1. i - 1 \in 1 .. Len(r) /\ r[i - 1] = q[i]
      BY <1>2, <2>3
    <3>2. \A j \in 1 .. Len(r) : j > i - 1 => r[j].kind # "turbo"
      BY <1>1, <1>2, <1>3, <2>1
    <3> QED BY <2>1, <3>1, <3>2 DEF LastTurbo
  <2> QED BY <2>2, <2>3
<1>6. OnlyPositions(q, w) => OnlyPositions(r, w) /\ c.kind = "percent" /\ Bearing(w)
  BY <1>1, <1>2 DEF OnlyPositions
<1>7. ASSUME Comes(q, w)
      PROVE  \/ Comes(r, w)
             \/ c.kind = w.kind /\ c.value = w.value /\ OnlyPositions(r, w)
  <2>1. PICK i \in 1 .. Len(q) :
            /\ q[i].kind = w.kind /\ q[i].value = w.value
            /\ \A j \in 1 .. Len(q) : j > i => q[j].kind = "percent" /\ Bearing(w)
    BY <1>7 DEF Comes
  <2>2. CASE i = 1
    BY <1>1, <1>2, <2>1, <2>2 DEF OnlyPositions
  <2>3. CASE i # 1
    <3>1. i - 1 \in 1 .. Len(r) /\ r[i - 1] = q[i]
      BY <1>2, <2>3
    <3>2. \A j \in 1 .. Len(r) : j > i - 1 => r[j].kind = "percent" /\ Bearing(w)
      BY <1>1, <1>2, <1>3, <2>1
    <3> QED BY <2>1, <3>1, <3>2 DEF Comes
  <2> QED BY <2>2, <2>3
<1> QED BY <1>1, <1>2, <1>4, <1>5, <1>6, <1>7 DEF r, c

-----------------------------------------------------------------------------
(* Obeying a choice, and what comes after it. *)

LEMMA WishesHave ==
    ASSUME NEW w \in Wishes
    PROVE  /\ w.kind \in {"on", "turbo", "colour", "percent"}
           /\ w = [kind |-> w.kind, value |-> w.value]
           /\ w.kind \in {"on", "turbo"} => w.value \in BOOLEAN
           /\ w.kind = "colour" => w.value \in Colours
           /\ w.kind = "percent" => w.value \in Percents
  BY DEF Wishes

LEMMA WishesAre ==
    /\ \A v \in BOOLEAN : /\ [kind |-> "on", value |-> v] \in Wishes
                          /\ [kind |-> "turbo", value |-> v] \in Wishes
    /\ \A v \in Colours : [kind |-> "colour", value |-> v] \in Wishes
    /\ \A v \in Percents : [kind |-> "percent", value |-> v] \in Wishes
  BY DEF Wishes

LEMMA ObeyedAtOnce ==
    ASSUME NEW k \in Keyboards, NEW t, NEW w \in Wishes, w.kind # "turbo",
           NEW c, c.kind = w.kind, c.value = w.value
    PROVE  Obeyed(w, Obeying(k, c), t)
<1> DEFINE r == Obeying(k, c)
<1>1. w.kind \in {"on", "colour", "percent"}
  BY WishesHave
<1>2. CASE w.kind = "on"
  <2>1. r = [k EXCEPT !.on = w.value]
    BY <1>2 DEF Obeying
  <2>2. Obeying(r, w) = [r EXCEPT !.on = w.value]
    BY <1>2 DEF Obeying
  <2> HIDE DEF r
  <2>3. [r EXCEPT !.on = w.value] = r
    BY <2>1 DEF Keyboards
  <2> QED BY <1>2, <2>2, <2>3 DEF Obeyed, r
<1>3. CASE w.kind = "colour"
  <2>1. r = [k EXCEPT !.on = TRUE, !.colour = w.value]
    BY <1>3 DEF Obeying
  <2>2. Obeying(r, w) = [r EXCEPT !.on = TRUE, !.colour = w.value]
    BY <1>3 DEF Obeying
  <2> HIDE DEF r
  <2>3. [r EXCEPT !.on = TRUE, !.colour = w.value] = r
    BY <2>1 DEF Keyboards
  <2> QED BY <1>3, <2>2, <2>3 DEF Obeyed, r
<1>4. CASE w.kind = "percent"
  <2>1. r = [k EXCEPT !.on = TRUE, !.percent = w.value]
    BY <1>4 DEF Obeying
  <2>2. Obeying(r, w) = [r EXCEPT !.on = TRUE, !.percent = w.value]
    BY <1>4 DEF Obeying
  <2> HIDE DEF r
  <2>3. [r EXCEPT !.on = TRUE, !.percent = w.value] = r
    BY <2>1 DEF Keyboards
  <2> QED BY <1>4, <2>2, <2>3 DEF Obeyed, r
<1> QED BY <1>1, <1>2, <1>3, <1>4

LEMMA StillObeyed ==
    ASSUME NEW k \in Keyboards, NEW t, NEW w \in Wishes, Obeyed(w, k, t), Bearing(w),
           NEW c \in Calls, c.kind = "percent"
    PROVE  Obeyed(w, Obeying(k, c), t)
<1> DEFINE r == Obeying(k, c)
<1>1. r = [k EXCEPT !.on = TRUE, !.percent = c.value]
  BY DEF Obeying
<1> HIDE DEF r
<1>2. w.kind \in {"on", "turbo", "colour"}
  BY WishesHave DEF Bearing
<1>3. CASE w.kind = "turbo"
  BY <1>3 DEF Obeyed
<1>4. CASE w.kind = "on"
  <2>1. w.value = TRUE
    BY <1>4, WishesHave DEF Bearing
  <2>2. Obeying(r, w) = [r EXCEPT !.on = TRUE]
    BY <1>4, <2>1 DEF Obeying
  <2>3. [r EXCEPT !.on = TRUE] = r
    BY <1>1 DEF Keyboards
  <2> QED BY <1>4, <2>2, <2>3 DEF Obeyed, r
<1>5. CASE w.kind = "colour"
  <2>1. k = [k EXCEPT !.on = TRUE, !.colour = w.value]
    BY <1>5 DEF Obeyed, Obeying
  <2>2. k.colour = w.value
    BY <2>1 DEF Keyboards
  <2>3. Obeying(r, w) = [r EXCEPT !.on = TRUE, !.colour = w.value]
    BY <1>5 DEF Obeying
  <2>4. [r EXCEPT !.on = TRUE, !.colour = w.value] = r
    BY <1>1, <2>2 DEF Keyboards
  <2> QED BY <1>5, <2>3, <2>4 DEF Obeyed, r
<1> QED BY <1>2, <1>3, <1>4, <1>5

-----------------------------------------------------------------------------
(* What the steps do to the news on their way. *)

LEMMA QueueHasRoom ==
    ASSUME ControlInv
    PROVE  Taken \in 0 .. Len(toClient) /\ Taken \in Nat
<1>1. half => Len(toClient) \in Nat \ {0}
  BY DEF ControlInv, ControlTypes
<1>2. Len(toClient) \in Nat
  BY DEF ControlInv, ControlTypes
<1> QED BY <1>1, <1>2 DEF Taken

(* A message put behind the others leaves the first one where it is. *)
LEMMA FirstStays ==
    ASSUME ControlInv, NEW m \in Messages, toClient' = Append(toClient, m), half' = half
    PROVE  /\ toClient' \in Seq(Messages)
           /\ half' => toClient' # <<>> /\ toClient'[1].kind # "error"
           /\ \A i \in 1 .. Len(toClient) : i \in 1 .. Len(toClient') /\ toClient'[i] = toClient[i]
           /\ Len(toClient') \in 1 .. Len(toClient') /\ toClient'[Len(toClient')] = m
<1>1. toClient \in Seq(Messages) /\ (half => toClient # <<>> /\ toClient[1].kind # "error")
  BY DEF ControlInv, ControlTypes
<1>2. /\ Len(toClient) \in Nat /\ Len(toClient') = Len(toClient) + 1
      /\ \A i \in 1 .. Len(toClient) : toClient'[i] = toClient[i]
      /\ toClient'[Len(toClient) + 1] = m
      /\ toClient' \in Seq(Messages)
  BY <1>1
<1>3. toClient # <<>> => 1 \in 1 .. Len(toClient)
  BY <1>1
<1>4. toClient' # <<>>
  BY <1>2
<1> QED BY <1>1, <1>2, <1>3, <1>4

LEMMA NoNewsComes ==
    ASSUME ControlInv, up' = up, keyboard' = keyboard, turbo' = turbo, cache' = cache, tray' = tray,
           half' = half,
           \/ toClient' = toClient
           \/ \E c \in Callers : toClient' = Append(toClient, [kind |-> "error", to |-> c])
    PROVE  /\ NewsIsTrue' /\ toClient' \in Seq(Messages)
           /\ half' => toClient' # <<>> /\ toClient'[1].kind # "error"
<1>1. NewsIsTrue /\ toClient \in Seq(Messages) /\ Taken' = Taken /\ Taken \in Nat
  BY QueueHasRoom DEF ControlInv, ControlTypes, Taken
<1>2. CASE toClient' = toClient
  BY <1>1, <1>2 DEF NewsIsTrue, ControlInv, ControlTypes
<1>3. ASSUME NEW c \in Callers, toClient' = Append(toClient, [kind |-> "error", to |-> c])
      PROVE  /\ NewsIsTrue' /\ toClient' \in Seq(Messages)
             /\ half' => toClient' # <<>> /\ toClient'[1].kind # "error"
  <2> DEFINE m == [kind |-> "error", to |-> c]
  <2>1. m \in Messages /\ m.kind = "error"
    BY MessagesAre
  <2>2. toClient' = Append(toClient, m)
    BY <1>3
  <2> HIDE DEF m
  <2>3. NewsFits(toClient', up, keyboard, turbo)
    BY <1>1, <2>1, <2>2, ErrorIsNoNews DEF NewsIsTrue
  <2>4. WindowKnows(toClient', 0, up, keyboard, turbo, cache)
    BY <1>1, <2>1, <2>2, ErrorIsNoNews DEF NewsIsTrue
  <2>5. TrayKnows(toClient', Taken, up, keyboard, tray)
    BY <1>1, <2>1, <2>2, ErrorIsNoNews DEF NewsIsTrue
  <2>6. NewsIsTrue'
    BY <1>1, <2>3, <2>4, <2>5 DEF NewsIsTrue
  <2> QED BY <2>1, <2>2, <2>6, FirstStays
<1> QED BY <1>2, <1>3

LEMMA BacklightComes ==
    ASSUME ControlInv, up' = up, turbo' = turbo, cache' = cache, tray' = tray, half' = half,
           keyboard' \in Keyboards,
           toClient' = Append(toClient, [kind |-> "keyboard", state |-> keyboard'])
    PROVE  /\ NewsIsTrue' /\ toClient' \in Seq(Messages)
           /\ half' => toClient' # <<>> /\ toClient'[1].kind # "error"
           /\ ~Settled'
<1> DEFINE m == [kind |-> "keyboard", state |-> keyboard']
<1>1. NewsIsTrue /\ toClient \in Seq(Messages) /\ Taken' = Taken /\ Taken \in 0 .. Len(toClient)
  BY QueueHasRoom DEF ControlInv, ControlTypes, Taken
<1>2. m \in Messages /\ m.kind = "keyboard" /\ m.state = keyboard'
  BY MessagesAre
<1>3. toClient' = Append(toClient, m)
  OBVIOUS
<1> HIDE DEF m
<1>4. NewsFits(toClient', up, keyboard', turbo)
  BY <1>1, <1>2, <1>3, BacklightIsNews DEF NewsIsTrue
<1>5. WindowKnows(toClient', 0, up, keyboard', turbo, cache)
  BY <1>1, <1>2, <1>3, BacklightIsNews DEF NewsIsTrue
<1>6. TrayKnows(toClient', Taken, up, keyboard', tray)
  BY <1>1, <1>2, <1>3, BacklightIsNews DEF NewsIsTrue
<1>7. NewsIsTrue'
  BY <1>1, <1>4, <1>5, <1>6 DEF NewsIsTrue
<1>8. ~Settled'
  BY <1>2, <1>3, FirstStays DEF Settled, Concerns
<1> QED BY <1>2, <1>3, <1>7, <1>8, FirstStays

LEMMA TurboComes ==
    ASSUME ControlInv, up' = up, keyboard' = keyboard, cache' = cache, tray' = tray, half' = half,
           turbo' \in BOOLEAN,
           toClient' = Append(toClient, [kind |-> "turbo", state |-> turbo'])
    PROVE  /\ NewsIsTrue' /\ toClient' \in Seq(Messages)
           /\ half' => toClient' # <<>> /\ toClient'[1].kind # "error"
           /\ ~Settled'
<1> DEFINE m == [kind |-> "turbo", state |-> turbo']
<1>1. NewsIsTrue /\ toClient \in Seq(Messages) /\ Taken' = Taken /\ Taken \in Nat
  BY QueueHasRoom DEF ControlInv, ControlTypes, Taken
<1>2. m \in Messages /\ m.kind = "turbo" /\ m.state = turbo'
  BY MessagesAre
<1>3. toClient' = Append(toClient, m)
  OBVIOUS
<1> HIDE DEF m
<1>4. NewsFits(toClient', up, keyboard, turbo')
  BY <1>1, <1>2, <1>3, TurboIsNews DEF NewsIsTrue
<1>5. WindowKnows(toClient', 0, up, keyboard, turbo', cache)
  BY <1>1, <1>2, <1>3, TurboIsNews DEF NewsIsTrue
<1>6. TrayKnows(toClient', Taken, up, keyboard, tray)
  BY <1>1, <1>2, <1>3, TurboIsNews DEF NewsIsTrue
<1>7. NewsIsTrue'
  BY <1>1, <1>4, <1>5, <1>6 DEF NewsIsTrue
<1>8. ~Settled'
  BY <1>2, <1>3, FirstStays DEF Settled, Concerns
<1> QED BY <1>2, <1>3, <1>7, <1>8, FirstStays

-----------------------------------------------------------------------------
(* Calls of the window and of the tray's menu. *)

LEMMA CallIsSent ==
    ASSUME ControlInv, NEW call \in Calls, Sent(call)
    PROVE  /\ half' = half
           /\ up => toDaemon' = Append(toDaemon, call) /\ toClient' = toClient
           /\ ~up => toDaemon' = toDaemon /\ toClient' = Append(toClient, [kind |-> "error", to |-> call.from])
           /\ toDaemon' \in Seq(Calls) /\ toClient' \in Seq(Messages)
           /\ half' => toClient' # <<>> /\ toClient'[1].kind # "error"
<1>1. half' = half
  BY DEF Sent
<1>2. up => toDaemon' = Append(toDaemon, call) /\ toClient' = toClient
  BY DEF Sent
<1>3. ~up => toDaemon' = toDaemon /\ toClient' = Append(toClient, [kind |-> "error", to |-> call.from])
  BY DEF Sent
<1>4. toDaemon' \in Seq(Calls)
  <2>1. toDaemon \in Seq(Calls) /\ Append(toDaemon, call) \in Seq(Calls)
    BY DEF ControlInv, ControlTypes
  <2> QED BY <1>2, <1>3, <2>1
<1>5. [kind |-> "error", to |-> call.from] \in Messages
  BY CallsHave, MessagesAre
<1>6. toClient' \in Seq(Messages) /\ (half' => toClient' # <<>> /\ toClient'[1].kind # "error")
  <2>1. CASE up
    BY <1>1, <1>2, <2>1 DEF ControlInv, ControlTypes
  <2>2. CASE ~up
    BY <1>1, <1>3, <1>5, <2>2, FirstStays
  <2> QED BY <2>1, <2>2
<1> QED BY <1>1, <1>2, <1>3, <1>4, <1>6

(* A choice made in the window, on the way. *)
LEMMA WindowAsks ==
    ASSUME ControlInv, here, NEW kind, NEW value, Asking(kind, value) \in Calls, kind # "percent",
           Send(Asking(kind, value)), owed' = Chosen(kind, value),
           UNCHANGED <<pending, cache, here, icon, daemon, doubt>>,
           widget' \in Widgets, widget'.percent = widget.percent,
           kind = "turbo" => /\ widget'.turbo = value
                             /\ widget'.on = widget.on /\ widget'.colour = widget.colour,
           kind # "turbo" => widget'.turbo = widget.turbo
    PROVE  ControlInv'
<1> DEFINE call == Asking(kind, value)
           w == [kind |-> kind, value |-> value]
<1>1. call \in Calls /\ call.kind = kind /\ call.value = value /\ call.from = "window"
  BY DEF Asking
<1>2. Sent(call) /\ resync' = resync
  BY DEF Send
<1> HIDE DEF call
<1>3. /\ pending' = pending /\ cache' = cache /\ here' = here /\ doubt' = doubt
      /\ tray' = tray /\ items' = items /\ menu' = menu /\ stale' = stale
      /\ up' = up /\ keyboard' = keyboard /\ turbo' = turbo
  BY DEF icon, daemon
<1>4. /\ half' = half
      /\ up => toDaemon' = Append(toDaemon, call) /\ toClient' = toClient
      /\ ~up => toDaemon' = toDaemon /\ toClient' = Append(toClient, [kind |-> "error", to |-> call.from])
      /\ toDaemon' \in Seq(Calls)
  BY <1>1, <1>2, CallIsSent
<1>5. /\ NewsIsTrue' /\ toClient' \in Seq(Messages)
      /\ half' => toClient' # <<>> /\ toClient'[1].kind # "error"
  BY <1>1, <1>3, <1>4, NoNewsComes DEF Callers
<1>6. w \in Wishes /\ w.kind = kind /\ w.value = value
  BY <1>1, CallsHave, WishesAre
<1>7. owed' = IF ~up \/ (kind = "on" /\ ~value /\ pending # None) THEN None ELSE w
  BY DEF Chosen
<1> HIDE DEF w
<1>8. ControlTypes'
  BY <1>2, <1>3, <1>4, <1>5, <1>6, <1>7 DEF ControlInv, ControlTypes
<1>9. MenuFollows' /\ SliderIsWhatWeSend'
  BY <1>3 DEF ControlInv, MenuFollows, Build, SliderIsWhatWeSend
<1>10. AgreesInTheEnd'
  <2> SUFFICES ASSUME Settled'
               PROVE  /\ pending' # None \/ RowAgrees(keyboard)' \/ OwnCall(toDaemon')
                      /\ widget'.turbo = turbo' \/ LastTurbo(toDaemon', widget'.turbo)
    BY DEF AgreesInTheEnd
  <2>1. up /\ toDaemon' = Append(toDaemon, call) /\ toDaemon \in Seq(Calls)
    BY <1>3, <1>4 DEF Settled, ControlInv, ControlTypes
  <2>2. Settled
    BY <1>2, <1>3, <1>4, <2>1 DEF Settled
  <2>3. CASE kind = "turbo"
    <3>1. LastTurbo(toDaemon', widget'.turbo)
      BY <1>1, <2>1, <2>3, CallAppended
    <3>2. pending # None \/ RowAgrees(keyboard) \/ OwnCall(toDaemon)
      BY <2>2 DEF ControlInv, AgreesInTheEnd
    <3>3. RowAgrees(keyboard) => RowAgrees(keyboard)'
      BY <1>3, <2>3 DEF RowAgrees
    <3>4. OwnCall(toDaemon) => OwnCall(toDaemon')
      BY <1>1, <2>1, CallAppended
    <3> QED BY <1>3, <3>1, <3>2, <3>3, <3>4
  <2>4. CASE kind # "turbo"
    <3>1. OwnCall(toDaemon')
      BY <1>1, <2>1, <2>4, CallAppended
    <3>2. widget.turbo = turbo \/ LastTurbo(toDaemon, widget.turbo)
      BY <2>2 DEF ControlInv, AgreesInTheEnd
    <3>3. LastTurbo(toDaemon, widget.turbo) => LastTurbo(toDaemon', widget.turbo)
      BY <1>1, <2>1, <2>4, CallAppended
    <3> QED BY <1>3, <2>4, <3>1, <3>2, <3>3
  <2> QED BY <2>3, <2>4
<1>11. ChoiceOnItsWay'
  <2> SUFFICES ASSUME owed' # None
               PROVE  /\ pending' # None => Bearing(owed')
                      /\ Comes(toDaemon', owed')
    BY DEF ChoiceOnItsWay
  <2>1. up /\ ~(kind = "on" /\ ~value /\ pending # None) /\ owed' = w
    BY <1>7
  <2>2. toDaemon' = Append(toDaemon, call) /\ toDaemon \in Seq(Calls)
    BY <1>4, <2>1 DEF ControlInv, ControlTypes
  <2>3. Comes(toDaemon', w)
    BY <1>1, <1>6, <2>2, CallAppended
  <2>4. pending' # None => Bearing(w)
    BY <1>3, <1>6, <2>1 DEF Bearing
  <2> QED BY <2>1, <2>3, <2>4
<1> QED BY <1>5, <1>8, <1>9, <1>10, <1>11 DEF ControlInv

LEMMA SwitchToggled ==
    ASSUME ControlInv, OnSwitchToggled PROVE ControlInv'
<1>1. widget \in Widgets /\ widget.on \in BOOLEAN
  BY DEF ControlInv, ControlTypes, Widgets
<1>2. widget' = [widget EXCEPT !.on = ~widget.on]
  BY DEF OnSwitchToggled
<1>3. /\ widget' \in Widgets /\ widget'.percent = widget.percent /\ widget'.turbo = widget.turbo
      /\ widget'.on \in BOOLEAN
  BY <1>1, <1>2 DEF Widgets
<1>4. Asking("on", widget'.on) \in Calls
  BY <1>3, CallsAre DEF Asking
<1>5. here /\ Send(Asking("on", widget'.on)) /\ owed' = Chosen("on", widget'.on)
  BY DEF OnSwitchToggled
<1>6. UNCHANGED <<pending, cache, here, icon, daemon, doubt>>
  BY DEF OnSwitchToggled
<1> QED BY <1>3, <1>4, <1>5, <1>6, WindowAsks

LEMMA TurboToggled ==
    ASSUME ControlInv, OnTurboToggled PROVE ControlInv'
<1>1. widget \in Widgets /\ widget.turbo \in BOOLEAN
  BY DEF ControlInv, ControlTypes, Widgets
<1>2. widget' = [widget EXCEPT !.turbo = ~widget.turbo]
  BY DEF OnTurboToggled
<1>3. /\ widget' \in Widgets /\ widget'.percent = widget.percent /\ widget'.turbo \in BOOLEAN
      /\ widget'.on = widget.on /\ widget'.colour = widget.colour
  BY <1>1, <1>2 DEF Widgets
<1>4. Asking("turbo", widget'.turbo) \in Calls
  BY <1>3, CallsAre DEF Asking
<1>5. here /\ Send(Asking("turbo", widget'.turbo)) /\ owed' = Chosen("turbo", widget'.turbo)
  BY DEF OnTurboToggled
<1>6. UNCHANGED <<pending, cache, here, icon, daemon, doubt>>
  BY DEF OnTurboToggled
<1> QED BY <1>3, <1>4, <1>5, <1>6, WindowAsks

LEMMA ColourApplied ==
    ASSUME ControlInv, ApplyColour PROVE ControlInv'
<1>1. PICK c \in Colours : /\ Send(Asking("colour", c))
                           /\ widget' = [widget EXCEPT !.on = TRUE, !.colour = c]
                           /\ owed' = Chosen("colour", c)
  BY DEF ApplyColour
<1>2. widget \in Widgets
  BY DEF ControlInv, ControlTypes
<1>3. widget' \in Widgets /\ widget'.percent = widget.percent /\ widget'.turbo = widget.turbo
  BY <1>1, <1>2 DEF Widgets
<1>4. Asking("colour", c) \in Calls
  BY CallsAre DEF Asking
<1>5. here /\ UNCHANGED <<pending, cache, here, icon, daemon, doubt>>
  BY DEF ApplyColour
<1> QED BY <1>1, <1>3, <1>4, <1>5, WindowAsks

(* A click on the menu. *)
LEMMA TrayToggled ==
    ASSUME ControlInv, OnTrayToggle PROVE ControlInv'
<1> DEFINE wanted == ~tray.on
           call == [from |-> "tray", kind |-> "on", value |-> wanted]
           w == [kind |-> "on", value |-> wanted]
<1>1. /\ pending' = pending /\ cache' = cache /\ here' = here /\ doubt' = doubt /\ widget' = widget
      /\ tray' = tray /\ items' = items /\ menu' = menu /\ stale' = stale
      /\ up' = up /\ keyboard' = keyboard /\ turbo' = turbo
  BY DEF OnTrayToggle, icon, daemon
<1>2. MenuFollows' /\ SliderIsWhatWeSend'
  BY <1>1 DEF ControlInv, MenuFollows, Build, SliderIsWhatWeSend
<1>3. CASE tray.here
  <2>1. /\ Sent(call) /\ resync' = resync
        /\ owed' = IF menu.on = tray.on THEN Chosen("on", wanted) ELSE None
    BY <1>3 DEF OnTrayToggle
  <2>2. wanted \in BOOLEAN
    BY <1>3 DEF ControlInv, ControlTypes
  <2>3. /\ call \in Calls /\ call.kind = "on" /\ call.value = wanted /\ call.from = "tray"
        /\ w \in Wishes /\ w.kind = "on" /\ w.value = wanted
    BY <2>2, CallsAre, WishesAre
  <2>4. owed' # None => up /\ ~(~wanted /\ pending # None) /\ owed' = w
    BY <2>1 DEF Chosen
  <2> HIDE DEF wanted, call, w
  <2>5. /\ half' = half
        /\ up => toDaemon' = Append(toDaemon, call) /\ toClient' = toClient
        /\ ~up => toDaemon' = toDaemon /\ toClient' = Append(toClient, [kind |-> "error", to |-> "tray"])
        /\ toDaemon' \in Seq(Calls)
    BY <2>1, <2>3, CallIsSent
  <2>6. /\ NewsIsTrue' /\ toClient' \in Seq(Messages)
        /\ half' => toClient' # <<>> /\ toClient'[1].kind # "error"
    BY <1>1, <2>5, NoNewsComes DEF Callers
  <2>7. ControlTypes'
    BY <1>1, <2>1, <2>3, <2>4, <2>5, <2>6 DEF ControlInv, ControlTypes
  <2>8. AgreesInTheEnd'
    <3> SUFFICES ASSUME Settled'
                 PROVE  /\ pending' # None \/ RowAgrees(keyboard)' \/ OwnCall(toDaemon')
                        /\ widget'.turbo = turbo' \/ LastTurbo(toDaemon', widget'.turbo)
      BY DEF AgreesInTheEnd
    <3>1. up /\ toDaemon' = Append(toDaemon, call) /\ toDaemon \in Seq(Calls)
      BY <1>1, <2>5 DEF Settled, ControlInv, ControlTypes
    <3>2. Settled
      BY <1>1, <2>1, <2>5, <3>1 DEF Settled
    <3>3. /\ pending # None \/ RowAgrees(keyboard) \/ OwnCall(toDaemon)
          /\ widget.turbo = turbo \/ LastTurbo(toDaemon, widget.turbo)
      BY <3>2 DEF ControlInv, AgreesInTheEnd
    <3>4. OwnCall(toDaemon) => OwnCall(toDaemon')
      BY <2>3, <3>1, CallAppended
    <3>5. LastTurbo(toDaemon, widget.turbo) => LastTurbo(toDaemon', widget.turbo)
      BY <2>3, <3>1, CallAppended
    <3>6. RowAgrees(keyboard) => RowAgrees(keyboard)'
      BY <1>1 DEF RowAgrees
    <3> QED BY <1>1, <3>3, <3>4, <3>5, <3>6
  <2>9. ChoiceOnItsWay'
    <3> SUFFICES ASSUME owed' # None
                 PROVE  /\ pending' # None => Bearing(owed')
                        /\ Comes(toDaemon', owed')
      BY DEF ChoiceOnItsWay
    <3>1. toDaemon' = Append(toDaemon, call) /\ toDaemon \in Seq(Calls)
      BY <2>4, <2>5 DEF ControlInv, ControlTypes
    <3>2. Comes(toDaemon', w)
      BY <2>3, <3>1, CallAppended
    <3>3. pending' # None => Bearing(w)
      BY <1>1, <2>3, <2>4 DEF Bearing
    <3> QED BY <2>4, <3>2, <3>3
  <2> QED BY <1>2, <2>6, <2>7, <2>8, <2>9 DEF ControlInv
<1>4. CASE ~tray.here
  <2>1. /\ resync' \in {TRUE, resync} /\ owed' = None
        /\ toDaemon' = toDaemon /\ toClient' = toClient /\ half' = half
    BY <1>4 DEF OnTrayToggle, bus
  <2>2. NewsIsTrue'
    BY <1>1, <2>1, NoNewsComes
  <2>3. ControlTypes'
    BY <1>1, <2>1 DEF ControlInv, ControlTypes
  <2>4. AgreesInTheEnd'
    <3>1. Settled' => Settled
      BY <1>1, <2>1 DEF Settled
    <3> QED BY <1>1, <2>1, <3>1 DEF ControlInv, AgreesInTheEnd, RowAgrees
  <2>5. ChoiceOnItsWay'
    BY <2>1 DEF ChoiceOnItsWay
  <2> QED BY <1>2, <2>2, <2>3, <2>4, <2>5 DEF ControlInv
<1> QED BY <1>3, <1>4

-----------------------------------------------------------------------------
(* The slider, a close, the resync, and the tray's host. *)

LEMMA BrightnessChanged ==
    ASSUME ControlInv, OnBrightnessChanged PROVE ControlInv'
<1>1. PICK p \in Percents : /\ widget' = [widget EXCEPT !.percent = p]
                            /\ pending' = p /\ owed' = [kind |-> "percent", value |-> p]
  BY DEF OnBrightnessChanged
<1>2. /\ cache' = cache /\ here' = here /\ resync' = resync /\ doubt' = doubt
      /\ tray' = tray /\ items' = items /\ menu' = menu /\ stale' = stale
      /\ up' = up /\ keyboard' = keyboard /\ turbo' = turbo
      /\ toDaemon' = toDaemon /\ toClient' = toClient /\ half' = half
  BY DEF OnBrightnessChanged, icon, daemon, bus
<1>3. p # None /\ owed' \in Wishes /\ owed'.kind = "percent" /\ owed'.value = p
  BY <1>1, NoNones, WishesAre
<1>4. widget \in Widgets
  BY DEF ControlInv, ControlTypes
<1>5. widget' \in Widgets /\ widget'.percent = p
  BY <1>1, <1>4 DEF Widgets
<1>6. NewsIsTrue'
  BY <1>2, NoNewsComes
<1>7. ControlTypes'
  BY <1>1, <1>2, <1>3, <1>5 DEF ControlInv, ControlTypes
<1>8. MenuFollows' /\ SliderIsWhatWeSend'
  BY <1>1, <1>2, <1>5 DEF ControlInv, MenuFollows, Build, SliderIsWhatWeSend
<1>9. AgreesInTheEnd'
  <2>1. Settled' => Settled
    BY <1>2 DEF Settled
  <2>2. widget'.turbo = widget.turbo
    BY <1>1, <1>4 DEF Widgets
  <2> QED BY <1>1, <1>2, <1>3, <2>1, <2>2 DEF ControlInv, AgreesInTheEnd
<1>10. ChoiceOnItsWay'
  BY <1>1, <1>3 DEF ChoiceOnItsWay, Waits
<1> QED BY <1>6, <1>7, <1>8, <1>9, <1>10 DEF ControlInv

LEMMA BrightnessSent ==
    ASSUME ControlInv, SendBrightness PROVE ControlInv'
<1> DEFINE call == Asking("percent", pending)
<1>1. /\ pending # None /\ pending' = None /\ Send(call)
      /\ owed' = (IF here /\ up THEN owed ELSE None)
      /\ widget' = widget /\ cache' = cache /\ here' = here /\ doubt' = doubt
      /\ tray' = tray /\ items' = items /\ menu' = menu /\ stale' = stale
      /\ up' = up /\ keyboard' = keyboard /\ turbo' = turbo
  BY DEF SendBrightness, icon, daemon
<1>2. /\ call \in Calls /\ call.kind = "percent" /\ call.value = pending /\ call.from = "window"
  BY <1>1, CallsAre DEF Asking, ControlInv, ControlTypes
<1> HIDE DEF call
<1>3. MenuFollows' /\ SliderIsWhatWeSend'
  BY <1>1 DEF ControlInv, MenuFollows, Build, SliderIsWhatWeSend
<1>4. CASE ~here
  <2>1. resync' = TRUE /\ toDaemon' = toDaemon /\ toClient' = toClient /\ half' = half /\ owed' = None
    BY <1>1, <1>4 DEF Send, bus
  <2>2. NewsIsTrue'
    BY <1>1, <2>1, NoNewsComes
  <2>3. ControlTypes'
    BY <1>1, <2>1 DEF ControlInv, ControlTypes
  <2>4. AgreesInTheEnd' /\ ChoiceOnItsWay'
    BY <2>1 DEF AgreesInTheEnd, Settled, ChoiceOnItsWay
  <2> QED BY <1>3, <2>2, <2>3, <2>4 DEF ControlInv
<1>5. CASE here
  <2>1. Sent(call) /\ resync' = resync
    BY <1>1, <1>5 DEF Send
  <2>2. /\ half' = half
        /\ up => toDaemon' = Append(toDaemon, call) /\ toClient' = toClient
        /\ ~up => toDaemon' = toDaemon /\ toClient' = Append(toClient, [kind |-> "error", to |-> "window"])
        /\ toDaemon' \in Seq(Calls)
    BY <1>2, <2>1, CallIsSent
  <2>3. /\ NewsIsTrue' /\ toClient' \in Seq(Messages)
        /\ half' => toClient' # <<>> /\ toClient'[1].kind # "error"
    BY <1>1, <2>2, NoNewsComes DEF Callers
  <2>4. ControlTypes'
    BY <1>1, <2>1, <2>2, <2>3 DEF ControlInv, ControlTypes
  <2>5. up => toDaemon' = Append(toDaemon, call) /\ toDaemon \in Seq(Calls)
    BY <2>2 DEF ControlInv, ControlTypes
  <2>6. AgreesInTheEnd'
    <3> SUFFICES ASSUME Settled'
                 PROVE  /\ OwnCall(toDaemon')
                        /\ widget'.turbo = turbo' \/ LastTurbo(toDaemon', widget'.turbo)
      BY DEF AgreesInTheEnd
    <3>1. up
      BY <1>1 DEF Settled
    <3>2. OwnCall(toDaemon')
      BY <1>2, <2>5, <3>1, CallAppended
    <3>3. widget.turbo = turbo \/ LastTurbo(toDaemon, widget.turbo)
      <4>1. Settled
        BY <1>1, <2>1, <2>2, <3>1 DEF Settled
      <4> QED BY <4>1 DEF ControlInv, AgreesInTheEnd
    <3>4. LastTurbo(toDaemon, widget.turbo) => LastTurbo(toDaemon', widget.turbo)
      BY <1>2, <2>5, <3>1, CallAppended
    <3> QED BY <1>1, <3>2, <3>3, <3>4
  <2>7. ChoiceOnItsWay'
    <3> SUFFICES ASSUME owed' # None
                 PROVE  \/ Obeyed(owed', keyboard', turbo') /\ OnlyPositions(toDaemon', owed')
                        \/ Comes(toDaemon', owed')
      BY <1>1 DEF ChoiceOnItsWay
    <3>1. up /\ owed' = owed /\ owed # None
      BY <1>1
    <3>2. Waits(owed, pending) => Comes(toDaemon', owed)
      BY <1>2, <2>5, <3>1, CallAppended DEF Waits
    <3>3. Bearing(owed) /\ OnlyPositions(toDaemon, owed) => OnlyPositions(toDaemon', owed)
      BY <1>2, <2>5, <3>1, CallAppended
    <3>4. Bearing(owed) /\ Comes(toDaemon, owed) => Comes(toDaemon', owed)
      BY <1>2, <2>5, <3>1, CallAppended
    <3>5. /\ Waits(owed, pending) \/ Bearing(owed)
          /\ \/ Waits(owed, pending)
             \/ Obeyed(owed, keyboard, turbo) /\ OnlyPositions(toDaemon, owed)
             \/ Comes(toDaemon, owed)
      BY <1>1, <3>1 DEF ControlInv, ChoiceOnItsWay
    <3> QED BY <1>1, <3>1, <3>2, <3>3, <3>4, <3>5
  <2> QED BY <1>3, <2>3, <2>4, <2>6, <2>7 DEF ControlInv
<1> QED BY <1>4, <1>5

LEMMA WindowCloses ==
    ASSUME ControlInv, OnClose PROVE ControlInv'
<1>1. /\ pending' = None /\ resync' = FALSE /\ owed' = None /\ doubt' = TRUE
      /\ widget' = widget /\ cache' = cache /\ here' = here
      /\ tray' = tray /\ items' = items /\ menu' = menu /\ stale' = stale
      /\ up' = up /\ keyboard' = keyboard /\ turbo' = turbo
      /\ toDaemon' = toDaemon /\ toClient' = toClient /\ half' = half
  BY DEF OnClose, icon, daemon, bus
<1>2. NewsIsTrue'
  BY <1>1, NoNewsComes
<1>3. ControlTypes'
  BY <1>1 DEF ControlInv, ControlTypes
<1>4. MenuFollows' /\ SliderIsWhatWeSend'
  BY <1>1 DEF ControlInv, MenuFollows, Build, SliderIsWhatWeSend
<1>5. AgreesInTheEnd' /\ ChoiceOnItsWay'
  BY <1>1 DEF AgreesInTheEnd, Settled, ChoiceOnItsWay
<1> QED BY <1>2, <1>3, <1>4, <1>5 DEF ControlInv

(* sync_from_daemon and _update_turbo show what the client has. *)
LEMMA WindowSynced ==
    ASSUME ControlTypes, SyncFromDaemon, cache' \in States \cup {None}
    PROVE  /\ widget' \in Widgets
           /\ pending # None => widget'.percent = widget.percent
           /\ cache' # None => /\ widget'.turbo = cache'.turbo
                               /\ widget'.on = cache'.keyboard.on
                               /\ widget'.colour = cache'.keyboard.colour
                               /\ pending = None => widget'.percent = cache'.keyboard.percent
<1>1. widget \in Widgets
  BY DEF ControlTypes
<1>2. CASE cache' = None
  <2>1. widget' = [widget EXCEPT !.turbo = FALSE]
    BY <1>2 DEF SyncFromDaemon
  <2> QED BY <1>1, <1>2, <2>1 DEF Widgets
<1>3. CASE cache' # None
  <2> DEFINE k == cache'.keyboard
             p == IF pending = None THEN k.percent ELSE widget.percent
             r == [widget EXCEPT !.on = k.on, !.colour = k.colour, !.percent = p]
  <2>1. k \in Keyboards /\ cache'.turbo \in BOOLEAN
    BY <1>3 DEF States
  <2>2. k.on \in BOOLEAN /\ k.colour \in Colours /\ k.percent \in Percents
    BY <2>1 DEF Keyboards
  <2>3. widget' = [r EXCEPT !.turbo = cache'.turbo]
    BY <1>3 DEF SyncFromDaemon, KeyboardShown
  <2>4. p \in Percents \cup {None}
    BY <1>1, <2>2 DEF Widgets
  <2>5. pending # None => p = widget.percent
    OBVIOUS
  <2>6. pending = None => p = k.percent
    OBVIOUS
  <2> HIDE DEF p, k
  <2>7. r \in Widgets /\ r.on = k.on /\ r.colour = k.colour /\ r.percent = p
    BY <1>1, <2>2, <2>4 DEF Widgets
  <2> HIDE DEF r
  <2>8. /\ widget' \in Widgets /\ widget'.on = k.on /\ widget'.colour = k.colour
        /\ widget'.percent = p /\ widget'.turbo = cache'.turbo
    BY <2>1, <2>3, <2>7 DEF Widgets
  <2> QED BY <2>5, <2>6, <2>8 DEF k
<1> QED BY <1>2, <1>3

LEMMA NothingConcerns ==
    ASSUME NEW q, \A i \in 1 .. Len(q) : ~Concerns(q[i])
    PROVE  Over(Arrivals, q, 0) /\ Over(Backlights, q, 0) /\ Over(Turbos, q, 0)
  BY DEF Concerns, Over, Arrivals, Backlights, Turbos

(* What the window shows after it has looked. *)
LEMMA SyncedAgrees ==
    ASSUME ControlTypes, SyncFromDaemon, cache' \in States \cup {None}, NewsIsTrue', pending' = pending
    PROVE  AgreesInTheEnd'
<1> SUFFICES ASSUME Settled'
             PROVE  /\ pending' # None \/ RowAgrees(keyboard)'
                    /\ widget'.turbo = turbo'
  BY DEF AgreesInTheEnd
<1>1. up' /\ \A i \in 1 .. Len(toClient') : ~Concerns(toClient'[i])
  BY DEF Settled
<1>2. Over(Arrivals, toClient', 0) /\ Over(Backlights, toClient', 0) /\ Over(Turbos, toClient', 0)
  BY <1>1, NothingConcerns
<1>3. WindowKnows(toClient', 0, up', keyboard', turbo', cache')
  BY DEF NewsIsTrue
<1>4. cache' # None /\ cache'.keyboard = keyboard' /\ cache'.turbo = turbo'
  BY <1>1, <1>2, <1>3 DEF WindowKnows
<1>5. /\ widget'.turbo = cache'.turbo
      /\ widget'.on = cache'.keyboard.on
      /\ widget'.colour = cache'.keyboard.colour
      /\ pending = None => widget'.percent = cache'.keyboard.percent
  BY <1>4, WindowSynced
<1> QED BY <1>4, <1>5 DEF RowAgrees

LEMMA RefusalIsFollowed ==
    ASSUME ControlInv, Resync PROVE ControlInv'
<1>1. /\ SyncFromDaemon /\ resync' = FALSE /\ cache' = cache
      /\ pending' = pending /\ here' = here /\ owed' = owed /\ doubt' = doubt
      /\ tray' = tray /\ items' = items /\ menu' = menu /\ stale' = stale
      /\ up' = up /\ keyboard' = keyboard /\ turbo' = turbo
      /\ toDaemon' = toDaemon /\ toClient' = toClient /\ half' = half
  BY DEF Resync, icon, daemon, bus
<1>2. NewsIsTrue'
  BY <1>1, NoNewsComes
<1>3. ControlTypes /\ cache' \in States \cup {None}
  BY <1>1 DEF ControlInv, ControlTypes
<1>4. widget' \in Widgets /\ (pending # None => widget'.percent = widget.percent)
  BY <1>1, <1>3, WindowSynced
<1>5. ControlTypes'
  BY <1>1, <1>3, <1>4 DEF ControlTypes
<1>6. MenuFollows' /\ SliderIsWhatWeSend'
  BY <1>1, <1>4 DEF ControlInv, MenuFollows, Build, SliderIsWhatWeSend
<1>7. AgreesInTheEnd'
  BY <1>1, <1>2, <1>3, SyncedAgrees
<1>8. ChoiceOnItsWay'
  BY <1>1 DEF ControlInv, ChoiceOnItsWay
<1> QED BY <1>2, <1>5, <1>6, <1>7, <1>8 DEF ControlInv

LEMMA HostMoves ==
    ASSUME ControlInv, Host PROVE ControlInv'
<1>1. /\ widget' = widget /\ pending' = pending /\ cache' = cache /\ here' = here
      /\ resync' = resync /\ tray' = tray
      /\ toDaemon' = toDaemon /\ toClient' = toClient /\ half' = half
      /\ up' = up /\ keyboard' = keyboard /\ turbo' = turbo /\ owed' = owed /\ doubt' = doubt
  BY DEF Host, HostComes, HostReads, HostGoes, gui, bus, daemon
<1>2. NewsIsTrue'
  BY <1>1, NoNewsComes
<1>3. ControlTypes'
  BY <1>1 DEF ControlInv, ControlTypes
<1>4. MenuFollows'
  <2>1. CASE HostComes
    BY <1>1, <2>1 DEF HostComes, RefreshTray, MenuFollows, Build
  <2>2. CASE HostReads
    BY <1>1, <2>2 DEF HostReads, ControlInv, MenuFollows, Build
  <2>3. CASE HostGoes
    BY <1>1, <2>3 DEF HostGoes, ControlInv, MenuFollows, Build
  <2> QED BY <2>1, <2>2, <2>3 DEF Host
<1>5. SliderIsWhatWeSend' /\ AgreesInTheEnd' /\ ChoiceOnItsWay'
  BY <1>1 DEF ControlInv, SliderIsWhatWeSend, AgreesInTheEnd, Settled, RowAgrees, ChoiceOnItsWay
<1> QED BY <1>2, <1>3, <1>4, <1>5 DEF ControlInv

-----------------------------------------------------------------------------
(* Messages taken. *)

LEMMA FirstMessage ==
    ASSUME ControlInv, toClient # <<>>
    PROVE  /\ Head(toClient) = toClient[1] /\ toClient[1] \in Messages
           /\ Tail(toClient) \in Seq(Messages)
           /\ Taken = IF half THEN 1 ELSE 0
           /\ \A i \in 1 .. Len(Tail(toClient)) :
                  i + 1 \in 1 .. Len(toClient) /\ Tail(toClient)[i] = toClient[i + 1]
           /\ \A i \in 1 .. Len(toClient) :
                  i = 1 \/ (i - 1 \in 1 .. Len(Tail(toClient)) /\ Tail(toClient)[i - 1] = toClient[i])
<1>1. toClient \in Seq(Messages)
  BY DEF ControlInv, ControlTypes
<1> QED BY <1>1 DEF Taken

LEMMA TrayHears ==
    ASSUME ControlInv, TrayReceives PROVE ControlInv'
<1> DEFINE m == toClient[1]
<1>1. /\ widget' = widget /\ pending' = pending /\ cache' = cache /\ here' = here
      /\ resync' = resync /\ menu' = menu
      /\ toDaemon' = toDaemon /\ toClient' = toClient /\ toClient # <<>> /\ ~half /\ half' = TRUE
      /\ up' = up /\ keyboard' = keyboard /\ turbo' = turbo /\ owed' = owed /\ doubt' = doubt
      /\ RefreshTray
  BY DEF TrayReceives, gui, daemon
<1>2. /\ Head(toClient) = m /\ m \in Messages /\ toClient \in Seq(Messages)
      /\ tray \in [here : BOOLEAN, on : BOOLEAN \cup {None}] /\ (tray.here => tray.on \in BOOLEAN)
  BY <1>1, FirstMessage DEF ControlInv, ControlTypes
<1>3. m.kind \in {"here", "gone", "keyboard", "turbo"} /\ m.kind # "error"
  BY <1>2, MessagesHave DEF TrayReceives, IsSignal
<1>4. /\ m.kind = "here" => tray' = [here |-> TRUE, on |-> m.state.keyboard.on]
      /\ m.kind = "gone" => tray' = [here |-> FALSE, on |-> None]
      /\ m.kind = "keyboard" => tray' = [tray EXCEPT !.on = IF tray.here THEN m.state.on ELSE tray.on]
      /\ m.kind = "turbo" => tray' = tray
  BY <1>2 DEF TrayReceives
<1>5. /\ m.kind = "here" => m.state.keyboard.on \in BOOLEAN
      /\ m.kind = "keyboard" => m.state.on \in BOOLEAN
  BY <1>2, MessagesHave DEF States, Keyboards
<1> HIDE DEF m
<1>6. /\ tray' \in [here : BOOLEAN, on : BOOLEAN \cup {None}] /\ (tray'.here => tray'.on \in BOOLEAN)
      /\ m.kind = "here" => tray'.here /\ tray'.on = m.state.keyboard.on
      /\ m.kind = "gone" => ~tray'.here
      /\ m.kind = "keyboard" => tray'.here = tray.here /\ (tray.here => tray'.on = m.state.on)
      /\ m.kind = "turbo" => tray' = tray
  <2>1. CASE m.kind = "here"
    <3> DEFINE v == m.state.keyboard.on
    <3>1. tray' = [here |-> TRUE, on |-> v] /\ v \in BOOLEAN
      BY <1>4, <1>5, <2>1
    <3> HIDE DEF v
    <3>2. tray' \in [here : BOOLEAN, on : BOOLEAN \cup {None}]
      BY <3>1
    <3>3. tray'.here /\ tray'.on = v
      BY <3>1
    <3> QED BY <2>1, <3>1, <3>2, <3>3 DEF v
  <2>2. CASE m.kind = "gone"
    <3>1. tray' = [here |-> FALSE, on |-> None]
      BY <1>4, <2>2
    <3>2. tray' \in [here : BOOLEAN, on : BOOLEAN \cup {None}]
      BY <3>1
    <3>3. ~tray'.here
      BY <3>1
    <3> QED BY <2>2, <3>2, <3>3
  <2>3. CASE m.kind = "keyboard"
    BY <1>2, <1>4, <1>5, <2>3
  <2>4. CASE m.kind = "turbo"
    BY <1>2, <1>4, <2>4
  <2> QED BY <1>3, <2>1, <2>2, <2>3, <2>4
<1>7. /\ NewsFits(toClient, up, keyboard, turbo) /\ WindowKnows(toClient, 0, up, keyboard, turbo, cache)
      /\ TrayKnows(toClient, 0, up, keyboard, tray) /\ up \in BOOLEAN
  BY <1>1 DEF ControlInv, ControlTypes, NewsIsTrue, Taken
<1>8. TrayKnows(toClient, 1, up, keyboard, tray')
  BY <1>1, <1>2, <1>3, <1>6, <1>7, TrayTakes DEF m
<1>9. NewsIsTrue'
  BY <1>1, <1>7, <1>8 DEF NewsIsTrue, Taken
<1>10. ControlTypes'
  BY <1>1, <1>3, <1>6 DEF m, ControlInv, ControlTypes
<1>11. MenuFollows'
  BY <1>1 DEF RefreshTray, MenuFollows, Build
<1>12. SliderIsWhatWeSend' /\ AgreesInTheEnd' /\ ChoiceOnItsWay'
  BY <1>1 DEF ControlInv, SliderIsWhatWeSend, AgreesInTheEnd, Settled, RowAgrees, ChoiceOnItsWay
<1> QED BY <1>9, <1>10, <1>11, <1>12 DEF ControlInv

LEMMA WindowHears ==
    ASSUME ControlInv, WindowReceives PROVE ControlInv'
<1> DEFINE m == toClient[1]
<1>1. /\ pending' = pending /\ resync' = resync /\ tray' = tray /\ items' = items
      /\ menu' = menu /\ stale' = stale
      /\ toDaemon' = toDaemon /\ toClient' = Tail(toClient) /\ half /\ half' = FALSE
      /\ up' = up /\ keyboard' = keyboard /\ turbo' = turbo /\ owed' = owed /\ doubt' = doubt
      /\ SyncFromDaemon
  BY DEF WindowReceives, icon, daemon
<1>2. /\ toClient # <<>> /\ m.kind # "error" /\ toClient \in Seq(Messages)
      /\ cache \in States \cup {None} /\ up \in BOOLEAN
      /\ NewsFits(toClient, up, keyboard, turbo) /\ WindowKnows(toClient, 0, up, keyboard, turbo, cache)
      /\ TrayKnows(toClient, 1, up, keyboard, tray)
  BY <1>1 DEF ControlInv, ControlTypes, NewsIsTrue, Taken
<1>3. Head(toClient) = m /\ m \in Messages /\ Tail(toClient) \in Seq(Messages)
  BY <1>2, FirstMessage
<1>4. cache' = Seen(cache, m) /\ here' = (cache' # None)
  BY <1>3 DEF WindowReceives
<1>5. cache' \in States \cup {None}
  BY <1>2, <1>3, <1>4, SeenIsTyped
<1>6. NewsFits(Tail(toClient), up, keyboard, turbo)
  BY <1>2, NewsStayTrue
<1>7. WindowKnows(Tail(toClient), 0, up, keyboard, turbo, cache')
  BY <1>2, <1>4, WindowTakes
<1>8. TrayKnows(Tail(toClient), 0, up, keyboard, tray)
  BY <1>2, TrayMovesOn
<1>9. NewsIsTrue'
  BY <1>1, <1>6, <1>7, <1>8 DEF NewsIsTrue, Taken
<1>10. ControlTypes
  BY DEF ControlInv
<1>11. widget' \in Widgets /\ (pending # None => widget'.percent = widget.percent)
  BY <1>1, <1>5, <1>10, WindowSynced
<1>12. ControlTypes'
  BY <1>1, <1>3, <1>4, <1>5, <1>10, <1>11 DEF ControlTypes
<1>13. MenuFollows' /\ SliderIsWhatWeSend'
  BY <1>1, <1>11 DEF ControlInv, MenuFollows, Build, SliderIsWhatWeSend
<1>14. AgreesInTheEnd'
  BY <1>1, <1>5, <1>9, <1>10, SyncedAgrees
<1>15. ChoiceOnItsWay'
  BY <1>1 DEF ControlInv, ChoiceOnItsWay
<1> QED BY <1>9, <1>12, <1>13, <1>14, <1>15 DEF ControlInv

LEMMA CallFailed ==
    ASSUME ControlInv, CallFails PROVE ControlInv'
<1> DEFINE m == toClient[1]
<1>1. /\ widget' = widget /\ pending' = pending /\ cache' = cache /\ here' = here
      /\ tray' = tray /\ items' = items /\ menu' = menu /\ stale' = stale
      /\ toDaemon' = toDaemon /\ toClient # <<>> /\ toClient' = Tail(toClient) /\ half' = half
      /\ up' = up /\ keyboard' = keyboard /\ turbo' = turbo /\ owed' = owed /\ doubt' = doubt
  BY DEF CallFails, icon, daemon
<1>2. /\ Head(toClient) = m /\ m \in Messages /\ Tail(toClient) \in Seq(Messages)
      /\ \A i \in 1 .. Len(toClient) :
             i = 1 \/ (i - 1 \in 1 .. Len(Tail(toClient)) /\ Tail(toClient)[i - 1] = toClient[i])
  BY <1>1, FirstMessage
<1>3. m.kind = "error" /\ resync' \in (IF m.to = "window" THEN {TRUE} ELSE {TRUE, resync})
  BY <1>2 DEF CallFails, IsSignal
<1>4. /\ ~half /\ toClient \in Seq(Messages) /\ resync' \in BOOLEAN
      /\ NewsFits(toClient, up, keyboard, turbo) /\ WindowKnows(toClient, 0, up, keyboard, turbo, cache)
      /\ TrayKnows(toClient, 0, up, keyboard, tray)
  BY <1>3 DEF ControlInv, ControlTypes, NewsIsTrue, Taken
<1>5. NewsFits(Tail(toClient), up, keyboard, turbo)
  BY <1>1, <1>4, NewsStayTrue
<1>6. WindowKnows(Tail(toClient), 0, up, keyboard, turbo, cache)
  BY <1>1, <1>3, <1>4, ErrorTaken
<1>7. TrayKnows(Tail(toClient), 0, up, keyboard, tray)
  BY <1>1, <1>3, <1>4, ErrorTaken
<1>8. NewsIsTrue'
  BY <1>1, <1>4, <1>5, <1>6, <1>7 DEF NewsIsTrue, Taken
<1>9. ControlTypes'
  BY <1>1, <1>2, <1>4 DEF ControlInv, ControlTypes
<1>10. MenuFollows' /\ SliderIsWhatWeSend' /\ ChoiceOnItsWay'
  BY <1>1 DEF ControlInv, MenuFollows, Build, SliderIsWhatWeSend, ChoiceOnItsWay
<1>11. AgreesInTheEnd'
  <2>1. Settled' => Settled
    <3> SUFFICES ASSUME Settled' PROVE Settled
      OBVIOUS
    <3>1. m.to # "window" /\ ~resync
      BY <1>3 DEF Settled
    <3>2. ~Concerns(m)
      BY <1>3, <3>1 DEF Concerns
    <3>3. \A i \in 1 .. Len(Tail(toClient)) : ~Concerns(Tail(toClient)[i])
      BY <1>1 DEF Settled
    <3>4. \A i \in 1 .. Len(toClient) : ~Concerns(toClient[i])
      BY <1>2, <3>2, <3>3
    <3> QED BY <1>1, <3>1, <3>4 DEF Settled
  <2> QED BY <1>1, <2>1 DEF ControlInv, AgreesInTheEnd, RowAgrees
<1> QED BY <1>8, <1>9, <1>10, <1>11 DEF ControlInv

-----------------------------------------------------------------------------
(* The daemon obeys or refuses a call, follows somebody else, stops and starts. *)

LEMMA CallHandled ==
    ASSUME ControlInv, Handle PROVE ControlInv'
<1> DEFINE c == Head(toDaemon)
<1>1. /\ toDaemon # <<>> /\ toDaemon' = Tail(toDaemon) /\ toDaemon \in Seq(Calls)
      /\ widget' = widget /\ pending' = pending /\ cache' = cache /\ here' = here
      /\ resync' = resync /\ tray' = tray /\ items' = items /\ menu' = menu /\ stale' = stale
      /\ half' = half /\ up' = up
  BY DEF Handle, gui, icon, ControlInv, ControlTypes
<1>2. c \in Calls /\ toDaemon' \in Seq(Calls)
  BY <1>1, CallTaken
<1>3. /\ c.kind \in {"on", "turbo", "colour", "percent"} /\ c.from \in Callers
      /\ c.kind # "on" => c.from = "window"
      /\ c.kind \in {"on", "turbo"} => c.value \in BOOLEAN
      /\ c.kind = "colour" => c.value \in Colours
      /\ c.kind = "percent" => c.value \in Percents
  BY <1>2, CallsHave
<1>4. OwnCall(toDaemon) /\ (c.from # "window" \/ c.kind = "turbo") => OwnCall(toDaemon')
  BY <1>1, CallTaken
<1>5. LastTurbo(toDaemon, widget.turbo)
        => LastTurbo(toDaemon', widget.turbo) \/ (c.kind = "turbo" /\ c.value = widget.turbo)
  BY <1>1, CallTaken
<1>6. OnlyPositions(toDaemon, owed) =>
          OnlyPositions(toDaemon', owed) /\ c.kind = "percent" /\ Bearing(owed)
  BY <1>1, CallTaken
<1>7. Comes(toDaemon, owed) =>
          \/ Comes(toDaemon', owed)
          \/ c.kind = owed.kind /\ c.value = owed.value /\ OnlyPositions(toDaemon', owed)
  BY <1>1, CallTaken
<1>8. keyboard \in Keyboards /\ turbo \in BOOLEAN /\ doubt \in BOOLEAN /\ owed \in Wishes \cup {None}
  BY DEF ControlInv, ControlTypes
<1>9. (owed # None /\ c.kind = owed.kind /\ c.value = owed.value)
        => owed = [kind |-> c.kind, value |-> c.value]
  BY <1>8, WishesHave
<1>10. MenuFollows' /\ SliderIsWhatWeSend'
  BY <1>1 DEF ControlInv, MenuFollows, Build, SliderIsWhatWeSend
<1> DEFINE overtaken == IF owed = [kind |-> c.kind, value |-> c.value] THEN None ELSE owed
<1>11. \/ /\ c.kind # "turbo" /\ keyboard' = Obeying(keyboard, c)
          /\ Announce("keyboard", keyboard') /\ turbo' = turbo /\ owed' = owed
       \/ /\ c.kind = "turbo" /\ turbo' \in BOOLEAN /\ keyboard' = keyboard
          /\ IF turbo' # turbo THEN Announce("turbo", turbo')
             ELSE toClient' = toClient /\ doubt' = (doubt \/ turbo' # c.value)
          /\ owed' = IF turbo' = c.value THEN owed ELSE overtaken
       \/ /\ toClient' = Append(toClient, [kind |-> "error", to |-> c.from])
          /\ owed' = overtaken
          /\ keyboard' = keyboard /\ turbo' = turbo /\ doubt' = doubt
  BY DEF Handle
<1>12. /\ overtaken \in {owed, None}
       /\ overtaken # None => overtaken = owed /\ owed # [kind |-> c.kind, value |-> c.value]
  OBVIOUS
<1> HIDE DEF c, overtaken
<1>13. owed # None =>
           /\ pending # None => Waits(owed, pending) \/ Bearing(owed)
           /\ \/ Waits(owed, pending)
              \/ Obeyed(owed, keyboard, turbo) /\ OnlyPositions(toDaemon, owed)
              \/ Comes(toDaemon, owed)
  BY DEF ControlInv, ChoiceOnItsWay
<1>14. Settled => /\ pending # None \/ RowAgrees(keyboard) \/ OwnCall(toDaemon)
                  /\ widget.turbo = turbo \/ LastTurbo(toDaemon, widget.turbo)
  BY DEF ControlInv, AgreesInTheEnd
<1>15. ASSUME c.kind # "turbo", keyboard' = Obeying(keyboard, c),
              Announce("keyboard", keyboard'), turbo' = turbo, owed' = owed
       PROVE  ControlInv'
  <2>1. c.kind \in {"on", "colour", "percent"}
    BY <1>3, <1>15
  <2>2. keyboard' \in Keyboards
    BY <1>3, <1>8, <1>15, <2>1, ObeyingIsTyped
  <2>3. toClient' = Append(toClient, [kind |-> "keyboard", state |-> keyboard']) /\ doubt' = FALSE
    BY <1>15 DEF Announce
  <2>4. /\ NewsIsTrue' /\ toClient' \in Seq(Messages) /\ ~Settled'
        /\ half' => toClient' # <<>> /\ toClient'[1].kind # "error"
    BY <1>1, <1>15, <2>2, <2>3, BacklightComes
  <2>5. ControlTypes'
    BY <1>1, <1>2, <1>15, <2>2, <2>3, <2>4 DEF ControlInv, ControlTypes
  <2>6. AgreesInTheEnd'
    BY <2>4 DEF AgreesInTheEnd
  <2>7. ChoiceOnItsWay'
    <3> SUFFICES ASSUME owed # None, ~Waits(owed, pending)
                 PROVE  \/ Obeyed(owed, keyboard', turbo') /\ OnlyPositions(toDaemon', owed)
                        \/ Comes(toDaemon', owed)
      BY <1>1, <1>13, <1>15 DEF ChoiceOnItsWay
    <3>1. CASE Obeyed(owed, keyboard, turbo) /\ OnlyPositions(toDaemon, owed)
      <4>1. OnlyPositions(toDaemon', owed) /\ c.kind = "percent" /\ Bearing(owed)
        BY <1>6, <3>1
      <4>2. owed \in Wishes
        BY <1>8
      <4>3. Obeyed(owed, keyboard', turbo')
        BY <1>2, <1>8, <1>15, <3>1, <4>1, <4>2, StillObeyed
      <4> QED BY <4>1, <4>3
    <3>2. CASE Comes(toDaemon, owed) /\ ~Comes(toDaemon', owed)
      <4>1. c.kind = owed.kind /\ c.value = owed.value /\ OnlyPositions(toDaemon', owed)
        BY <1>7, <3>2
      <4>2. owed \in Wishes /\ owed.kind # "turbo"
        BY <1>8, <1>15, <4>1
      <4>3. Obeyed(owed, keyboard', turbo')
        BY <1>8, <1>15, <4>1, <4>2, ObeyedAtOnce
      <4> QED BY <4>1, <4>3
    <3> QED BY <1>13, <3>1, <3>2
  <2> QED BY <1>10, <2>4, <2>5, <2>6, <2>7 DEF ControlInv
<1>16. ASSUME c.kind = "turbo", turbo' \in BOOLEAN, keyboard' = keyboard,
              IF turbo' # turbo THEN Announce("turbo", turbo')
              ELSE toClient' = toClient /\ doubt' = (doubt \/ turbo' # c.value),
              owed' = IF turbo' = c.value THEN owed ELSE overtaken
       PROVE  ControlInv'
  <2>1. /\ NewsIsTrue' /\ toClient' \in Seq(Messages) /\ doubt' \in BOOLEAN
        /\ half' => toClient' # <<>> /\ toClient'[1].kind # "error"
        /\ Settled' => turbo' = turbo /\ turbo' = c.value /\ Settled
    <3>1. CASE turbo' # turbo
      <4>1. toClient' = Append(toClient, [kind |-> "turbo", state |-> turbo']) /\ doubt' = FALSE
        BY <1>16, <3>1 DEF Announce
      <4> QED BY <1>1, <1>16, <4>1, TurboComes
    <3>2. CASE turbo' = turbo
      <4>1. toClient' = toClient /\ doubt' = (doubt \/ turbo' # c.value)
        BY <1>16, <3>2
      <4>2. /\ NewsIsTrue' /\ toClient' \in Seq(Messages)
            /\ half' => toClient' # <<>> /\ toClient'[1].kind # "error"
        BY <1>1, <1>16, <3>2, <4>1, NoNewsComes
      <4>3. Settled' => turbo' = c.value /\ Settled
        BY <1>1, <4>1 DEF Settled
      <4> QED BY <1>8, <3>2, <4>1, <4>2, <4>3
    <3> QED BY <3>1, <3>2
  <2>2. owed' \in {owed, None}
    BY <1>12, <1>16
  <2>3. ControlTypes'
    BY <1>1, <1>2, <1>8, <1>16, <2>1, <2>2 DEF ControlInv, ControlTypes
  <2>4. AgreesInTheEnd'
    <3> SUFFICES ASSUME Settled'
                 PROVE  /\ pending' # None \/ RowAgrees(keyboard)' \/ OwnCall(toDaemon')
                        /\ widget'.turbo = turbo' \/ LastTurbo(toDaemon', widget'.turbo)
      BY DEF AgreesInTheEnd
    <3>1. turbo' = turbo /\ turbo' = c.value /\ Settled
      BY <2>1
    <3>2. RowAgrees(keyboard) => RowAgrees(keyboard)'
      BY <1>1, <1>16 DEF RowAgrees
    <3> QED BY <1>1, <1>4, <1>5, <1>14, <1>16, <3>1, <3>2
  <2>5. ChoiceOnItsWay'
    <3> SUFFICES ASSUME owed' # None, ~Waits(owed, pending)
                 PROVE  \/ Obeyed(owed, keyboard', turbo') /\ OnlyPositions(toDaemon', owed)
                        \/ Comes(toDaemon', owed)
      BY <1>1, <1>13, <2>2 DEF ChoiceOnItsWay
    <3>1. owed # None /\ owed' = owed
      BY <2>2
    <3>2. ~OnlyPositions(toDaemon, owed)
      BY <1>6, <1>16
    <3>3. Comes(toDaemon, owed)
      BY <1>13, <3>1, <3>2
    <3>4. CASE ~Comes(toDaemon', owed)
      <4>1. c.kind = owed.kind /\ c.value = owed.value /\ OnlyPositions(toDaemon', owed)
        BY <1>7, <3>3, <3>4
      <4>2. turbo' = c.value
        BY <1>9, <1>12, <1>16, <3>1, <4>1
      <4> QED BY <1>16, <4>1, <4>2 DEF Obeyed
    <3> QED BY <3>4
  <2> QED BY <1>10, <2>1, <2>3, <2>4, <2>5 DEF ControlInv
<1>17. ASSUME toClient' = Append(toClient, [kind |-> "error", to |-> c.from]), owed' = overtaken,
              keyboard' = keyboard, turbo' = turbo, doubt' = doubt
       PROVE  ControlInv'
  <2>1. /\ NewsIsTrue' /\ toClient' \in Seq(Messages)
        /\ half' => toClient' # <<>> /\ toClient'[1].kind # "error"
    BY <1>1, <1>3, <1>17, NoNewsComes
  <2>2. owed' \in {owed, None}
    BY <1>12, <1>17
  <2>3. ControlTypes'
    BY <1>1, <1>2, <1>17, <2>1, <2>2 DEF ControlInv, ControlTypes
  <2>4. AgreesInTheEnd'
    <3> SUFFICES ASSUME Settled'
                 PROVE  /\ pending' # None \/ RowAgrees(keyboard)' \/ OwnCall(toDaemon')
                        /\ widget'.turbo = turbo' \/ LastTurbo(toDaemon', widget'.turbo)
      BY DEF AgreesInTheEnd
    <3> DEFINE m == [kind |-> "error", to |-> c.from]
    <3>1. m \in Messages /\ m.kind = "error" /\ m.to = c.from
      BY <1>3, MessagesAre
    <3>2. toClient' = Append(toClient, m)
      BY <1>17
    <3> HIDE DEF m
    <3>3. /\ \A i \in 1 .. Len(toClient) : i \in 1 .. Len(toClient') /\ toClient'[i] = toClient[i]
          /\ Len(toClient') \in 1 .. Len(toClient') /\ toClient'[Len(toClient')] = m
      BY <1>1, <3>1, <3>2, FirstStays
    <3>4. \A i \in 1 .. Len(toClient') : ~Concerns(toClient'[i])
      BY DEF Settled
    <3>5. c.from # "window"
      BY <3>1, <3>3, <3>4 DEF Concerns
    <3>6. Settled
      BY <1>1, <1>17, <3>3, <3>4 DEF Settled
    <3>7. c.kind # "turbo"
      BY <1>3, <3>5
    <3>8. RowAgrees(keyboard) => RowAgrees(keyboard)'
      BY <1>1, <1>17 DEF RowAgrees
    <3> QED BY <1>1, <1>4, <1>5, <1>14, <1>17, <3>5, <3>6, <3>7, <3>8
  <2>5. ChoiceOnItsWay'
    <3> SUFFICES ASSUME owed' # None, ~Waits(owed, pending)
                 PROVE  \/ Obeyed(owed, keyboard', turbo') /\ OnlyPositions(toDaemon', owed)
                        \/ Comes(toDaemon', owed)
      BY <1>1, <1>13, <2>2 DEF ChoiceOnItsWay
    <3>1. owed # None /\ owed' = owed /\ owed # [kind |-> c.kind, value |-> c.value]
      BY <1>12, <1>17, <2>2
    <3>2. Comes(toDaemon, owed) => Comes(toDaemon', owed)
      BY <1>7, <1>9, <3>1
    <3> QED BY <1>6, <1>13, <1>17, <3>1, <3>2
  <2> QED BY <1>10, <2>1, <2>3, <2>4, <2>5 DEF ControlInv
<1> QED BY <1>11, <1>15, <1>16, <1>17

LEMMA ChosenElsewhere ==
    ASSUME ControlInv, Elsewhere PROVE ControlInv'
<1>1. /\ widget' = widget /\ pending' = pending /\ cache' = cache /\ here' = here
      /\ resync' = resync /\ tray' = tray /\ items' = items /\ menu' = menu /\ stale' = stale
      /\ toDaemon' = toDaemon /\ half' = half /\ up' = up /\ owed' = None
  BY DEF Elsewhere, gui, icon
<1>2. keyboard \in Keyboards /\ turbo \in BOOLEAN
  BY DEF ControlInv, ControlTypes
<1> DEFINE Told ==
             /\ NewsIsTrue' /\ toClient' \in Seq(Messages) /\ ~Settled'
             /\ half' => toClient' # <<>> /\ toClient'[1].kind # "error"
             /\ keyboard' \in Keyboards /\ turbo' \in BOOLEAN /\ doubt' = FALSE
<1>3. Told
  <2>1. ASSUME Announce("keyboard", keyboard'), turbo' = turbo,
               \/ \E v \in BOOLEAN : keyboard' = Obeying(keyboard, [kind |-> "on", value |-> v])
               \/ \E v \in Colours : keyboard' = Obeying(keyboard, [kind |-> "colour", value |-> v])
               \/ \E v \in Percents : keyboard' = Obeying(keyboard, [kind |-> "percent", value |-> v])
        PROVE  Told
    <3>1. keyboard' \in Keyboards
      <4>1. ASSUME NEW v \in BOOLEAN, keyboard' = Obeying(keyboard, [kind |-> "on", value |-> v])
            PROVE  keyboard' \in Keyboards
        <5> DEFINE c == [kind |-> "on", value |-> v]
        <5>1. c.kind = "on" /\ c.value = v /\ keyboard' = Obeying(keyboard, c)
          BY <4>1
        <5> HIDE DEF c
        <5> QED BY <1>2, <4>1, <5>1, ObeyingIsTyped
      <4>2. ASSUME NEW v \in Colours,
                   keyboard' = Obeying(keyboard, [kind |-> "colour", value |-> v])
            PROVE  keyboard' \in Keyboards
        <5> DEFINE c == [kind |-> "colour", value |-> v]
        <5>1. c.kind = "colour" /\ c.value = v /\ keyboard' = Obeying(keyboard, c)
          BY <4>2
        <5> HIDE DEF c
        <5> QED BY <1>2, <4>2, <5>1, ObeyingIsTyped
      <4>3. ASSUME NEW v \in Percents,
                   keyboard' = Obeying(keyboard, [kind |-> "percent", value |-> v])
            PROVE  keyboard' \in Keyboards
        <5> DEFINE c == [kind |-> "percent", value |-> v]
        <5>1. c.kind = "percent" /\ c.value = v /\ keyboard' = Obeying(keyboard, c)
          BY <4>3
        <5> HIDE DEF c
        <5> QED BY <1>2, <4>3, <5>1, ObeyingIsTyped
      <4> QED BY <2>1, <4>1, <4>2, <4>3
    <3>2. toClient' = Append(toClient, [kind |-> "keyboard", state |-> keyboard']) /\ doubt' = FALSE
      BY <2>1 DEF Announce
    <3> QED BY <1>1, <1>2, <2>1, <3>1, <3>2, BacklightComes
  <2>2. ASSUME turbo' = ~turbo, Announce("turbo", turbo'), keyboard' = keyboard
        PROVE  Told
    <3>1. toClient' = Append(toClient, [kind |-> "turbo", state |-> turbo']) /\ doubt' = FALSE
      BY <2>2 DEF Announce
    <3>2. turbo' \in BOOLEAN
      BY <2>2
    <3> QED BY <1>1, <1>2, <2>2, <3>1, <3>2, TurboComes
  <2> QED BY <2>1, <2>2 DEF Elsewhere
<1>4. ControlTypes'
  BY <1>1, <1>3 DEF ControlInv, ControlTypes
<1>5. MenuFollows' /\ SliderIsWhatWeSend'
  BY <1>1 DEF ControlInv, MenuFollows, Build, SliderIsWhatWeSend
<1>6. AgreesInTheEnd' /\ ChoiceOnItsWay'
  BY <1>1, <1>3 DEF AgreesInTheEnd, ChoiceOnItsWay
<1> QED BY <1>3, <1>4, <1>5, <1>6 DEF ControlInv

LEMMA DaemonStops ==
    ASSUME ControlInv, Stop PROVE ControlInv'
<1>1. /\ widget' = widget /\ pending' = pending /\ cache' = cache /\ here' = here
      /\ resync' = resync /\ tray' = tray /\ items' = items /\ menu' = menu /\ stale' = stale
      /\ toDaemon' = <<>> /\ half' = half /\ up' = FALSE /\ owed' = None
      /\ keyboard' = keyboard /\ turbo' = turbo /\ doubt' = doubt
  BY DEF Stop, gui, icon
<1>2. /\ toClient \in Seq(Messages) /\ toDaemon \in Seq(Calls) /\ Taken \in 0 .. Len(toClient)
      /\ half => toClient # <<>> /\ toClient[1].kind # "error"
  <2>1. Taken \in 0 .. Len(toClient)
    BY QueueHasRoom
  <2>2. ControlTypes
    BY DEF ControlInv
  <2>3. toClient \in Seq(Messages) /\ toDaemon \in Seq(Calls)
    BY <2>2 DEF ControlTypes
  <2>4. half => toClient # <<>> /\ toClient[1].kind # "error"
    BY <2>2, ZenonT(30) DEF ControlTypes
  <2> QED BY <2>1, <2>3, <2>4
<1>3. toClient' = Ended(toClient, toDaemon)
  BY DEF Stop, Ended
<1>4. NewsFits(toClient', FALSE, keyboard, turbo)
  BY <1>2, <1>3, EndIsNews
<1>5. WindowKnows(toClient', 0, FALSE, keyboard, turbo, cache)
  BY <1>2, <1>3, EndIsNews
<1>6. TrayKnows(toClient', Taken, FALSE, keyboard, tray)
  BY <1>2, <1>3, EndIsNews
<1>7. NewsIsTrue'
  BY <1>1, <1>4, <1>5, <1>6 DEF NewsIsTrue, Taken
<1>8. toClient' \in Seq(Messages) /\ (half' => toClient' # <<>> /\ toClient'[1].kind # "error")
  <2>1. /\ toClient' \in Seq(Messages) /\ Len(toClient') = Len(toClient) + 1 + Len(toDaemon)
        /\ \A i \in 1 .. Len(toClient) : toClient'[i] = toClient[i]
    BY <1>2, <1>3, EndIsTyped
  <2>2. toClient # <<>> => 1 \in 1 .. Len(toClient)
    BY <1>2
  <2>3. toClient' # <<>>
    <3>1. Len(toClient) \in Nat /\ Len(toDaemon) \in Nat
      BY <1>2
    <3> QED BY <2>1, <3>1
  <2> QED BY <1>1, <1>2, <2>1, <2>2, <2>3
<1>9. ControlTypes'
  <2>1. ControlTypes
    BY DEF ControlInv
  <2>2. toDaemon' \in Seq(Calls) /\ owed' \in Wishes \cup {None} /\ up' \in BOOLEAN
    <3>1. <<>> \in Seq(Calls)
      OBVIOUS
    <3>2. toDaemon' = <<>> /\ owed' = None /\ up' = FALSE
      BY <1>1
    <3>3. toDaemon' \in Seq(Calls)
      BY <3>1, <3>2, Zenon
    <3> QED BY <3>2, <3>3
  <2>3. half' => toClient' # <<>> /\ toClient'[1].kind # "error"
    BY <1>8
  <2>4. /\ widget' \in Widgets /\ pending' \in Percents \cup {None}
        /\ cache' \in States \cup {None} /\ (here' <=> cache' # None)
        /\ here' \in BOOLEAN /\ resync' \in BOOLEAN /\ half' \in BOOLEAN
        /\ turbo' \in BOOLEAN /\ doubt' \in BOOLEAN /\ keyboard' \in Keyboards
    BY <1>1, <2>1 DEF ControlTypes
  <2>5. tray' \in [here : BOOLEAN, on : BOOLEAN \cup {None}] /\ (tray'.here => tray'.on \in BOOLEAN)
    BY <1>1, <2>1 DEF ControlTypes
  <2> QED BY <1>8, <2>2, <2>3, <2>4, <2>5 DEF ControlTypes
<1>10. MenuFollows' /\ SliderIsWhatWeSend'
  BY <1>1 DEF ControlInv, MenuFollows, Build, SliderIsWhatWeSend
<1>11. AgreesInTheEnd' /\ ChoiceOnItsWay'
  BY <1>1 DEF AgreesInTheEnd, Settled, ChoiceOnItsWay
<1> QED BY <1>7, <1>9, <1>10, <1>11 DEF ControlInv

LEMMA DaemonStarts ==
    ASSUME ControlInv, Start PROVE ControlInv'
<1> DEFINE m == [kind |-> "here", state |-> Properties']
<1>1. /\ widget' = widget /\ pending' = pending /\ cache' = cache /\ here' = here
      /\ resync' = resync /\ tray' = tray /\ items' = items /\ menu' = menu /\ stale' = stale
      /\ toDaemon' = toDaemon /\ half' = half /\ up' = TRUE /\ owed' = None
      /\ turbo' \in BOOLEAN /\ keyboard' \in {keyboard, Default}
      /\ toClient' = Append(toClient, m) /\ doubt' = FALSE
  BY DEF Start, Announce, gui, icon
<1>2. keyboard' \in Keyboards
  <2>1. keyboard \in Keyboards
    BY DEF ControlInv, ControlTypes
  <2>2. Default \in Keyboards
    BY ParameterAssumption DEF Default, Keyboards
  <2> QED BY <1>1, <2>1, <2>2
<1>3. /\ m \in Messages /\ m.kind = "here"
      /\ m.state.keyboard = keyboard' /\ m.state.turbo = turbo'
  <2>1. Properties' \in States /\ Properties'.keyboard = keyboard' /\ Properties'.turbo = turbo'
    BY <1>1, <1>2 DEF Properties, States
  <2> QED BY <2>1, MessagesAre
<1> HIDE DEF m
<1>4. toClient \in Seq(Messages) /\ Taken \in 0 .. Len(toClient) /\ Taken' = Taken
  BY <1>1, QueueHasRoom DEF ControlInv, ControlTypes, Taken
<1>5. NewsFits(toClient', TRUE, keyboard', turbo')
  BY <1>1, <1>3, <1>4, ArrivalIsNews
<1>6. WindowKnows(toClient', 0, TRUE, keyboard', turbo', cache)
  BY <1>1, <1>3, <1>4, ArrivalIsNews
<1>7. TrayKnows(toClient', Taken, TRUE, keyboard', tray)
  BY <1>1, <1>3, <1>4, ArrivalIsNews
<1>8. NewsIsTrue'
  BY <1>1, <1>4, <1>5, <1>6, <1>7 DEF NewsIsTrue
<1>9. /\ toClient' \in Seq(Messages) /\ (half' => toClient' # <<>> /\ toClient'[1].kind # "error")
      /\ Len(toClient') \in 1 .. Len(toClient') /\ toClient'[Len(toClient')] = m
  BY <1>1, <1>3, FirstStays
<1>10. ControlTypes'
  BY <1>1, <1>2, <1>9 DEF ControlInv, ControlTypes
<1>11. MenuFollows' /\ SliderIsWhatWeSend'
  BY <1>1 DEF ControlInv, MenuFollows, Build, SliderIsWhatWeSend
<1>12. ~Settled'
  BY <1>3, <1>9 DEF Settled, Concerns
<1>13. AgreesInTheEnd' /\ ChoiceOnItsWay'
  BY <1>1, <1>12 DEF AgreesInTheEnd, ChoiceOnItsWay
<1> QED BY <1>8, <1>10, <1>11, <1>13 DEF ControlInv

-----------------------------------------------------------------------------
(* The invariant. *)

LEMMA ControlsAtFirst == Init => ControlInv
<1> SUFFICES ASSUME Init PROVE ControlInv
  OBVIOUS
<1>1. /\ pending = None /\ cache = None /\ here = FALSE /\ resync = FALSE
      /\ toDaemon = <<>> /\ toClient = <<>> /\ half = FALSE /\ up = FALSE
      /\ turbo = TRUE /\ owed = None /\ doubt = FALSE /\ menu = None /\ items = Build(tray)
      /\ tray = [here |-> FALSE, on |-> None]
      /\ widget = [on |-> FALSE, colour |-> None, percent |-> None, turbo |-> FALSE]
  BY DEF Init
<1>2. widget \in Widgets
  BY <1>1 DEF Widgets
<1>3. keyboard \in Keyboards
  BY ParameterAssumption DEF Init, Default, Keyboards
<1>4. tray \in [here : BOOLEAN, on : BOOLEAN \cup {None}] /\ ~tray.here
  <2>1. tray = [here |-> FALSE, on |-> None]
    BY <1>1
  <2>2. tray \in [here : BOOLEAN, on : BOOLEAN \cup {None}]
    BY <2>1
  <2>3. ~tray.here
    BY <2>1
  <2> QED BY <2>2, <2>3
<1>5. toDaemon \in Seq(Calls) /\ toClient \in Seq(Messages)
  BY <1>1
<1>6. ControlTypes
  BY <1>1, <1>2, <1>3, <1>4, <1>5 DEF ControlTypes
<1>7. NewsIsTrue
  <2>1. Len(toClient) = 0 /\ 1 .. Len(toClient) = {}
    BY <1>1
  <2>2. NewsFits(toClient, up, keyboard, turbo)
    BY <2>1 DEF NewsFits
  <2>3. WindowKnows(toClient, 0, up, keyboard, turbo, cache)
    BY <1>1 DEF WindowKnows
  <2>4. TrayKnows(toClient, Taken, up, keyboard, tray)
    BY <1>1, <1>4 DEF TrayKnows
  <2> QED BY <2>2, <2>3, <2>4 DEF NewsIsTrue
<1>8. MenuFollows /\ SliderIsWhatWeSend /\ AgreesInTheEnd /\ ChoiceOnItsWay
  BY <1>1 DEF MenuFollows, SliderIsWhatWeSend, AgreesInTheEnd, Settled, ChoiceOnItsWay
<1> QED BY <1>6, <1>7, <1>8 DEF ControlInv

LEMMA ControlsGoOn == ControlInv /\ [Next]_vars => ControlInv'
<1> SUFFICES ASSUME ControlInv, [Next]_vars PROVE ControlInv'
  OBVIOUS
<1>1. CASE User
  BY <1>1, SwitchToggled, TurboToggled, ColourApplied, BrightnessChanged, WindowCloses, TrayToggled
     DEF User
<1>2. CASE Loop
  BY <1>2, BrightnessSent, RefusalIsFollowed, TrayHears, WindowHears, CallFailed DEF Loop
<1>3. CASE Host
  BY <1>3, HostMoves
<1>4. CASE Daemon
  BY <1>4, CallHandled, ChosenElsewhere, DaemonStops, DaemonStarts DEF Daemon
<1>5. CASE UNCHANGED vars
  <2>1. /\ widget' = widget /\ pending' = pending /\ cache' = cache /\ here' = here
        /\ resync' = resync /\ tray' = tray /\ items' = items /\ menu' = menu /\ stale' = stale
        /\ toDaemon' = toDaemon /\ toClient' = toClient /\ half' = half /\ up' = up
        /\ keyboard' = keyboard /\ turbo' = turbo /\ owed' = owed /\ doubt' = doubt
    BY <1>5 DEF vars
  <2>2. NewsIsTrue'
    BY <2>1, NoNewsComes
  <2>3. ControlTypes'
    BY <2>1 DEF ControlInv, ControlTypes
  <2>4. MenuFollows' /\ SliderIsWhatWeSend' /\ AgreesInTheEnd' /\ ChoiceOnItsWay'
    BY <2>1 DEF ControlInv, MenuFollows, Build, SliderIsWhatWeSend, AgreesInTheEnd, Settled,
                RowAgrees, ChoiceOnItsWay
  <2> QED BY <2>2, <2>3, <2>4 DEF ControlInv
<1> QED BY <1>1, <1>2, <1>3, <1>4, <1>5 DEF Next

LEMMA ControlsInvariant == Spec => []ControlInv
<1>1. Init => ControlInv
  BY ControlsAtFirst
<1>2. ControlInv /\ [Next]_vars => ControlInv'
  BY ControlsGoOn
<1> QED BY <1>1, <1>2, PTL DEF Spec

-----------------------------------------------------------------------------
(* While the slider's timer runs, the slider shows what it will send, whatever *)
(* the daemon announces of other clients meanwhile.                            *)
THEOREM TheSliderIsWhatWeSend == Spec => []SliderIsWhatWeSend
<1>1. ControlInv => SliderIsWhatWeSend
  BY DEF ControlInv
<1> QED BY <1>1, ControlsInvariant, PTL

(* Once nothing is on its way the window and the tray's menu show what the daemon *)
(* has, but for what a close dropped or another writer undid unannounced.         *)
THEOREM TheControlsAreHonest == Spec => []ControlsAreHonest
<1>1. ControlInv => ControlsAreHonest
  <2> SUFFICES ASSUME ControlInv, AtRest PROVE
          /\ here = up
          /\ (up /\ ~doubt) => /\ [a \in DOMAIN keyboard |-> widget[a]] = keyboard
                               /\ widget.turbo = turbo
          /\ (menu # None /\ ~stale) => /\ menu.enabled = up
                                        /\ up => menu.on = keyboard.on
    BY DEF ControlsAreHonest
  <2>1. /\ pending = None /\ ~resync /\ toDaemon = <<>> /\ toClient = <<>>
        /\ here \in BOOLEAN /\ up \in BOOLEAN /\ (here <=> cache # None)
        /\ keyboard \in Keyboards /\ widget \in Widgets
    BY DEF AtRest, ControlInv, ControlTypes
  <2>2. Len(toClient) = 0 /\ Len(toDaemon) = 0 /\ 1 .. 0 = {}
    BY <2>1
  <2>3. \A n \in Nat : /\ Over(Arrivals, toClient, n) /\ Over(Backlights, toClient, n)
                       /\ Over(Turbos, toClient, n)
    BY <2>2 DEF Over
  <2>4. Taken \in Nat /\ 0 \in Nat
    BY DEF Taken
  <2>5. up <=> cache # None
    BY <2>3, <2>4 DEF ControlInv, NewsIsTrue, WindowKnows
  <2>6. (up <=> tray.here) /\ (up => tray.on = keyboard.on)
    BY <2>3, <2>4 DEF ControlInv, NewsIsTrue, TrayKnows
  <2>7. here = up
    BY <2>1, <2>5
  <2>8. ASSUME up, ~doubt
        PROVE  [a \in DOMAIN keyboard |-> widget[a]] = keyboard /\ widget.turbo = turbo
    <3>1. Settled
      BY <2>1, <2>2, <2>8 DEF Settled
    <3>2. ~OwnCall(toDaemon) /\ ~LastTurbo(toDaemon, widget.turbo)
      BY <2>2 DEF OwnCall, LastTurbo
    <3>3. RowAgrees(keyboard) /\ widget.turbo = turbo
      BY <2>1, <3>1, <3>2 DEF ControlInv, AgreesInTheEnd
    <3>4. DOMAIN keyboard = {"on", "colour", "percent"}
      BY <2>1 DEF Keyboards
    <3>5. \A a \in DOMAIN keyboard : widget[a] = keyboard[a]
      BY <3>3, <3>4 DEF RowAgrees
    <3>6. [a \in DOMAIN keyboard |-> keyboard[a]] = keyboard
      BY <2>1 DEF Keyboards
    <3>7. [a \in DOMAIN keyboard |-> widget[a]] = [a \in DOMAIN keyboard |-> keyboard[a]]
      BY <3>5
    <3> QED BY <3>3, <3>6, <3>7
  <2>9. ASSUME menu # None, ~stale
        PROVE  menu.enabled = up /\ (up => menu.on = keyboard.on)
    <3>1. menu = [on |-> tray.on, enabled |-> tray.here]
      BY <2>9 DEF ControlInv, MenuFollows, Build
    <3>2. menu.on = tray.on /\ menu.enabled = tray.here
      BY <3>1
    <3>3. tray.here \in BOOLEAN
      BY DEF ControlInv, ControlTypes
    <3> QED BY <2>1, <2>6, <3>2, <3>3
  <2> QED BY <2>7, <2>8, <2>9
<1> QED BY <1>1, ControlsInvariant, PTL

(* Once nothing is on its way, the machine is as the last choice made in the *)
(* window or the tray said.                                                  *)
THEOREM TheLastChoiceWins == Spec => []LastChoiceWins
<1>1. ControlInv => LastChoiceWins
  <2> SUFFICES ASSUME ControlInv, AtRest, owed # None
               PROVE  IF owed.kind = "turbo" THEN turbo = owed.value
                      ELSE keyboard = Obeying(keyboard, owed)
    BY DEF LastChoiceWins
  <2>1. /\ pending = None /\ Len(toDaemon) = 0 /\ owed \in Wishes
    BY DEF AtRest, ControlInv, ControlTypes
  <2>2. ~Comes(toDaemon, owed)
    BY <2>1 DEF Comes
  <2>3. ~Waits(owed, pending)
    BY <2>1, WishesHave, NoNones DEF Waits
  <2>4. Obeyed(owed, keyboard, turbo)
    BY <2>2, <2>3 DEF ControlInv, ChoiceOnItsWay
  <2> QED BY <2>4 DEF Obeyed
<1> QED BY <1>1, ControlsInvariant, PTL
=============================================================================
