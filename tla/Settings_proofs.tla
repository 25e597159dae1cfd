--------------------------- MODULE Settings_proofs --------------------------
(***************************************************************************)
(* What holds of the keyboard backlight and the turbo switch, for every    *)
(* set of colours and brightnesses and any number of gkbd's invocations.   *)
(*                                                                         *)
(* Two arguments side by side.  For gkbd it is that of a lock: what the    *)
(* holder has driven, and what it knows of the file that only a holder     *)
(* rewrites, depends on its place in its script alone.  For the daemon it  *)
(* is that of a main loop: what a handler has driven so far is as it was   *)
(* asked, what it will not drive is as it was remembered.  Neither touches *)
(* what the other has driven but by driving it anew.                       *)
(***************************************************************************)
EXTENDS Settings, Integers, TLAPS

-----------------------------------------------------------------------------
(* gkbd: the parts of the invariant. *)

(* Where a script holds the lock: behind lock_ec, wherever its table puts that. *)
Holds(u) ==
    \/ at[u] \in {"on", "percent", "colour", "cut", "write"}
    \/ at[u] = "read" /\ verb[u] \in {"brightness", "on"}

OneHolds == \A u \in Users : lock = u <=> Holds(u)

(* The places each script has. *)
InScript(u) ==
    /\ at[u] \in {"read", "percent"} => verb[u] # "off"
    /\ at[u] = "colour" => verb[u] \in {"color", "on", "apply"}
    /\ at[u] \in {"cut", "write"} => verb[u] \in {"color", "brightness"}

(* What the holder has driven is as it wants it. *)
RunByHolder ==
    \A a \in Aspects : driver[a] = "run" => lock \in Users /\ light[a] = goal[lock][a]

(* The file as an invocation has read it. *)
Agrees(u) == goal[u]["colour"] = store["colour"] /\ goal[u]["percent"] = store["percent"]

(* What the holder has not driven yet, and what it has. *)
DrivenSoFar(u) ==
    /\ at[u] \in {"on", "read", "percent"} => driver["colour"] # "run"
    /\ (at[u] = "on" \/ (at[u] = "read" /\ verb[u] = "on")) => driver["percent"] # "run"
    /\ verb[u] = "color" /\ at[u] \in {"colour", "cut", "write"} => driver["percent"] # "file"
    /\ verb[u] = "color" /\ at[u] \in {"cut", "write"} => driver["colour"] # "file"
    /\ verb[u] = "brightness" /\ at[u] \in {"read", "cut", "write"} =>
            driver["percent"] # "file"

(* What the holder knows of the file, which nobody else rewrites. *)
KnownOfFile(u) ==
    /\ verb[u] = "brightness" /\ at[u] \in {"cut", "write"} /\ driver["colour"] = "file" =>
            light["colour"] = goal[u]["colour"]
    /\ verb[u] = "on" /\ at[u] \in {"percent", "colour"} =>
            store # Cut /\ (store # None => Agrees(u))
    /\ verb[u] = "on" /\ at[u] = "colour" => store # None
    /\ at[u] = "write" => store = Cut

(* A direct_apply that was not overtaken has read what is still there. *)
ApplyKnows(u) ==
    verb[u] = "apply" /\ at[u] \in {"lock", "on", "percent", "colour"} /\ u \notin overtaken =>
        store \in Kept /\ Agrees(u)

(* No colour is driven to an end without a file. *)
ColourIsFiled == driver["colour"] = "file" => store # None

GkbdInv ==
    /\ OneHolds /\ RunByHolder /\ ColourIsFiled /\ FileShows
    /\ \A u \in Users :
        /\ InScript(u) /\ ApplyKnows(u)
        /\ lock = u => DrivenSoFar(u) /\ KnownOfFile(u)

-----------------------------------------------------------------------------
(* Of the data. *)

(* One aspect of a backlight, set as in another. *)
With(s, t, a) == [s EXCEPT ![a] = t[a]]

LEMMA OneAspect ==
    ASSUME NEW s \in States, NEW t \in States, NEW a \in Aspects
    PROVE  /\ With(s, t, a) \in States
           /\ With(s, t, a)[a] = t[a]
           /\ \A b \in Aspects \ {a} : With(s, t, a)[b] = s[b]
<1>1. CASE a = "on"
  BY <1>1 DEF States, Aspects, With
<1>2. CASE a = "colour"
  BY <1>2 DEF States, Aspects, With
<1>3. CASE a = "percent"
  BY <1>3 DEF States, Aspects, With
<1> QED BY <1>1, <1>2, <1>3 DEF Aspects

LEMMA OneShown ==
    ASSUME light \in States, NEW g \in States, NEW a \in Aspects, light' = With(light, g, a)
    PROVE  light' \in States /\ light'[a] = g[a] /\ \A b \in Aspects \ {a} : light'[b] = light[b]
<1>1. With(light, g, a) \in States
  BY OneAspect
<1>2. With(light, g, a)[a] = g[a]
  BY OneAspect
<1>3. \A b \in Aspects \ {a} : With(light, g, a)[b] = light[b]
  BY OneAspect
<1> QED BY <1>1, <1>2, <1>3

LEMMA DefaultIsAState == Default \in States
  BY GkbdAssumption DEF Default, States

(* The tables, read row by row. *)
LEMMA Tables ==
    /\ Script["color"] = direct_set_color /\ Script["brightness"] = direct_set_brightness
    /\ Script["on"] = direct_set_enabled_true /\ Script["off"] = direct_set_enabled_false
    /\ Script["apply"] = direct_apply
  BY DEF Script

LEMMA Ended ==
    \A v \in Verbs : Script[v]["ended"] = IF v \in {"color", "apply"} THEN "read" ELSE "lock"
  BY Tables DEF Verbs, direct_set_color, direct_set_brightness, direct_set_enabled_true,
                direct_set_enabled_false, direct_apply

LEMMA AfterRead ==
    \A v \in Verbs \ {"off"} :
        Script[v]["read"] = IF v = "on" THEN "percent" ELSE IF v = "brightness" THEN "cut" ELSE "lock"
  BY Tables DEF Verbs, direct_set_color, direct_set_brightness, direct_set_enabled_true,
                direct_apply

LEMMA AfterLock == \A v \in Verbs : Script[v]["lock"] = "on"
  BY Tables DEF Verbs, direct_set_color, direct_set_brightness, direct_set_enabled_true,
                direct_set_enabled_false, direct_apply

LEMMA AfterCommand ==
    /\ \A v \in Verbs :
          Script[v]["on"] = IF v = "on" THEN "read" ELSE IF v = "off" THEN "ended" ELSE "percent"
    /\ \A v \in Verbs \ {"off"} :
          Script[v]["percent"] = IF v = "brightness" THEN "read" ELSE "colour"
    /\ \A v \in {"color", "on", "apply"} :
          Script[v]["colour"] = IF v = "color" THEN "cut" ELSE "ended"
  BY Tables DEF Verbs, direct_set_color, direct_set_brightness, direct_set_enabled_true,
                direct_set_enabled_false, direct_apply

(* What is asked for, completed from the file or not, is a backlight. *)
LEMMA AskedAreStates == \A v \in Verbs : Asked(v) \subseteq States
<1> SUFFICES ASSUME NEW v \in Verbs, NEW g \in Asked(v) PROVE g \in States
  OBVIOUS
<1>1. CASE v = "color"
  BY <1>1, DefaultIsAState DEF Asked, States, Verbs
<1>2. CASE v = "brightness"
  BY <1>2, DefaultIsAState DEF Asked, States, Verbs
<1>3. CASE v \notin {"color", "brightness"}
  BY <1>3, DefaultIsAState DEF Asked, States, Verbs
<1> QED BY <1>1, <1>2, <1>3

LEMMA CompletedIsAState ==
    ASSUME GkbdTypeOK, NEW v \in Verbs, NEW g \in States
    PROVE  /\ Completed(v, g) \in States
           /\ Completed(v, g)["on"] = g["on"]
           /\ v = "brightness" => Completed(v, g)["percent"] = g["percent"]
           /\ store \in Kept /\ v # "color" => Completed(v, g)["colour"] = store["colour"]
           /\ store \in Kept /\ v \notin {"color", "brightness"} =>
                  Completed(v, g)["percent"] = store["percent"]
<1>1. CASE store \notin Kept
  BY <1>1 DEF Completed
<1>2. CASE store \in Kept
  <2> DEFINE c == IF v = "color" THEN g["colour"] ELSE store["colour"]
             p == IF v = "brightness" THEN g["percent"] ELSE store["percent"]
  <2>1. c \in Colours /\ p \in Percents /\ g["on"] \in BOOLEAN
    BY <1>2 DEF States, Kept
  <2>2. Completed(v, g) = [on |-> g["on"], colour |-> c, percent |-> p]
    BY <1>2 DEF Completed
  <2> HIDE DEF c, p
  <2>3. /\ Completed(v, g) \in States /\ Completed(v, g)["on"] = g["on"]
        /\ Completed(v, g)["colour"] = c /\ Completed(v, g)["percent"] = p
    BY <2>1, <2>2 DEF States
  <2> QED BY <1>2, <2>3 DEF c, p
<1> QED BY <1>1, <1>2

-----------------------------------------------------------------------------
(* gkbd: its steps keep its variables in their sets. *)

Drivers == {"nobody", "call", "daemon", "run", "file"}

LEMMA LeavingKeepsTypes ==
    ASSUME GkbdTypeOK, NEW u \in Users, Leaves(u)
    PROVE  /\ at' \in [Users -> Places] /\ verb' \in [Users -> Verbs]
           /\ goal' \in [Users -> States] /\ overtaken' \subseteq Users
           /\ lock' \in Users \cup {None}
           /\ at'[u] = "ended" /\ verb'[u] = "off"
           /\ \A w \in Users \ {u} : at'[w] = at[w] /\ verb'[w] = verb[w] /\ goal'[w] = goal[w]
<1>1. "ended" \in Places /\ "off" \in Verbs
  BY DEF Places, Verbs
<1> QED BY <1>1, DefaultIsAState DEF GkbdTypeOK, Leaves, GoTo

LEMMA GoingKeepsTypes ==
    ASSUME GkbdTypeOK, NEW u \in Users, NEW there \in Places, GoTo(u, there)
    PROVE  /\ at' \in [Users -> Places] /\ at'[u] = there
           /\ \A w \in Users \ {u} : at'[w] = at[w]
  BY DEF GkbdTypeOK, GoTo

LEMMA RunKeepsTypes ==
    ASSUME GkbdTypeOK, NEW u \in Users, Run(u)
    PROVE  /\ GkbdTypeOK'
           /\ at'[u] = IF verb'[u] \in {"color", "apply"} THEN "read" ELSE "lock"
           /\ \A w \in Users \ {u} : at'[w] = at[w] /\ verb'[w] = verb[w] /\ goal'[w] = goal[w]
<1>1. PICK v \in Verbs : \E g \in Asked(v) :
          /\ verb' = [verb EXCEPT ![u] = v] /\ goal' = [goal EXCEPT ![u] = g]
          /\ GoTo(u, Script[v]["ended"])
  BY DEF Run
<1>2. PICK g \in States :
          /\ verb' = [verb EXCEPT ![u] = v] /\ goal' = [goal EXCEPT ![u] = g]
          /\ GoTo(u, Script[v]["ended"])
  BY <1>1, AskedAreStates
<1>3. /\ Script[v]["ended"] = IF v \in {"color", "apply"} THEN "read" ELSE "lock"
      /\ Script[v]["ended"] \in Places
  BY Ended DEF Places
<1>4. /\ at' \in [Users -> Places] /\ at'[u] = Script[v]["ended"]
      /\ \A w \in Users \ {u} : at'[w] = at[w]
  BY <1>2, <1>3, GoingKeepsTypes
<1>5. /\ verb' \in [Users -> Verbs] /\ goal' \in [Users -> States] /\ verb'[u] = v
      /\ \A w \in Users \ {u} : verb'[w] = verb[w] /\ goal'[w] = goal[w]
  BY <1>2 DEF GkbdTypeOK
<1>6. GkbdTypeOK'
  BY <1>4, <1>5 DEF GkbdTypeOK, Run
<1> QED BY <1>3, <1>4, <1>5, <1>6

(* A step of one invocation leaves the place, the verb and the goal of the others. *)
Others(u) ==
    \A w \in Users \ {u} : at'[w] = at[w] /\ verb'[w] = verb[w] /\ goal'[w] = goal[w]

(* A step outside the lock: a holder, if any, is another one. *)
LEMMA Outside ==
    ASSUME GkbdTypeOK, GkbdInv, NEW u \in Users, lock # u, Others(u),
           light' = light, store' = store, lock' = lock, driver' = driver,
           \A w \in Users \ {u} : w \in overtaken' <=> w \in overtaken,
           at'[u] \in {"ended", "read", "lock"},
           at'[u] = "read" => verb'[u] \in {"color", "apply"},
           ApplyKnows(u)'
    PROVE  GkbdInv'
<1>1. ~Holds(u)' /\ InScript(u)'
  BY DEF Holds, InScript
<1>2. \A w \in Users \ {u} :
          /\ Holds(w)' = Holds(w) /\ InScript(w)' = InScript(w)
          /\ DrivenSoFar(w)' = DrivenSoFar(w)
          /\ KnownOfFile(w)' = KnownOfFile(w) /\ ApplyKnows(w)' = ApplyKnows(w)
  BY DEF Others, Holds, InScript, DrivenSoFar, KnownOfFile, ApplyKnows, Agrees
<1>3. OneHolds'
  BY <1>1, <1>2 DEF GkbdInv, OneHolds
<1>4. RunByHolder'
  BY DEF GkbdInv, RunByHolder, Others
<1>5. ColourIsFiled' /\ FileShows'
  BY DEF GkbdInv, ColourIsFiled, FileShows
<1> QED BY <1>1, <1>2, <1>3, <1>4, <1>5 DEF GkbdInv

(* A step of the holder that keeps the lock, or takes it. *)
LEMMA Inside ==
    ASSUME GkbdTypeOK, GkbdInv, NEW u \in Users, lock \in {u, None}, lock' = u, Others(u),
           \A w \in Users \ {u} : ApplyKnows(w)',
           Holds(u)', InScript(u)', ApplyKnows(u)', DrivenSoFar(u)', KnownOfFile(u)',
           RunByHolder', ColourIsFiled', FileShows'
    PROVE  GkbdInv'
<1>1. \A w \in Users \ {u} : /\ Holds(w)' = Holds(w) /\ InScript(w)' = InScript(w)
                             /\ lock # w /\ lock' # w
  BY GkbdAssumption DEF Others, Holds, InScript
<1>2. OneHolds'
  BY <1>1 DEF GkbdInv, OneHolds
<1> QED BY <1>1, <1>2 DEF GkbdInv

(* Its last step. *)
LEMMA Final ==
    ASSUME GkbdTypeOK, GkbdInv, NEW u \in Users, lock = u, Leaves(u), Others(u), verb'[u] = "off",
           at'[u] = "ended",
           \A w \in Users \ {u} : ApplyKnows(w)',
           \A a \in Aspects : driver'[a] # "run",
           ColourIsFiled', FileShows'
    PROVE  GkbdInv'
<1>1. \A w \in Users \ {u} : /\ Holds(w)' = Holds(w) /\ InScript(w)' = InScript(w)
                             /\ lock # w
  BY DEF Others, Holds, InScript
<1>2. /\ lock' = None /\ None \notin Users
      /\ ~Holds(u)' /\ InScript(u)' /\ ApplyKnows(u)'
  BY GkbdAssumption DEF Leaves, Holds, InScript, ApplyKnows
<1>3. OneHolds'
  BY <1>1, <1>2 DEF GkbdInv, OneHolds
<1>4. RunByHolder'
  BY DEF RunByHolder
<1> QED BY <1>1, <1>2, <1>3, <1>4 DEF GkbdInv

(* Those that do not step know as much of the file as long as it stays. *)
LEMMA OthersKnow ==
    ASSUME GkbdInv, NEW u \in Users, Others(u), store' = store,
           \A w \in Users \ {u} : w \in overtaken' <=> w \in overtaken
    PROVE  \A w \in Users \ {u} : ApplyKnows(w)'
  BY DEF GkbdInv, Others, ApplyKnows, Agrees

-----------------------------------------------------------------------------
(* gkbd: step by step. *)

LEMMA RunStep ==
    ASSUME GkbdTypeOK, GkbdInv, NEW u \in Users, Run(u)
    PROVE  GkbdTypeOK' /\ GkbdInv'
<1>1. /\ at[u] = "ended" /\ light' = light /\ store' = store /\ lock' = lock
      /\ driver' = driver /\ overtaken' = overtaken
  BY DEF Run
<1>2. lock # u
  BY <1>1 DEF GkbdInv, OneHolds, Holds
<1>3. GkbdTypeOK' /\ Others(u)
      /\ at'[u] = IF verb'[u] \in {"color", "apply"} THEN "read" ELSE "lock"
  BY RunKeepsTypes DEF Others
<1>4. ApplyKnows(u)'
  BY <1>3 DEF ApplyKnows
<1>5. at'[u] \in {"ended", "read", "lock"} /\ (at'[u] = "read" => verb'[u] \in {"color", "apply"})
  BY <1>3
<1> QED BY <1>1, <1>2, <1>3, <1>4, <1>5, Outside

(* Reading the file, before the lock or behind it. *)
LEMMA ReadStep ==
    ASSUME GkbdTypeOK, GkbdInv, NEW u \in Users, ReadFile(u)
    PROVE  GkbdTypeOK' /\ GkbdInv'
<1> DEFINE v == verb[u]
           c == Completed(v, goal[u])
<1>1. /\ at[u] = "read" /\ ~Unreadable(v)
      /\ goal' = [goal EXCEPT ![u] = c]
      /\ GoTo(u, Script[v]["read"]) /\ overtaken' = overtaken \ {u}
      /\ served' = served /\ light' = light /\ store' = store /\ lock' = lock /\ verb' = verb
      /\ driver' = driver
  BY DEF ReadFile
<1>2. v \in Verbs \ {"off"} /\ goal[u] \in States
  BY <1>1 DEF GkbdTypeOK, GkbdInv, InScript
<1>3. /\ c \in States /\ c["on"] = goal[u]["on"]
      /\ v = "brightness" => c["percent"] = goal[u]["percent"]
      /\ store \in Kept /\ v # "color" => c["colour"] = store["colour"]
      /\ store \in Kept /\ v \notin {"color", "brightness"} => c["percent"] = store["percent"]
  BY <1>2, CompletedIsAState
<1> HIDE DEF c
<1>4. Script[v]["read"] =
          IF v = "on" THEN "percent" ELSE IF v = "brightness" THEN "cut" ELSE "lock"
  BY <1>2, AfterRead
<1>5. /\ at' \in [Users -> Places] /\ at'[u] = Script[v]["read"]
      /\ \A w \in Users \ {u} : at'[w] = at[w]
  <2>1. Script[v]["read"] \in Places
    BY <1>4 DEF Places
  <2> QED BY <1>1, <2>1, GoingKeepsTypes
<1>6. /\ goal' \in [Users -> States] /\ goal'[u] = c
      /\ \A w \in Users \ {u} : goal'[w] = goal[w]
  BY <1>1, <1>3 DEF GkbdTypeOK
<1>7. GkbdTypeOK'
  BY <1>1, <1>5, <1>6 DEF GkbdTypeOK
<1>8. /\ Others(u)
      /\ \A w \in Users \ {u} : w \in overtaken' <=> w \in overtaken
      /\ \A w \in Users \ {u} : ApplyKnows(w)'
  <2>1. Others(u) /\ \A w \in Users \ {u} : w \in overtaken' <=> w \in overtaken
    BY <1>1, <1>5, <1>6 DEF Others
  <2> QED BY <1>1, <2>1, OthersKnow
<1>9. CASE v \in {"color", "apply"}
  <2>1. at'[u] = "lock" /\ lock # u
    BY <1>1, <1>4, <1>5, <1>9 DEF GkbdInv, OneHolds, Holds
  <2>2. ApplyKnows(u)'
    <3>1. v = "apply" => store \in Kept
      BY <1>1 DEF Unreadable, GkbdTypeOK
    <3> QED BY <1>1, <1>3, <1>6, <3>1 DEF ApplyKnows, Agrees
  <2> QED BY <1>1, <1>7, <1>8, <2>1, <2>2, Outside
<1>10. CASE v \in {"brightness", "on"}
  <2>1. lock = u /\ at'[u] = IF v = "on" THEN "percent" ELSE "cut"
    BY <1>1, <1>4, <1>5, <1>10 DEF GkbdInv, OneHolds, Holds
  <2>2. /\ driver["colour"] # "run" /\ (v = "on" => driver["percent"] # "run")
        /\ v = "brightness" => driver["percent"] # "file"
        /\ store # Cut
    BY <1>1, <1>10, <2>1 DEF GkbdInv, DrivenSoFar, Unreadable
  <2>3. Holds(u)' /\ InScript(u)' /\ ApplyKnows(u)'
    BY <1>1, <1>10, <2>1 DEF Holds, InScript, ApplyKnows
  <2>4. DrivenSoFar(u)'
    BY <1>1, <1>10, <2>1, <2>2 DEF DrivenSoFar
  <2>5. KnownOfFile(u)'
    <3>1. store \in Kept \cup {None}
      BY <2>2 DEF GkbdTypeOK
    <3>2. store \in Kept => c["colour"] = store["colour"]
      BY <1>3, <1>10
    <3>3. driver["colour"] = "file" => store \in Kept /\ light["colour"] = store["colour"]
      BY <3>1 DEF GkbdInv, ColourIsFiled, FileShows
    <3>4. v = "on" /\ store # None => c["colour"] = store["colour"] /\ c["percent"] = store["percent"]
      BY <1>3, <3>1
    <3> QED BY <1>1, <1>6, <1>10, <2>1, <2>2, <3>2, <3>3, <3>4 DEF KnownOfFile, Agrees
  <2>6. RunByHolder'
    <3> SUFFICES ASSUME NEW a \in Aspects, driver'[a] = "run"
                 PROVE  lock' \in Users /\ light'[a] = goal'[lock'][a]
      BY DEF RunByHolder
    <3>1. driver[a] = "run" /\ lock' = u /\ light'[a] = goal[u][a]
      BY <1>1, <2>1 DEF GkbdInv, RunByHolder
    <3>2. c[a] = goal[u][a]
      BY <1>3, <1>10, <2>2, <3>1 DEF Aspects
    <3> QED BY <1>6, <3>1, <3>2
  <2>7. ColourIsFiled' /\ FileShows'
    BY <1>1 DEF GkbdInv, ColourIsFiled, FileShows
  <2> QED BY <1>1, <1>7, <1>8, <2>1, <2>3, <2>4, <2>5, <2>6, <2>7, Inside
<1> QED BY <1>2, <1>9, <1>10 DEF Verbs

(* Nobody has driven anything and not come to its end while the lock was free. *)
LEMMA LockStep ==
    ASSUME GkbdTypeOK, GkbdInv, NEW u \in Users, LockEc(u)
    PROVE  GkbdTypeOK' /\ GkbdInv'
<1>1. /\ at[u] = "lock" /\ lock = None /\ lock' = u /\ GoTo(u, Script[verb[u]]["lock"])
      /\ served' = served /\ light' = light /\ store' = store /\ verb' = verb /\ goal' = goal
      /\ overtaken' = overtaken /\ driver' = driver
  BY DEF LockEc
<1>2. Script[verb[u]]["lock"] = "on" /\ "on" \in Places
  BY AfterLock DEF GkbdTypeOK, Places
<1>3. /\ at' \in [Users -> Places] /\ at'[u] = "on"
      /\ \A w \in Users \ {u} : at'[w] = at[w]
  BY <1>1, <1>2, GoingKeepsTypes
<1>4. GkbdTypeOK'
  BY <1>1, <1>3 DEF GkbdTypeOK
<1>5. Others(u) /\ \A w \in Users \ {u} : ApplyKnows(w)'
  <2>1. Others(u)
    BY <1>1, <1>3 DEF Others
  <2> QED BY <1>1, <2>1, OthersKnow
<1>6. \A a \in Aspects : driver'[a] # "run"
  BY <1>1, GkbdAssumption DEF GkbdInv, RunByHolder
<1>7. Holds(u)' /\ InScript(u)' /\ KnownOfFile(u)'
  BY <1>3 DEF Holds, InScript, KnownOfFile
<1>8. ApplyKnows(u)'
  BY <1>1 DEF GkbdInv, ApplyKnows, Agrees
<1>9. DrivenSoFar(u)'
  BY <1>3, <1>6 DEF DrivenSoFar, Aspects
<1>10. RunByHolder' /\ ColourIsFiled' /\ FileShows'
  BY <1>1, <1>6 DEF GkbdInv, RunByHolder, ColourIsFiled, FileShows
<1> QED BY <1>1, <1>4, <1>5, <1>7, <1>8, <1>9, <1>10, Inside

(* One EC command after which the script goes on. *)
LEMMA CommandGoesOn ==
    ASSUME GkbdTypeOK, GkbdInv, NEW u \in Users, NEW a \in Aspects, at[u] = a,
           light' = [light EXCEPT ![a] = goal[u][a]],
           After(u, a) # "ended", GoTo(u, After(u, a)), driver' = [driver EXCEPT ![a] = "run"],
           lock' = lock, verb' = verb, goal' = goal, overtaken' = overtaken,
           served' = served, store' = store
    PROVE  GkbdTypeOK' /\ GkbdInv'
<1> DEFINE v == verb[u]
<1>1. /\ lock = u /\ InScript(u) /\ DrivenSoFar(u) /\ KnownOfFile(u) /\ v \in Verbs
      /\ ApplyKnows(u) /\ ColourIsFiled /\ FileShows /\ RunByHolder
  BY DEF GkbdInv, OneHolds, Holds, Aspects, GkbdTypeOK
<1>2. /\ a = "on" /\ v # "off" /\ (After(u, a) = IF v = "on" THEN "read" ELSE "percent")
      \/ /\ a = "percent" /\ v = "on" /\ After(u, a) = "colour" /\ store # None
      \/ /\ a = "percent" /\ v \in {"color", "apply"} /\ After(u, a) = "colour"
      \/ /\ a = "percent" /\ v = "brightness" /\ After(u, a) = "read"
      \/ /\ a = "colour" /\ v = "color" /\ After(u, a) = "cut"
  <2>1. CASE a = "on"
    BY <1>1, <2>1, AfterCommand DEF After, Verbs
  <2>2. CASE a = "percent"
    <3>1. v # "off"
      BY <1>1, <2>2 DEF InScript
    <3> QED BY <1>1, <2>2, <3>1, AfterCommand DEF After, Verbs
  <2>3. CASE a = "colour"
    <3>1. v \in {"color", "on", "apply"}
      BY <1>1, <2>3 DEF InScript
    <3> QED BY <1>1, <2>3, <3>1, AfterCommand DEF After
  <2> QED BY <2>1, <2>2, <2>3 DEF Aspects
<1> DEFINE next == After(u, a)
<1>3. next \in Places
  BY <1>2 DEF Places
<1>4. /\ at' \in [Users -> Places] /\ at'[u] = next
      /\ \A w \in Users \ {u} : at'[w] = at[w]
  BY <1>3, GoingKeepsTypes
<1>5. /\ light' \in States /\ light'[a] = goal[u][a]
      /\ \A b \in Aspects \ {a} : light'[b] = light[b]
  <2>1. light \in States /\ goal[u] \in States
    BY DEF GkbdTypeOK
  <2>2. light' = With(light, goal[u], a)
    BY DEF With
  <2> QED BY <2>1, <2>2, OneShown
<1>6. /\ driver' \in [Aspects -> Drivers] /\ driver'[a] = "run"
      /\ \A b \in Aspects \ {a} : driver'[b] = driver[b]
  BY DEF GkbdTypeOK, Drivers
<1>7. GkbdTypeOK'
  BY <1>4, <1>5, <1>6 DEF GkbdTypeOK, Drivers
<1>8. Others(u) /\ \A w \in Users \ {u} : ApplyKnows(w)'
  <2>1. Others(u)
    BY <1>4 DEF Others
  <2> QED BY <2>1, OthersKnow
<1> HIDE DEF next
<1>9. Holds(u)' /\ InScript(u)'
  BY <1>2, <1>4 DEF Holds, InScript, next
<1>10. ApplyKnows(u)'
  BY <1>1, <1>2, <1>4 DEF ApplyKnows, Agrees
<1>11. DrivenSoFar(u)'
  BY <1>1, <1>2, <1>4, <1>6 DEF DrivenSoFar, Aspects, next
<1>12. KnownOfFile(u)'
  BY <1>1, <1>2, <1>4 DEF KnownOfFile, Agrees, next
<1>13. RunByHolder'
  BY <1>1, <1>5, <1>6 DEF RunByHolder
<1>14. ColourIsFiled' /\ FileShows'
  BY <1>1, <1>5, <1>6 DEF ColourIsFiled, FileShows, Aspects
<1> QED BY <1>1, <1>7, <1>8, <1>9, <1>10, <1>11, <1>12, <1>13, <1>14, Inside

(* One EC command that is the script's last: `off`, `on` without a file, `on` and *)
(* `apply` with one.                                                              *)
LEMMA CommandEnds ==
    ASSUME GkbdTypeOK, GkbdInv, NEW u \in Users, NEW a \in Aspects, at[u] = a,
           light' = [light EXCEPT ![a] = goal[u][a]],
           After(u, a) = "ended", Done(u, [driver EXCEPT ![a] = "run"]),
           served' = served, store' = store
    PROVE  GkbdTypeOK' /\ GkbdInv'
<1> DEFINE v == verb[u]
           driven == [driver EXCEPT ![a] = "run"]
<1>1. /\ lock = u /\ InScript(u) /\ DrivenSoFar(u) /\ KnownOfFile(u) /\ v \in Verbs
      /\ ApplyKnows(u) /\ ColourIsFiled /\ FileShows /\ RunByHolder
  BY DEF GkbdInv, OneHolds, Holds, Aspects, GkbdTypeOK
<1>2. \/ a = "on" /\ v = "off"
      \/ a = "percent" /\ v = "on" /\ store = None
      \/ a = "colour" /\ v \in {"on", "apply"}
  <2>1. CASE a = "on"
    BY <1>1, <2>1, AfterCommand DEF After, Verbs
  <2>2. CASE a = "percent"
    <3>1. v # "off"
      BY <1>1, <2>2 DEF InScript
    <3> QED BY <1>1, <2>2, <3>1, AfterCommand DEF After, Verbs
  <2>3. CASE a = "colour"
    <3>1. v \in {"color", "on", "apply"}
      BY <1>1, <2>3 DEF InScript
    <3> QED BY <1>1, <2>3, <3>1, AfterCommand DEF After
  <2> QED BY <2>1, <2>2, <2>3 DEF Aspects
<1>3. /\ light' \in States /\ light'[a] = goal[u][a]
      /\ \A b \in Aspects \ {a} : light'[b] = light[b]
  <2>1. light \in States /\ goal[u] \in States
    BY DEF GkbdTypeOK
  <2>2. light' = With(light, goal[u], a)
    BY DEF With
  <2> QED BY <2>1, <2>2, OneShown
<1>4. /\ driven \in [Aspects -> Drivers] /\ driven[a] = "run"
      /\ \A b \in Aspects \ {a} : driven[b] = driver[b]
  BY DEF GkbdTypeOK, Drivers
<1> HIDE DEF driven
<1>5. /\ Leaves(u)
      /\ driver' = [b \in Aspects |->
                      IF driven[b] # "run" THEN driven[b]
                      ELSE IF v = "apply" /\ u \in overtaken THEN "nobody" ELSE "file"]
  BY DEF Done, driven
<1>6. /\ at' \in [Users -> Places] /\ verb' \in [Users -> Verbs]
      /\ goal' \in [Users -> States] /\ overtaken' \subseteq Users
      /\ lock' \in Users \cup {None}
      /\ at'[u] = "ended" /\ verb'[u] = "off" /\ Others(u)
  BY <1>5, LeavingKeepsTypes DEF Others
<1>7. /\ driver' \in [Aspects -> Drivers]
      /\ \A b \in Aspects : driver'[b] # "run"
      /\ \A b \in Aspects : driver'[b] = "file" => driven[b] \in {"run", "file"}
      /\ v = "apply" /\ u \in overtaken => \A b \in Aspects : driver'[b] = "file" => driven[b] = "file"
  <2>1. "nobody" \in Drivers /\ "file" \in Drivers
    BY DEF Drivers
  <2> QED BY <1>4, <1>5, <2>1
<1>8. GkbdTypeOK'
  BY <1>3, <1>6, <1>7 DEF GkbdTypeOK, Drivers
<1>9. \A w \in Users \ {u} : ApplyKnows(w)'
  BY <1>5, <1>6, OthersKnow DEF Leaves
<1>10. ColourIsFiled' /\ FileShows'
  <2>1. CASE (a = "on" /\ v = "off") \/ (a = "percent" /\ v = "on" /\ store = None)
    <3>1. driver["colour"] # "run" /\ (a = "on" => driver["percent"] # "run")
      BY <1>1, <2>1 DEF DrivenSoFar
    <3>2. ColourIsFiled'
      BY <1>1, <1>4, <1>7, <2>1, <3>1 DEF ColourIsFiled, Aspects
    <3>3. FileShows'
      <4>1. CASE a = "on"
        BY <1>1, <1>3, <1>4, <1>7, <3>1, <4>1 DEF FileShows, Aspects
      <4>2. CASE store = None
        BY <4>2, GkbdAssumption DEF FileShows
      <4> QED BY <2>1, <4>1, <4>2
    <3> QED BY <3>2, <3>3
  <2>2. CASE a = "colour" /\ v = "apply" /\ u \in overtaken
    <3>1. \A b \in Aspects : driver'[b] = "file" => driver[b] = "file" /\ light'[b] = light[b]
      BY <1>3, <1>4, <1>7, <2>2
    <3> QED BY <1>1, <3>1 DEF ColourIsFiled, FileShows, Aspects
  <2>3. CASE a = "colour" /\ (v = "on" \/ (v = "apply" /\ u \notin overtaken))
    <3>1. store \in Kept /\ Agrees(u)
      BY <1>1, <2>3 DEF KnownOfFile, ApplyKnows, GkbdTypeOK
    <3>2. ASSUME NEW b \in {"colour", "percent"}, driver'[b] = "file"
          PROVE  light'[b] = store[b]
      <4>1. b \in Aspects /\ goal[u][b] = store[b]
        BY <3>1, <3>2 DEF Agrees, Aspects
      <4>2. CASE driver[b] = "file" /\ b # a
        BY <1>1, <1>3, <3>1, <4>1, <4>2 DEF FileShows
      <4>3. CASE driver[b] = "run" \/ b = a
        BY <1>1, <1>3, <4>1, <4>3 DEF RunByHolder
      <4> QED BY <1>4, <1>7, <3>2, <4>1, <4>2, <4>3
    <3>3. store # None
      BY <3>1, GkbdAssumption
    <3> QED BY <3>2, <3>3 DEF ColourIsFiled, FileShows
  <2> QED BY <1>2, <2>1, <2>2, <2>3
<1> QED BY <1>1, <1>5, <1>6, <1>7, <1>8, <1>9, <1>10, Final

LEMMA CommandStep ==
    ASSUME GkbdTypeOK, GkbdInv, NEW u \in Users, Command(u)
    PROVE  GkbdTypeOK' /\ GkbdInv'
<1>1. PICK a \in Aspects :
          LET driven == [driver EXCEPT ![a] = "run"]
          IN  /\ at[u] = a
              /\ light' = [light EXCEPT ![a] = goal[u][a]]
              /\ \/ /\ After(u, a) = "ended"
                    /\ Done(u, driven)
                 \/ /\ After(u, a) # "ended"
                    /\ GoTo(u, After(u, a)) /\ driver' = driven
                    /\ UNCHANGED <<lock, verb, goal, overtaken>>
              /\ UNCHANGED <<served, store>>
  BY DEF Command
<1>2. CASE After(u, a) = "ended"
  BY <1>1, <1>2, CommandEnds
<1>3. CASE After(u, a) # "ended"
  BY <1>1, <1>3, CommandGoesOn
<1> QED BY <1>2, <1>3

(* The file is emptied: what others have read of it is overtaken. *)
LEMMA CutStep ==
    ASSUME GkbdTypeOK, GkbdInv, NEW u \in Users, CutFile(u)
    PROVE  GkbdTypeOK' /\ GkbdInv'
<1>1. /\ at[u] = "cut" /\ store' = Cut /\ GoTo(u, "write")
      /\ overtaken' = {w \in Users : verb[w] = "apply" /\ at[w] = "lock"}
      /\ served' = served /\ light' = light /\ lock' = lock /\ verb' = verb /\ goal' = goal
      /\ driver' = driver
  BY DEF CutFile
<1>2. /\ lock = u /\ InScript(u) /\ DrivenSoFar(u) /\ KnownOfFile(u)
      /\ Cut \notin Kept /\ Cut # None
  BY <1>1, GkbdAssumption DEF GkbdInv, OneHolds, Holds
<1>3. /\ at' \in [Users -> Places] /\ at'[u] = "write"
      /\ \A w \in Users \ {u} : at'[w] = at[w]
  BY <1>1, GoingKeepsTypes DEF Places
<1>4. GkbdTypeOK'
  BY <1>1, <1>3 DEF GkbdTypeOK
<1>5. Others(u)
  BY <1>1, <1>3 DEF Others
<1>6. \A w \in Users \ {u} : ApplyKnows(w)'
  <2> SUFFICES ASSUME NEW w \in Users \ {u}, verb[w] = "apply",
                      at[w] \in {"lock", "on", "percent", "colour"}, w \notin overtaken'
               PROVE  FALSE
    BY <1>5 DEF ApplyKnows, Others
  <2>1. at[w] # "lock"
    BY <1>1
  <2>2. lock = w
    BY <2>1 DEF GkbdInv, OneHolds, Holds
  <2> QED BY <1>2, <2>2
<1>7. Holds(u)' /\ InScript(u)' /\ ApplyKnows(u)'
  BY <1>1, <1>2, <1>3 DEF Holds, InScript, ApplyKnows
<1>8. DrivenSoFar(u)'
  BY <1>1, <1>2, <1>3 DEF DrivenSoFar
<1>9. KnownOfFile(u)'
  BY <1>1, <1>2, <1>3 DEF KnownOfFile
<1>10. RunByHolder'
  BY <1>1 DEF GkbdInv, RunByHolder
<1>11. ColourIsFiled' /\ FileShows'
  BY <1>1, <1>2 DEF ColourIsFiled, FileShows
<1> QED BY <1>1, <1>2, <1>4, <1>5, <1>6, <1>7, <1>8, <1>9, <1>10, <1>11, Inside

(* And written: it says what the holder has driven, and what it had read of the *)
(* aspect it has not.                                                           *)
LEMMA WriteStep ==
    ASSUME GkbdTypeOK, GkbdInv, NEW u \in Users, WriteFile(u)
    PROVE  GkbdTypeOK' /\ GkbdInv'
<1>1. /\ at[u] = "write" /\ Done(u, driver) /\ served' = served /\ light' = light
      /\ store' = [colour |-> goal[u]["colour"], percent |-> goal[u]["percent"]]
  BY DEF WriteFile
<1>2. /\ lock = u /\ InScript(u) /\ DrivenSoFar(u) /\ KnownOfFile(u) /\ RunByHolder
      /\ verb[u] \in {"color", "brightness"} /\ store = Cut
  BY <1>1 DEF GkbdInv, OneHolds, Holds, InScript, KnownOfFile
<1>3. /\ Leaves(u)
      /\ driver' = [a \in Aspects |-> IF driver[a] # "run" THEN driver[a] ELSE "file"]
  BY <1>1, <1>2 DEF Done
<1>4. /\ at' \in [Users -> Places] /\ verb' \in [Users -> Verbs]
      /\ goal' \in [Users -> States] /\ overtaken' \subseteq Users
      /\ lock' \in Users \cup {None}
      /\ at'[u] = "ended" /\ verb'[u] = "off" /\ Others(u)
  BY <1>3, LeavingKeepsTypes DEF Others
<1>5. /\ driver' \in [Aspects -> Drivers]
      /\ \A a \in Aspects : driver'[a] # "run"
      /\ \A a \in Aspects : driver'[a] = "file" => driver[a] \in {"run", "file"}
  <2>1. driver \in [Aspects -> Drivers] /\ "file" \in Drivers
    BY DEF GkbdTypeOK, Drivers
  <2> QED BY <1>3, <2>1
<1>6. /\ store' \in Kept /\ store'["colour"] = goal[u]["colour"]
      /\ store'["percent"] = goal[u]["percent"]
  <2>1. goal[u] \in States
    BY DEF GkbdTypeOK
  <2> QED BY <1>1, <2>1 DEF States, Kept
<1>7. GkbdTypeOK'
  BY <1>1, <1>4, <1>5, <1>6 DEF GkbdTypeOK, Drivers
<1>8. \A w \in Users \ {u} : ApplyKnows(w)'
  <2> SUFFICES ASSUME NEW w \in Users \ {u}, verb[w] = "apply",
                      at[w] \in {"lock", "on", "percent", "colour"}, w \notin overtaken
               PROVE  FALSE
    BY <1>3, <1>4 DEF ApplyKnows, Others, Leaves
  <2>1. store \in Kept
    BY DEF GkbdInv, ApplyKnows
  <2> QED BY <1>2, <2>1, GkbdAssumption
<1>9. ColourIsFiled'
  BY <1>6, GkbdAssumption DEF ColourIsFiled
<1>10. FileShows'
  <2> SUFFICES ASSUME NEW a \in {"colour", "percent"}, driver'[a] = "file"
               PROVE  light'[a] = store'[a]
    BY DEF FileShows
  <2>1. a \in Aspects /\ store'[a] = goal[u][a]
    BY <1>6 DEF Aspects
  <2>2. CASE driver[a] = "run"
    BY <1>1, <1>2, <2>1, <2>2 DEF RunByHolder
  <2>3. CASE driver[a] = "file"
    <3>1. a = "colour" /\ verb[u] = "brightness"
      BY <1>1, <1>2, <2>3 DEF DrivenSoFar
    <3> QED BY <1>1, <1>2, <2>1, <2>3, <3>1 DEF KnownOfFile
  <2> QED BY <1>5, <2>1, <2>2, <2>3
<1> QED BY <1>2, <1>3, <1>4, <1>5, <1>7, <1>8, <1>9, <1>10, Final

LEMMA ReassignedDrivers ==
    ASSUME driver \in [Aspects -> Drivers], NEW from \in Drivers, NEW to \in Drivers
    PROVE  /\ Reassigned(from, to) \in [Aspects -> Drivers]
           /\ \A a \in Aspects :
                  Reassigned(from, to)[a] = IF driver[a] = from THEN to ELSE driver[a]
  BY DEF Reassigned

(* Whatever a script that died had driven is nobody's any more. *)
LEMMA DeathStep ==
    ASSUME GkbdTypeOK, GkbdInv, NEW u \in Users, Dies(u)
    PROVE  GkbdTypeOK' /\ GkbdInv'
<1>1. /\ Leaves(u) /\ served' = served /\ light' = light /\ store' = store
      /\ driver' = IF lock = u THEN Reassigned("run", "nobody") ELSE driver
      /\ lock' = IF lock = u THEN None ELSE lock
      /\ overtaken' = overtaken \ {u}
  BY DEF Dies, Leaves
<1>2. /\ at' \in [Users -> Places] /\ verb' \in [Users -> Verbs]
      /\ goal' \in [Users -> States] /\ overtaken' \subseteq Users
      /\ lock' \in Users \cup {None}
      /\ at'[u] = "ended" /\ verb'[u] = "off" /\ Others(u)
  BY <1>1, LeavingKeepsTypes DEF Others
<1>3. /\ driver' \in [Aspects -> Drivers]
      /\ lock = u => \A a \in Aspects : driver'[a] = IF driver[a] = "run" THEN "nobody" ELSE driver[a]
  <2>1. driver \in [Aspects -> Drivers] /\ "run" \in Drivers /\ "nobody" \in Drivers
    BY DEF GkbdTypeOK, Drivers
  <2> QED BY <1>1, <2>1, ReassignedDrivers
<1>4. GkbdTypeOK'
  BY <1>1, <1>2, <1>3 DEF GkbdTypeOK, Drivers
<1>5. \A w \in Users \ {u} : ApplyKnows(w)'
  BY <1>1, <1>2, OthersKnow
<1>6. CASE lock = u
  <2>1. \A a \in Aspects : driver'[a] # "run" /\ (driver'[a] = "file" => driver[a] = "file")
    BY <1>3, <1>6
  <2>2. ColourIsFiled' /\ FileShows'
    BY <1>1, <2>1 DEF GkbdInv, ColourIsFiled, FileShows, Aspects
  <2> QED BY <1>1, <1>2, <1>4, <1>5, <1>6, <2>1, <2>2, Final
<1>7. CASE lock # u
  <2>1. ApplyKnows(u)'
    BY <1>2 DEF ApplyKnows
  <2> QED BY <1>1, <1>2, <1>4, <1>7, <2>1, Outside
<1> QED BY <1>6, <1>7

LEMMA InvocationStep ==
    ASSUME GkbdTypeOK, GkbdInv, NEW u \in Users, Invocation(u)
    PROVE  GkbdTypeOK' /\ GkbdInv'
  BY RunStep, ReadStep, LockStep, CommandStep, CutStep, WriteStep, DeathStep DEF Invocation

-----------------------------------------------------------------------------
(* The daemon: the parts of the invariant. *)

DaemonTypes ==
    /\ up \in BOOLEAN /\ woken \in BOOLEAN /\ moved \in BOOLEAN
    /\ work \in Works \cup {None}
    /\ keyboard \in States \cup {None}
    /\ knob \in {"missing", "locked", "on", "off"}
    /\ choice \in BOOLEAN \cup {None}
    /\ disk \in [keyboard : States \cup {None}, turbo : BOOLEAN \cup {None}]
    /\ told \in [keyboard : States \cup {None},
                 turbo : [available : BOOLEAN, enabled : BOOLEAN] \cup {None}]
    /\ chose \subseteq {"keyboard", "turbo"}

Among(a, q) == \E i \in 1 .. Len(q) : q[i] = a

(* What a call has driven so far is what it was asked; what it will not drive is *)
(* what it was already.                                                          *)
CallDrives ==
    \A a \in Aspects :
        /\ driver[a] = "call" => work # None /\ work.for = "call" /\ light[a] = work.asked[a]
        /\ driver[a] = "daemon" /\ work # None /\ work.for = "call" /\ ~Among(a, work.todo) =>
                light[a] = work.asked[a]

(* Without a client the daemon applies what it remembers. *)
AppliesRemembered ==
    work # None /\ work.for # "call" /\ work.todo # <<>> =>
        keyboard # None /\ work.asked = keyboard

DaemonShows == keyboard # None => \A a \in Aspects : driver[a] = "daemon" => light[a] = keyboard[a]

DrivenByDaemon == \A a \in Aspects : driver[a] = "daemon" => keyboard # None

(* A process that is gone has forgotten everything. *)
Alive == (served => up) /\ (~up => work = None /\ keyboard = None)

(* Nothing is remembered, saved or applied of what no client ever set. *)
NothingUnchosen ==
    /\ "keyboard" \notin chose =>
            /\ keyboard = None /\ disk.keyboard = None
            /\ work # None => work.for # "call" /\ work.todo = <<>>
    /\ "turbo" \notin chose => choice = None /\ disk.turbo = None

DaemonInv ==
    /\ CallDrives /\ AppliesRemembered /\ DaemonShows /\ DrivenByDaemon
    /\ Alive /\ NothingUnchosen /\ ClientsSeeTheSettings

IInv == GkbdTypeOK /\ DaemonTypes /\ GkbdInv /\ DaemonInv

-----------------------------------------------------------------------------
(* Side by side. *)

(* gkbd touches nothing that somebody else has driven but by driving it. *)
LEMMA GkbdDrivesAnew ==
    ASSUME GkbdTypeOK, NEW u \in Users, Invocation(u)
    PROVE  \A a \in Aspects :
               \/ driver'[a] \in {"run", "file", "nobody"}
               \/ driver'[a] = driver[a] /\ light'[a] = light[a]
<1>1. driver \in [Aspects -> Drivers] /\ "run" \in Drivers /\ "nobody" \in Drivers
  BY DEF GkbdTypeOK, Drivers
<1>2. CASE light' = light /\ driver' = driver
  BY <1>2
<1>3. CASE light' = light /\ driver' = Reassigned("run", "nobody")
  BY <1>1, <1>3, ReassignedDrivers
<1>4. ASSUME light' = light, Done(u, driver) PROVE
          \A a \in Aspects : \/ driver'[a] \in {"run", "file", "nobody"}
                             \/ driver'[a] = driver[a] /\ light'[a] = light[a]
  BY <1>4 DEF Done
<1>5. CASE Command(u)
  <2>1. PICK c \in Aspects :
            /\ light' = [light EXCEPT ![c] = goal[u][c]]
            /\ \/ Done(u, [driver EXCEPT ![c] = "run"])
               \/ driver' = [driver EXCEPT ![c] = "run"]
    BY <1>5 DEF Command
  <2>2. light \in States /\ goal[u] \in States
    BY DEF GkbdTypeOK
  <2>3. light' = With(light, goal[u], c)
    BY <2>1 DEF With
  <2>4. \A a \in Aspects \ {c} : light'[a] = light[a]
    BY <2>2, <2>3, OneShown
  <2> DEFINE driven == [driver EXCEPT ![c] = "run"]
  <2>5. driven[c] = "run" /\ \A a \in Aspects \ {c} : driven[a] = driver[a]
    BY <1>1
  <2> HIDE DEF driven
  <2>6. \/ driver' = driven
        \/ driver' = [a \in Aspects |->
                        IF driven[a] # "run" THEN driven[a]
                        ELSE IF verb[u] = "apply" /\ u \in overtaken THEN "nobody" ELSE "file"]
    BY <2>1 DEF Done, driven
  <2> QED BY <2>4, <2>5, <2>6
<1> QED BY <1>2, <1>3, <1>4, <1>5 DEF Invocation, Run, ReadFile, LockEc, CutFile, WriteFile, Dies

(* Nor does the daemon, which leaves the scripts and their file alone. *)
LEMMA DaemonDrivesAnew ==
    ASSUME GkbdTypeOK, GkbdInv, UNCHANGED scripts, served' \in BOOLEAN,
           light' \in States, driver' \in [Aspects -> Drivers],
           \A a \in Aspects :
               \/ driver'[a] \in {"call", "daemon", "nobody"}
               \/ driver'[a] = driver[a] /\ light'[a] = light[a]
    PROVE  GkbdTypeOK' /\ GkbdInv'
<1>1. /\ store' = store /\ lock' = lock /\ at' = at /\ verb' = verb /\ goal' = goal
      /\ overtaken' = overtaken
  BY DEF scripts
<1>2. GkbdTypeOK'
  BY <1>1 DEF GkbdTypeOK, Drivers
<1>3. {"on", "colour", "percent"} \subseteq Aspects
  BY DEF Aspects
<1>4. OneHolds' /\ RunByHolder'
  BY <1>1 DEF GkbdInv, OneHolds, Holds, RunByHolder
<1>5. ColourIsFiled' /\ FileShows'
  BY <1>1, <1>3 DEF GkbdInv, ColourIsFiled, FileShows
<1>6. ASSUME NEW u \in Users
      PROVE  InScript(u)' /\ ApplyKnows(u)' /\ (lock' = u => DrivenSoFar(u)' /\ KnownOfFile(u)')
  <2>1. InScript(u)' /\ ApplyKnows(u)'
    BY <1>1 DEF GkbdInv, InScript, ApplyKnows, Agrees
  <2>2. ASSUME lock = u PROVE DrivenSoFar(u)'
    <3>1. DrivenSoFar(u)
      BY <2>2 DEF GkbdInv
    <3> QED BY <1>1, <1>3, <3>1 DEF DrivenSoFar
  <2>3. ASSUME lock = u PROVE KnownOfFile(u)'
    <3>1. KnownOfFile(u)
      BY <2>3 DEF GkbdInv
    <3> QED BY <1>1, <1>3, <3>1 DEF KnownOfFile, Agrees
  <2> QED BY <1>1, <2>1, <2>2, <2>3
<1> QED BY <1>2, <1>4, <1>5, <1>6 DEF GkbdInv

(* A step of gkbd, or one that concerns neither the backlight nor what the daemon *)
(* thinks of it, leaves the daemon's part.                                        *)
LEMMA DaemonUntouched ==
    ASSUME IInv, UNCHANGED daemonVars,
           \A a \in Aspects :
               \/ driver'[a] \in {"run", "file", "nobody"}
               \/ driver'[a] = driver[a] /\ light'[a] = light[a]
    PROVE  DaemonTypes' /\ DaemonInv'
<1>1. /\ up' = up /\ served' = served /\ work' = work /\ woken' = woken
      /\ keyboard' = keyboard /\ knob' = knob /\ choice' = choice /\ disk' = disk
      /\ told' = told /\ moved' = moved /\ chose' = chose
  BY DEF daemonVars
<1>2. DaemonTypes'
  BY <1>1 DEF IInv, DaemonTypes
<1>3. AppliesRemembered' /\ Alive' /\ NothingUnchosen'
  BY <1>1 DEF IInv, DaemonInv, AppliesRemembered, Alive, NothingUnchosen
<1>4. ClientsSeeTheSettings'
  BY <1>1 DEF IInv, DaemonInv, ClientsSeeTheSettings, Live
<1>5. CallDrives'
  BY <1>1 DEF IInv, DaemonInv, CallDrives, Among
<1>6. DaemonShows' /\ DrivenByDaemon'
  BY <1>1 DEF IInv, DaemonInv, DaemonShows, DrivenByDaemon
<1> QED BY <1>2, <1>3, <1>4, <1>5, <1>6 DEF DaemonInv

-----------------------------------------------------------------------------
(* The daemon: rows of commands. *)

LEMMA Rest ==
    ASSUME NEW q \in Seq(Aspects), q # <<>>
    PROVE  /\ Head(q) \in Aspects /\ Tail(q) \in Seq(Aspects)
           /\ \A a : ~Among(a, Tail(q)) /\ a # Head(q) => ~Among(a, q)
<1>1. /\ Len(q) \in Nat \ {0} /\ Head(q) = q[1] /\ q[1] \in Aspects
      /\ Tail(q) \in Seq(Aspects) /\ Len(Tail(q)) = Len(q) - 1
      /\ \A i \in 1 .. Len(q) - 1 : Tail(q)[i] = q[i + 1]
  OBVIOUS
<1>2. ASSUME NEW a, a # Head(q), Among(a, q) PROVE Among(a, Tail(q))
  <2>1. PICK i \in 1 .. Len(q) : q[i] = a
    BY <1>2 DEF Among
  <2>2. i # 1
    BY <1>1, <1>2, <2>1
  <2>3. i - 1 \in 1 .. Len(q) - 1 /\ (i - 1) + 1 = i
    BY <1>1, <2>1, <2>2
  <2>4. Tail(q)[i - 1] = a
    BY <1>1, <2>1, <2>3
  <2> QED BY <1>1, <2>3, <2>4 DEF Among
<1> QED BY <1>1, <1>2

LEMMA Rows ==
    /\ <<>> \in Seq(Aspects) /\ SET_ENABLED \in Seq(Aspects)
    /\ SET_COLOR \in Seq(Aspects) /\ SET_BRIGHTNESS \in Seq(Aspects)
    /\ \A k : ToApply(k) \in Seq(Aspects)
    /\ Among("on", SET_ENABLED)
    /\ Among("on", SET_COLOR) /\ Among("colour", SET_COLOR)
    /\ Among("on", SET_BRIGHTNESS) /\ Among("percent", SET_BRIGHTNESS)
<1>1. <<>> \in Seq(Aspects) /\ SET_ENABLED \in Seq(Aspects)
  BY DEF SET_ENABLED, Aspects
<1>2. SET_COLOR \in Seq(Aspects) /\ SET_BRIGHTNESS \in Seq(Aspects)
  BY DEF SET_COLOR, SET_BRIGHTNESS, Aspects
<1>3. \A k : ToApply(k) \in Seq(Aspects)
  <2>1. <<"on">> \in Seq(Aspects)
    BY DEF Aspects
  <2>2. <<"on", "colour", "on", "percent">> \in Seq(Aspects)
    BY DEF Aspects
  <2> QED BY <2>1, <2>2, Zenon DEF ToApply
<1>4. Among("on", SET_ENABLED)
  BY DEF Among, SET_ENABLED
<1>5. Among("on", SET_COLOR) /\ Among("colour", SET_COLOR)
  <2>1. 1 \in 1 .. Len(SET_COLOR) /\ SET_COLOR[1] = "on"
    BY DEF SET_COLOR
  <2>2. 2 \in 1 .. Len(SET_COLOR) /\ SET_COLOR[2] = "colour"
    BY DEF SET_COLOR
  <2> QED BY <2>1, <2>2 DEF Among
<1>6. Among("on", SET_BRIGHTNESS) /\ Among("percent", SET_BRIGHTNESS)
  <2>1. 1 \in 1 .. Len(SET_BRIGHTNESS) /\ SET_BRIGHTNESS[1] = "on"
    BY DEF SET_BRIGHTNESS
  <2>2. 2 \in 1 .. Len(SET_BRIGHTNESS) /\ SET_BRIGHTNESS[2] = "percent"
    BY DEF SET_BRIGHTNESS
  <2> QED BY <2>1, <2>2 DEF Among
<1> QED BY <1>1, <1>2, <1>3, <1>4, <1>5, <1>6

(* What is left to do, once some of it is done or given up. *)
LEMMA WorkLeft ==
    ASSUME work \in Works, NEW q \in Seq(Aspects), work' = [work EXCEPT !.todo = q]
    PROVE  /\ work' \in Works /\ work' # None
           /\ work'.for = work.for /\ work'.asked = work.asked /\ work'.todo = q
<1>1. /\ work' \in Works
      /\ work'.for = work.for /\ work'.asked = work.asked /\ work'.todo = q
  BY DEF Works
<1> QED BY <1>1, ParameterAssumption

LEMMA WorkBegun ==
    ASSUME NEW for \in {"call", "start", "resume"}, NEW todo \in Seq(Aspects),
           NEW k \in States, Begin(for, todo, k)
    PROVE  /\ work' \in Works /\ work' # None
           /\ work'.for = for /\ work'.todo = todo /\ work'.asked = k
<1>1. /\ work' \in Works
      /\ work'.for = for /\ work'.todo = todo /\ work'.asked = k
  BY DEF Begin, Works
<1> QED BY <1>1, ParameterAssumption

LEMMA RememberedIsAState == DaemonTypes => Remembered \in States
  BY DefaultIsAState DEF DaemonTypes, Remembered

-----------------------------------------------------------------------------
(* The daemon: step by step.  What a step does to the backlight is stated with it, *)
(* for gkbd's part.                                                                *)

Anew ==
    /\ UNCHANGED scripts /\ served' \in BOOLEAN
    /\ light' \in States /\ driver' \in [Aspects -> Drivers]
    /\ \A a \in Aspects :
           \/ driver'[a] \in {"call", "daemon", "nobody"}
           \/ driver'[a] = driver[a] /\ light'[a] = light[a]

LEMMA NothingAnew ==
    ASSUME GkbdTypeOK, UNCHANGED <<scripts, light, driver>>, served' \in BOOLEAN
    PROVE  Anew
  BY DEF Anew, GkbdTypeOK, Drivers

(* One EC command of the daemon. *)
LEMMA EcCommandStep ==
    ASSUME IInv, EcCommand
    PROVE  Anew /\ DaemonTypes' /\ DaemonInv'
<1> DEFINE a == Head(work.todo)
           k == work.asked
           call == work.for = "call"
<1>1. /\ work \in Works /\ work # None /\ k \in States
      /\ work.todo \in Seq(Aspects) /\ work.todo # <<>>
  BY ParameterAssumption DEF EcCommand, IInv, DaemonTypes, Works
<1>2. /\ a \in Aspects /\ Tail(work.todo) \in Seq(Aspects)
      /\ \A b : ~Among(b, Tail(work.todo)) /\ b # a => ~Among(b, work.todo)
  BY <1>1, Rest
<1>3. /\ light' = [light EXCEPT ![a] = k[a]]
      /\ driver' = [driver EXCEPT ![a] = IF call THEN "call" ELSE "daemon"]
      /\ work' = [work EXCEPT !.todo = Tail(work.todo)]
      /\ UNCHANGED scripts /\ served' = served /\ up' = up /\ woken' = woken
      /\ keyboard' = keyboard /\ choice' = choice
      /\ knob' = knob /\ disk' = disk /\ told' = told /\ moved' = moved /\ chose' = chose
  BY DEF EcCommand, remembered
<1>4. /\ work' \in Works /\ work' # None
      /\ work'.for = work.for /\ work'.asked = k /\ work'.todo = Tail(work.todo)
  BY <1>1, <1>2, <1>3, WorkLeft
<1> HIDE DEF a, k
<1>5. light' \in States /\ light'[a] = k[a] /\ \A b \in Aspects \ {a} : light'[b] = light[b]
  <2>1. light \in States
    BY DEF IInv, GkbdTypeOK
  <2>2. light' = With(light, k, a)
    BY <1>3 DEF With
  <2> QED BY <1>1, <1>2, <2>1, <2>2, OneShown DEF k
<1>6. /\ driver' \in [Aspects -> Drivers]
      /\ driver'[a] = IF call THEN "call" ELSE "daemon"
      /\ \A b \in Aspects \ {a} : driver'[b] = driver[b]
  BY <1>2, <1>3 DEF IInv, GkbdTypeOK, Drivers, a
<1>7. Anew
  BY <1>3, <1>5, <1>6 DEF Anew, IInv, GkbdTypeOK
<1>8. DaemonTypes'
  BY <1>3, <1>4 DEF IInv, DaemonTypes
<1>9. CallDrives'
  <2> SUFFICES ASSUME NEW b \in Aspects
               PROVE  /\ driver'[b] = "call" => call /\ light'[b] = k[b]
                      /\ driver'[b] = "daemon" /\ call /\ ~Among(b, Tail(work.todo)) =>
                             light'[b] = k[b]
    BY <1>4 DEF CallDrives
  <2>1. CASE b = a
    BY <1>5, <1>6, <2>1
  <2>2. CASE b # a
    <3>1. driver'[b] = driver[b] /\ light'[b] = light[b]
      BY <1>5, <1>6, <2>2
    <3>2. ~Among(b, Tail(work.todo)) => ~Among(b, work.todo)
      BY <1>2, <2>2 DEF a
    <3> QED BY <1>1, <3>1, <3>2 DEF IInv, DaemonInv, CallDrives, k
  <2> QED BY <2>1, <2>2
<1>10. ~call => keyboard # None /\ k = keyboard
  BY <1>1 DEF IInv, DaemonInv, AppliesRemembered, k
<1>11. AppliesRemembered'
  BY <1>3, <1>4, <1>10 DEF AppliesRemembered
<1>12. DaemonShows' /\ DrivenByDaemon'
  BY <1>3, <1>5, <1>6, <1>10 DEF IInv, DaemonInv, DaemonShows, DrivenByDaemon
<1>13. Alive'
  BY <1>1, <1>3 DEF IInv, DaemonInv, Alive
<1>14. NothingUnchosen'
  BY <1>1, <1>3 DEF IInv, DaemonInv, NothingUnchosen
<1>15. ClientsSeeTheSettings'
  BY <1>3 DEF IInv, DaemonInv, ClientsSeeTheSettings, Live
<1> QED BY <1>7, <1>8, <1>9, <1>11, <1>12, <1>13, <1>14, <1>15 DEF DaemonInv

(* One that is refused: a call ends, and remembers nothing of it. *)
LEMMA RefusalStep ==
    ASSUME IInv, EcRefuses
    PROVE  Anew /\ DaemonTypes' /\ DaemonInv'
<1>1. /\ work \in Works /\ work # None /\ work.todo # <<>> /\ keyboard' = keyboard
      /\ UNCHANGED scripts /\ light' = light /\ served' = served /\ up' = up /\ woken' = woken
      /\ choice' = choice /\ knob' = knob /\ disk' = disk /\ told' = told
      /\ moved' = moved /\ chose' = chose
  BY DEF EcRefuses, remembered, IInv, DaemonTypes
<1>2. ClientsSeeTheSettings'
  BY <1>1 DEF IInv, DaemonInv, ClientsSeeTheSettings, Live
<1>3. CASE work.for = "call"
  <2>1. work' = None /\ driver' = Reassigned("call", "nobody")
    BY <1>3 DEF EcRefuses
  <2>2. driver \in [Aspects -> Drivers] /\ "call" \in Drivers /\ "nobody" \in Drivers
    BY DEF IInv, GkbdTypeOK, Drivers
  <2>3. /\ driver' \in [Aspects -> Drivers]
        /\ \A a \in Aspects : driver'[a] = IF driver[a] = "call" THEN "nobody" ELSE driver[a]
    BY <2>1, <2>2, ReassignedDrivers
  <2>4. Anew
    BY <1>1, <2>3 DEF Anew, IInv, GkbdTypeOK
  <2>5. DaemonTypes'
    BY <1>1, <2>1 DEF IInv, DaemonTypes
  <2>6. CallDrives'
    BY <2>1, <2>3 DEF CallDrives
  <2>7. AppliesRemembered'
    BY <2>1 DEF AppliesRemembered
  <2>8. DaemonShows' /\ DrivenByDaemon'
    BY <1>1, <2>3 DEF IInv, DaemonInv, DaemonShows, DrivenByDaemon
  <2>9. Alive' /\ NothingUnchosen'
    BY <1>1, <2>1 DEF IInv, DaemonInv, Alive, NothingUnchosen
  <2> QED BY <1>2, <2>4, <2>5, <2>6, <2>7, <2>8, <2>9 DEF DaemonInv
<1>4. CASE work.for # "call"
  <2>1. work' = [work EXCEPT !.todo = <<>>] /\ driver' = driver
    BY <1>4 DEF EcRefuses
  <2>2. /\ work' \in Works /\ work' # None
        /\ work'.for = work.for /\ work'.todo = <<>>
    BY <1>1, <2>1, Rows, WorkLeft
  <2>3. Anew
    BY <1>1, <2>1, NothingAnew DEF IInv, GkbdTypeOK
  <2>4. DaemonTypes'
    BY <1>1, <2>2 DEF IInv, DaemonTypes
  <2>5. CallDrives'
    BY <1>1, <1>4, <2>1, <2>2 DEF IInv, DaemonInv, CallDrives
  <2>6. AppliesRemembered'
    BY <2>2 DEF AppliesRemembered
  <2>7. DaemonShows' /\ DrivenByDaemon'
    BY <1>1, <2>1 DEF IInv, DaemonInv, DaemonShows, DrivenByDaemon
  <2>8. Alive' /\ NothingUnchosen'
    BY <1>1, <1>4, <2>2 DEF IInv, DaemonInv, Alive, NothingUnchosen
  <2> QED BY <1>2, <2>3, <2>4, <2>5, <2>6, <2>7, <2>8 DEF DaemonInv
<1> QED BY <1>3, <1>4

(* A call about the backlight is taken up: what its commands will not drive, it *)
(* asks as remembered.                                                          *)
LEMMA SetKeyboardStep ==
    ASSUME IInv, NEW todo \in Seq(Aspects), NEW k \in States, SetKeyboard(todo, k),
           \A a \in Aspects : ~Among(a, todo) => k[a] = Remembered[a]
    PROVE  Anew /\ DaemonTypes' /\ DaemonInv'
<1>1. /\ work = None /\ Begin("call", todo, k) /\ chose' = chose \cup {"keyboard"}
      /\ UNCHANGED scripts /\ light' = light /\ driver' = driver /\ served' = served /\ served
      /\ up' = up /\ woken' = woken /\ keyboard' = keyboard /\ choice' = choice
      /\ knob' = knob /\ disk' = disk /\ told' = told /\ moved' = moved
  BY DEF SetKeyboard, Idle, gkbdVars, scripts, remembered
<1>2. /\ work' \in Works /\ work' # None
      /\ work'.for = "call" /\ work'.todo = todo /\ work'.asked = k
  BY <1>1, WorkBegun
<1>3. Anew
  BY <1>1, NothingAnew DEF IInv, GkbdTypeOK
<1>4. DaemonTypes'
  BY <1>1, <1>2 DEF IInv, DaemonTypes
<1>5. CallDrives'
  <2> SUFFICES ASSUME NEW a \in Aspects
               PROVE  /\ driver[a] # "call"
                      /\ driver[a] = "daemon" /\ ~Among(a, todo) => light[a] = k[a]
    BY <1>1, <1>2 DEF CallDrives
  <2>1. driver[a] # "call"
    BY <1>1 DEF IInv, DaemonInv, CallDrives
  <2>2. ASSUME driver[a] = "daemon", ~Among(a, todo) PROVE light[a] = k[a]
    <3>1. keyboard # None /\ light[a] = keyboard[a]
      BY <2>2 DEF IInv, DaemonInv, DaemonShows, DrivenByDaemon
    <3> QED BY <2>2, <3>1 DEF Remembered
  <2> QED BY <2>1, <2>2
<1>6. AppliesRemembered'
  BY <1>2 DEF AppliesRemembered
<1>7. DaemonShows' /\ DrivenByDaemon'
  BY <1>1 DEF IInv, DaemonInv, DaemonShows, DrivenByDaemon
<1>8. Alive' /\ NothingUnchosen'
  BY <1>1 DEF IInv, DaemonInv, Alive, NothingUnchosen
<1>9. ClientsSeeTheSettings'
  BY <1>1 DEF IInv, DaemonInv, ClientsSeeTheSettings, Live
<1> QED BY <1>3, <1>4, <1>5, <1>6, <1>7, <1>8, <1>9 DEF DaemonInv

LEMMA KeyboardCallSteps ==
    ASSUME IInv, SetKeyboardColor \/ SetKeyboardBrightness \/ SetKeyboardEnabled
    PROVE  Anew /\ DaemonTypes' /\ DaemonInv'
<1> DEFINE r == Remembered
<1>1. r \in States
  BY RememberedIsAState DEF IInv
<1> HIDE DEF r
<1>2. ASSUME NEW c \in Colours, SetKeyboard(SET_COLOR, [r EXCEPT !.on = TRUE, !.colour = c])
      PROVE  Anew /\ DaemonTypes' /\ DaemonInv'
  <2> DEFINE k == [r EXCEPT !.on = TRUE, !.colour = c]
  <2>1. k \in States /\ k["percent"] = r["percent"]
    BY <1>1 DEF States
  <2> HIDE DEF k
  <2>2. \A a \in Aspects : ~Among(a, SET_COLOR) => k[a] = r[a]
    BY <2>1, Rows DEF Aspects
  <2>3. SetKeyboard(SET_COLOR, k)
    BY <1>2 DEF k
  <2> QED BY <2>1, <2>2, <2>3, Rows, SetKeyboardStep DEF r
<1>3. ASSUME NEW p \in Percents, SetKeyboard(SET_BRIGHTNESS, [r EXCEPT !.on = TRUE, !.percent = p])
      PROVE  Anew /\ DaemonTypes' /\ DaemonInv'
  <2> DEFINE k == [r EXCEPT !.on = TRUE, !.percent = p]
  <2>1. k \in States /\ k["colour"] = r["colour"]
    BY <1>1 DEF States
  <2> HIDE DEF k
  <2>2. \A a \in Aspects : ~Among(a, SET_BRIGHTNESS) => k[a] = r[a]
    BY <2>1, Rows DEF Aspects
  <2>3. SetKeyboard(SET_BRIGHTNESS, k)
    BY <1>3 DEF k
  <2> QED BY <2>1, <2>2, <2>3, Rows, SetKeyboardStep DEF r
<1>4. ASSUME NEW on \in BOOLEAN, SetKeyboard(SET_ENABLED, [r EXCEPT !.on = on])
      PROVE  Anew /\ DaemonTypes' /\ DaemonInv'
  <2> DEFINE k == [r EXCEPT !.on = on]
  <2>1. k \in States /\ k["colour"] = r["colour"] /\ k["percent"] = r["percent"]
    BY <1>1 DEF States
  <2> HIDE DEF k
  <2>2. \A a \in Aspects : ~Among(a, SET_ENABLED) => k[a] = r[a]
    BY <2>1, Rows DEF Aspects
  <2>3. SetKeyboard(SET_ENABLED, k)
    BY <1>4 DEF k
  <2> QED BY <2>1, <2>2, <2>3, Rows, SetKeyboardStep DEF r
<1> QED BY <1>2, <1>3, <1>4 DEF SetKeyboardColor, SetKeyboardBrightness, SetKeyboardEnabled, r

(* A save keeps what nobody chose out of the file. *)
LEMMA Saves ==
    ASSUME DaemonTypes, Persist, keyboard' \in States \cup {None}, choice' \in BOOLEAN \cup {None}
    PROVE  /\ disk' \in [keyboard : States \cup {None}, turbo : BOOLEAN \cup {None}]
           /\ (disk.keyboard = None /\ keyboard' = None) => disk'.keyboard = None
           /\ (disk.turbo = None /\ choice' = None) => disk'.turbo = None
<1>1. disk \in [keyboard : States \cup {None}, turbo : BOOLEAN \cup {None}]
  BY DEF DaemonTypes
<1>2. CASE disk' = disk
  BY <1>1, <1>2
<1>3. CASE disk' = [keyboard |-> keyboard', turbo |-> choice']
  BY <1>3
<1> QED BY <1>2, <1>3 DEF Persist

(* The knob as it is told, whatever it is. *)
LEMMA LiveIsOne == Live' \in [available : BOOLEAN, enabled : BOOLEAN]
  BY DEF Live

(* A call about the backlight comes to its end: all it asked is driven, so what it *)
(* asked may be remembered.                                                        *)
LEMMA KeyboardSetStep ==
    ASSUME IInv, KeyboardSet
    PROVE  Anew /\ DaemonTypes' /\ DaemonInv'
<1> DEFINE k == work.asked
<1>1. /\ work # None /\ work.for = "call" /\ work.todo = <<>>
      /\ work' = None /\ keyboard' = k /\ choice' = choice /\ Persist
      /\ told' = [told EXCEPT !.keyboard = keyboard']
      /\ driver' = Reassigned("call", "daemon")
      /\ UNCHANGED scripts /\ light' = light /\ served' = served /\ up' = up /\ woken' = woken
      /\ knob' = knob /\ moved' = moved /\ chose' = chose
  BY DEF KeyboardSet
<1>2. k \in States /\ k # None
  BY <1>1, ParameterAssumption DEF IInv, DaemonTypes, Works
<1> HIDE DEF k
<1>3. /\ driver' \in [Aspects -> Drivers]
      /\ \A a \in Aspects : driver'[a] = IF driver[a] = "call" THEN "daemon" ELSE driver[a]
  <2>1. driver \in [Aspects -> Drivers] /\ "call" \in Drivers /\ "daemon" \in Drivers
    BY DEF IInv, GkbdTypeOK, Drivers
  <2> QED BY <1>1, <2>1, ReassignedDrivers
<1>4. Anew
  BY <1>1, <1>3 DEF Anew, IInv, GkbdTypeOK
<1>5. /\ disk' \in [keyboard : States \cup {None}, turbo : BOOLEAN \cup {None}]
      /\ (disk.turbo = None /\ choice' = None) => disk'.turbo = None
  BY <1>1, <1>2, Saves DEF IInv, DaemonTypes
<1>6. /\ told' \in [keyboard : States \cup {None},
                    turbo : [available : BOOLEAN, enabled : BOOLEAN] \cup {None}]
      /\ told'.keyboard = k /\ told'.turbo = told.turbo
  BY <1>1, <1>2 DEF IInv, DaemonTypes
<1>7. DaemonTypes'
  BY <1>1, <1>2, <1>5, <1>6 DEF IInv, DaemonTypes
<1>8. DaemonShows'
  <2> SUFFICES ASSUME NEW a \in Aspects, driver'[a] = "daemon" PROVE light[a] = k[a]
    BY <1>1 DEF DaemonShows
  <2>1. driver[a] \in {"call", "daemon"} /\ ~Among(a, work.todo)
    BY <1>1, <1>3 DEF Among
  <2> QED BY <1>1, <2>1 DEF IInv, DaemonInv, CallDrives, k
<1>9. CallDrives'
  BY <1>1, <1>3 DEF CallDrives
<1>10. AppliesRemembered' /\ DrivenByDaemon'
  BY <1>1, <1>2 DEF AppliesRemembered, DrivenByDaemon
<1>11. Alive' /\ NothingUnchosen'
  BY <1>1, <1>5 DEF IInv, DaemonInv, Alive, NothingUnchosen
<1>12. ClientsSeeTheSettings'
  BY <1>1, <1>6 DEF IInv, DaemonInv, ClientsSeeTheSettings, Live
<1> QED BY <1>4, <1>7, <1>8, <1>9, <1>10, <1>11, <1>12 DEF DaemonInv

(* What concerns only the knob, the file and what clients were told. *)
LEMMA SameMind ==
    ASSUME IInv, UNCHANGED <<gkbdVars, served, up, work, keyboard>>
    PROVE  Anew /\ CallDrives' /\ AppliesRemembered' /\ DaemonShows' /\ DrivenByDaemon' /\ Alive'
<1>1. /\ UNCHANGED scripts /\ light' = light /\ driver' = driver
      /\ served' = served /\ up' = up /\ work' = work /\ keyboard' = keyboard
  BY DEF gkbdVars, scripts
<1>2. Anew
  BY <1>1, NothingAnew DEF IInv, GkbdTypeOK
<1>3. CallDrives'
  BY <1>1 DEF IInv, DaemonInv, CallDrives, Among
<1>4. AppliesRemembered' /\ DaemonShows' /\ DrivenByDaemon' /\ Alive'
  BY <1>1 DEF IInv, DaemonInv, AppliesRemembered, DaemonShows, DrivenByDaemon, Alive
<1> QED BY <1>2, <1>3, <1>4

LEMMA TurboSteps ==
    ASSUME IInv, SetTurboBoost \/ OtherSave \/ Tick \/ OtherWriter
    PROVE  Anew /\ DaemonTypes' /\ DaemonInv'
<1>1. /\ UNCHANGED <<gkbdVars, served, up, work, keyboard>>
      /\ keyboard' = keyboard /\ work' = work /\ served' = served
      /\ up' = up /\ woken' = woken
  BY DEF SetTurboBoost, OtherSave, Tick, OtherWriter, remembered
<1>2. Anew /\ CallDrives' /\ AppliesRemembered' /\ DaemonShows' /\ DrivenByDaemon' /\ Alive'
  BY <1>1, SameMind
<1>3. /\ told \in [keyboard : States \cup {None},
                   turbo : [available : BOOLEAN, enabled : BOOLEAN] \cup {None}]
      /\ NothingUnchosen
      /\ served => told.keyboard = keyboard /\ (moved \/ told.turbo = Live)
  BY DEF IInv, DaemonTypes, DaemonInv, ClientsSeeTheSettings
<1>4. ASSUME SyncTurbo
      PROVE  /\ told' \in [keyboard : States \cup {None},
                           turbo : [available : BOOLEAN, enabled : BOOLEAN] \cup {None}]
             /\ told'.keyboard = told.keyboard /\ told'.turbo = Live' /\ moved' = FALSE
  <2>1. told' = [told EXCEPT !.turbo = Live'] /\ moved' = FALSE
    BY <1>4 DEF SyncTurbo
  <2> QED BY <1>3, <2>1, LiveIsOne
<1>5. CASE SetTurboBoost /\ Writable
  <2>1. /\ choice' \in BOOLEAN /\ knob' \in {"on", "off"} /\ Persist /\ SyncTurbo
        /\ chose' = chose \cup {"turbo"}
    BY <1>5 DEF SetTurboBoost, Set
  <2>2. /\ disk' \in [keyboard : States \cup {None}, turbo : BOOLEAN \cup {None}]
        /\ (disk.keyboard = None /\ keyboard' = None) => disk'.keyboard = None
    BY <1>1, <2>1, Saves DEF IInv, DaemonTypes
  <2>3. DaemonTypes'
    BY <1>1, <1>4, <2>1, <2>2 DEF IInv, DaemonTypes
  <2>4. NothingUnchosen'
    BY <1>1, <1>3, <2>1, <2>2 DEF NothingUnchosen
  <2>5. ClientsSeeTheSettings'
    BY <1>1, <1>3, <1>4, <2>1 DEF ClientsSeeTheSettings
  <2> QED BY <1>2, <2>3, <2>4, <2>5 DEF DaemonInv
<1>6. CASE SetTurboBoost /\ ~Writable
  <2>1. /\ knob' = knob /\ choice' = choice /\ disk' = disk /\ told' = told /\ moved' = moved
        /\ chose' = chose \cup {"turbo"}
    BY <1>6 DEF SetTurboBoost
  <2>2. DaemonTypes'
    BY <1>1, <2>1 DEF IInv, DaemonTypes
  <2>3. NothingUnchosen' /\ ClientsSeeTheSettings'
    BY <1>1, <1>3, <2>1 DEF NothingUnchosen, ClientsSeeTheSettings, Live
  <2> QED BY <1>2, <2>2, <2>3 DEF DaemonInv
<1>7. CASE OtherSave
  <2>1. /\ knob' = knob /\ choice' = choice /\ Persist /\ told' = told /\ moved' = moved
        /\ chose' = chose
    BY <1>7 DEF OtherSave, remembered
  <2>2. /\ disk' \in [keyboard : States \cup {None}, turbo : BOOLEAN \cup {None}]
        /\ (disk.keyboard = None /\ keyboard' = None) => disk'.keyboard = None
        /\ (disk.turbo = None /\ choice' = None) => disk'.turbo = None
    BY <1>1, <2>1, Saves DEF IInv, DaemonTypes
  <2>3. DaemonTypes'
    BY <1>1, <2>1, <2>2 DEF IInv, DaemonTypes
  <2>4. NothingUnchosen' /\ ClientsSeeTheSettings'
    BY <1>1, <1>3, <2>1, <2>2 DEF NothingUnchosen, ClientsSeeTheSettings, Live
  <2> QED BY <1>2, <2>3, <2>4 DEF DaemonInv
<1>8. CASE Tick
  <2>1. knob' = knob /\ choice' = choice /\ disk' = disk /\ SyncTurbo /\ chose' = chose
    BY <1>8 DEF Tick, remembered
  <2>2. DaemonTypes'
    BY <1>1, <1>4, <2>1 DEF IInv, DaemonTypes
  <2>3. NothingUnchosen' /\ ClientsSeeTheSettings'
    BY <1>1, <1>3, <1>4, <2>1 DEF NothingUnchosen, ClientsSeeTheSettings
  <2> QED BY <1>2, <2>2, <2>3 DEF DaemonInv
<1>9. CASE OtherWriter
  <2>1. /\ knob' \in {"on", "off"} /\ choice' = choice /\ disk' = disk /\ told' = told
        /\ moved' = TRUE /\ chose' = chose
    BY <1>9 DEF OtherWriter, remembered
  <2>2. DaemonTypes'
    BY <1>1, <2>1 DEF IInv, DaemonTypes
  <2>3. NothingUnchosen' /\ ClientsSeeTheSettings'
    BY <1>1, <1>3, <2>1 DEF NothingUnchosen, ClientsSeeTheSettings
  <2> QED BY <1>2, <2>2, <2>3 DEF DaemonInv
<1> QED BY <1>5, <1>6, <1>7, <1>8, <1>9

(* A start, before the name is owned: what was saved is remembered and applied. *)
LEMMA StartSteps ==
    ASSUME IInv, Start
    PROVE  Anew /\ DaemonTypes' /\ DaemonInv'
<1> DEFINE saved == disk.keyboard
           row == IF saved = None THEN <<>> ELSE ToApply(saved)
           asked == IF saved = None THEN Default ELSE saved
<1>1. /\ ~up /\ up' = TRUE /\ keyboard' = saved /\ Begin("start", row, asked)
      /\ UNCHANGED scripts /\ light' = light /\ driver' = driver /\ served' = served
      /\ woken' = woken /\ choice' = choice /\ knob' = knob /\ disk' = disk
      /\ told' = told /\ moved' = moved /\ chose' = chose
  BY DEF Start, SavedKeyboard, Apply, gkbdVars, scripts
<1>2. saved \in States \cup {None} /\ asked \in States /\ row \in Seq(Aspects)
  BY Rows, DefaultIsAState DEF IInv, DaemonTypes
<1>3. row # <<>> => saved # None /\ asked = saved
  OBVIOUS
<1>4. saved = None => row = <<>>
  OBVIOUS
<1> HIDE DEF row, asked
<1>5. /\ work' \in Works /\ work' # None
      /\ work'.for = "start" /\ work'.todo = row /\ work'.asked = asked
  BY <1>1, <1>2, WorkBegun
<1>6. Anew
  BY <1>1, NothingAnew DEF IInv, GkbdTypeOK
<1>7. DaemonTypes'
  BY <1>1, <1>2, <1>5 DEF IInv, DaemonTypes
<1>8. /\ work = None /\ keyboard = None /\ ~served
      /\ \A a \in Aspects : driver[a] \notin {"call", "daemon"}
  BY <1>1 DEF IInv, DaemonInv, Alive, CallDrives, DrivenByDaemon
<1>9. CallDrives' /\ DaemonShows' /\ DrivenByDaemon'
  BY <1>1, <1>8 DEF CallDrives, DaemonShows, DrivenByDaemon
<1>10. AppliesRemembered'
  BY <1>1, <1>3, <1>5 DEF AppliesRemembered
<1>11. Alive' /\ ClientsSeeTheSettings'
  BY <1>1, <1>8 DEF Alive, ClientsSeeTheSettings
<1>12. NothingUnchosen'
  BY <1>1, <1>4, <1>5 DEF IInv, DaemonInv, NothingUnchosen
<1> QED BY <1>6, <1>7, <1>9, <1>10, <1>11, <1>12 DEF DaemonInv

LEMMA StartedStep ==
    ASSUME IInv, Started
    PROVE  Anew /\ DaemonTypes' /\ DaemonInv'
<1>1. /\ work # None /\ work.for = "start" /\ work' = None /\ served' = TRUE
      /\ choice' = disk.turbo /\ told' = [keyboard |-> keyboard, turbo |-> Live']
      /\ moved' = FALSE
      /\ UNCHANGED scripts /\ light' = light /\ driver' = driver /\ up' = up
      /\ woken' = woken /\ keyboard' = keyboard /\ disk' = disk /\ chose' = chose
  BY DEF Started, gkbdVars, scripts
<1>2. knob' \in {"missing", "locked", "on", "off"}
  BY DEF Started, Set, IInv, DaemonTypes
<1>3. Anew
  BY <1>1, NothingAnew
     DEF IInv, GkbdTypeOK
<1>4. told' \in [keyboard : States \cup {None},
                 turbo : [available : BOOLEAN, enabled : BOOLEAN] \cup {None}]
  BY <1>1, LiveIsOne DEF IInv, DaemonTypes
<1>5. DaemonTypes'
  BY <1>1, <1>2, <1>4 DEF IInv, DaemonTypes
<1>6. CallDrives'
  BY <1>1 DEF IInv, DaemonInv, CallDrives
<1>7. AppliesRemembered' /\ DaemonShows' /\ DrivenByDaemon'
  BY <1>1 DEF IInv, DaemonInv, AppliesRemembered, DaemonShows, DrivenByDaemon
<1>8. Alive' /\ NothingUnchosen'
  BY <1>1 DEF IInv, DaemonInv, Alive, NothingUnchosen
<1>9. ClientsSeeTheSettings'
  BY <1>1 DEF ClientsSeeTheSettings
<1> QED BY <1>3, <1>5, <1>6, <1>7, <1>8, <1>9 DEF DaemonInv

(* A resume: what is remembered is applied again. *)
LEMMA ResumeSteps ==
    ASSUME IInv, OnResume \/ Resumed
    PROVE  Anew /\ DaemonTypes' /\ DaemonInv'
<1>1. /\ woken' \in BOOLEAN
      /\ UNCHANGED scripts /\ light' = light /\ driver' = driver /\ served' = served
      /\ up' = up /\ keyboard' = keyboard /\ choice' = choice /\ knob' = knob /\ disk' = disk
      /\ told' = told /\ moved' = moved /\ chose' = chose
  BY DEF OnResume, Resumed, gkbdVars, scripts, remembered, IInv, DaemonTypes
<1>2. Anew
  BY <1>1, NothingAnew DEF IInv, GkbdTypeOK
<1>3. DaemonShows' /\ DrivenByDaemon' /\ ClientsSeeTheSettings'
  BY <1>1 DEF IInv, DaemonInv, DaemonShows, DrivenByDaemon, ClientsSeeTheSettings, Live
<1>4. CASE OnResume
  <2> DEFINE row == IF keyboard = None THEN <<>> ELSE ToApply(keyboard)
             asked == IF keyboard = None THEN Default ELSE keyboard
  <2>1. work = None /\ served /\ Begin("resume", row, asked)
    BY <1>4 DEF OnResume, Idle, Apply
  <2>2. asked \in States /\ row \in Seq(Aspects)
    BY Rows, DefaultIsAState DEF IInv, DaemonTypes
  <2>3. (row # <<>> => keyboard # None /\ asked = keyboard) /\ (keyboard = None => row = <<>>)
    OBVIOUS
  <2> HIDE DEF row, asked
  <2>4. /\ work' \in Works /\ work' # None
        /\ work'.for = "resume" /\ work'.todo = row /\ work'.asked = asked
    BY <2>1, <2>2, WorkBegun
  <2>5. DaemonTypes'
    BY <1>1, <2>4 DEF IInv, DaemonTypes
  <2>6. CallDrives'
    BY <1>1, <2>1, <2>4 DEF IInv, DaemonInv, CallDrives
  <2>7. AppliesRemembered'
    BY <1>1, <2>3, <2>4 DEF AppliesRemembered
  <2>8. Alive' /\ NothingUnchosen'
    BY <1>1, <2>1, <2>3, <2>4 DEF IInv, DaemonInv, Alive, NothingUnchosen
  <2> QED BY <1>2, <1>3, <2>5, <2>6, <2>7, <2>8 DEF DaemonInv
<1>5. CASE Resumed
  <2>1. work # None /\ work.for = "resume" /\ work' = None
    BY <1>5 DEF Resumed
  <2>2. DaemonTypes'
    BY <1>1, <2>1 DEF IInv, DaemonTypes
  <2>3. CallDrives'
    BY <1>1, <2>1 DEF IInv, DaemonInv, CallDrives
  <2>4. AppliesRemembered' /\ Alive' /\ NothingUnchosen'
    BY <1>1, <2>1 DEF IInv, DaemonInv, AppliesRemembered, Alive, NothingUnchosen
  <2> QED BY <1>2, <1>3, <2>2, <2>3, <2>4 DEF DaemonInv
<1> QED BY <1>4, <1>5

(* The ends: of the daemon, of the EC's memory, of both. *)
LEMMA StopStep ==
    ASSUME IInv, Stop
    PROVE  Anew /\ DaemonTypes' /\ DaemonInv'
<1>1. /\ up' = FALSE /\ served' = FALSE /\ work' = None /\ woken' = FALSE
      /\ keyboard' = None /\ choice' = None /\ told' = Untold
      /\ UNCHANGED scripts /\ light' = light /\ knob' = knob /\ disk' = disk
      /\ moved' = moved /\ chose' = chose
      /\ driver' = [a \in Aspects |-> IF driver[a] \in {"call", "daemon"} THEN "nobody" ELSE driver[a]]
  BY DEF Stop, DaemonGone
<1>2. /\ driver' \in [Aspects -> Drivers]
      /\ \A a \in Aspects : /\ driver'[a] \notin {"call", "daemon"}
                            /\ driver'[a] = "nobody" \/ driver'[a] = driver[a]
  <2>1. driver \in [Aspects -> Drivers] /\ "nobody" \in Drivers
    BY DEF IInv, GkbdTypeOK, Drivers
  <2> QED BY <1>1, <2>1
<1>3. Anew
  BY <1>1, <1>2 DEF Anew, IInv, GkbdTypeOK
<1>4. DaemonTypes'
  <2>1. told' \in [keyboard : States \cup {None},
                   turbo : [available : BOOLEAN, enabled : BOOLEAN] \cup {None}]
    BY <1>1 DEF Untold
  <2> QED BY <1>1, <2>1 DEF IInv, DaemonTypes
<1>5. CallDrives' /\ DaemonShows' /\ DrivenByDaemon'
  BY <1>2 DEF CallDrives, DaemonShows, DrivenByDaemon
<1>6. AppliesRemembered' /\ Alive' /\ ClientsSeeTheSettings'
  BY <1>1 DEF AppliesRemembered, Alive, ClientsSeeTheSettings
<1>7. NothingUnchosen'
  BY <1>1 DEF IInv, DaemonInv, NothingUnchosen
<1> QED BY <1>3, <1>4, <1>5, <1>6, <1>7 DEF DaemonInv

LEMMA Forgotten ==
    ASSUME EcForgets
    PROVE  /\ light' \in States /\ driver' \in [Aspects -> Drivers]
           /\ \A a \in Aspects : driver'[a] = "nobody"
  BY DefaultIsAState DEF EcForgets, Drivers

LEMMA SuspendStep ==
    ASSUME IInv, Suspend
    PROVE  Anew /\ DaemonTypes' /\ DaemonInv'
<1>1. /\ woken' \in BOOLEAN /\ EcForgets
      /\ UNCHANGED scripts /\ served' = served /\ work' = work
      /\ up' = up /\ keyboard' = keyboard /\ choice' = choice /\ knob' = knob /\ disk' = disk
      /\ told' = told /\ moved' = moved /\ chose' = chose
  BY DEF Suspend, remembered, IInv, DaemonTypes, GkbdTypeOK
<1>2. Anew
  BY <1>1, Forgotten DEF Anew, IInv, GkbdTypeOK
<1>3. DaemonTypes'
  BY <1>1 DEF IInv, DaemonTypes
<1>4. CallDrives' /\ DaemonShows' /\ DrivenByDaemon'
  BY <1>1, Forgotten DEF CallDrives, DaemonShows, DrivenByDaemon
<1>5. AppliesRemembered' /\ Alive' /\ NothingUnchosen' /\ ClientsSeeTheSettings'
  BY <1>1 DEF IInv, DaemonInv, AppliesRemembered, Alive, NothingUnchosen,
              ClientsSeeTheSettings, Live
<1> QED BY <1>2, <1>3, <1>4, <1>5 DEF DaemonInv

(* The machine is switched off: every script, the daemon and the EC's memory end. *)
LEMMA GkbdOffStep ==
    ASSUME GkbdTypeOK, GkbdInv, GkbdOff, served' \in BOOLEAN
    PROVE  GkbdTypeOK' /\ GkbdInv'
<1>1. /\ light' \in States /\ driver' \in [Aspects -> Drivers]
      /\ \A a \in Aspects : driver'[a] = "nobody"
  BY Forgotten DEF GkbdOff
<1>2. /\ lock' = None /\ None \notin Users /\ overtaken' = {} /\ store' = store
      /\ \A u \in Users : at'[u] = "ended" /\ verb'[u] = "off"
  BY GkbdAssumption DEF GkbdOff
<1>3. /\ at' \in [Users -> Places] /\ verb' \in [Users -> Verbs] /\ goal' \in [Users -> States]
  <2>1. "ended" \in Places /\ "off" \in Verbs
    BY DEF Places, Verbs
  <2> QED BY <2>1, DefaultIsAState DEF GkbdOff
<1>4. GkbdTypeOK'
  BY <1>1, <1>2, <1>3 DEF GkbdTypeOK, Drivers
<1>5. OneHolds'
  BY <1>2 DEF OneHolds, Holds
<1>6. RunByHolder' /\ ColourIsFiled' /\ FileShows'
  BY <1>1 DEF RunByHolder, ColourIsFiled, FileShows, Aspects
<1>7. \A u \in Users : InScript(u)' /\ ApplyKnows(u)' /\ lock' # u
  BY <1>2 DEF InScript, ApplyKnows
<1> QED BY <1>4, <1>5, <1>6, <1>7 DEF GkbdInv

LEMMA PowerCycleStep ==
    ASSUME IInv, PowerCycle
    PROVE  IInv'
<1>1. /\ up' = FALSE /\ served' = FALSE /\ work' = None /\ woken' = FALSE
      /\ keyboard' = None /\ choice' = None /\ told' = Untold
      /\ disk' = disk /\ chose' = chose /\ moved' = FALSE /\ GkbdOff /\ EcForgets
  BY DEF PowerCycle, DaemonGone, GkbdOff
<1>2. knob' \in {"missing", "locked", "on", "off"}
  BY DEF PowerCycle, IInv, DaemonTypes
<1>3. GkbdTypeOK' /\ GkbdInv'
  BY <1>1, GkbdOffStep DEF IInv
<1>4. told' \in [keyboard : States \cup {None},
                 turbo : [available : BOOLEAN, enabled : BOOLEAN] \cup {None}]
  BY <1>1 DEF Untold
<1>5. DaemonTypes'
  BY <1>1, <1>2, <1>4 DEF IInv, DaemonTypes
<1>6. CallDrives' /\ DaemonShows' /\ DrivenByDaemon'
  BY <1>1, Forgotten DEF CallDrives, DaemonShows, DrivenByDaemon
<1>7. AppliesRemembered' /\ Alive' /\ ClientsSeeTheSettings'
  BY <1>1 DEF AppliesRemembered, Alive, ClientsSeeTheSettings
<1>8. NothingUnchosen'
  BY <1>1 DEF IInv, DaemonInv, NothingUnchosen
<1> QED BY <1>3, <1>5, <1>6, <1>7, <1>8 DEF IInv, DaemonInv

-----------------------------------------------------------------------------
(* The whole. *)

LEMMA AtFirst == Init => IInv
<1> SUFFICES ASSUME Init PROVE IInv
  OBVIOUS
<1>1. /\ light = Default /\ store = None /\ lock = None /\ overtaken = {}
      /\ at = [u \in Users |-> "ended"] /\ verb = [u \in Users |-> "off"]
      /\ goal = [u \in Users |-> Default] /\ driver = [a \in Aspects |-> "nobody"]
      /\ up = FALSE /\ served = FALSE /\ work = None /\ woken = FALSE
      /\ keyboard = None /\ choice = None /\ knob \in {"missing", "locked", "on", "off"}
      /\ disk = [keyboard |-> None, turbo |-> None] /\ told = Untold
      /\ moved = FALSE /\ chose = {}
  BY DEF Init, GkbdInit
<1>2. /\ at \in [Users -> Places] /\ verb \in [Users -> Verbs] /\ goal \in [Users -> States]
      /\ driver \in [Aspects -> {"nobody", "call", "daemon", "run", "file"}]
      /\ light \in States /\ served \in BOOLEAN
  <2>1. "ended" \in Places /\ "off" \in Verbs
    BY DEF Places, Verbs
  <2> QED BY <1>1, <2>1, DefaultIsAState
<1>3. GkbdTypeOK
  BY <1>1, <1>2 DEF GkbdTypeOK
<1>4. DaemonTypes
  <2>1. told \in [keyboard : States \cup {None},
                  turbo : [available : BOOLEAN, enabled : BOOLEAN] \cup {None}]
    BY <1>1 DEF Untold
  <2>2. disk \in [keyboard : States \cup {None}, turbo : BOOLEAN \cup {None}]
    BY <1>1
  <2> QED BY <1>1, <2>1, <2>2 DEF DaemonTypes
<1>5. GkbdInv
  <2>1. None \notin Users
    BY GkbdAssumption
  <2>2. \A a \in Aspects : driver[a] = "nobody"
    BY <1>1
  <2>3. OneHolds
    BY <1>1, <2>1 DEF OneHolds, Holds
  <2>4. RunByHolder /\ ColourIsFiled /\ FileShows
    BY <2>2 DEF RunByHolder, ColourIsFiled, FileShows, Aspects
  <2>5. \A u \in Users : InScript(u) /\ ApplyKnows(u) /\ lock # u
    BY <1>1, <2>1 DEF InScript, ApplyKnows
  <2> QED BY <2>3, <2>4, <2>5 DEF GkbdInv
<1>6. DaemonInv
  BY <1>1 DEF DaemonInv, CallDrives, AppliesRemembered, DaemonShows, DrivenByDaemon, Alive,
              NothingUnchosen, ClientsSeeTheSettings
<1> QED BY <1>3, <1>4, <1>5, <1>6 DEF IInv

LEMMA EveryStep == IInv /\ [Next]_vars => IInv'
<1> SUFFICES ASSUME IInv, [Next]_vars PROVE IInv'
  OBVIOUS
<1>1. CASE Anew /\ DaemonTypes' /\ DaemonInv'
  <2>1. GkbdTypeOK' /\ GkbdInv'
    BY <1>1, DaemonDrivesAnew DEF Anew, IInv
  <2> QED BY <1>1, <2>1 DEF IInv
<1>2. CASE Call
  <2>1. Anew /\ DaemonTypes' /\ DaemonInv'
    BY <1>2, KeyboardCallSteps, TurboSteps DEF Call
  <2> QED BY <1>1, <2>1
<1>3. CASE Handling
  <2>1. Anew /\ DaemonTypes' /\ DaemonInv'
    BY <1>3, EcCommandStep, RefusalStep, KeyboardSetStep, StartedStep, ResumeSteps DEF Handling
  <2> QED BY <1>1, <2>1
<1>4. CASE Tick \/ Start \/ Stop \/ Suspend \/ OnResume \/ OtherWriter
  <2>1. Anew /\ DaemonTypes' /\ DaemonInv'
    BY <1>4, TurboSteps, StartSteps, StopStep, SuspendStep, ResumeSteps
  <2> QED BY <1>1, <2>1
<1>5. CASE PowerCycle
  BY <1>5, PowerCycleStep
<1>6. CASE DirectTool
  <2>1. PICK u \in Users : Invocation(u)
    BY <1>6 DEF DirectTool
  <2>2. UNCHANGED daemonVars
    BY <1>6 DEF DirectTool
  <2>3. GkbdTypeOK' /\ GkbdInv'
    BY <2>1, InvocationStep DEF IInv
  <2>4. DaemonTypes' /\ DaemonInv'
    BY <2>1, <2>2, GkbdDrivesAnew, DaemonUntouched DEF IInv
  <2> QED BY <2>3, <2>4 DEF IInv
<1>7. CASE UNCHANGED vars
  <2>1. UNCHANGED <<scripts, light, driver>> /\ UNCHANGED daemonVars
    BY <1>7 DEF vars, gkbdVars, scripts
  <2>2. served' = served
    BY <2>1 DEF daemonVars
  <2>3. Anew
    BY <2>1, <2>2, NothingAnew DEF IInv, GkbdTypeOK
  <2>4. DaemonTypes' /\ DaemonInv'
    BY <2>1, DaemonUntouched
  <2> QED BY <1>1, <2>3, <2>4
<1> QED BY <1>2, <1>3, <1>4, <1>5, <1>6, <1>7 DEF Next

LEMMA Invariant == Spec => []IInv
<1>1. Init => IInv
  BY AtFirst
<1>2. IInv /\ [Next]_vars => IInv'
  BY EveryStep
<1> QED BY <1>1, <1>2, PTL DEF Spec

(* However many invocations of gkbd read, wait, drive, rewrite their file and die *)
(* beside each other and beside the daemon's calls, refusals, starts, stops and   *)
(* resumes: in every aspect that somebody has driven to an end, what he keeps of  *)
(* it, the daemon's memory or gkbd's file, is what the EC shows.                  *)
THEOREM BacklightIsAsRemembered ==
    Spec => []BacklightAsRemembered
<1>1. IInv => BacklightAsRemembered
  BY DEF IInv, GkbdInv, DaemonInv, DaemonShows, BacklightAsRemembered
<1> QED BY <1>1, Invariant, PTL

(* What clients read is what the daemon remembers and what the knob says, until *)
(* another writer moves it.                                                     *)
THEOREM ClientsSeeTheDaemonsSettings ==
    Spec => []ClientsSeeTheSettings
<1>1. IInv => ClientsSeeTheSettings
  BY DEF IInv, DaemonInv
<1> QED BY <1>1, Invariant, PTL

(* Without a client's choice nothing the daemon does, at a start, on a resume or *)
(* for a call about something else, moves the backlight or the turbo knob, after *)
(* any crashes, failed saves and refused calls.                                  *)
THEOREM OnlyChoicesEverApplied ==
    Spec => OnlyChoicesAreApplied
<1>1. ASSUME IInv, [Next]_vars
      PROVE  [/\ "keyboard" \notin chose /\ light' # light =>
                    DirectTool \/ Suspend \/ PowerCycle
              /\ "turbo" \notin chose' /\ knob' # knob => OtherWriter \/ PowerCycle]_vars
  <2>1. NothingUnchosen
    BY <1>1 DEF IInv, DaemonInv
  <2>2. ASSUME "keyboard" \notin chose, Next, ~DirectTool, ~Suspend, ~PowerCycle
        PROVE  light' = light
    <3>1. ~EcCommand
      BY <2>1, <2>2 DEF NothingUnchosen, EcCommand
    <3>2. CASE Call
      BY <3>2 DEF Call, SetKeyboardColor, SetKeyboardBrightness, SetKeyboardEnabled,
                  SetKeyboard, SetTurboBoost, OtherSave, gkbdVars
    <3>3. CASE Handling
      BY <3>1, <3>3 DEF Handling, EcRefuses, KeyboardSet, Started, Resumed, gkbdVars
    <3>4. CASE Tick \/ Start \/ Stop \/ OnResume \/ OtherWriter
      BY <3>4 DEF Tick, Start, Stop, OnResume, OtherWriter, gkbdVars
    <3> QED BY <2>2, <3>2, <3>3, <3>4 DEF Next
  <2>3. ASSUME "turbo" \notin chose', Next, ~OtherWriter, ~PowerCycle
        PROVE  knob' = knob
    <3>1. CASE Call
      BY <2>3, <3>1 DEF Call, SetKeyboardColor, SetKeyboardBrightness, SetKeyboardEnabled,
                        SetKeyboard, SetTurboBoost, OtherSave
    <3>2. CASE Started
      <4>1. chose' = chose /\ choice' = disk.turbo
        BY <3>2 DEF Started
      <4>2. choice' = None
        BY <2>1, <2>3, <4>1 DEF NothingUnchosen
      <4> QED BY <3>2, <4>2 DEF Started
    <3>3. CASE Handling /\ ~Started
      BY <3>3 DEF Handling, EcCommand, EcRefuses, KeyboardSet, Resumed
    <3>4. CASE Tick \/ Start \/ Stop \/ Suspend \/ OnResume
      BY <3>4 DEF Tick, Start, Stop, Suspend, OnResume
    <3>5. CASE DirectTool
      BY <3>5 DEF DirectTool, daemonVars
    <3> QED BY <2>3, <3>1, <3>2, <3>3, <3>4, <3>5 DEF Next
  <2> QED BY <1>1, <2>2, <2>3
<1> QED BY <1>1, Invariant, PTL DEF Spec, OnlyChoicesAreApplied
=============================================================================
