------------------------------ MODULE Settings ------------------------------
(***************************************************************************)
(* The part of the gigactld service that is not about fans: the keyboard   *)
(* backlight (daemon/gigactld/keyboard.py) and the turbo switch (turbo.py),*)
(* what the daemon remembers and saves of them (service.py, state.py) and  *)
(* what it re-applies at start and on resume; and beside it gkbd (module   *)
(* Gkbd), which drives the backlight by itself once it has found no daemon.*)
(*                                                                         *)
(* Both are written one way only: the EC's backlight registers cannot be   *)
(* read back, and the turbo knob has other writers.  The model keeps the   *)
(* real backlight and the real knob beside what the daemon believes.  Each *)
(* EC command of the daemon is a step, for which it needs the EC lock.     *)
(***************************************************************************)
EXTENDS Gkbd, Sequences

CONSTANT EcMayRefuse    \* may the EC refuse the daemon's commands?

(* The EC commands a handler has still to send, in this order. *)
Works == [for : {"call", "start", "resume"}, todo : Seq(Aspects), asked : States]

ASSUME ParameterAssumption ==
    /\ EcMayRefuse \in BOOLEAN
    /\ None \notin BOOLEAN \cup States /\ None \notin Works

VARIABLES
    up,         \* does the daemon's process exist?
    work,       \* the commands a handler has still to send, and what for; None
                \* when the main loop is idle
    woken,      \* is logind's signal of a resume on its way?
    keyboard,   \* Daemon.keyboard: the remembered state, or None
    knob,       \* no_turbo: "missing", "locked" (off, every write refused),
                \* or writable and "on" or "off"
    choice,     \* _turbo_choice: None or BOOLEAN
    disk,       \* this part of state.json: keyboard and turbo, None if absent
    told,       \* what clients were last told: keyboard and turbo
    moved,      \* history: has another writer moved the knob since the last tick?
    chose       \* history: what clients ever set, of "keyboard" and "turbo"

remembered == <<keyboard, choice>>
daemonVars == <<up, served, work, woken, keyboard, knob, choice, disk, told, moved, chose>>
scripts == <<store, lock, at, verb, goal, overtaken>>
vars == <<gkbdVars, daemonVars>>

Untold == [keyboard |-> None, turbo |-> None]

Init ==
    /\ GkbdInit
    /\ up = FALSE /\ served = FALSE /\ work = None /\ woken = FALSE
    /\ keyboard = None /\ choice = None
    /\ knob \in {"missing", "locked", "on", "off"}
    /\ disk = [keyboard |-> None, turbo |-> None]
    /\ told = Untold
    /\ moved = FALSE /\ chose = {}

-----------------------------------------------------------------------------
(* keyboard.py *)

(* A method sends the commands for these aspects, in this order, each one its  *)
(* own transaction; the first one refused ends it.                             *)
SET_ENABLED == <<"on">>
SET_COLOR == <<"on", "colour">>
SET_BRIGHTNESS == <<"on", "percent">>

(* KeyboardState.apply: colour and brightness only if the backlight is on, and *)
(* each method enables it first.                                               *)
ToApply(k) ==
    IF k.on THEN <<"on", "colour", "on", "percent">> ELSE <<"on">>

(* _remember_keyboard: created on first use, with the firmware's defaults. *)
Remembered == IF keyboard = None THEN Default ELSE keyboard

(* What a handler sends, one command after the other.  Somebody else may have  *)
(* the lock in between.  `for` tells a client's call from _apply_keyboard.     *)
Begin(for, todo, k) == work' = [for |-> for, todo |-> todo, asked |-> k]

Apply(for, k) == Begin(for, IF k = None THEN <<>> ELSE ToApply(k), IF k = None THEN Default ELSE k)

EcCommand ==
    /\ work # None /\ work.todo # <<>> /\ lock = None
    /\ LET a == Head(work.todo)
       IN  /\ light' = [light EXCEPT ![a] = work.asked[a]]
           /\ driver' = [driver EXCEPT ![a] = IF work.for = "call" THEN "call" ELSE "daemon"]
    /\ work' = [work EXCEPT !.todo = Tail(@)]
    /\ UNCHANGED <<scripts, up, served, woken, remembered, knob, disk, told, moved, chose>>

(* The EC refuses: a call ends with an error and nothing of it is remembered,  *)
(* _apply_keyboard gives up quietly.                                           *)
EcRefuses ==
    /\ EcMayRefuse
    /\ work # None /\ work.todo # <<>> /\ lock = None
    /\ IF work.for = "call"
       THEN work' = None /\ driver' = Reassigned("call", "nobody")
       ELSE work' = [work EXCEPT !.todo = <<>>] /\ UNCHANGED driver
    /\ UNCHANGED <<scripts, light, up, served, woken, remembered, knob, disk, told, moved, chose>>

-----------------------------------------------------------------------------
(* service.py *)

(* turbo.state(), and the knob after turbo.set_enabled. *)
Live == [available |-> knob # "missing", enabled |-> knob = "on"]
Writable == knob \in {"on", "off"}
Set(on) == IF on THEN "on" ELSE "off"

(* The main loop takes up something else only when it is idle. *)
Idle == served /\ work = None

(* _persist: the new file replaces the old one, or the old one stays. *)
Persist == disk' \in {disk, [keyboard |-> keyboard', turbo |-> choice']}

(* SetKeyboardColor, SetKeyboardBrightness, SetKeyboardEnabled with valid,     *)
(* allowed arguments.  k is what is remembered if all goes well.               *)
SetKeyboard(todo, k) ==
    /\ Idle
    /\ Begin("call", todo, k)
    /\ chose' = chose \cup {"keyboard"}
    /\ UNCHANGED <<gkbdVars, up, served, woken, remembered, knob, disk, told, moved>>

(* KeyboardState.record_colour, record_brightness, record_enabled *)
SetKeyboardColor ==
    \E c \in Colours : SetKeyboard(SET_COLOR, [Remembered EXCEPT !.on = TRUE, !.colour = c])
SetKeyboardBrightness ==
    \E p \in Percents : SetKeyboard(SET_BRIGHTNESS, [Remembered EXCEPT !.on = TRUE, !.percent = p])
SetKeyboardEnabled ==
    \E on \in BOOLEAN : SetKeyboard(SET_ENABLED, [Remembered EXCEPT !.on = on])

(* Remembered, saved and announced only once all commands have landed. *)
KeyboardSet ==
    /\ work # None /\ work.for = "call" /\ work.todo = <<>>
    /\ work' = None
    /\ keyboard' = work.asked /\ UNCHANGED choice
    /\ Persist
    /\ told' = [told EXCEPT !.keyboard = keyboard']
    /\ driver' = Reassigned("call", "daemon")
    /\ UNCHANGED <<scripts, light, up, served, woken, knob, moved, chose>>

(* Mutant: the tick's announcement is relied on after a change of our own. *)
SyncTurboLater == UNCHANGED <<told, moved>>

(* _sync_turbo: clients are told the live state. *)
SyncTurbo == told' = [told EXCEPT !.turbo = Live'] /\ moved' = FALSE

(* _set_turbo_boost: a knob that cannot be written is the client's error. *)
SetTurboBoost ==
    /\ Idle
    /\ chose' = chose \cup {"turbo"}
    /\ IF Writable
       THEN /\ \E on \in BOOLEAN : knob' = Set(on) /\ choice' = on
            /\ UNCHANGED keyboard
            /\ Persist
            /\ SyncTurbo
       ELSE UNCHANGED <<knob, choice, keyboard, disk, told, moved>>
    /\ UNCHANGED <<gkbdVars, up, served, work, woken>>

(* _set_profile and every other call that saves: the settings ride along. *)
OtherSave ==
    /\ Idle
    /\ UNCHANGED <<gkbdVars, up, served, work, woken, remembered, knob, told, moved, chose>>
    /\ Persist

(* _tick, as far as it concerns this state: the knob is read, never written. *)
Tick ==
    /\ Idle
    /\ UNCHANGED <<gkbdVars, up, served, work, woken, remembered, knob, disk, chose>>
    /\ SyncTurbo

(* Mutant: a fresh install is given the defaults. *)
SavedKeyboardOrDefault == IF disk.keyboard = None THEN Default ELSE disk.keyboard

SavedKeyboard == disk.keyboard

(* _restore_saved_state, before the name is owned: the keyboard state and then *)
(* the turbo choice are re-applied if they were saved, as far as EC and knob   *)
(* allow; the first tick and the name follow.                                  *)
Start ==
    /\ ~up /\ up' = TRUE
    /\ keyboard' = SavedKeyboard
    /\ Apply("start", SavedKeyboard)
    /\ UNCHANGED <<gkbdVars, served, woken, knob, choice, disk, told, moved, chose>>
Started ==
    /\ work # None /\ work.for = "start" /\ work.todo = <<>>
    /\ work' = None /\ served' = TRUE
    /\ choice' = disk.turbo
    /\ knob' = IF choice' = None \/ ~Writable THEN knob ELSE Set(choice')
    /\ told' = [keyboard |-> keyboard, turbo |-> Live']
    /\ moved' = FALSE
    /\ UNCHANGED <<gkbdVars, up, woken, keyboard, disk, chose>>

DaemonGone ==
    /\ up' = FALSE /\ served' = FALSE /\ work' = None /\ woken' = FALSE
    /\ keyboard' = None /\ choice' = None
    /\ told' = Untold

(* The process ends, by any way: SIGTERM does nothing about these. *)
Stop ==
    /\ up
    /\ DaemonGone
    /\ driver' = [a \in Aspects |-> IF driver[a] \in {"call", "daemon"} THEN "nobody" ELSE driver[a]]
    /\ UNCHANGED <<scripts, light, knob, disk, moved, chose>>

(* Suspend and resume, at any moment: the EC has dropped the backlight. *)
Suspend ==
    /\ EcForgets
    /\ woken' \in {served, up}
    /\ UNCHANGED <<scripts, up, served, work, remembered, knob, disk, told, moved, chose>>

(* _on_prepare_for_sleep, and the end of what it sends. *)
OnResume ==
    /\ Idle /\ woken
    /\ woken' = FALSE
    /\ Apply("resume", keyboard)
    /\ UNCHANGED <<gkbdVars, up, served, remembered, knob, disk, told, moved, chose>>
Resumed ==
    /\ work # None /\ work.for = "resume" /\ work.todo = <<>>
    /\ work' = None
    /\ UNCHANGED <<gkbdVars, up, served, woken, remembered, knob, disk, told, moved, chose>>

(* A power-cycle: the firmware's backlight, turbo as the kernel starts it. *)
PowerCycle ==
    /\ DaemonGone /\ GkbdOff
    /\ knob' = IF Writable THEN "on" ELSE knob
    /\ moved' = FALSE
    /\ UNCHANGED <<disk, chose>>

(* power-profiles-daemon, tuned, TLP. *)
OtherWriter ==
    /\ Writable
    /\ knob' \in {"on", "off"} \ {knob}
    /\ moved' = TRUE
    /\ UNCHANGED <<gkbdVars, up, served, work, woken, remembered, disk, told, chose>>

Call == SetKeyboardColor \/ SetKeyboardBrightness \/ SetKeyboardEnabled \/ SetTurboBoost \/ OtherSave
Handling == EcCommand \/ EcRefuses \/ KeyboardSet \/ Started \/ Resumed
DirectTool == (\E u \in Users : Invocation(u)) /\ UNCHANGED daemonVars
Next ==
    \/ Call \/ Handling \/ Tick \/ Start \/ Stop \/ Suspend \/ OnResume \/ PowerCycle
    \/ OtherWriter \/ DirectTool

Spec == Init /\ [][Next]_vars
-----------------------------------------------------------------------------
TypeOK ==
    /\ GkbdTypeOK
    /\ {up, woken, moved} \subseteq BOOLEAN
    /\ work \in Works \cup {None}
    /\ keyboard \in States \cup {None}
    /\ knob \in {"missing", "locked", "on", "off"}
    /\ choice \in BOOLEAN \cup {None}
    /\ disk \in [keyboard : States \cup {None}, turbo : BOOLEAN \cup {None}]
    /\ told \in [keyboard : States \cup {None},
                 turbo : [available : BOOLEAN, enabled : BOOLEAN] \cup {None}]
    /\ chose \subseteq {"keyboard", "turbo"}

(* The registers cannot be read back, so the daemon's memory is all there is:   *)
(* in every aspect last driven by a call that came to its end, or for a start   *)
(* or resume, the EC shows what the daemon remembers, whatever refusals, gkbd   *)
(* and suspends came between.  Where gkbd drove it last, its file says so.      *)
BacklightAsRemembered ==
    /\ keyboard # None => \A a \in Aspects : driver[a] = "daemon" => light[a] = keyboard[a]
    /\ FileShows

(* "A fresh install doesn't force the firmware default onto the backlight",     *)
(* "re-apply only a choice made through the daemon": without such a choice the  *)
(* daemon changes neither the backlight nor the knob.                           *)
OnlyChoicesAreApplied ==
    [][/\ "keyboard" \notin chose /\ light' # light =>
            DirectTool \/ Suspend \/ PowerCycle
       /\ "turbo" \notin chose' /\ knob' # knob => OtherWriter \/ PowerCycle]_vars

(* Clients "read a cached copy": it is what the daemon remembers of the         *)
(* keyboard, and the live turbo state unless another writer has moved the knob  *)
(* since the last tick.                                                         *)
ClientsSeeTheSettings ==
    served => told.keyboard = keyboard /\ (moved \/ told.turbo = Live)

-----------------------------------------------------------------------------
(* What a document says and the code does not keep. *)

(* README: "Your color is saved and re-applied automatically at boot and after  *)
(* suspend."                                                                    *)
ColourComesBack ==
    [][KeyboardSet /\ ~woken /\ keyboard # None /\ keyboard.colour # BLUE
           /\ ~keyboard.on /\ work.asked = [keyboard EXCEPT !.on = TRUE]
       => light.colour = keyboard.colour]_vars
=============================================================================
