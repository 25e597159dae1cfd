--------------------------------- MODULE Gkbd ---------------------------------
(***************************************************************************)
(* The backlight command gkbd (src/gkbd, src/gigactl-cli-lib.sh) when it   *)
(* has found no daemon: several invocations at once, each a shell script   *)
(* under `set -e` that drives the EC itself and keeps a state file.        *)
(*                                                                         *)
(* Every read of the file, every EC command and each half of the rewriting *)
(* of the file is a step of its own.  What the daemon does meanwhile is    *)
(* module Settings, which extends this one.                                *)
(***************************************************************************)
CONSTANTS
    Users,          \* invocations that may run at the same time
    Colours,        \* colours that are asked for, the firmware's among them
    Percents,       \* brightnesses, the firmware's among them
    BLUE, FULL,     \* the defaults of the firmware and of gkbd
    Cut,            \* a state file that was emptied and not written
    None

Aspects == {"on", "colour", "percent"}
States == [on : BOOLEAN, colour : Colours, percent : Percents]
Default == [on |-> TRUE, colour |-> BLUE, percent |-> FULL]
Kept == [colour : Colours, percent : Percents]

ASSUME GkbdAssumption ==
    /\ BLUE \in Colours /\ FULL \in Percents
    /\ None \notin Users
    /\ {None, Cut} \cap Kept = {} /\ None # Cut

VARIABLES
    served,     \* does the daemon own its bus name?
    light,      \* the backlight the EC shows: on, colour, percent
    store,      \* gkbd's state file: colour and percent, or None, or Cut
    lock,       \* the EC lock's holder among the invocations
    at,         \* where each invocation is; "ended" when none runs
    verb,       \* what it does
    goal,       \* the backlight it is to show, as far as it knows yet
    overtaken,  \* history: the invocations since whose reading of the file
                \* another one has begun to rewrite it
    driver      \* history: who drove each aspect of the backlight last: "run"
                \* and "call", an invocation and a call of the daemon that have
                \* not come to their end; "file" and "daemon", one that has;
                \* "nobody", the EC itself, or somebody who did not

gkbdVars == <<light, store, lock, at, verb, goal, overtaken, driver>>

-----------------------------------------------------------------------------
(* The direct_ functions: which step follows which.  "on" is master_enable or  *)
(* master_disable, "percent" set_bright and "colour" set_color; "cut" and      *)
(* "write" are the redirection of save_state and the echo into it.             *)

direct_set_color ==
    [ended |-> "read", read |-> "lock", lock |-> "on", on |-> "percent",
     percent |-> "colour", colour |-> "cut", cut |-> "write", write |-> "ended"]

(* Mutant: the file is read before the lock, as direct_apply does. *)
direct_set_brightness_reading_first ==
    [ended |-> "read", read |-> "lock", lock |-> "on", on |-> "percent",
     percent |-> "cut", cut |-> "write", write |-> "ended"]

direct_set_brightness ==
    [ended |-> "lock", lock |-> "on", on |-> "percent", percent |-> "read",
     read |-> "cut", cut |-> "write", write |-> "ended"]

direct_set_enabled_true ==
    [ended |-> "lock", lock |-> "on", on |-> "read", read |-> "percent",
     percent |-> "colour", colour |-> "ended"]

direct_set_enabled_false == [ended |-> "lock", lock |-> "on", on |-> "ended"]

direct_apply ==
    [ended |-> "read", read |-> "lock", lock |-> "on", on |-> "percent",
     percent |-> "colour", colour |-> "ended"]

Script ==
    [color |-> direct_set_color, brightness |-> direct_set_brightness,
     on |-> direct_set_enabled_true, off |-> direct_set_enabled_false,
     apply |-> direct_apply]

Verbs == {"color", "brightness", "on", "off", "apply"}

(* What each is asked for; what it is not asked for is the default until the   *)
(* file has been read.                                                         *)
Asked(v) ==
    IF v = "color" THEN {[Default EXCEPT !.colour = c] : c \in Colours}
    ELSE IF v = "brightness" THEN {[Default EXCEPT !.percent = p] : p \in Percents}
    ELSE {[Default EXCEPT !.on = v # "off"]}

(* What the file adds to it. *)
Completed(v, g) ==
    IF store \notin Kept THEN g
    ELSE [on |-> g.on,
          colour |-> IF v = "color" THEN g.colour ELSE store.colour,
          percent |-> IF v = "brightness" THEN g.percent ELSE store.percent]

(* direct_apply has nothing to apply without a file; `read` of an empty file   *)
(* fails, where awk finds nothing in it.                                       *)
Unreadable(v) == (store = Cut /\ v # "color") \/ (store = None /\ v = "apply")

-----------------------------------------------------------------------------
(* Whatever of the backlight was driven on somebody's account is now on another's. *)
Reassigned(from, to) == [a \in Aspects |-> IF driver[a] = from THEN to ELSE driver[a]]

GoTo(u, there) == at' = [at EXCEPT ![u] = there]

(* die, a command that failed under set -e, or the end of the script.  The     *)
(* kernel lets go of the lock.                                                 *)
Leaves(u) ==
    /\ GoTo(u, "ended")
    /\ lock' = IF lock = u THEN None ELSE lock
    /\ goal' = [goal EXCEPT ![u] = Default] /\ verb' = [verb EXCEPT ![u] = "off"]
    /\ overtaken' = overtaken \ {u}

(* detect_mode found no daemon and the arguments are good; sudo re-running the *)
(* script is the same once more.  With a daemon gkbd is one of its clients.    *)
Run(u) ==
    /\ at[u] = "ended" /\ ~served
    /\ \E v \in Verbs : \E g \in Asked(v) :
        /\ verb' = [verb EXCEPT ![u] = v] /\ goal' = [goal EXCEPT ![u] = g]
        /\ GoTo(u, Script[v].ended)
    /\ UNCHANGED <<served, light, store, lock, overtaken, driver>>

(* saved_brightness, and `read -r ... < "$STATE"` wherever it stands *)
ReadFile(u) ==
    /\ at[u] = "read" /\ ~Unreadable(verb[u])
    /\ goal' = [goal EXCEPT ![u] = Completed(verb[u], @)]
    /\ GoTo(u, Script[verb[u]].read)
    /\ overtaken' = overtaken \ {u}
    /\ UNCHANGED <<served, light, store, lock, verb, driver>>

(* lock_ec *)
LockEc(u) ==
    /\ at[u] = "lock" /\ lock = None
    /\ lock' = u
    /\ GoTo(u, Script[verb[u]].lock)
    /\ UNCHANGED <<served, light, store, verb, goal, overtaken, driver>>

(* The script has come to its end.  A direct_apply whose reading was overtaken  *)
(* has shown what is no longer, or not for long, in the file.                   *)
Done(u, driven) ==
    /\ Leaves(u)
    /\ driver' = [a \in Aspects |->
                    IF driven[a] # "run" THEN driven[a]
                    ELSE IF verb[u] = "apply" /\ u \in overtaken THEN "nobody" ELSE "file"]

(* `on` without a file leaves the colour alone. *)
After(u, step) ==
    IF verb[u] = "on" /\ step = "percent" /\ store = None THEN "ended" ELSE Script[verb[u]][step]

(* One EC command. *)
Command(u) ==
    \E a \in Aspects :
        LET driven == [driver EXCEPT ![a] = "run"]
        IN  /\ at[u] = a
            /\ light' = [light EXCEPT ![a] = goal[u][a]]
            /\ \/ /\ After(u, a) = "ended"
                  /\ Done(u, driven)
               \/ /\ After(u, a) # "ended"
                  /\ GoTo(u, After(u, a)) /\ driver' = driven
                  /\ UNCHANGED <<lock, verb, goal, overtaken>>
            /\ UNCHANGED <<served, store>>

(* save_state *)
CutFile(u) ==
    /\ at[u] = "cut"
    /\ store' = Cut
    /\ overtaken' = {w \in Users : verb[w] = "apply" /\ at[w] = "lock"}
    /\ GoTo(u, "write")
    /\ UNCHANGED <<served, light, lock, verb, goal, driver>>
WriteFile(u) ==
    /\ at[u] = "write"
    /\ store' = [colour |-> goal[u].colour, percent |-> goal[u].percent]
    /\ Done(u, driver)
    /\ UNCHANGED <<served, light>>

(* Ctrl-C, an EC access or a save that fails, or LOCK_WAIT is over: the script *)
(* ends where it is.                                                           *)
Dies(u) ==
    /\ at[u] # "ended"
    /\ Leaves(u)
    /\ driver' = IF lock = u THEN Reassigned("run", "nobody") ELSE driver
    /\ UNCHANGED <<served, light, store>>

Invocation(u) ==
    \/ Run(u) \/ ReadFile(u) \/ LockEc(u) \/ Command(u)
    \/ CutFile(u) \/ WriteFile(u) \/ Dies(u)

GkbdInit ==
    /\ light = Default
    /\ store = None /\ lock = None
    /\ at = [u \in Users |-> "ended"]
    /\ verb = [u \in Users |-> "off"] /\ goal = [u \in Users |-> Default]
    /\ overtaken = {}
    /\ driver = [a \in Aspects |-> "nobody"]

(* The machine is switched off, and the EC forgets the backlight. *)
EcForgets == light' = Default /\ driver' = [a \in Aspects |-> "nobody"]
GkbdOff ==
    /\ EcForgets
    /\ lock' = None /\ overtaken' = {}
    /\ at' = [u \in Users |-> "ended"]
    /\ verb' = [u \in Users |-> "off"] /\ goal' = [u \in Users |-> Default]
    /\ UNCHANGED store

-----------------------------------------------------------------------------
Places == {"ended", "read", "lock", "on", "percent", "colour", "cut", "write"}

GkbdTypeOK ==
    /\ served \in BOOLEAN
    /\ light \in States
    /\ store \in Kept \cup {None, Cut}
    /\ lock \in Users \cup {None}
    /\ at \in [Users -> Places]
    /\ verb \in [Users -> Verbs]
    /\ goal \in [Users -> States]
    /\ overtaken \subseteq Users
    /\ driver \in [Aspects -> {"nobody", "call", "daemon", "run", "file"}]

(* The registers cannot be read back, so the file is all that says what gkbd    *)
(* has done: in every aspect last driven by an invocation that came to its end, *)
(* the backlight is as the file says, whatever others ran, overlapped or died   *)
(* meanwhile.  Not of a direct_apply whose reading was overtaken.               *)
FileShows ==
    store \in Kept => \A a \in {"colour", "percent"} : driver[a] = "file" => light[a] = store[a]

-----------------------------------------------------------------------------
(* What a comment says and the code does not keep. *)

(* gkbd holds "the daemon's EC lock so concurrent invocations serialise": what  *)
(* the last of several to end has shown is what the file says.                  *)
InvocationsSerialise ==
    [][\A u \in Users : Command(u) /\ at'[u] = "ended" /\ store \in Kept =>
            \A a \in {"colour", "percent"} :
                driver[a] = "run" \/ at[u] = a => light'[a] = store[a]]_gkbdVars
=============================================================================
