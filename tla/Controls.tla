------------------------------ MODULE Controls ------------------------------
(***************************************************************************)
(* The keyboard row and the turbo switch of the window                     *)
(* (gui/gigactl_gui/window.py) and the keyboard item of the tray's menu    *)
(* (app.py, tray.py, tray_menu.py): two D-Bus clients of one process, on   *)
(* one main loop, with a cache each, and the copy of the menu that the     *)
(* session's tray host draws.  The daemon is what it publishes of these    *)
(* settings; module Settings has the rest of it.                           *)
(*                                                                         *)
(* Both clients share the process's connection, so a signal is scheduled   *)
(* for both at once, the tray's first; user events may come in between.    *)
(* The preview, which only repaints the widgets, is left out, and so are   *)
(* the menu's profile items, which are refreshed as its keyboard item is.  *)
(***************************************************************************)
EXTENDS Naturals, Sequences

CONSTANTS
    Colours,    \* colours of the swatches and the colour button
    Percents,   \* positions of the slider
    BLUE, FULL, \* the daemon's defaults
    None,       \* Python's None
    MaxInFlight,\* bound: messages on the bus
    MaxCalls    \* bound: the calls among them

\* None is neither a position of the slider nor what the daemon publishes.
ASSUME ParameterAssumption ==
    /\ MaxInFlight \in Nat \ {0} /\ MaxCalls \in 1 .. MaxInFlight
    /\ BLUE \in Colours /\ FULL \in Percents
    /\ None \notin Percents
    /\ None \notin [keyboard : [on : BOOLEAN, colour : Colours, percent : Percents], turbo : BOOLEAN]

VARIABLES
    widget,     \* what the switches, the swatches and the slider show
    pending,    \* _pending_brightness while the debounce timer is armed, else None
    cache,      \* the window's proxy: the properties, None when it has none
    here,       \* does the window's client see the daemon's name?
    resync,     \* is _resync waiting for the loop to be idle?
    tray,       \* the tray's client: does it see the daemon, is the backlight on?
    items,      \* TrayIcon._items: the keyboard item's mark, and are controls enabled?
    menu,       \* the tray host's copy of the menu, None while there is no host
    stale,      \* has the host still to follow a LayoutUpdated?
    toDaemon,   \* calls on their way
    toClient,   \* signals and error replies on their way
    half,       \* has the tray's client taken the first of them?
    up,         \* is the daemon running?
    keyboard,   \* the daemon's KeyboardState: on, colour, percent
    turbo,      \* the daemon's TurboBoost, as it last announced it
    owed,       \* history: the user's last choice, None once it was refused or
                \* overtaken: by somebody else, a restart, a close, a slider still
                \* to be sent, or a menu that showed something else
    doubt       \* history: since the daemon last announced anything, a close has
                \* dropped a slider position or a resync, or another writer has
                \* undone a turbo choice before the daemon looked

gui == <<widget, pending, cache, here, resync>>
icon == <<tray, items, menu, stale>>
bus == <<toDaemon, toClient, half>>
daemon == <<up, keyboard, turbo>>
vars == <<widget, pending, cache, here, resync, tray, items, menu, stale,
          toDaemon, toClient, half, up, keyboard, turbo, owed, doubt>>

Default == [on |-> TRUE, colour |-> BLUE, percent |-> FULL]

(* tray_menu.build: its keyboard item. *)
Build(t) == [on |-> t.on, enabled |-> t.here]

Init ==
    /\ widget = [on |-> FALSE, colour |-> None, percent |-> None, turbo |-> FALSE]
    /\ pending = None /\ cache = None /\ here = FALSE /\ resync = FALSE
    /\ tray = [here |-> FALSE, on |-> None]
    /\ items = Build(tray) /\ menu = None /\ stale = FALSE
    /\ toDaemon = <<>> /\ toClient = <<>> /\ half = FALSE
    /\ up = FALSE /\ keyboard = Default /\ turbo = TRUE
    /\ owed = None /\ doubt = FALSE

-----------------------------------------------------------------------------
(* The daemon, as a client sees it. *)

(* KeyboardState.record_colour, record_brightness, record_enabled: a colour and *)
(* a brightness also turn the backlight on.                                     *)
Obeying(k, call) ==
    CASE call.kind = "colour" -> [k EXCEPT !.on = TRUE, !.colour = call.value]
      [] call.kind = "percent" -> [k EXCEPT !.on = TRUE, !.percent = call.value]
      [] call.kind = "on" -> [k EXCEPT !.on = call.value]

Properties == [keyboard |-> keyboard, turbo |-> turbo]

-----------------------------------------------------------------------------
(* The window. *)

Room == Len(toDaemon) + Len(toClient) < MaxInFlight
RoomToCall == Room /\ Len(toDaemon) < MaxCalls

(* DaemonClient._call: without a daemon in sight the client reports an error *)
(* by itself; a daemon that has just left is the bus's error.                *)
Sent(call) ==
    /\ UNCHANGED half
    /\ IF up THEN toDaemon' = Append(toDaemon, call) /\ UNCHANGED toClient
       ELSE toClient' = Append(toClient, [kind |-> "error", to |-> call.from]) /\ UNCHANGED toDaemon

Send(call) ==
    IF here THEN Sent(call) /\ UNCHANGED resync
    ELSE resync' = TRUE /\ UNCHANGED bus

Asking(kind, value) == [from |-> "window", kind |-> kind, value |-> value]

(* What the last choice was, unless the slider's timer will turn a backlight *)
(* on again that it turned off.                                              *)
Chosen(kind, value) ==
    IF ~up \/ (kind = "on" /\ ~value /\ pending # None) THEN None
    ELSE [kind |-> kind, value |-> value]

(* Mutant: the slider follows the daemon in the middle of a drag. *)
KeyboardShownAlways(k) == [widget EXCEPT !.on = k.on, !.colour = k.colour, !.percent = k.percent]

(* The slider is not pulled from under a drag that has not been sent. *)
KeyboardShown(k) ==
    [widget EXCEPT !.on = k.on, !.colour = k.colour,
                   !.percent = IF pending = None THEN k.percent ELSE @]

(* _sync_from_daemon and _update_turbo; without a keyboard state the row stays *)
(* as it is, without a turbo state the switch goes off.                        *)
SyncFromDaemon ==
    widget' = IF cache' = None THEN [widget EXCEPT !.turbo = FALSE]
              ELSE [KeyboardShown(cache'.keyboard) EXCEPT !.turbo = cache'.turbo]

(* The controls are sensitive only while the daemon is seen. *)

(* _on_switch_toggled *)
OnSwitchToggled ==
    /\ here /\ RoomToCall
    /\ widget' = [widget EXCEPT !.on = ~@]
    /\ Send(Asking("on", widget'.on))
    /\ owed' = Chosen("on", widget'.on)
    /\ UNCHANGED <<pending, cache, here, icon, daemon, doubt>>

(* _on_turbo_toggled *)
OnTurboToggled ==
    /\ here /\ RoomToCall
    /\ widget' = [widget EXCEPT !.turbo = ~@]
    /\ Send(Asking("turbo", widget'.turbo))
    /\ owed' = Chosen("turbo", widget'.turbo)
    /\ UNCHANGED <<pending, cache, here, icon, daemon, doubt>>

(* _apply_colour, from a swatch or the colour button *)
ApplyColour ==
    /\ here /\ RoomToCall
    /\ \E c \in Colours :
        /\ Send(Asking("colour", c))
        /\ widget' = [widget EXCEPT !.on = TRUE, !.colour = c]
        /\ owed' = Chosen("colour", c)
    /\ UNCHANGED <<pending, cache, here, icon, daemon, doubt>>

(* Mutant: a timer that is armed keeps the position it was armed with. *)
OnBrightnessChangedOnce ==
    /\ here
    /\ \E p \in Percents \ {widget.percent} :
        /\ widget' = [widget EXCEPT !.percent = p]
        /\ pending' = IF pending = None THEN p ELSE pending
        /\ owed' = [kind |-> "percent", value |-> p]
    /\ UNCHANGED <<cache, here, resync, icon, bus, daemon, doubt>>

(* _on_brightness_changed: captured now, the timer starts again. *)
OnBrightnessChanged ==
    /\ here
    /\ \E p \in Percents \ {widget.percent} :
        /\ widget' = [widget EXCEPT !.percent = p]
        /\ pending' = p
        /\ owed' = [kind |-> "percent", value |-> p]
    /\ UNCHANGED <<cache, here, resync, icon, bus, daemon, doubt>>

(* _send_brightness *)
SendBrightness ==
    /\ pending # None /\ RoomToCall
    /\ pending' = None
    /\ Send(Asking("percent", pending))
    /\ owed' = IF here /\ up THEN owed ELSE None
    /\ UNCHANGED <<widget, cache, here, icon, daemon, doubt>>

(* _on_close: both timers are dropped.  The window is shown again as it is. *)
OnClose ==
    /\ pending # None \/ resync
    /\ pending' = None /\ resync' = FALSE
    /\ owed' = None /\ doubt' = TRUE
    /\ UNCHANGED <<widget, cache, here, icon, bus, daemon>>

(* _resync *)
Resync ==
    /\ resync
    /\ resync' = FALSE
    /\ UNCHANGED cache
    /\ SyncFromDaemon
    /\ UNCHANGED <<pending, here, icon, bus, daemon, owed, doubt>>

-----------------------------------------------------------------------------
(* The tray and its host. *)

(* Mutant: the menu is built before the client has taken the change. *)
RefreshTrayEarly ==
    /\ items' = Build(tray)
    /\ stale' = (menu # None)

(* _refresh_tray and TrayIcon.update: rebuilt, and the host is told to read it. *)
RefreshTray ==
    /\ items' = Build(tray')
    /\ stale' = (menu # None)

(* The host appears and is given the menu, or reads it again, or goes.  On its *)
(* registration _on_tray_available refreshes the menu.                         *)
HostComes ==
    /\ menu = None
    /\ UNCHANGED tray
    /\ RefreshTray
    /\ menu' = items'
    /\ UNCHANGED <<gui, bus, daemon, owed, doubt>>

HostReads ==
    /\ stale
    /\ menu' = items /\ stale' = FALSE
    /\ UNCHANGED <<gui, tray, items, bus, daemon, owed, doubt>>

HostGoes ==
    /\ menu # None
    /\ menu' = None /\ stale' = FALSE
    /\ UNCHANGED <<gui, tray, items, bus, daemon, owed, doubt>>

(* _on_tray_action(ACTION_KEYBOARD), for a click on what the host shows: the *)
(* cached state is inverted, whatever the host's copy says.                  *)
OnTrayToggle ==
    /\ menu # None /\ menu.enabled /\ RoomToCall
    /\ LET wanted == ~tray.on
       IN  IF tray.here
           THEN /\ Sent([from |-> "tray", kind |-> "on", value |-> wanted])
                /\ owed' = IF menu.on = tray.on THEN Chosen("on", wanted) ELSE None
                /\ UNCHANGED resync
           ELSE (* _notify_error: in the window if it is on screen *)
                /\ resync' \in {TRUE, resync}
                /\ owed' = None
                /\ UNCHANGED bus
    /\ UNCHANGED <<widget, pending, cache, here, icon, daemon, doubt>>

-----------------------------------------------------------------------------
(* The main loop takes a message: a signal is the tray's client's first and *)
(* then the window's, an error its caller's.                                *)

Seen(before, m) ==
    CASE m.kind = "here" -> m.state
      [] m.kind = "gone" -> None
      [] m.kind = "keyboard" -> IF before = None THEN None ELSE [before EXCEPT !.keyboard = m.state]
      [] m.kind = "turbo" -> IF before = None THEN None ELSE [before EXCEPT !.turbo = m.state]

IsSignal(m) == m.kind # "error"

TrayReceives ==
    /\ toClient # <<>> /\ ~half
    /\ LET m == Head(toClient)
       IN  /\ IsSignal(m)
           /\ tray' = CASE m.kind = "here" -> [here |-> TRUE, on |-> m.state.keyboard.on]
                        [] m.kind = "gone" -> [here |-> FALSE, on |-> None]
                        [] m.kind = "keyboard" -> [tray EXCEPT !.on = IF tray.here THEN m.state.on ELSE @]
                        [] m.kind = "turbo" -> tray
    /\ RefreshTray
    /\ half' = TRUE
    /\ UNCHANGED <<gui, menu, toDaemon, toClient, daemon, owed, doubt>>

WindowReceives ==
    /\ half
    /\ LET m == Head(toClient)
       IN  /\ cache' = Seen(cache, m)
           /\ here' = (cache' # None)
    /\ SyncFromDaemon
    /\ half' = FALSE /\ toClient' = Tail(toClient)
    /\ UNCHANGED <<pending, resync, icon, toDaemon, daemon, owed, doubt>>

(* _on_call_done: show_error, or _notify_error for the tray's own call. *)
CallFails ==
    /\ toClient # <<>>
    /\ LET m == Head(toClient)
       IN  /\ ~IsSignal(m)
           /\ resync' \in IF m.to = "window" THEN {TRUE} ELSE {TRUE, resync}
    /\ toClient' = Tail(toClient)
    /\ UNCHANGED <<widget, pending, cache, here, icon, toDaemon, half, daemon, owed, doubt>>

-----------------------------------------------------------------------------
(* The daemon and its other clients. *)

Announce(kind, state) ==
    /\ toClient' = Append(toClient, [kind |-> kind, state |-> state])
    /\ doubt' = FALSE

(* A call is obeyed, or refused by polkit, the EC or the knob.  A turbo state *)
(* that is the one announced last is not announced again (_sync_turbo), even  *)
(* if another writer has just made it so.                                     *)
Handle ==
    /\ toDaemon # <<>>
    /\ toDaemon' = Tail(toDaemon)
    /\ LET c == Head(toDaemon)
           overtaken == IF owed = [kind |-> c.kind, value |-> c.value] THEN None ELSE owed
       IN  \/ /\ c.kind # "turbo"
              /\ keyboard' = Obeying(keyboard, c)
              /\ Announce("keyboard", keyboard')
              /\ UNCHANGED <<turbo, owed>>
           \/ /\ c.kind = "turbo"
              /\ turbo' \in BOOLEAN
              /\ IF turbo' # turbo THEN Announce("turbo", turbo')
                 ELSE toClient' = toClient /\ doubt' = (doubt \/ turbo' # c.value)
              /\ owed' = IF turbo' = c.value THEN owed ELSE overtaken
              /\ UNCHANGED keyboard
           \/ /\ toClient' = Append(toClient, [kind |-> "error", to |-> c.from])
              /\ owed' = overtaken
              /\ UNCHANGED <<keyboard, turbo, doubt>>
    /\ UNCHANGED <<gui, icon, half, up>>

(* gkbd, another session's window; another writer of the knob, and the tick. *)
Elsewhere ==
    /\ up /\ Room
    /\ \/ /\ \/ \E v \in BOOLEAN : keyboard' = Obeying(keyboard, [kind |-> "on", value |-> v])
             \/ \E c \in Colours : keyboard' = Obeying(keyboard, [kind |-> "colour", value |-> c])
             \/ \E p \in Percents : keyboard' = Obeying(keyboard, [kind |-> "percent", value |-> p])
          /\ Announce("keyboard", keyboard')
          /\ UNCHANGED turbo
       \/ /\ turbo' = ~turbo
          /\ Announce("turbo", turbo')
          /\ UNCHANGED keyboard
    /\ owed' = None
    /\ UNCHANGED <<gui, icon, toDaemon, half, up>>

(* The daemon stops; calls it has not answered come back as errors. *)
Stop ==
    /\ up /\ Room
    /\ up' = FALSE
    /\ toClient' = toClient \o <<[kind |-> "gone"]>>
                   \o [i \in 1 .. Len(toDaemon) |-> [kind |-> "error", to |-> toDaemon[i].from]]
    /\ toDaemon' = <<>>
    /\ owed' = None
    /\ UNCHANGED <<gui, icon, half, keyboard, turbo, doubt>>

(* It starts with what it saved, or, if saving failed, with the defaults. *)
Start ==
    /\ ~up /\ Room
    /\ up' = TRUE
    /\ keyboard' \in {keyboard, Default} /\ turbo' \in BOOLEAN
    /\ Announce("here", Properties')
    /\ owed' = None
    /\ UNCHANGED <<gui, icon, toDaemon, half>>

User ==
    \/ OnSwitchToggled \/ OnTurboToggled \/ ApplyColour \/ OnBrightnessChanged \/ OnClose
    \/ OnTrayToggle
Loop == SendBrightness \/ Resync \/ TrayReceives \/ WindowReceives \/ CallFails
Host == HostComes \/ HostReads \/ HostGoes
Daemon == Handle \/ Elsewhere \/ Stop \/ Start
Next == User \/ Loop \/ Host \/ Daemon

Spec == Init /\ [][Next]_vars
-----------------------------------------------------------------------------
TypeOK ==
    /\ widget \in [on : BOOLEAN, colour : Colours \cup {None},
                   percent : Percents \cup {None}, turbo : BOOLEAN]
    /\ pending \in Percents \cup {None}
    /\ tray \in [here : BOOLEAN, on : BOOLEAN \cup {None}]
    /\ keyboard \in [on : BOOLEAN, colour : Colours, percent : Percents]
    /\ {here, resync, stale, half, up, turbo, doubt} \subseteq BOOLEAN
    /\ Len(toDaemon) + Len(toClient) <= MaxInFlight

(* "Capture the value NOW": while the timer runs, the slider shows what it will *)
(* send, whatever the daemon announces of other clients meanwhile.              *)
SliderIsWhatWeSend == pending # None => widget.percent = pending

AtRest == pending = None /\ ~resync /\ toDaemon = <<>> /\ toClient = <<>>

(* "every control reflects the daemon's state, not its own": once nothing is on  *)
(* its way the window shows what the daemon has, unless a close dropped something*)
(* or another writer undid a turbo choice unannounced; and once its host has     *)
(* followed, so does the menu, which offers the item only to a daemon that runs. *)
ControlsAreHonest ==
    AtRest =>
        /\ here = up
        /\ up /\ ~doubt => /\ [a \in DOMAIN keyboard |-> widget[a]] = keyboard
                           /\ widget.turbo = turbo
        /\ menu # None /\ ~stale => /\ menu.enabled = up
                                    /\ up => menu.on = keyboard.on

(* The machine ends up as the last choice made in the window or the tray says.  *)
LastChoiceWins ==
    AtRest /\ owed # None =>
        IF owed.kind = "turbo" THEN turbo = owed.value
        ELSE keyboard = Obeying(keyboard, owed)

-----------------------------------------------------------------------------
(* What a comment says and the code does not keep. *)

(* tray.py, AboutToShow: "the menu is kept current as state changes, so never   *)
(* stale": a click asks for the opposite of what the menu shows.                *)
ClickInvertsTheMenu ==
    [][OnTrayToggle /\ Len(toDaemon') > Len(toDaemon)
          => toDaemon'[Len(toDaemon')].value # menu.on]_vars

(* window.py, the switch's tooltip: "Turn the keyboard backlight on or off":    *)
(* switching off leaves no slider position waiting that turns it on again.      *)
OffIsOff == [][OnSwitchToggled /\ ~widget'.on => pending' = None]_vars
=============================================================================
