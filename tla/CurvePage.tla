----------------------------- MODULE CurvePage ------------------------------
(***************************************************************************)
(* The curve editor of the window (gui/gigactl_gui/curve_page.py) and the  *)
(* daemon it talks to: edits are debounced, calls and property changes     *)
(* cross each other on the bus, other clients choose too.                  *)
(*                                                                         *)
(* The page, its D-Bus client and the window's resync run on one main loop *)
(* and are an action per handler.  The bus keeps the order of messages in  *)
(* each direction.  The daemon is its profile and curves; the EC appears   *)
(* only as a call that may be refused.  The graph (curve_view.py) keeps    *)
(* points of its own: what the user really sees.  While the pointer drags  *)
(* a point it presses nothing else.                                        *)
(***************************************************************************)
EXTENDS Naturals, Sequences

CONSTANTS
    Drawn,      \* curves a user draws
    Builtin,    \* a built-in profile, and the name of its curve
    SEED,       \* DEFAULT_SEED, the shape of an editor nothing has filled
    None,       \* Python's None
    MaxInFlight,\* bound: messages on the bus
    MaxCalls    \* bound: the calls among them

FIRMWARE == "firmware"
CUSTOM == "custom"
CPU == "cpu"
GPU == "gpu"
FANS == {CPU, GPU}
Shapes == Drawn \cup {Builtin, SEED}
OnBoth(c) == [f \in FANS |-> c]

(* The Curves property, and the calls the page makes: an edit, a choice. *)
States == [linked : BOOLEAN, curves : [FANS -> Shapes] \cup {None}]
Edits == [kind : {"curve"}, which : FANS, points : Shapes, linked : BOOLEAN]
Choices == [kind : {"profile"}, name : {FIRMWARE, Builtin}]

ASSUME ParameterAssumption ==
    /\ MaxInFlight \in Nat \ {0} /\ MaxCalls \in 1 .. MaxInFlight
    /\ Builtin \notin {FIRMWARE, CUSTOM}
    /\ None \notin [FANS -> Shapes] \cup States \cup Edits \cup Choices

VARIABLES
    page,       \* CurvePage: linked, editing, curves, dirty, hasCurve
    shown,      \* CurveView: the points on the graph
    dragging,   \* CurveView: is a point held?
    pending,    \* _pending, None or [which, points, linked]; the debounce timer
                \* is armed exactly while it is not None
    cache,      \* the proxy's copy of Curves, None when it has none
    here,       \* does the client see the daemon's name?
    resync,     \* is the window's resync waiting for the loop to be idle?
    toDaemon,   \* calls on their way
    toClient,   \* signals and error replies on their way
    up,         \* is the daemon running?
    eng,        \* the daemon's profile, linked and curves (None: it has none)
    owed,       \* history: the user's last command on this page, None once a
                \* call was refused, the window closed, the daemon left, somebody
                \* else chose, or if an edit of before still waits to be sent
    doubt       \* history: since the daemon last announced its curves, a close
                \* dropped an edit or a resync, or a refused call changed them

view == <<shown, dragging>>
gui == <<page, view, pending, cache, here, resync>>
history == <<owed, doubt>>
vars == <<page, shown, dragging, pending, cache, here, resync, toDaemon, toClient, up, eng, owed, doubt>>

Init ==
    /\ page = [linked |-> TRUE, editing |-> CPU, curves |-> OnBoth(SEED),
               dirty |-> FALSE, hasCurve |-> FALSE]
    /\ shown = SEED /\ dragging = FALSE
    /\ pending = None /\ cache = None /\ here = FALSE /\ resync = FALSE
    /\ toDaemon = <<>> /\ toClient = <<>>
    /\ up = FALSE
    /\ eng = [profile |-> FIRMWARE, linked |-> TRUE, curves |-> None]
    /\ owed = None /\ doubt = FALSE

-----------------------------------------------------------------------------
(* The daemon, as a client sees it. *)

Choosing(e, name) ==
    [e EXCEPT !.profile = name, !.curves = IF name = FIRMWARE THEN None ELSE OnBoth(name)]

(* ProfileEngine.set_one_curve *)
Drawing(e, call) ==
    LET kept == IF e.curves = None THEN OnBoth(call.points) ELSE e.curves
    IN  [profile |-> CUSTOM, linked |-> call.linked,
         curves |-> IF call.linked THEN OnBoth(call.points)
                    ELSE [kept EXCEPT ![call.which] = call.points]]

Obeying(e, call) == IF call.kind = "profile" THEN Choosing(e, call.name) ELSE Drawing(e, call)

(* The Curves property, announced by _notify_fan_state. *)
Curves(e) == [linked |-> e.linked, curves |-> e.curves]
Announced(e) == [kind |-> "changed", state |-> Curves(e)]

-----------------------------------------------------------------------------
(* The client and the page. *)

Other(f) == IF f = CPU THEN GPU ELSE CPU

(* DaemonClient._call: a daemon that is not seen is an error at once; one that *)
(* has just left is the bus's error.                                           *)
Send(call) ==
    IF ~here THEN resync' = TRUE /\ UNCHANGED <<toDaemon, toClient>>
    ELSE IF up THEN toDaemon' = Append(toDaemon, call) /\ UNCHANGED <<toClient, resync>>
    ELSE toClient' = Append(toClient, [kind |-> "error"]) /\ UNCHANGED <<toDaemon, resync>>

(* The shape both fans get when the curves are linked, each fan's own if not. *)
Adopted(seen) == IF seen.linked THEN OnBoth(seen.curves[CPU]) ELSE seen.curves

(* Mutant: the daemon's shape is taken in the middle of a drag. *)
SyncedAlways(p, seen) ==
    IF seen = None THEN p
    ELSE [p EXCEPT !.linked = seen.linked, !.hasCurve = seen.curves # None,
                   !.curves = IF seen.curves = None THEN @ ELSE Adopted(seen)]

(* sync_from_daemon: nothing while an edit has not been sent. *)
Synced(p, seen) ==
    IF pending # None \/ seen = None THEN p
    ELSE [p EXCEPT !.linked = seen.linked, !.hasCurve = seen.curves # None,
                   !.curves = IF seen.curves = None THEN @ ELSE Adopted(seen)]

(* _refresh_view: a graph that is being dragged does not listen. *)
RefreshView ==
    /\ UNCHANGED dragging
    /\ shown' = IF dragging THEN shown ELSE page'.curves[page'.editing]

SyncFromDaemon ==
    /\ page' = Synced(page, cache')
    /\ IF pending = None /\ cache' # None THEN RefreshView ELSE UNCHANGED view

-----------------------------------------------------------------------------
(* The user, at controls that work only while the daemon is seen. *)

Room == Len(toDaemon) + Len(toClient) < MaxInFlight
RoomToCall == Room /\ Len(toDaemon) < MaxCalls

Edited(p, c) ==
    [p EXCEPT !.dirty = TRUE,
              !.curves = IF p.linked THEN OnBoth(c) ELSE [@ EXCEPT ![p.editing] = c]]

(* _queue_send: the value is captured now, the timer starts again. *)
QueueSend(p) ==
    /\ pending' = [kind |-> "curve", which |-> p.editing, points |-> p.curves[p.editing],
                   linked |-> p.linked]
    /\ owed' = pending'

OnDragBegin ==
    /\ here /\ ~dragging
    /\ dragging' = TRUE
    /\ UNCHANGED <<page, shown, pending, cache, here, resync, toDaemon, toClient, up, eng, history>>

OnDragEnd ==
    /\ dragging
    /\ dragging' = FALSE
    /\ UNCHANGED <<page, shown, pending, cache, here, resync, toDaemon, toClient, up, eng, history>>

(* CurveView._commit, by the pointer or by a key, and the page's _on_curve_edited: *)
(* the other points are those the graph shows.                                     *)
OnCurveEdited ==
    /\ here
    /\ \E c \in Drawn \ {shown} : shown' = c /\ page' = Edited(page, c)
    /\ QueueSend(page')
    /\ UNCHANGED <<dragging, cache, here, resync, toDaemon, toClient, up, eng, doubt>>

(* _on_link_toggled *)
OnLinkToggled ==
    /\ here /\ ~dragging
    /\ page' = [page EXCEPT !.linked = ~@,
                            !.curves = IF page.linked THEN @ ELSE OnBoth(@[page.editing])]
    /\ IF page.dirty \/ page.hasCurve THEN QueueSend(page')
       ELSE UNCHANGED <<pending, owed>>
    /\ RefreshView
    /\ UNCHANGED <<cache, here, resync, toDaemon, toClient, up, eng, doubt>>

(* _on_fan_toggled, offered while the curves are split *)
OnFanToggled ==
    /\ here /\ ~dragging /\ ~page.linked
    /\ page' = [page EXCEPT !.editing = Other(@)]
    /\ RefreshView
    /\ UNCHANGED <<pending, cache, here, resync, toDaemon, toClient, up, eng, history>>

(* _on_firmware_clicked, and the profile row of the first screen. *)
OnProfileClicked ==
    /\ here /\ ~dragging /\ RoomToCall
    /\ \E name \in {FIRMWARE, Builtin} :
        /\ Send([kind |-> "profile", name |-> name])
        /\ owed' = IF pending # None \/ ~up THEN None ELSE [kind |-> "profile", name |-> name]
    /\ UNCHANGED <<page, view, pending, cache, here, up, eng, doubt>>

(* _on_custom_clicked: the page is opened. *)
OnCustomClicked ==
    /\ ~dragging
    /\ UNCHANGED cache
    /\ SyncFromDaemon
    /\ UNCHANGED <<pending, here, resync, toDaemon, toClient, up, eng, history>>

(* The window closes, to the tray: cancel_pending, and no resync either. *)
OnClose ==
    /\ pending # None \/ resync
    /\ pending' = None /\ resync' = FALSE
    /\ owed' = None /\ doubt' = TRUE
    /\ UNCHANGED <<page, view, cache, here, toDaemon, toClient, up, eng>>

-----------------------------------------------------------------------------
(* The main loop. *)

(* Mutant: the debounced call takes what the page is editing by now. *)
SendNowShown ==
    /\ pending # None /\ RoomToCall
    /\ Send([pending EXCEPT !.which = page.editing, !.points = page.curves[page.editing]])
    /\ pending' = None
    /\ UNCHANGED <<page, view, cache, here, up, eng, history>>

(* _send_now *)
SendNow ==
    /\ pending # None /\ RoomToCall
    /\ Send(pending)
    /\ pending' = None
    /\ owed' = IF here /\ up THEN owed ELSE None
    /\ UNCHANGED <<page, view, cache, here, up, eng, doubt>>

(* Mutant: a refused call leaves the controls as they are. *)
ResyncNothing ==
    /\ resync
    /\ resync' = FALSE
    /\ UNCHANGED <<page, view, pending, cache, here, toDaemon, toClient, up, eng, history>>

(* OverviewWindow._resync *)
Resync ==
    /\ resync
    /\ resync' = FALSE
    /\ UNCHANGED cache
    /\ SyncFromDaemon
    /\ UNCHANGED <<pending, here, toDaemon, toClient, up, eng, history>>

(* A message from the bus: PropertiesChanged, an error reply, or the daemon's *)
(* name coming (the proxy then reads all properties) or going (it forgets).   *)
Receive ==
    /\ toClient # <<>>
    /\ LET m == Head(toClient)
       IN  \/ /\ m.kind \in {"changed", "here"}
              /\ here' = (here \/ m.kind = "here")
              /\ cache' = IF here' THEN m.state ELSE cache
              /\ SyncFromDaemon
              /\ UNCHANGED resync
           \/ /\ m.kind = "gone"
              /\ here' = FALSE /\ cache' = None
              /\ SyncFromDaemon
              /\ UNCHANGED resync
           \/ /\ m.kind = "error"
              /\ resync' = TRUE
              /\ UNCHANGED <<page, view, cache, here>>
    /\ toClient' = Tail(toClient)
    /\ UNCHANGED <<pending, toDaemon, up, eng, history>>

-----------------------------------------------------------------------------
(* The daemon and its other clients. *)

(* A call is taken, refused untouched (polkit), or refused by the EC after the *)
(* engine has taken it, which nobody is told.                                  *)
Handle ==
    /\ toDaemon # <<>>
    /\ toDaemon' = Tail(toDaemon)
    /\ \/ /\ eng' = Obeying(eng, Head(toDaemon))
          /\ toClient' = Append(toClient, Announced(eng'))
          /\ doubt' = FALSE
          /\ UNCHANGED owed
       \/ /\ eng' \in {eng, Obeying(eng, Head(toDaemon))}
          /\ toClient' = Append(toClient, [kind |-> "error"])
          /\ doubt' = (doubt \/ eng' # eng)
          /\ owed' = None
    /\ UNCHANGED <<gui, up>>

(* The tray, a script, or a trip of the failsafe. *)
Elsewhere ==
    /\ up /\ Room
    /\ \/ \E name \in {FIRMWARE, Builtin} : eng' = Choosing(eng, name)
       \/ \E f \in FANS, c \in Drawn, linked \in BOOLEAN :
            eng' = Drawing(eng, [which |-> f, points |-> c, linked |-> linked])
    /\ toClient' = Append(toClient, Announced(eng'))
    /\ owed' = None /\ doubt' = FALSE
    /\ UNCHANGED <<gui, toDaemon, up>>

(* The daemon stops; calls it has not answered come back as errors. *)
Stop ==
    /\ up /\ Room
    /\ up' = FALSE
    /\ toClient' = toClient \o <<[kind |-> "gone"]>> \o [i \in 1 .. Len(toDaemon) |-> [kind |-> "error"]]
    /\ toDaemon' = <<>>
    /\ owed' = None
    /\ UNCHANGED <<gui, eng, doubt>>

(* It starts with the choice it saved, or with the firmware's; curves that are *)
(* not a custom pair come back linked (state.restore).                         *)
Start ==
    /\ ~up /\ Room
    /\ up' = TRUE
    /\ eng' \in {[profile |-> FIRMWARE, linked |-> TRUE, curves |-> None],
                 [eng EXCEPT !.linked = IF eng.profile = CUSTOM THEN @ ELSE TRUE]}
    /\ toClient' = Append(toClient, [kind |-> "here", state |-> Curves(eng')])
    /\ doubt' = FALSE
    /\ UNCHANGED <<gui, toDaemon, owed>>

User ==
    \/ OnDragBegin \/ OnDragEnd \/ OnCurveEdited
    \/ OnLinkToggled \/ OnFanToggled \/ OnProfileClicked \/ OnCustomClicked \/ OnClose
Loop == SendNow \/ Resync \/ Receive
Daemon == Handle \/ Elsewhere \/ Stop \/ Start
Next == User \/ Loop \/ Daemon

Spec == Init /\ [][Next]_vars
-----------------------------------------------------------------------------
TypeOK ==
    /\ page \in [linked : BOOLEAN, editing : FANS, curves : [FANS -> Shapes],
                 dirty : BOOLEAN, hasCurve : BOOLEAN]
    /\ pending \in Edits \cup {None}
    /\ cache \in States \cup {None}
    /\ Curves(eng) \in States /\ eng.profile \in {FIRMWARE, CUSTOM, Builtin}
    /\ shown \in Shapes
    /\ {here, resync, up, doubt, dragging} \subseteq BOOLEAN
    /\ Len(toDaemon) + Len(toClient) <= MaxInFlight

(* "The value is captured now: a daemon echo landing before the timer fires    *)
(* must not change what we send" - nor what the user sees: as long as an edit  *)
(* waits, the screen shows what will be sent, whoever changes the daemon.      *)
ScreenIsWhatWeSend ==
    pending # None => /\ page.curves[pending.which] = pending.points
                      /\ page.editing = pending.which => shown = pending.points
                      /\ page.linked = pending.linked
                      /\ page.linked => page.curves[CPU] = page.curves[GPU]

Quiet == pending = None /\ ~resync /\ toDaemon = <<>> /\ toClient = <<>>

(* Once nothing is on its way the editor shows the curves the daemon really    *)
(* drives - after refusals, restarts and other clients too - unless a close    *)
(* dropped an edit or a refused call changed the daemon unannounced.           *)
QuietPageIsHonest ==
    Quiet /\ up /\ ~doubt /\ eng.curves # None
        => page.curves = eng.curves /\ page.linked = eng.linked

(* "Changes apply straight away": once nothing is on its way, the machine does *)
(* what the user's last command on this page says, unless something the user   *)
(* is told of (or the timer of an older edit) came in between.                 *)
LastCommandWins ==
    Quiet /\ owed # None =>
        IF owed.kind = "profile" THEN eng.profile = owed.name
        ELSE /\ eng.profile = CUSTOM /\ eng.linked = owed.linked
             /\ eng.curves[owed.which] = owed.points

-----------------------------------------------------------------------------
(* What a comment says and the code does not keep. *)

(* curve_page.py: "a view-mode switch must not be an edit": something is sent   *)
(* only once "the user has edited one, or the daemon already runs a custom      *)
(* curve".                                                                      *)
ViewSwitchIsNoEdit ==
    [][pending' \notin {None, pending} /\ ~page'.dirty /\ toClient = <<>> => eng.profile = CUSTOM]_vars

(* window.py: after a refused write "the controls snap back", so that nothing    *)
(* is left "claiming something the daemon did not do": once nothing is held or   *)
(* on its way, the graph shows what the daemon drives.                           *)
GraphSnapsBack ==
    Quiet /\ up /\ ~doubt /\ ~dragging /\ eng.curves # None => shown = eng.curves[page.editing]
=============================================================================
