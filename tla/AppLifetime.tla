---------------------------- MODULE AppLifetime -----------------------------
(***************************************************************************)
(* When the GTK application lives, hides and ends: GigactlApp of           *)
(* gui/gigactl_gui/app.py, the rules of lifetime.py and the registration   *)
(* of tray.py with a tray host that comes and goes.                        *)
(*                                                                         *)
(* Everything the application learns about the tray reaches its main loop  *)
(* through one queue of D-Bus events, so what it believes lags behind the  *)
(* session.  Each handler is one action.  Names with the prefix App have it *)
(* because Desktop_proofs extends this module and CurvePage together.      *)
(***************************************************************************)
EXTENDS Naturals, Sequences

CONSTANT MaxEvents      \* bound: events waiting for the main loop
ASSUME BoundAssumption == MaxEvents \in Nat \ {0}

VARIABLES
    running,    \* is there a process?
    window,     \* "none" (not built, or destroyed), "hidden" or "shown"
    hides,      \* the window's hide-on-close
    held,       \* does the application hold itself?
    grace,      \* is the grace timer of a --tray launch armed?
    available,  \* TrayIcon.available: the icon the application believes in
    ever,       \* has a host ever answered this process?
    bus,        \* does the tray have its session bus connection?
    inbox,      \* events on their way to the main loop
    asked,      \* registrations a host has not answered
    host        \* the session's tray host: "absent", "willing", "refusing"

app == <<running, window, hides, held, grace, available, ever>>
appVars == <<running, window, hides, held, grace, available, ever, bus, inbox, asked, host>>

AppInit ==
    /\ running = FALSE /\ window = "none" /\ hides = FALSE /\ held = FALSE
    /\ grace = FALSE /\ available = FALSE /\ ever = FALSE
    /\ bus = FALSE /\ inbox = <<>> /\ asked = 0
    /\ host \in {"absent", "willing", "refusing"}

-----------------------------------------------------------------------------
(* lifetime.py *)

ShouldHold(icon, waiting, visible) == icon \/ waiting \/ ~visible

(* Mutant: "went away" taken for "never answered" and the other way round. *)
ShouldOfferWindowLater(answered, icon, visible) == answered /\ ~icon /\ ~visible

ShouldOfferWindow(answered, icon, visible) == ~answered /\ ~icon /\ ~visible

ShouldQuitOnClose(icon) == ~icon

-----------------------------------------------------------------------------
(* The two things a handler brings up to date before it returns. *)

SyncHold == held' = ShouldHold(available', grace', window' = "shown")

(* Mutant: the policy of the moment the window was built is kept. *)
KeepClosePolicy == hides' = hides

ApplyClosePolicy == hides' = (window' # "none" /\ ~ShouldQuitOnClose(available'))

(* GtkApplication ends: the timer goes, the tray stops, replies find nobody. *)
Quit ==
    /\ running' = FALSE /\ window' = "none" /\ hides' = FALSE /\ held' = FALSE
    /\ grace' = FALSE /\ available' = FALSE /\ ever' = FALSE
    /\ bus' = FALSE /\ inbox' = <<>> /\ asked' = 0
    /\ UNCHANGED host

-----------------------------------------------------------------------------
(* The user. *)

(* do_startup and the first do_activate; --tray builds the window hidden and *)
(* arms the grace timer.                                                     *)
Launch(tray) ==
    /\ ~running
    /\ running' = TRUE
    /\ window' = IF tray THEN "hidden" ELSE "shown"
    /\ grace' = tray
    /\ UNCHANGED <<available, ever, bus, inbox, asked, host>>
    /\ ApplyClosePolicy
    /\ SyncHold

(* A click on the icon or a second launch: do_activate. *)
Open ==
    /\ running
    /\ window' = "shown"
    /\ UNCHANGED <<running, grace, available, ever, bus, inbox, asked, host>>
    /\ IF window = "none" THEN ApplyClosePolicy ELSE UNCHANGED hides
    /\ SyncHold

(* The window is closed: hidden, or destroyed (_on_window_removed). *)
Hide ==
    /\ running /\ window = "shown" /\ hides
    /\ window' = "hidden"
    /\ UNCHANGED <<running, hides, held, grace, available, ever, bus, inbox, asked, host>>

Destroy ==
    /\ running /\ window = "shown" /\ ~hides
    /\ IF ShouldQuitOnClose(available)
       THEN Quit
       ELSE /\ window' = "none" /\ hides' = FALSE
            /\ UNCHANGED <<running, grace, available, ever, bus, inbox, asked, host>>
            /\ SyncHold

(* "Quit" in the icon's menu. *)
QuitFromTray == running /\ available /\ Quit

-----------------------------------------------------------------------------
(* Timers and the tray. *)

(* _grace_expired *)
GraceExpired ==
    /\ running /\ grace
    /\ grace' = FALSE
    /\ window' = IF ShouldOfferWindow(ever, available, window = "shown") THEN "shown" ELSE window
    /\ UNCHANGED <<running, hides, available, ever, bus, inbox, asked, host>>
    /\ SyncHold

(* _on_bus: from here on the watcher's comings and goings are events; the  *)
(* first one says how things stand.                                        *)
OnBus ==
    /\ running /\ ~bus
    /\ bus' = TRUE
    /\ inbox' = <<IF host = "absent" THEN "vanished" ELSE "appeared">>
    /\ UNCHANGED <<app, asked, host>>

(* Mutant: the hold is not brought up to date when the icon goes. *)
OnAvailableHoldKept(now) ==
    /\ available' = now
    /\ IF now THEN ever' = TRUE /\ grace' = FALSE ELSE UNCHANGED <<ever, grace>>
    /\ UNCHANGED <<running, window>>
    /\ ApplyClosePolicy
    /\ IF now THEN SyncHold ELSE UNCHANGED held

(* _set_available, and the application's _on_tray_available. *)
OnAvailable(now) ==
    IF now = available THEN UNCHANGED app
    ELSE /\ available' = now
         /\ IF now THEN ever' = TRUE /\ grace' = FALSE ELSE UNCHANGED <<ever, grace>>
         /\ UNCHANGED <<running, window>>
         /\ ApplyClosePolicy
         /\ SyncHold

(* _on_watcher_appeared: ask to be registered.  A host that has gone in the *)
(* meantime cannot be asked; the bus answers with an error.                 *)
OnAppeared ==
    /\ inbox # <<>> /\ Head(inbox) = "appeared"
    /\ IF host = "absent"
       THEN inbox' = Append(Tail(inbox), "refused") /\ UNCHANGED asked
       ELSE inbox' = Tail(inbox) /\ asked' = asked + 1
    /\ UNCHANGED <<app, bus, host>>

(* Mutant: a host that comes back is not asked again. *)
OnRegisteredOnce ==
    /\ inbox # <<>> /\ Head(inbox) \in {"registered", "refused"}
    /\ IF Head(inbox) = "registered" /\ ~ever THEN OnAvailable(TRUE) ELSE UNCHANGED app
    /\ inbox' = Tail(inbox)
    /\ UNCHANGED <<bus, asked, host>>

(* _on_registered *)
OnRegistered ==
    /\ inbox # <<>> /\ Head(inbox) \in {"registered", "refused"}
    /\ IF Head(inbox) = "registered" THEN OnAvailable(TRUE) ELSE UNCHANGED app
    /\ inbox' = Tail(inbox)
    /\ UNCHANGED <<bus, asked, host>>

(* Mutant: only the next registration brings the icon up to date. *)
OnVanishedIgnored ==
    /\ inbox # <<>> /\ Head(inbox) = "vanished"
    /\ inbox' = Tail(inbox)
    /\ UNCHANGED <<app, bus, asked, host>>

(* _on_watcher_vanished *)
OnVanished ==
    /\ inbox # <<>> /\ Head(inbox) = "vanished"
    /\ OnAvailable(FALSE)
    /\ inbox' = Tail(inbox)
    /\ UNCHANGED <<bus, asked, host>>

-----------------------------------------------------------------------------
(* The session: a shell restart, a screen lock, an extension switched on. *)

Tell(events) == inbox' = IF bus THEN inbox \o events ELSE inbox

HostAppears ==
    /\ host = "absent" /\ Len(inbox) < MaxEvents
    /\ host' \in {"willing", "refusing"}
    /\ Tell(<<"appeared">>)
    /\ UNCHANGED <<app, bus, asked>>

(* Calls the host has not answered come back as errors. *)
HostVanishes ==
    /\ host # "absent" /\ Len(inbox) + asked < MaxEvents
    /\ host' = "absent"
    /\ Tell(<<"vanished">> \o [i \in 1 .. asked |-> "refused"])
    /\ asked' = 0
    /\ UNCHANGED <<app, bus>>

(* A refusing host answers with an error, or not within the call's time limit. *)
HostAnswers ==
    /\ asked > 0 /\ host # "absent"
    /\ asked' = asked - 1
    /\ Tell(<<IF host = "willing" THEN "registered" ELSE "refused">>)
    /\ UNCHANGED <<app, bus, host>>

AppUser == (\E tray \in BOOLEAN : Launch(tray)) \/ Open \/ Hide \/ Destroy \/ QuitFromTray
AppLoop == GraceExpired \/ OnBus \/ OnAppeared \/ OnRegistered \/ OnVanished
Session == HostAppears \/ HostVanishes \/ HostAnswers

AppNext == AppUser \/ AppLoop \/ Session

AppSpec == AppInit /\ [][AppNext]_appVars

(* The main loop dispatches what is ready; a host answers what it is asked. *)
AppFairSpec == AppSpec /\ WF_appVars(AppLoop) /\ WF_appVars(HostAnswers)
-----------------------------------------------------------------------------
Events == {"appeared", "vanished", "registered", "refused"}

AppTypeOK ==
    /\ {running, hides, held, grace, available, ever, bus} \subseteq BOOLEAN
    /\ window \in {"none", "hidden", "shown"}
    /\ inbox \in Seq(Events)
    /\ asked \in Nat
    /\ host \in {"absent", "willing", "refusing"}

(* "Every path ends here: skipping it once left the tray's hold in place after *)
(* the icon went away, and the app outlived its last window": whatever         *)
(* happened, the application holds itself exactly when it has an icon, waits   *)
(* for one, or has nothing on screen.                                          *)
HoldIsCurrent == running => held = ShouldHold(available, grace, window = "shown")

(* Never "an invisible process" the user cannot reach: with neither a window   *)
(* nor an icon, the application is waiting for its first host or for one that  *)
(* has answered before.                                                        *)
NobodyIsStranded == running /\ window # "shown" /\ ~available => grace \/ ever

(* "With a tray to reopen from, closing the window only hides it", and without *)
(* one it is a real goodbye: at any moment the window closes the way the icon  *)
(* allows.                                                                     *)
ClosingFollowsTheIcon == window # "none" => hides = available

(* The icon believed in is there, once the loop has caught up with the session.*)
IconIsReal == bus /\ inbox = <<>> /\ available => host = "willing"

(* A host that answered and "went away gets waited out": when a willing host   *)
(* stays, the icon comes, or comes back, unless the application has ended.     *)
IconComesBack == <>[](running /\ host = "willing") => <>[]available
=============================================================================
