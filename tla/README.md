# gigactl in TLA+

Specifications of gigactl, the fan, keyboard and turbo control for Gigabyte G6 KF laptops:
a root daemon (`gigactld`, on the system bus), a GTK window and tray application
(`gigactl-gui`), and two shell tools (`gfan`, `gkbd`) that drive the daemon when it runs and
the Embedded Controller (EC) themselves when it does not. Paths below are relative to `src/`.

`daemon/gigactld` is abbreviated to `d/`, `gui/gigactl_gui` to `g/`.

## 1. Inventory

| component | state it keeps | operations | talks to |
|---|---|---|---|
| `Daemon` (`d/service.py`, `state.py`, `fans.py`, `__main__.py`) | engine, watchdog (`_tripped`, `_restored`, `_tick_failures`, `_fault`, choice before the trip), last published properties, state file | D-Bus calls, the 2 s tick, bus acquired / name lost, SIGTERM, `--restore-firmware` | engine (calls), EC, clients (replies, PropertiesChanged), disk |
| `ProfileEngine` (`d/curve.py`) | profile, linked, curves; per fan: window of readings, last settled temperature, last duty | `set_profile`, `set_custom`, `set_one_curve`, `set_manual`, `decide`, `retry_next_tick` | called by `Daemon` |
| curve arithmetic (`d/curve.py`, `g/curves.py`) | none | `duty_for`, `apply_floor`, `normalize`; `move_point` | engine, editor |
| EC mailbox (`d/ec.py`, `mailbox.py`, `gigactl-cli-lib.sh`) | the parameter registers, a file lock shared by all processes | `transaction`, `command`; `lock_ec` | the EC firmware |
| keyboard and turbo (`d/keyboard.py`, `turbo.py`, `service.py`) | remembered keyboard state, turbo choice, state file, published properties | three keyboard calls, `SetTurboBoost`, resume, tick | EC (write only), `no_turbo` (other writers) |
| application and tray registration (`g/app.py`, `lifetime.py`, `tray.py`) | window, hold, hide-on-close, grace timer, icon | launch, activate, close, quit, host appears / answers / vanishes | session bus, tray host |
| curve page, graph and client (`g/curve_page.py`, `curve_view.py`, `client.py`, `window.py`) | curves on the page, points on the graph, debounced edit, cached properties | drag, key, toggles, profile buttons, debounce timer, resync, close | daemon through the bus |
| `gfan` (`gfan`, `gigactl-cli-lib.sh`) | `/run/gfan.mode` | set, auto: directly or by calls | EC under the lock, or daemon |
| `gkbd` (`gkbd`, `gigactl-cli-lib.sh`) | `/var/lib/gkbd/state` | colour, brightness, on, off, apply: directly or by calls | EC under the lock, or daemon |
| keyboard row, turbo switch, tray menu (`g/window.py`, `tray.py`, `tray_menu.py`, `app.py`, `client.py`) | widgets, the slider's debounced position, two cached states, the menu and the host's copy of it | switch, swatch, slider, turbo, click on the menu, timer, resync, close | daemon through the bus, tray host |
| EC ports (`d/ec.py`, `DevPortBackend`) | the call under way; the EC's two buffers and its stage | `read`, `write` of one byte | the EC firmware |
| telemetry, authorization, drawing, model tables, installer | - | - | see section 7 |

What is hard in it:

- *Partial failure.* Every EC command can be refused and there is no undo: a tick may drive the
  CPU fan and not the GPU fan, a colour may be sent without its brightness, a call may be refused
  after the engine has taken it. Engine, watchdog, file, clients and fans must not drift apart.
- *Timeouts and retries.* The watchdog counts failed ticks, trips, hands the fans back, retries
  the handback, and gives way to the next choice.
- *Crash and restart* between any two handlers, with `ExecStopPost` in between, and power-cycles.
- *Interleaving.* Two processes share the mailbox registers; invocations of `gfan` and `gkbd` overlap and
  race the daemon's start, and `gkbd` reads its file on either side of the lock; echoes, refusals and clicks cross on the bus; the tray host's answers
  arrive after it went, and it draws a menu that may be out of date.
- *A slow device.* The handshake polls two flags and gives up after a while; what it asked for may
  still arrive, in front of the next call.
- *Numeric edges.* The floor, a median over a window just reset, hysteresis after a failed write,
  points crowded against 100 degrees.

`PROJECT.json` lists each hazard at its line with the properties that watch it.

What makes each component correct, in one line each: the daemon drives only what the user chose
and says when it cannot; the engine never lets a hot fan sit below the floor and keeps up with its
curve; a curve is always valid and does not drift; the EC sees whole commands; what is remembered
of the backlight is what it shows; the application is neither stranded nor ended early; the page and
the controls show, send and keep the user's last command; a byte read or written is the one asked for; the fans end up as one `gfan` invocation asked.

## 2. Modules

| module | models | notes |
|---|---|---|
| `FanDaemon` (+ `MCFanDaemon`, `FanDaemon_proofs`) | every call that touches the fans, tick, watchdog, save, start, SIGTERM, crash, `ExecStopPost`, power-cycle, an EC that is fine, flaky or read-only | a handler is one action, since all run on one main loop; inside it EC commands go out in fan order up to the first refused one |
| `FanService` | what the daemon promises: who drives the fans, with which choice, and what a restart finds | the abstract specification of `FanDaemon` |
| `ProfileEngine` (+ `MCProfileEngine`, `Curve_proofs`) | every method of the engine, `decide()` line by line | EXTENDS `CurveMath` |
| `CurveMath` (+ `Curve_proofs`) | `duty_for` with Python's rounding, `apply_floor`, `normalize` | operators only |
| `CurveEdit` (+ `MCCurveEdit`, `Curve_proofs`) | a curve's way: sent, normalised, read back, one point moved (by a script as it likes, by the editor's `move_point`), saved and restored | EXTENDS `CurveMath` |
| `EcMailbox` (+ `MCEcMailbox`, `EcMailbox_proofs`) | register writes, doorbell, lock, refusals, deaths | implements `AtomicEc` |
| `AtomicEc` | the abstract EC: whole commands of one process at a time | the abstract specification of `EcMailbox` |
| `DevPort` (+ `DevPort_proofs`) | one byte read or written through IBF and OBF, time-outs, an EC that takes its time | a poll and the byte after it are one step: only the host fills one buffer and empties the other; implements `RegisterFile` |
| `RegisterFile` | the abstract byte access: a read returns what was written, a failed call changes nothing | the abstract specification of `DevPort` |
| `Gkbd` | invocations of gkbd in direct mode: every read of the state file, the lock, every EC command, the two halves of rewriting the file (the redirection empties it, `echo` fills it), and a death between any two of them | which step follows which is a table per `direct_` function (`direct_set_color`, ...), named as in the script |
| `Settings` (+ `MCSettings`, `Settings_proofs`) | keyboard and turbo in the daemon, beside the gkbd invocations that did not find it | EXTENDS `Gkbd`; each EC command of a handler is a step of its own (`EcCommand`), as the lock is free in between; a handler is `SetKeyboard`, its commands, `KeyboardSet` |
| `AppLifetime` (+ `Desktop_proofs`) | the application's life, the tray registration, the session's tray host | one queue of events between them |
| `CurvePage` (+ `Desktop_proofs`) | page, graph, client cache, debounce, resync, the daemon as a client sees it, other clients, messages both ways | points are opaque |
| `Controls` (+ `Controls_proofs`) | the keyboard row with the slider's debounce, the turbo switch, the tray's keyboard item, the window's and the tray's clients, the host's copy of the menu | a signal reaches the tray's client first, then the window's, and user events fall in between |
| `Gfan` (+ `Gfan_proofs`) | several invocations of gfan, direct or by the daemon, and a daemon that comes and goes | one step per EC command, call or round of the verification; each fan follows the protocol, is deaf but may read near a duty, or never comes near |

`Curve_proofs` extends `CurveEdit` and `ProfileEngine`, `Desktop_proofs` extends `AppLifetime` and
`CurvePage`; that is why `CurveEdit` writes `EditInit`, `EditNext`, `EditSpec`, ... and `AppLifetime`
`AppInit`, `AppNext`, `AppSpec`, ...

The modules cut the system at its interfaces. `FanDaemon` leaves open which duty a curve asks for
(any level), `ProfileEngine` computes it; `FanDaemon` refuses whole commands, `EcMailbox` shows
that commands are whole, `DevPort` that the bytes they are made of are; `Controls` keeps of the daemon
what it publishes, `Settings` has what it remembers and applies; `CurvePage` and `Gfan` keep of the
daemon what their own promises need.

Correspondence, where names differ from the code's. `FanDaemon`: `eng` is `Daemon.engine`, `wd`
the fields of `_note_tick_failure` and `_failsafe_status`, `bus` the published properties, `fan`
the real fans; `wanted`, `behind`, `dark`, `refused` are history, written and never read by an
action's guard. `ProfileEngine`: `told` is what decide() has returned last, `hot` and `basis` are
history. `EcMailbox`: `todo` is the rest of a process's transaction, `at` its next register.
`CurvePage`: `pending` is `_pending` and the armed timer at once, `shown` and `dragging` belong to
`CurveView`; `owed` and `doubt` are history. `Gkbd`: `light` is the hardware, `store` the file (`Cut` when it
is empty), `goal` what an invocation will show as far as it knows; `driver` (who drove each aspect of the
backlight last, and whether he came to his end) and `overtaken` (the applies whose reading of the file somebody has
begun to rewrite) are history. `Settings`: `knob` is the hardware, `work` what a handler has still to send,
`moved` and `chose` history. `Gfan`: `round` and `strikes` are the loop's `i` and `strikes` of the one who
holds the lock; `kind` is how the machine's fans take the protocol, `unclean` history. `DevPort`: `sent` is how far `read` or `write` has come, `ec` the
stage the EC is at; `sound` is history. `Controls`: `pending` is `_pending_brightness` and its timer,
`half` that a signal has reached the tray's client and not yet the window's, `items` is
`TrayIcon._items` and `menu` what the host last read of it; `owed` and `doubt` are history.

`FanDaemon` reaches `FanService` through a refinement mapping (`Service`): `choice` is the engine's
snapshot, or the one set aside while tripped; `kept` the choice in the file; `driver` is "failsafe"
while tripped, "nobody" when no process runs, else by the engine's profile; `held` the fans at a duty.

Operators marked *Mutant* are plausible bugs: no specification uses them, each shows that a property can fail (PROJECT.json, "mutants").

## 3. Runs

| run | asks | bounds, and why they suffice |
|---|---|---|
| `curve_edit` | validity, monotonicity, interpolation, idempotence, and that the editor draws what is driven | all lists of 0-2 corner points, lists of 6 piled against 100; two edits in a row (`MaxEdits`); every point of a curve dragged to two places, one beyond each neighbour |
| `profile_engine` | floor, tracking, spike filter | the real window (5) and constants; four temperatures: just below and above the hysteresis band, and hot; one fan polled, since the fans share only the choice |
| `fan_daemon_app` | the calls the window and the tray make, threshold 2: safety, `FanService`, and liveness once the EC is fine for good | one built-in, one drawn curve, one level: two curves tell a changed half from an unchanged one |
| `fan_daemon_everyone` | every call that touches the fans, malformed ones included, saves that may fail, threshold 2 | as above |
| `fan_daemon_stranded_fan` | violated: a refused `SetFanDuty` strands no fan | two levels |
| `ec_mailbox` | atomicity, starvation | daemon, gfan, gkbd; one- and three-register commands; two byte values tell any two registers apart |
| `dev_port` | the handshake in step, the register file, no call hangs | two registers, two values: a byte of the wrong register or of an earlier call shows |
| `app_lifetime` | hold, reachability, close policy, icon | three events under way (`MaxEvents`): an answer, a departure and an arrival can cross |
| `curve_page` | screen, echo, convergence, last command | two messages under way, one call among them (`MaxInFlight`, `MaxCalls`): a call crosses an announcement. With two calls (6.6 million states, 3 minutes) the same holds |
| `controls` | slider, convergence of window and menu, last choice | two messages under way, one call among them, as for the page; two colours, two positions |
| `settings` | memory and file against hardware, clients, choices | two colours, two brightnesses, two invocations of gkbd. `MCSettings` keeps the product within reach: gkbd runs only on machines without a turbo knob, with which it shares nothing, and there two invocations at once only until a client has called the daemon, one afterwards; on those machines the save of a keyboard call lands and a client asks for the firmware's brightness only (gkbd for either). The theorems have none of these bounds |
| `gfan` | mode file, termination | two invocations, two duties one of which the guard stops; five rounds (`Rounds`) instead of 50: three strikes from the third on, so that the verification may end by converging, by settling, by giving up on no movement, or by the last round. The theorems hold for any number |

Deadlock is checked in all of them. Any save may fail in `fan_daemon_everyone` and, on machines with a turbo knob, in `settings`; in
`fan_daemon_app` (`SaveMayFail = FALSE`) every save succeeds: its liveness properties do not read the
file, the failures multiply the states, and for its four invariants and `KeepsItsPromises` the theorems
of section 6 cover failed saves. Threshold 2 instead of the code's 3 leaves a tick that fails
without a trip before the one that trips; the theorems hold for every threshold.

Configurations that are not among the runs of PROJECT.json and show a finding, or how far a property
reaches: `ProfileEngineFloorLetsGo`, `ProfileEngineRetryBand`, `FanDaemonBadArgs`,
`FanDaemonManualSaved`, `FanDaemonHollowProfile`, `FanDaemonQuietRefusal`, `FanDaemonUntold`,
`FanDaemonStopStrands`, `SettingsColour`, `CurvePageViewSwitch`, `CurvePageGraph`, `CurveEditColdPoint`,
`ControlsStaleMenu`, `ControlsOff`, `DevPortStaleByte`, `GfanBehindTheDaemon`, `GfanDeafFanNoted`, `GkbdOlderApply`
(of `MCSettings`). Each checks one property
stated at the end of its module and TLC reports a counterexample; `tlc -config X.cfg M` with `M` the
module (the MC module where there is one) repeats it.

## 4. Fairness

- `FanDaemon`: `WF(Tick)`. GLib's timeout fires as long as the process runs. Nothing is assumed of
  clients, the EC or systemd; liveness is stated under `EcRecovers` (eventually the EC answers and
  the daemon stays up).
- `DevPort`: `WF(Host)`, the host's polling loop runs and counts its polls; nothing is assumed of the EC,
  which may stop answering for good.
- `EcMailbox`: `WF(Step(p))`, a holder of the lock keeps running; `SF(Acquire(p))` for a process
  without a time limit, as a blocking `flock` is let through when the lock is free again and again.
- `AppLifetime`: `WF(Loop)`, the main loop dispatches what is ready; `WF(HostAnswers)`, a host
  answers or the call times out.
- `Gfan`: `WF(Step(u))` per invocation; its waits for lock and bus are bounded, and that its verification is
  follows from the rounds it counts.
- `CurvePage`, `Controls`, `Gkbd`, `Settings`, `ProfileEngine`, `CurveEdit`: safety only.

## 5. What the code does not keep

Each is a finding in PROJECT.json with the line it contradicts.

- A refused `SetFanDuty` on both fans strands the first one (`fan_daemon_stranded_fan`); under a
  driving profile it leaves the profile without effect while the temperature holds
  (`FanDaemonHollowProfile`), which is why `BelievedDutyIsReal` is asked of the app's calls only.
- An unknown profile name is refused after the trip was already resumed (`FanDaemonBadArgs`).
- A keyboard or turbo call saves a manual override as the profile (`FanDaemonManualSaved`).
- A refused `RestoreFirmware` is forgotten and quiet (`FanDaemonQuietRefusal`).
- A choice refused by the EC is taken but not announced (`FanDaemonUntold`); that this is the only
  way a change goes untold is `OnlyARefusalGoesUntold`.
- A stop leaves the GPU fan alone when the CPU fan refuses (`FanDaemonStopStrands`).
- The floor is kept by hysteresis (`ProfileEngineFloorLetsGo`), and a failed write widens the band
  (`ProfileEngineRetryBand`); `KeepsUpWithTheCurve` states the band that does hold, `2 * (4 - 1)`.
- Turning the backlight on after suspend shows the EC's colour (`SettingsColour`).
- Switching Linked/Split on a built-in profile is sent as an edit (`CurvePageViewSwitch`); a graph
  that is held misses the resync of a refusal (`CurvePageGraph`); dragging the first point of a
  curve that starts below the drawn range breaks its order (`CurveEditColdPoint`).
- `Firmware auto` does not cancel an edit still waiting for its timer (`CurvePage`, `owed = None` in
  `OnProfileClicked`), and a failed read ends `gfan` without its revert (`Gfan`, `Dies`).
- A click on the tray's keyboard item inverts the client's cached state and not the item the user saw
  (`ControlsStaleMenu`); switching the backlight off right after moving the slider switches it on again
  when the slider's timer fires (`ControlsOff`).
- A turbo choice that another writer undoes before the daemon looks is neither refused nor announced,
  so the window's switch goes on showing it (`doubt` in `Handle` of `Controls`, which
  `ControlsAreHonest` excepts).
- A daemon that starts after gfan's look at the bus is written behind (`GfanBehindTheDaemon`). gkbd does the same
  (`Run` asks for `~served`, no later step does): the daemon then does not remember what the backlight shows.
- `gkbd apply` reads its file before it waits for the lock, so an older colour may land over a newer one
  (`GkbdOlderApply`), and a new colour may undo a brightness. `FileShows` excepts exactly such an apply.
- gfan's verification passes a deaf fan that reads near its duty, and the mode file names it
  (`GfanDeafFanNoted`); `ModeFileIsHonest` is about what the fans have been told and what those that follow do.

No document says otherwise, but a reader of `DevPort` should know it: nothing empties the output buffer
after a read that timed out, so the next read may return that read's byte (`DevPortStaleByte`).
`LikeARegisterFile` says how far this reaches: answers are to be trusted again from the first call that
finds the interface at rest, and writes always are.

## 6. Proofs

`tlapm` checks the eight proof modules from nothing. Every invariant and every action
property of the passing runs and the three refinements are theorems, for all values of the constants. Few of them are inductive as they stand; each paragraph names what has to be added.

`FanDaemon_proofs`, for all sets of built-ins, drawn curves, levels, kinds of call and every
threshold (`ParameterAssumption`): **TypesAndLinkedCurves**, `Spec => [](TypeOK /\
LinkedCurvesMirror)`. Neither conjunct is inductive. A linked pair is restored from disk by passing
one curve for both fans, and `Restored` of a custom snapshot needs its curves to be there; so the
invariant `IInv` adds that the engine, the file and the choice set aside by a trip are each
*whole* (curves exactly when the profile drives) and *mirrored* (linked curves are one). The engine's
operations and the snapshot's round trip keep `Engines` and `Saved` (one lemma each, from
`SelectedIsOne` up to `RestoredIsOne` and `RanIsOne`); then each action has its own lemma or case
(`TakeChoiceKeepsIInv`, `TickKeepsIInv`, `SetFanDutyKeepsIInv`, ... joined in `StepKeepsIInv`).

Of the same daemon, over `IInv`: **ATripDropsTheProfile** and **BeliefsAreReal**, `AppCallsOnly => (Spec =>
[]TrippedOnFirmware)` and the same of `BelievedDutyIsReal`. `AppCallsOnly` says that nobody sends
`SetFanDuty` or malformed arguments; with either, the findings of section 5 show the properties
violated. They are not inductive: a handback moves the fans under an engine, so `Agree` (kept by
`WatchdogAndFansAgree`) adds that an engine that drives nothing believes in no duty (`Idle`), that a
process that is gone has such an engine (for `StopPost`), and that a choice is set aside exactly while
the watchdog is tripped. The
heart is `TickAgrees`: a tick that trips silences the engine before the handback, and a later tick that
runs a silent engine moves no fan (`RanIsBelieved`). **SilenceIsShort**, the same of
`NeverSilentForLong`: its invariant `Counted` adds that every tick in the dark was
counted as failed, that short of its limit the watchdog has not tripped, and that there is no dark tick
while it has, or while no process runs. **StopHandsBack**, `Spec => []StopFreesTheFans`,
for any client: the last handback, `ExecStopPost`'s, decides, whatever SIGTERM or a crash left.

Over both: **TheChoiceIsKept**, `AppCallsOnly => (Spec => []
SavesTheUsersChoice)`. Its invariant `Keeps` adds that the engine, the file and the choice set aside are
*regular*: never `manual`, which the snapshot would lose, and a built-in profile with its own curve on
both fans, which restoring by name assumes. Then a snapshot's round trip is the identity on choices
(`RestoredChoice`), a call's effect on the resumed engine is its effect on what the user wants
(`NamedChoice`, `OneCurveChoice`), and a tick either leaves the choice where it was or moves it from
the engine to the watchdog (`TickChoice`). **OnlyRefusalsGoUntold**, `Spec => OnlyARefusalGoesUntold` for any
client, is a property of single steps from `IInv`: what succeeds announces the engine's profile, and a tick announces
a trip and changes no profile else (`TickTells`).

Over all of these: **DaemonKeepsItsPromises**, `AppCallsOnly => (Spec =>
KeepsItsPromises)`, the refinement of `FanService`. Each action maps to a step or a stutter of the
service: a choice to `Choose`, also when it is refused halfway; `RestoreFirmware` to `ChooseFirmware` or,
refused while tripped, to `GiveBack`; a tick to `Drive`, `Trip` or `GiveBack`; a crash to `End`; a start to
`Begin`, which needs that a restored snapshot is the choice it was taken of (`RestoredChoice`).

`DevPort_proofs`, for any registers and byte values: **HandshakeInvariant**, `Spec => [](IInv /\ InStep)`.
`InStep` alone is not inductive: `IInv` adds that a data byte under way is one the EC's stage fits
(`DataFits`), and that while answers are sound the output buffer holds nothing but this call's answer
(`Tidy`). **HandshakeIsARegisterFile**, `Spec => LikeARegisterFile`: a write takes effect in `RegisterFile`
when its last byte is sent (`Committed`), although the EC stores it later; every other step of host
and EC but the end of a call is a stutter.

`EcMailbox_proofs`, for any processes, commands and byte values: **MailboxInvariant**, types and
`HolderOwnsTheMailbox`, which is inductive: only the holder writes, in register order, so what is
under the lock is a prefix of the holder's command whatever was there before. **MailboxIsAtomic**,
`Spec => AtomicCommands`: with the invariant, a doorbell decodes exactly the command at the head
of the holder's transaction (`DoorbellExecutesTheCommand`), which is `AtomicEc`'s `Execute`;
issuing a transaction is its `Submit`, an abort or a wait given up its `GiveUp`, and taking the
lock, releasing it and writing a register are stutters. No
refinement mapping is needed, as the abstract variables are among the concrete ones.

`Curve_proofs`, first for `CurveMath`: **NormalizeGivesACurve**, whatever list of points a client
sends, the empty one included, and **NormalizeKeepsACurve**, a valid curve comes back as it went in; and of
`DutyFor` over any valid curve and any temperature, **DutyRises** (never less when it is hotter) and
**DutyAtAPoint** (exact at the curve's own points, which needs that `round()` of a multiple is exact). The
sort is by rank, `Place`, which is shown to be a permutation; the reduction of a long list picks points of that
list; the five spaced points are followed one by one. No induction is needed, as a curve has five points. On `CurveEdit` with `EditIInv` (the curve in effect is the normal form of what was sent):
**EngineCurveIsValid**, **DutyRisesThroughThePoints**, **RestartsDoNotDrift** and
**TheEditorDrawsWhatIsDriven**; the last says that a point dragged within the editor's bounds gives a curve the
daemon keeps as drawn. On `ProfileEngine`: **EngineTypes**, **TheFloorHolds**, **TheFanKeepsUp**. The invariant
`FanInv` ties three things for each fan: a duty the engine believes in is the one told last; that duty lies
between what the curve asks at the temperature it settled at and the floor, if that is more (`Settled`); and
both that temperature and the latest one are within the hysteresis of the settled one, which gives the band of
twice `Hysteresis - 1`. **SpikesAreFiltered** is about one step: it counts the readings on each side of the lower
median. It asks for an odd window, as in the code; in an even one half the readings suffice.

`Gfan_proofs`, for any number of invocations and any duties: **TheModeFileIsHonest** and
**ScriptsTakeTurns** (no two invocations between `lock_ec` and the lock's release, by `OneHolds`). The
invariant adds what a holder has reached at each place (`Reached`: before it notes its duties every fan that follows
has been told them and no fan is one that never comes near), that only a pair of duties is ever set (`HasAPair`), and
that a fan that does not follow stays with the firmware (`DeafStays`). How many rounds a verification takes, and on
which reading it ends, does not matter to it.

`Desktop_proofs`, for `AppLifetime` with any number of events under way: **TheHoldIsCurrent**,
**NobodyIsStrandedEver**, **ClosingIsUpToDate**, **TheIconIsReal**. `Policies` states how hold, close policy, grace timer
and icon follow from one another after every handler. An icon that is believed in may be gone already;
`EndIsComing` says that then its end is in the queue and nothing behind it brings the icon back.

`Desktop_proofs`, for `CurvePage` with any curves and queues of any length:
**TheScreenIsWhatWeSend**, **AQuietPageIsHonest**, **TheLastCommandWins**. `NewsIsTrue` is the heart: the last news of
the daemon among the messages under way tells its state, and where there is none the client has it already
(`Reaches` follows the daemon's name through announcements out of order with its coming and going).
`AgreesInTheEnd` says that a page that differs from its client has something still to happen, and
`CommandOnItsWay` that the user's last command waits for its timer, is the last call on its way, or is in effect.

`Settings_proofs`, for any colours, brightnesses and number of invocations: **BacklightIsAsRemembered**,
**ClientsSeeTheDaemonsSettings**, **OnlyChoicesEverApplied** (an action property). Two invariants side by side.
For gkbd, `GkbdInv`: the lock is held exactly behind `lock_ec` (`OneHolds`), what the holder has driven is as it wants it
(`RunByHolder`), what it has not driven yet follows from its place in its script (`DrivenSoFar`), and what it has read
of the file behind the lock is still there (`KnownOfFile`), as is what an apply has read before it, unless it was
overtaken (`ApplyKnows`). So a script that rewrites the file has either driven an aspect itself or copies what the file
said of it. For the daemon, `DaemonInv`: what a call has driven so far is as it was asked, what it will not drive as it was
remembered (`CallDrives`); a start or resume sends what is remembered (`AppliesRemembered`); nothing is remembered,
saved or sent of what no client ever set (`NothingUnchosen`). Each keeps its own (`InvocationStep`; `EcCommandStep`
to `SuspendStep`), and neither disturbs the other's, since it touches only what it drives anew (`GkbdDrivesAnew`,
`DaemonDrivesAnew`).

`Controls_proofs`, for queues of any length: **TheSliderIsWhatWeSend**, **TheControlsAreHonest**,
**TheLastChoiceWins**. Two clients read one queue, the tray's a message ahead; `NewsIsTrue` therefore states for each of three
kinds of news (the daemon's arrivals, the backlight, turbo) that the last one each client has still to read is
true. The window's row may be ahead of the daemon, by a position that waits or by a call of its own;
`AgreesInTheEnd` says that otherwise it agrees. `ChoiceOnItsWay` says that whatever waits or follows the last choice
leaves it alone: a slider's position may follow a colour, but not a switch to off, since it switches the backlight on.
The two assumptions on `None` say that Python's `None` is neither a position nor a state.

Only model-checked: liveness, `ENABLED` and the fairness part of the
refinements, which the prover does not reach; and the properties of the configurations that show a finding, which are
false. No module uses RECURSIVE.

## 7. Not modelled, and the plan

Not modelled: the kernel's own EC driver, which races the `/dev/port` backend; how long polkit's
conversation blocks the daemon's main loop (its refusal is `Deny` in `FanDaemon`, a refused call in
`CurvePage`, `Controls` and `Gfan`); duties the EC may forget over suspend, of which the source says
nothing; telemetry conversion (its reads appear in `FanDaemon` as a read that may fail), the file system
below `rename`, look-up tables, error texts, drawing, and the installer's scripts. These keep no state
that another part acts on, or are outside the source.

Order of the work, the most important behaviour first:

1. the daemon's fan side, the engine, the curve arithmetic (done);
2. the mailbox with its abstract specification and refinement (done);
3. keyboard and turbo, application lifetime, curve page, the command-line tools (done);
4. the handshake under the mailbox, the brightness slider, turbo switch and tray menu, the abstract fan
   service and the daemon's refinement of it (done);
5. theorems: the invariants, action properties and refinements of every module (done, section 6).
