----------------------------- MODULE FanDaemon ------------------------------
(***************************************************************************)
(* The fan side of the gigactld service (daemon/gigactld/service.py with   *)
(* state.py and fans.py): D-Bus calls, the two-second tick, the watchdog   *)
(* that hands the fans back to the firmware, the saved state and the       *)
(* life of the process under systemd.                                      *)
(*                                                                         *)
(* Every handler runs on one GLib main loop and is one action.  Inside it  *)
(* EC commands go out in fan order and the first one refused ends the      *)
(* sequence, so a handler may have moved one fan and not the other.  What  *)
(* duty a curve asks for is left open (ProfileEngine computes it): a tick  *)
(* may ask for any level.                                                  *)
(***************************************************************************)
EXTENDS Integers, FiniteSets

CONSTANTS
    Builtins,       \* names of built-in profiles, each standing for its curve too
    Drawn,          \* curves clients draw
    Levels,         \* duties a fan can be told
    FailsafeAfter,  \* FAILSAFE_AFTER_TICKS
    Requests,       \* the kinds of D-Bus call made in this instance
    SaveMayFail,    \* may writing the state file fail?
    None            \* Python's None

FIRMWARE == "firmware"
CUSTOM == "custom"
MANUAL == "manual"
FAN_AUTO == "auto"
FANS == {1, 2}
READ_ONLY == "read-only"
OnBoth(x) == [f \in FANS |-> x]

RequestKinds == {"SetProfile", "SetCurve", "RestoreFirmware", "SetFanDuty", "BadArgs", "Setting"}

(* What state.snapshot can return. *)
Snapshots == [profile : {FIRMWARE, CUSTOM, MANUAL} \cup Builtins, linked : BOOLEAN,
              curves : [FANS -> Builtins \cup Drawn] \cup {None}]

ASSUME ParameterAssumption ==
    /\ FailsafeAfter \in Nat \ {0}
    /\ Requests \subseteq RequestKinds
    /\ SaveMayFail \in BOOLEAN
    /\ Builtins \cap {FIRMWARE, CUSTOM, MANUAL} = {}
    /\ None \notin Levels \cup {FAN_AUTO} /\ FAN_AUTO \notin Levels
    /\ None \notin [FANS -> Builtins \cup Drawn]
    /\ None \notin FANS \cup Snapshots \cup {"drive", "pending", "landed"}

VARIABLES
    phase,      \* "up"; "stopping" until ExecStopPost has run; "down"
    ec,         \* the EC: "ok", "flaky" (any access may fail), READ_ONLY
    fan,        \* what each fan does: FAN_AUTO (firmware curve) or a level
    eng,        \* the engine: profile, linked, curves and the duties it believes in
    wd,         \* the watchdog's fields of Daemon
    disk,       \* the fan part of state.json, or None
    bus,        \* what clients were last told: profile and EcStatus
    reply,      \* the reply of the last call, "none" after any other step
    wanted,     \* history: the fan choice the user last made
    behind,     \* history: a choice was made that no save has followed
    dark,       \* history: ticks in a row that left a driving profile without
                \* effect and an empty EcStatus
    refused     \* history: fans whose handback the EC refused while stopping

vars == <<phase, ec, fan, eng, wd, disk, bus, reply, wanted, behind, dark, refused>>
-----------------------------------------------------------------------------
(* The engine, as far as the service looks at it. *)

FreshEngine == [profile |-> FIRMWARE, linked |-> TRUE, curves |-> None, lastDuty |-> OnBoth(None)]

Driving(e) == e.profile \notin {FIRMWARE, MANUAL}

Selected(e, name, cs) == [e EXCEPT !.profile = name, !.curves = cs, !.lastDuty = OnBoth(None)]

EngineFirmware(e) == Selected(e, FIRMWARE, None)
EngineManual(e) == Selected(e, MANUAL, None)

(* set_profile with a name it accepts; "custom" needs curves to be there. *)
EngineProfile(e, name) ==
    IF name = FIRMWARE THEN EngineFirmware(e)
    ELSE IF name = CUSTOM THEN Selected(e, CUSTOM, e.curves)
    ELSE Selected(e, name, OnBoth(name))

KnownProfile(e, name) == name \in Builtins \cup {FIRMWARE} \/ (name = CUSTOM /\ e.curves # None)

(* Mutant: a linked edit that does not mirror. *)
EngineOneCurveUnmirrored(e, f, new, linked) ==
    LET kept == IF e.curves = None THEN OnBoth(new) ELSE e.curves
    IN  [Selected(e, CUSTOM, [kept EXCEPT ![f] = new]) EXCEPT !.linked = linked]

EngineOneCurve(e, f, new, linked) ==
    LET kept == IF e.curves = None THEN OnBoth(new) ELSE e.curves
    IN  [Selected(e, CUSTOM, IF linked THEN OnBoth(new) ELSE [kept EXCEPT ![f] = new])
         EXCEPT !.linked = linked]

EngineCustom(e, cs, linked) ==
    [Selected(e, CUSTOM, IF linked THEN OnBoth(cs[1]) ELSE cs) EXCEPT !.linked = linked]

RetryNextTick(e) == [e EXCEPT !.lastDuty = OnBoth(None)]

(* state.snapshot and state.restore *)
Snapshot(e) == [profile |-> e.profile, linked |-> e.linked, curves |-> e.curves]

Restored(e, data) ==
    CASE data.profile = CUSTOM -> EngineCustom(e, data.curves, data.linked)
      [] data.profile \in Builtins \cup {FIRMWARE} -> EngineProfile(e, data.profile)
      [] OTHER -> EngineFirmware(e)

-----------------------------------------------------------------------------
(* EC access. *)

(* The fan at which a sequence of commands over todo is refused, None if all land. *)
FirstRefused(todo) ==
    CASE ec = "ok" -> {None}
      [] ec = "flaky" -> todo \cup {None}
      [] ec = READ_ONLY -> {f \in todo : \A g \in todo : f <= g} \cup {x \in {None} : todo = {}}

ReadFails == IF ec = "flaky" THEN BOOLEAN ELSE {FALSE}

Landed(todo, x) == {f \in todo : x = None \/ f < x}

(* Mutant: the loop that hands the fans back stops after the first. *)
HandedBackCpuOnly(now, todo, x) == [now EXCEPT ![1] = IF 1 \in Landed(todo, x) THEN FAN_AUTO ELSE @]

(* fans.restore_auto over some fans, the first refusal ending it. *)
HandedBack(now, todo, x) == [f \in FANS |-> IF f \in Landed(todo, x) THEN FAN_AUTO ELSE now[f]]

(* _run_engine: the duties the curves may ask for now, the fans whose duty that *)
(* changes, and the engine and the fans after the write to fan x was refused     *)
(* (None if all landed).                                                         *)
Targets(e) == IF Driving(e) THEN [FANS -> Levels] ELSE {e.lastDuty}

Due(e, target) == {f \in FANS : Driving(e) /\ target[f] # e.lastDuty[f]}

(* Mutant: a refused write is not retried. *)
EngineRanBelieving(e, target, x) == IF Driving(e) THEN [e EXCEPT !.lastDuty = target] ELSE e

EngineRan(e, target, x) ==
    IF ~Driving(e) THEN e
    ELSE IF x # None THEN RetryNextTick(e) ELSE [e EXCEPT !.lastDuty = target]

FansRan(e, target, x) == [f \in FANS |-> IF f \in Landed(Due(e, target), x) THEN target[f] ELSE fan[f]]

-----------------------------------------------------------------------------
(* The watchdog. *)

FreshWatchdog ==
    [tripped |-> FALSE, restored |-> FALSE, failures |-> 0, fault |-> None, beforeTrip |-> None]

(* Mutants: the choice set aside by the trip is kept; the trip itself is. *)
RearmedKeepingChoice == [FreshWatchdog EXCEPT !.beforeTrip = wd.beforeTrip]
RearmedStillTripped ==
    [FreshWatchdog EXCEPT !.tripped = wd.tripped, !.restored = wd.restored,
                          !.beforeTrip = wd.beforeTrip]

Rearmed == FreshWatchdog

(* _resume_from_trip *)
Resumed == IF wd.beforeTrip = None THEN eng ELSE Restored(eng, wd.beforeTrip)

(* ec_status(): a read-only EC outranks the engine's fault. *)
Status(w) == IF ec = READ_ONLY THEN READ_ONLY ELSE w.fault

(* _note_tick_failure on engine e and watchdog w: does it count, does it trip? *)
Counts(e, w) == e.profile # FIRMWARE \/ w.tripped

(* Mutant: one failure too many. *)
TripsLate(e, w) == Counts(e, w) /\ ~w.tripped /\ w.failures >= FailsafeAfter

Trips(e, w) == Counts(e, w) /\ ~w.tripped /\ w.failures + 1 >= FailsafeAfter

AfterFailure(e, w) ==
    IF Trips(e, w)
    THEN [w EXCEPT !.tripped = TRUE, !.restored = FALSE, !.failures = FailsafeAfter,
                   !.beforeTrip = Snapshot(e)]
    ELSE IF Counts(e, w) /\ w.failures < FailsafeAfter
    THEN [w EXCEPT !.failures = @ + 1]      \* the count matters no more once tripped
    ELSE w

(* _try_restore_fans: did the handback of both fans land? *)
SomeHandbackLanded(back) == \E f \in FANS : back[f]     \* mutant
HandbackLanded(back) == \A f \in FANS : back[f]

(* Mutant: once tripped, never quiet again. *)
FailsafeStatusStuck(restored, reached) == IF restored THEN "landed" ELSE "pending"

(* _failsafe_status *)
FailsafeStatus(restored, reached) ==
    IF ~restored THEN "pending" ELSE IF reached THEN None ELSE "landed"

-----------------------------------------------------------------------------
(* Saving and announcing. *)

(* Mutant: what the trip left is saved. *)
ToSaveEngine(e, w) == Snapshot(e)

ToSave(e, w) == IF w.beforeTrip = None THEN Snapshot(e) ELSE w.beforeTrip

(* _persist: the new file replaces the old one, or the old one stays. *)
Persist ==
    \E saved \in IF SaveMayFail THEN BOOLEAN ELSE {TRUE} :
        /\ disk' = IF saved THEN ToSave(eng', wd') ELSE disk
        /\ behind' = ~saved

NotifyNothing == UNCHANGED bus      \* mutant
NotifyFanState == bus' = [bus EXCEPT !.profile = eng'.profile]

Chosen(e) == [profile |-> e.profile, curves |-> e.curves]

Up == phase = "up"

(* A call's error reply; it reports nothing to anyone else and saves nothing. *)
Refuse == reply' = "error" /\ UNCHANGED <<disk, bus>>

Succeed == reply' = "ok" /\ NotifyFanState /\ Persist

Init ==
    /\ phase = "down" /\ ec \in {"ok", "flaky", READ_ONLY}
    /\ fan = OnBoth(FAN_AUTO)
    /\ eng = FreshEngine /\ wd = FreshWatchdog
    /\ disk = None
    /\ bus = [profile |-> FIRMWARE, status |-> None]
    /\ reply = "none"
    /\ wanted = Chosen(FreshEngine) /\ behind = FALSE /\ dark = 0 /\ refused = {}

-----------------------------------------------------------------------------
(* D-Bus calls. *)

(* The user's choice, whatever the daemon makes of it. *)
WantProfile(name) ==
    wanted' = [profile |-> name,
               curves |-> IF name = FIRMWARE THEN None
                          ELSE IF name = CUSTOM THEN wanted.curves ELSE OnBoth(name)]

WantCurve(f, new, linked) ==
    wanted' = [profile |-> CUSTOM,
               curves |-> IF linked \/ wanted.curves = None THEN OnBoth(new)
                          ELSE [wanted.curves EXCEPT ![f] = new]]

(* The fans go back to the firmware, by SetProfile or RestoreFirmware: only a  *)
(* handback that landed rearms the watchdog, saves and announces.              *)
TakeFirmware(e) ==
    \E x \in FirstRefused(FANS) :
        /\ eng' = EngineFirmware(e)
        /\ fan' = HandedBack(fan, FANS, x)
        /\ IF x = None
           THEN wd' = Rearmed /\ Succeed /\ WantProfile(FIRMWARE)
           ELSE /\ Refuse
                /\ behind' = TRUE
                /\ IF wd.tripped THEN UNCHANGED <<wd, wanted>>
                   ELSE UNCHANGED wd /\ WantProfile(FIRMWARE)

(* A driving choice: rearm, then apply it at once (_apply_now).  A reading or a *)
(* write that fails refuses the call, with the engine already on the choice.    *)
TakeChoice(e) ==
    \E target \in Targets(e), unread \in ReadFails :
    \E x \in IF unread THEN {None} ELSE FirstRefused(Due(e, target)) :
        /\ eng' = IF unread THEN e ELSE EngineRan(e, target, x)
        /\ fan' = IF unread THEN fan ELSE FansRan(e, target, x)
        /\ wd' = [Rearmed EXCEPT !.fault = IF x = None THEN None ELSE "drive"]
        /\ IF unread \/ x # None THEN Refuse /\ behind' = TRUE ELSE Succeed

SetProfile ==
    /\ "SetProfile" \in Requests /\ Up
    /\ \E name \in Builtins \cup {FIRMWARE, CUSTOM} :
        /\ KnownProfile(Resumed, name)
        /\ IF name = FIRMWARE
           THEN TakeFirmware(Resumed)
           ELSE TakeChoice(EngineProfile(Resumed, name)) /\ WantProfile(name)
    /\ dark' = 0
    /\ UNCHANGED <<phase, ec, refused>>

SetCurve ==
    /\ "SetCurve" \in Requests /\ Up
    /\ \E f \in FANS, new \in Drawn, linked \in BOOLEAN :
        /\ TakeChoice(EngineOneCurve(Resumed, f, new, linked))
        /\ WantCurve(f, new, linked)
    /\ dark' = 0
    /\ UNCHANGED <<phase, ec, refused>>

RestoreFirmware ==
    /\ "RestoreFirmware" \in Requests /\ Up
    /\ TakeFirmware(eng)
    /\ dark' = 0
    /\ UNCHANGED <<phase, ec, refused>>

(* An unknown profile or curve name, or "custom" before any curve: the call is *)
(* refused after _resume_from_trip has given the engine its choice back.       *)
BadArgs ==
    /\ "BadArgs" \in Requests /\ Up
    /\ eng' = Resumed
    /\ Refuse
    /\ UNCHANGED <<phase, ec, fan, wd, wanted, behind, dark, refused>>

(* Some fan of the targets did not take the duty: all targets are handed back. *)
RevertDuty(targets, level) ==
    /\ ec = "flaky"
    /\ \E rejected \in SUBSET targets \ {{}}, y \in FirstRefused(targets) :
        LET told == [f \in FANS |-> IF f \in targets \ rejected THEN level ELSE fan[f]]
        IN  fan' = HandedBack(told, targets, y)
    /\ Refuse
    /\ UNCHANGED <<eng, wd, behind>>

(* A write was refused, or (x = None) reading the duties back failed. *)
LoseDuty(targets, level) ==
    /\ \E x \in FirstRefused(targets) :
        /\ x # None \/ TRUE \in ReadFails
        /\ fan' = [f \in FANS |-> IF f \in Landed(targets, x) THEN level ELSE fan[f]]
    /\ Refuse
    /\ UNCHANGED <<eng, wd, behind>>

(* All targets took the duty: the engine lets go, nothing is saved. *)
TakeDuty(targets, level) ==
    /\ None \in FirstRefused(targets)
    /\ fan' = [f \in FANS |-> IF f \in targets THEN level ELSE fan[f]]
    /\ eng' = EngineManual(eng)
    /\ wd' = Rearmed
    /\ NotifyFanState
    /\ reply' = "ok"
    /\ UNCHANGED <<disk, behind>>

SetFanDuty ==
    /\ "SetFanDuty" \in Requests /\ Up
    /\ \E targets \in {{1}, {2}, {1, 2}}, level \in Levels :
        TakeDuty(targets, level) \/ LoseDuty(targets, level) \/ RevertDuty(targets, level)
    /\ dark' = 0
    /\ UNCHANGED <<phase, ec, wanted, refused>>

(* The part of the keyboard and turbo calls that reaches this state: they save. *)
Setting ==
    /\ "Setting" \in Requests /\ Up
    /\ reply' = "ok"
    /\ UNCHANGED <<eng, wd>>
    /\ Persist
    /\ UNCHANGED <<phase, ec, fan, bus, wanted, dark, refused>>

(* polkit says no, or the arguments are out of range: nothing is touched. *)
Deny ==
    /\ Up
    /\ Refuse
    /\ UNCHANGED <<phase, ec, fan, eng, wd, wanted, behind, dark, refused>>

-----------------------------------------------------------------------------
(* The tick. *)

(* Has the profile an effect: does each fan do what the engine believes it does? *)
InEffect(e, now) == \A f \in FANS : e.lastDuty[f] # None /\ now[f] = e.lastDuty[f]

(* One tick of engine e and watchdog w, announcing against what `told` says: the *)
(* duties its curves ask for, whether reading the EC failed, the fan whose write *)
(* was refused, and for each fan whether a handback would land.                  *)
TickWith(e, w, told, target, unread, x, back) ==
    LET ran == IF unread THEN e ELSE EngineRan(e, target, x)
        driven == IF unread THEN fan ELSE FansRan(e, target, x)
        fault == IF unread THEN w.fault
                 ELSE IF x # None THEN "drive"
                 ELSE IF w.tripped THEN w.fault ELSE None
        failed == unread \/ (fault # None /\ ~w.tripped)
        tripping == failed /\ Trips(ran, w)
        noted == IF failed THEN AfterFailure(ran, w) ELSE [w EXCEPT !.failures = 0]
        handing == noted.tripped /\ ~noted.restored
        restored == noted.restored \/ (handing /\ HandbackLanded(back))
    IN  /\ ~handing => back = OnBoth(ec = "ok")     \* not asked
        /\ eng' = IF tripping THEN EngineFirmware(ran) ELSE ran
        /\ fan' = [f \in FANS |-> IF handing /\ back[f] THEN FAN_AUTO ELSE driven[f]]
        /\ wd' = [noted EXCEPT !.restored = restored,
                               !.fault = IF noted.tripped
                                         THEN FailsafeStatus(restored, ~failed)
                                         ELSE fault]
        /\ bus' = [profile |-> IF tripping THEN FIRMWARE ELSE told.profile,
                   status |-> Status(wd')]
        /\ dark' = IF Driving(eng') /\ bus'.status = None /\ ~InEffect(eng', fan')
                   THEN IF dark < FailsafeAfter THEN dark + 1 ELSE dark
                   ELSE 0
        /\ reply' = "none"

TickOn(e, w, told) ==
    \E target \in Targets(e), unread \in ReadFails :
    \E x \in IF unread THEN {None} ELSE FirstRefused(Due(e, target)),
       back \in [FANS -> IF ec = "flaky" THEN BOOLEAN ELSE {ec = "ok"}] :
        TickWith(e, w, told, target, unread, x, back)

Tick ==
    /\ Up
    /\ TickOn(eng, wd, bus)
    /\ UNCHANGED <<phase, ec, disk, wanted, behind, refused>>

-----------------------------------------------------------------------------
(* The process. *)

(* _on_bus_acquired: restore the saved choice, then tick at once.  Clients see *)
(* the name after that and read the properties.                                *)
Start ==
    /\ phase = "down"
    /\ phase' = "up"
    /\ LET e == IF disk = None THEN FreshEngine ELSE Restored(FreshEngine, disk)
       IN  /\ TickOn(e, FreshWatchdog, [bus EXCEPT !.profile = e.profile])
           /\ wanted' = Chosen(e)
    /\ behind' = FALSE /\ refused' = {}
    /\ UNCHANGED <<ec, disk>>

(* The process is gone and its memory with it; clients see the name vanish. *)
Gone ==
    /\ phase' = "stopping"
    /\ eng' = FreshEngine /\ wd' = FreshWatchdog
    /\ bus' = [profile |-> FIRMWARE, status |-> None]
    /\ reply' = "none" /\ dark' = 0
    /\ UNCHANGED <<ec, disk, wanted, behind>>

(* SIGTERM: _on_signal hands the fans back, up to the first one refused. *)
Terminate ==
    /\ Up
    /\ \E x \in FirstRefused(FANS) :
        /\ fan' = HandedBack(fan, FANS, x)
        /\ refused' = {f \in FANS : f = x}
    /\ Gone

(* A crash, or another instance taking the name. *)
Crash ==
    /\ Up
    /\ Gone
    /\ UNCHANGED <<fan, refused>>

(* ExecStopPost: gigactld --restore-firmware, which also stops at a refusal. *)
StopPost ==
    /\ phase = "stopping"
    /\ phase' = "down"
    /\ \E x \in FirstRefused(FANS) :
        /\ fan' = HandedBack(fan, FANS, x)
        /\ refused' = {f \in FANS : f = x \/ (f \in refused /\ fan'[f] # FAN_AUTO)}
    /\ UNCHANGED <<ec, eng, wd, disk, bus, reply, wanted, behind, dark>>

(* The EC resets to firmware defaults on power-cycle. *)
PowerCycle ==
    /\ phase' = "down"
    /\ fan' = OnBoth(FAN_AUTO)
    /\ eng' = FreshEngine /\ wd' = FreshWatchdog
    /\ bus' = [profile |-> FIRMWARE, status |-> None]
    /\ reply' = "none" /\ dark' = 0 /\ refused' = {}
    /\ UNCHANGED <<ec, disk, wanted, behind>>

(* The EC gets better or worse, or ec_sys is reloaded with or without writes. *)
EcChanges ==
    /\ ec' \in {"ok", "flaky", READ_ONLY} \ {ec}
    /\ reply' = "none"
    /\ UNCHANGED <<phase, fan, eng, wd, disk, bus, wanted, behind, dark, refused>>

Call == SetProfile \/ SetCurve \/ RestoreFirmware \/ BadArgs \/ SetFanDuty \/ Setting \/ Deny
Next == Call \/ Tick \/ Start \/ Terminate \/ Crash \/ StopPost \/ PowerCycle \/ EcChanges

Spec == Init /\ [][Next]_vars

(* The GLib timeout keeps firing while the process runs. *)
FairSpec == Spec /\ WF_vars(Tick)
-----------------------------------------------------------------------------
Choices == [profile : {FIRMWARE, CUSTOM, MANUAL} \cup Builtins,
            curves : [FANS -> Builtins \cup Drawn] \cup {None}]

TypeOK ==
    /\ phase \in {"up", "stopping", "down"}
    /\ ec \in {"ok", "flaky", READ_ONLY}
    /\ fan \in [FANS -> Levels \cup {FAN_AUTO}]
    /\ eng \in [profile : {FIRMWARE, CUSTOM, MANUAL} \cup Builtins, linked : BOOLEAN,
                curves : [FANS -> Builtins \cup Drawn] \cup {None},
                lastDuty : [FANS -> Levels \cup {None}]]
    /\ wd \in [tripped : BOOLEAN, restored : BOOLEAN, failures : 0 .. FailsafeAfter,
               fault : {None, "drive", "pending", "landed"}, beforeTrip : Snapshots \cup {None}]
    /\ disk \in Snapshots \cup {None}
    /\ bus \in [profile : {FIRMWARE, CUSTOM, MANUAL} \cup Builtins,
                status : {None, "drive", "pending", "landed", READ_ONLY}]
    /\ reply \in {"none", "ok", "error"}
    /\ wanted \in Choices
    /\ behind \in BOOLEAN
    /\ dark \in 0 .. FailsafeAfter
    /\ refused \subseteq FANS

(* "Tripping drops the profile to firmware at once ... claiming 'max' while     *)
(* nothing drives the fans is the #25 failure this watchdog exists to end": as  *)
(* long as the failsafe is tripped the engine drives nothing, and it is tripped *)
(* exactly as long as it holds a choice to go back to.                          *)
TrippedOnFirmware ==
    /\ wd.tripped => eng.profile = FIRMWARE
    /\ wd.tripped <=> wd.beforeTrip # None

(* decide() sends nothing when the duty has not changed, so a duty the engine   *)
(* believes in must be the one the fan really has: a write that failed halfway  *)
(* may never be taken for one that landed.                                      *)
BelievedDutyIsReal == \A f \in FANS : eng.lastDuty[f] # None => fan[f] = eng.lastDuty[f]

(* "A trip is not the user's choice; keep theirs": at any moment what a save    *)
(* would write is the choice the user last made, other half of a split curve    *)
(* included, and unless a call was refused or a save failed the file says so.   *)
SavesTheUsersChoice ==
    /\ Up => Chosen(ToSave(eng, wd)) = wanted
    /\ ~behind => wanted = IF disk = None THEN Chosen(FreshEngine) ELSE Chosen(disk)

(* A linked pair of curves is one curve, so restoring a snapshot as linked      *)
(* (state.restore passes one curve for both) never overwrites a second one.     *)
LinkedCurvesMirror ==
    \A s \in {Snapshot(eng), disk, wd.beforeTrip} :
        s # None /\ s.linked /\ s.curves # None => s.curves[1] = s.curves[2]

(* A driving profile that has no effect on the fans is not kept quiet: within   *)
(* FAILSAFE_AFTER_TICKS ticks it works, EcStatus says why not, or it is dropped.*)
NeverSilentForLong == dark < FailsafeAfter

(* Once both stop-time handbacks met no refusal, no fan is left at a duty.      *)
StopFreesTheFans == phase = "down" /\ refused = {} => fan = OnBoth(FAN_AUTO)

(* What the daemon promises its users (FanService): the choice is the one a    *)
(* save would write now, a process that is gone knows what its file says, and  *)
(* a fan is held as long as it is not the firmware's.                          *)
KeptChoice == Chosen(IF disk = None THEN FreshEngine ELSE disk)

CurrentChoice == IF Up THEN Chosen(ToSave(eng, wd)) ELSE KeptChoice

Driver ==
    CASE ~Up -> "nobody"
      [] Up /\ wd.tripped -> "failsafe"
      [] Up /\ ~wd.tripped /\ Driving(eng) -> "profile"
      [] Up /\ ~wd.tripped /\ ~Driving(eng) -> "firmware"

Held == {f \in FANS : fan[f] # FAN_AUTO}

Service == INSTANCE FanService WITH
    Choices <- [profile : {FIRMWARE, CUSTOM} \cup Builtins,
                curves : [FANS -> Builtins \cup Drawn] \cup {None}],
    FirmwareChoice <- Chosen(FreshEngine), Fans <- FANS,
    choice <- CurrentChoice, kept <- KeptChoice, driver <- Driver, held <- Held

KeepsItsPromises == Service!Spec

(* Clients learn of every profile change, except the one a refused call leaves. *)
OnlyARefusalGoesUntold ==
    [][/\ reply' = "ok" /\ eng' # eng => bus'.profile = eng'.profile
       /\ bus.profile = eng.profile /\ bus'.profile # eng'.profile => reply' = "error"]_vars

-----------------------------------------------------------------------------
EcRecovers == <>[](ec = "ok" /\ Up)

(* "The daemon keeps trying": once the EC answers again, a tripped daemon gets  *)
(* the fans to the firmware, unless the user takes control back first.          *)
HandbackLands == EcRecovers => []<>(wd.tripped => fan = OnBoth(FAN_AUTO))

(* Once the EC answers again, a driving profile is in effect again and again.   *)
ChoiceTakesEffect == EcRecovers => []<>(Driving(eng) => InEffect(eng, fan))

(* "A machine that is fixed while the daemon runs stops complaining on its own."*)
ComplaintsEnd == EcRecovers => <>[](bus.status = None)
-----------------------------------------------------------------------------
(* What comments, the unit file and the manual say and the code does not keep. *)

(* service.py: manual is "a transient override ... do NOT persist it; the last *)
(* real profile stays saved".                                                  *)
ManualIsNeverSaved == disk # None => disk.profile # MANUAL

(* service.py: a SetFanDuty that fails "can't strand a sibling in manual mode":*)
(* a refused call leaves no fan at a duty it was not at before.                *)
RefusedDutyStrandsNoFan ==
    [][Up /\ reply' = "error" /\ ~Driving(eng') => \A f \in FANS : fan'[f] \in {FAN_AUTO, fan[f]}]_vars

(* The introspection comment: EcStatus is "empty when the Embedded Controller  *)
(* is doing what it is told".  With the EC working, a quiet daemon on the      *)
(* firmware profile has its fans there.                                        *)
QuietMeansDone ==
    EcRecovers => []<>(eng.profile = FIRMWARE /\ bus.status = None => fan = OnBoth(FAN_AUTO))

(* _notify_properties: a running client "reflects state it did not set itself".*)
ClientsKnowTheProfile == Up => bus.profile = eng.profile

(* The unit and the manual: a stop leaves no fan "frozen at a stale manual     *)
(* duty".  Only a fan whose own handback the EC refused can be left at one.    *)
OneRefusalStrandsOneFan == phase = "down" => \A f \in FANS : fan[f] # FAN_AUTO => f \in refused
=============================================================================
