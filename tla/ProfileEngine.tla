--------------------------- MODULE ProfileEngine ----------------------------
(***************************************************************************)
(* ProfileEngine of daemon/gigactld/curve.py: the active profile, a curve  *)
(* per fan, and per fan the last readings, the temperature the curve last  *)
(* settled at and the duty last returned.  decide() turns a reading into   *)
(* the duty to apply, or into nothing when the duty does not change.       *)
(***************************************************************************)
EXTENDS CurveMath

CONSTANTS Hysteresis, Smoothing, FloorPct, FloorTemp,
          Names,        \* the built-in profiles in play
          Drawn,        \* the point lists clients send for a custom curve
          Temps,        \* the temperatures the EC may report
          Polled,       \* the fans the daemon polls in this instance
          None          \* Python's None

FIRMWARE == "firmware"
CUSTOM == "custom"
MANUAL == "manual"
CPU_FAN == 1
GPU_FAN == 2
FANS == {CPU_FAN, GPU_FAN}

ASSUME ParameterAssumption ==
    /\ Hysteresis \in Nat \ {0} /\ Smoothing \in Nat \ {0}
    /\ FloorPct \in 0 .. 100 /\ FloorTemp \in Nat
    /\ Temps \subseteq Nat
    /\ Names \subseteq DOMAIN PROFILES
    /\ Drawn \subseteq Seq(Int \X Int)
    /\ Polled \subseteq FANS
    /\ None \notin Nat /\ None \notin [FANS -> Seq(Int \X Int)] /\ None \notin [at : Nat, now : Nat]

VARIABLES
    profile,    \* engine.profile
    linked,     \* engine.linked
    curves,     \* engine._curves: a curve per fan, or None for the empty dict
    recent,     \* engine._recent: per fan the last Smoothing readings
    lastTemp,   \* engine._last_temp: where the curve last settled, or None
    lastDuty,   \* engine._last_duty: the duty last returned, or None
    told,       \* history: the last duty decide() returned for the fan since a choice
    hot,        \* history: was the CPU or the component hot at the fan's last poll?
    basis       \* history: [at, now]: the curve temperature the held target was
                \* computed for, and that of the last poll; None before a poll

vars == <<profile, linked, curves, recent, lastTemp, lastDuty, told, hot, basis>>
choice == <<profile, linked, curves>>
filter == <<recent, lastTemp, lastDuty>>
history == <<told, hot, basis>>

Driving == profile \notin {FIRMWARE, MANUAL}

OnBoth(x) == [f \in FANS |-> x]

Init ==
    /\ profile = FIRMWARE /\ linked = TRUE /\ curves = None
    /\ recent = OnBoth(<<>>) /\ lastTemp = OnBoth(None) /\ lastDuty = OnBoth(None)
    /\ told = OnBoth(None) /\ hot = OnBoth(FALSE) /\ basis = OnBoth(None)

(* _reset_state: readings taken under the old choice must not hold back the new one. *)
ResetState ==
    /\ recent' = OnBoth(<<>>) /\ lastTemp' = OnBoth(None) /\ lastDuty' = OnBoth(None)
    /\ told' = OnBoth(None) /\ hot' = OnBoth(FALSE) /\ basis' = OnBoth(None)

-----------------------------------------------------------------------------
(* The choices a user makes. *)

SetFirmware ==
    /\ profile' = FIRMWARE /\ curves' = None
    /\ UNCHANGED linked
    /\ ResetState

SetBuiltin(name) ==
    /\ profile' = name /\ curves' = OnBoth(PROFILES[name])
    /\ UNCHANGED linked
    /\ ResetState

(* set_profile("custom") raises while there is no curve: nothing changes. *)
SelectCustom ==
    /\ curves # None
    /\ profile' = CUSTOM
    /\ UNCHANGED <<linked, curves>>
    /\ ResetState

(* set_custom: the whole saved custom profile comes back after a restart. *)
SetCustom(cpu, gpu, lk) ==
    LET c == Normalize(cpu)
    IN  /\ profile' = CUSTOM /\ linked' = lk
        /\ curves' = [f \in FANS |-> IF f = CPU_FAN \/ lk THEN c ELSE Normalize(gpu)]
        /\ ResetState

(* set_one_curve: the other fan keeps its curve, or mirrors this one when linked. *)
Kept(f, new) == IF curves = None THEN new ELSE curves[f]
Edited(which, new, lk) == [f \in FANS |-> IF lk \/ f = which THEN new ELSE Kept(f, new)]

SetOneCurve(which, points, lk) ==
    /\ profile' = CUSTOM /\ linked' = lk
    /\ curves' = Edited(which, Normalize(points), lk)
    /\ ResetState

SetManual ==
    /\ profile' = MANUAL /\ curves' = None
    /\ UNCHANGED linked
    /\ ResetState

-----------------------------------------------------------------------------
(* decide() and its retry. *)

(* The deque of the last Smoothing readings; the first one stands in for all. *)
Pushed(window, t) ==
    IF window = <<>> THEN [i \in 1 .. Smoothing |-> t]
    ELSE [i \in 1 .. Smoothing |-> IF i < Smoothing THEN window[i + 1] ELSE t]

(* sorted(window)[(len - 1) // 2] *)
LowerMedian(window) ==
    LET atOrBelow(t) == Cardinality({i \in DOMAIN window : window[i] <= t})
        below(t) == Cardinality({i \in DOMAIN window : window[i] < t})
        rank == (Len(window) - 1) \div 2 + 1
    IN  CHOOSE t \in {window[i] : i \in DOMAIN window} : below(t) < rank /\ rank <= atOrBelow(t)

(* Mutant: no smoothing. *)
CurveTempLive(window, src) == src

(* Hot: the live reading at once; otherwise the smoothed one. *)
CurveTemp(window, src) == IF src >= FloorTemp THEN src ELSE LowerMedian(window)

Apart(s, t) == IF s >= t THEN s - t ELSE t - s

(* Mutant: the sign of the move matters. *)
MovedDown(f, ct) == lastTemp[f] = None \/ lastTemp[f] - ct >= Hysteresis

Moved(f, ct) == lastTemp[f] = None \/ Apart(ct, lastTemp[f]) >= Hysteresis

Fresh(f, ct) == Moved(f, ct) \/ lastDuty[f] = None

CurveTarget(f, ct) == IF Fresh(f, ct) THEN DutyFor(curves[f], ct) ELSE lastDuty[f]

(* Mutant: the floor looks at the fan's own component only. *)
TargetOwnHeat(f, ct, src, cpu) == ApplyFloor(CurveTarget(f, ct), src, FloorPct, FloorTemp)

Target(f, ct, src, cpu) == ApplyFloor(CurveTarget(f, ct), Larger(src, cpu), FloorPct, FloorTemp)

(* decide(): its result, None for "leave the fan alone", becomes told. *)
Decide(f, src, cpu) ==
    LET window == Pushed(recent[f], src)
        ct == CurveTemp(window, src)
        target == Target(f, ct, src, cpu)
    IN  /\ Driving
        /\ recent' = [recent EXCEPT ![f] = window]
        /\ lastTemp' = [lastTemp EXCEPT ![f] = IF Moved(f, ct) THEN ct ELSE @]
        /\ lastDuty' = [lastDuty EXCEPT ![f] = target]
        /\ told' = [told EXCEPT ![f] = IF target = lastDuty[f] THEN @ ELSE target]
        /\ hot' = [hot EXCEPT ![f] = Larger(src, cpu) >= FloorTemp]
        /\ basis' = [basis EXCEPT ![f] = [at |-> IF Fresh(f, ct) THEN ct ELSE @.at, now |-> ct]]
        /\ UNCHANGED choice

(* retry_next_tick: a write failed, so no duty counts as applied any more. *)
RetryNextTick ==
    /\ Driving
    /\ lastDuty' = OnBoth(None)
    /\ UNCHANGED <<choice, recent, lastTemp, history>>

(* The daemon polls the CPU fan with the CPU reading, the GPU fan with its own. *)
Poll == \E f \in Polled, src, cpu \in Temps : (f = CPU_FAN => cpu = src) /\ Decide(f, src, cpu)

Choose ==
    \/ SetFirmware
    \/ SetManual
    \/ SelectCustom
    \/ \E name \in Names : SetBuiltin(name)
    \/ \E cpu, gpu \in Drawn, lk \in BOOLEAN : SetCustom(cpu, gpu, lk)
    \/ \E f \in FANS, points \in Drawn, lk \in BOOLEAN : SetOneCurve(f, points, lk)

Next == Choose \/ Poll \/ RetryNextTick

Spec == Init /\ [][Next]_vars
-----------------------------------------------------------------------------
Duties == 0 .. 100

TypeOK ==
    /\ profile \in {FIRMWARE, CUSTOM, MANUAL} \cup Names
    /\ linked \in BOOLEAN
    /\ curves = None <=> profile \in {FIRMWARE, MANUAL}
    /\ \A f \in FANS :
        /\ recent[f] = <<>> \/ recent[f] \in [1 .. Smoothing -> Temps]
        /\ lastTemp[f] \in Temps \cup {None}
        /\ lastDuty[f] \in Duties \cup {None}

(* While the CPU or the fan's own component is at the floor temperature, the *)
(* fan has been told FloorPct or more, whatever the curve, the filter, the   *)
(* hysteresis and the retries say ("a fan can never sit below the floor      *)
(* while something is hot, even mid-hysteresis or mid-smoothing").           *)
FloorHolds == \A f \in FANS : hot[f] => told[f] # None /\ told[f] >= FloorPct

(* The band retries leave: a failed write forgets the duty and keeps the     *)
(* temperature, so the next target is computed off centre, and the drift it  *)
(* can add is one more band.                                                 *)
Slack == 2 * (Hysteresis - 1)

(* The fan keeps up with its curve: it is told no less than the curve asks   *)
(* for Slack degrees below the temperature the curve reads now, and no more  *)
(* than it asks for Slack degrees above, or the floor.                       *)
KeepsUpWithTheCurve ==
    \A f \in FANS : basis[f] # None =>
        /\ told[f] >= DutyFor(curves[f], basis[f].now - Slack)
        /\ told[f] <= Larger(DutyFor(curves[f], basis[f].now + Slack), FloorPct)

(* "A change must show in three of five ticks to move the curve": when a     *)
(* poll that finds nothing hot changes what a fan is told, more than half of *)
(* the last readings lie Hysteresis or more from where the curve had settled.*)
FarFrom(window, t) == {i \in DOMAIN window : Apart(window[i], t) >= Hysteresis}

SpikeFiltered ==
    [][\A f \in FANS :
          (/\ told[f] # None /\ told'[f] # None /\ told'[f] # told[f]
           /\ lastDuty[f] # None /\ ~hot'[f])
          => 2 * Cardinality(FarFrom(recent'[f], lastTemp[f])) > Smoothing]_vars

-----------------------------------------------------------------------------
(* What decide()'s docstring says and the code keeps only until a write is   *)
(* refused, or a reading is hot.                                             *)

(* "Hysteresis governs only the curve target (held across sub-4 C moves of   *)
(* that curve temperature)": the target held is that of a temperature less   *)
(* than Hysteresis away from the one the curve reads now.                    *)
HysteresisBand ==
    \A f \in FANS : basis[f] # None => Apart(basis[f].now, basis[f].at) < Hysteresis

(* The same docstring: the floor is not part of what hysteresis holds, so    *)
(* once nothing is hot the fan is back at its curve target.                  *)
FloorLetsGo ==
    \A f \in FANS : basis[f] # None /\ ~hot[f] => told[f] = DutyFor(curves[f], basis[f].at)
=============================================================================
