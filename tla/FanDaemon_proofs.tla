-------------------------- MODULE FanDaemon_proofs --------------------------
(***************************************************************************)
(* What holds of the fan daemon for every set of profiles, curves, duties, *)
(* calls and every length of the watchdog's patience.                      *)
(***************************************************************************)
EXTENDS FanDaemon, TLAPS

Profiles == {FIRMWARE, CUSTOM, MANUAL} \cup Builtins
CurvePairs == [FANS -> Builtins \cup Drawn]
Faults == {None, "drive", "pending", "landed"}

(* A choice has curves exactly when its profile drives the fans, and one curve *)
(* for both when it is linked.                                                 *)
Whole(s) == s.curves = None <=> s.profile \in {FIRMWARE, MANUAL}
Mirrored(s) == s.linked /\ s.curves # None => s.curves[1] = s.curves[2]

Engines == {e \in [profile : Profiles, linked : BOOLEAN, curves : CurvePairs \cup {None},
                   lastDuty : [FANS -> Levels \cup {None}]] : Whole(e) /\ Mirrored(e)}

Saved == {s \in Snapshots : Whole(s) /\ Mirrored(s)}

Watchdogs == [tripped : BOOLEAN, restored : BOOLEAN, failures : 0 .. FailsafeAfter,
              fault : Faults, beforeTrip : Saved \cup {None}]

-----------------------------------------------------------------------------
(* The engine's operations and the snapshot's round trip. *)

LEMMA FreshEngineIsOne == FreshEngine \in Engines
  BY DEF FreshEngine, Engines, Profiles, Whole, Mirrored, OnBoth, FANS

LEMMA SelectedIsOne ==
  ASSUME NEW e \in Engines, NEW name \in Profiles, NEW cs \in CurvePairs \cup {None},
         cs = None <=> name \in {FIRMWARE, MANUAL},
         e.linked /\ cs # None => cs[1] = cs[2]
  PROVE  Selected(e, name, cs) \in Engines
  BY DEF Selected, Engines, Profiles, CurvePairs, Whole, Mirrored, OnBoth, FANS

LEMMA SwitchedOffIsOne ==
  ASSUME NEW e \in Engines
  PROVE  EngineFirmware(e) \in Engines /\ EngineManual(e) \in Engines
  BY SelectedIsOne DEF EngineFirmware, EngineManual, Profiles, CurvePairs

LEMMA NamedIsOne ==
  ASSUME NEW e \in Engines, NEW name \in Builtins \cup {FIRMWARE, CUSTOM}, KnownProfile(e, name)
  PROVE  EngineProfile(e, name) \in Engines
<1>1. CASE name = FIRMWARE
  BY <1>1, SwitchedOffIsOne DEF EngineProfile
<1>2. CASE name = CUSTOM
  <2>1. e.curves \in CurvePairs /\ (e.linked => e.curves[1] = e.curves[2])
    BY <1>2, ParameterAssumption DEF KnownProfile, FIRMWARE, CUSTOM, Engines, Mirrored
  <2>2. CUSTOM \in Profiles /\ CUSTOM \notin {FIRMWARE, MANUAL} /\ None \notin CurvePairs
    BY ParameterAssumption DEF Profiles, CUSTOM, FIRMWARE, MANUAL, CurvePairs
  <2> QED
    BY <1>2, <2>1, <2>2, SelectedIsOne DEF EngineProfile
<1>3. CASE name \in Builtins \ {FIRMWARE, CUSTOM}
  <2>1. OnBoth(name) \in CurvePairs /\ OnBoth(name)[1] = OnBoth(name)[2]
    BY <1>3 DEF OnBoth, CurvePairs, FANS
  <2>2. name \in Profiles /\ name \notin {FIRMWARE, MANUAL} /\ None \notin CurvePairs
    BY <1>3, ParameterAssumption DEF Profiles, CUSTOM, FIRMWARE, MANUAL, CurvePairs
  <2> QED
    BY <1>3, <2>1, <2>2, SelectedIsOne DEF EngineProfile
<1> QED
  BY <1>1, <1>2, <1>3

LEMMA CustomisedIsOne ==
  ASSUME NEW e \in Engines, NEW cs \in CurvePairs, NEW linked \in BOOLEAN,
         linked => cs[1] = cs[2]
  PROVE  [Selected(e, CUSTOM, cs) EXCEPT !.linked = linked] \in Engines
<1> DEFINE sel == Selected(e, CUSTOM, cs)
           Loose == [profile : Profiles, linked : BOOLEAN, curves : CurvePairs \cup {None},
                     lastDuty : [FANS -> Levels \cup {None}]]
<1>1. sel \in Loose /\ sel.profile = CUSTOM /\ sel.curves = cs
  BY DEF Selected, Engines, Profiles, CurvePairs, OnBoth, FANS
<1>2. CUSTOM \notin {FIRMWARE, MANUAL} /\ cs # None
  BY ParameterAssumption DEF CUSTOM, FIRMWARE, MANUAL, CurvePairs
<1> HIDE DEF sel
<1>3. [sel EXCEPT !.linked = linked] \in Engines
  BY <1>1, <1>2 DEF Engines, Whole, Mirrored
<1> QED
  BY <1>3 DEF sel

LEMMA OneCurveIsOne ==
  ASSUME NEW e \in Engines, NEW f \in FANS, NEW new \in Drawn, NEW linked \in BOOLEAN
  PROVE  EngineOneCurve(e, f, new, linked) \in Engines
<1> DEFINE kept == IF e.curves = None THEN OnBoth(new) ELSE e.curves
           cs == IF linked THEN OnBoth(new) ELSE [kept EXCEPT ![f] = new]
<1>1. OnBoth(new) \in CurvePairs /\ OnBoth(new)[1] = OnBoth(new)[2]
  BY DEF OnBoth, CurvePairs, FANS
<1>2. kept \in CurvePairs
  BY <1>1 DEF Engines
<1>3. cs \in CurvePairs /\ (linked => cs[1] = cs[2])
  BY <1>1, <1>2 DEF CurvePairs
<1>4. EngineOneCurve(e, f, new, linked) = [Selected(e, CUSTOM, cs) EXCEPT !.linked = linked]
  BY DEF EngineOneCurve
<1> HIDE DEF cs
<1> QED
  BY <1>3, <1>4, CustomisedIsOne

LEMMA CustomIsOne ==
  ASSUME NEW e \in Engines, NEW pair \in CurvePairs, NEW linked \in BOOLEAN
  PROVE  EngineCustom(e, pair, linked) \in Engines
<1> DEFINE cs == IF linked THEN OnBoth(pair[1]) ELSE pair
<1>1. cs \in CurvePairs /\ (linked => cs[1] = cs[2])
  BY DEF OnBoth, CurvePairs, FANS
<1>2. EngineCustom(e, pair, linked) = [Selected(e, CUSTOM, cs) EXCEPT !.linked = linked]
  BY DEF EngineCustom
<1> HIDE DEF cs
<1> QED
  BY <1>1, <1>2, CustomisedIsOne

LEMMA SnapshotIsSaved ==
  ASSUME NEW e \in Engines
  PROVE  Snapshot(e) \in Saved
  BY DEF Snapshot, Saved, Snapshots, Engines, Profiles, CurvePairs, Whole, Mirrored

LEMMA RestoredIsOne ==
  ASSUME NEW e \in Engines, NEW s \in Saved
  PROVE  Restored(e, s) \in Engines
<1>1. CASE s.profile = CUSTOM
  <2>1. /\ s.curves \in CurvePairs /\ s.linked \in BOOLEAN
        /\ s.profile \notin Builtins \cup {FIRMWARE}
    BY <1>1, ParameterAssumption
       DEF Saved, Snapshots, Whole, CurvePairs, CUSTOM, FIRMWARE, MANUAL
  <2> QED
    BY <1>1, <2>1, CustomIsOne DEF Restored
<1>2. CASE s.profile \in Builtins \cup {FIRMWARE}
  <2>1. s.profile # CUSTOM /\ KnownProfile(e, s.profile)
    BY <1>2, ParameterAssumption DEF KnownProfile, CUSTOM, FIRMWARE
  <2> QED
    BY <1>2, <2>1, NamedIsOne DEF Restored
<1>3. CASE s.profile \notin Builtins \cup {FIRMWARE, CUSTOM}
  BY <1>3, SwitchedOffIsOne DEF Restored
<1> QED
  BY <1>1, <1>2, <1>3

-----------------------------------------------------------------------------
(* The inductive form of the type invariant: what a choice, a snapshot, the    *)
(* file and the watchdog's memory look like, not only their fields' ranges.    *)

Statuses == Faults \cup {READ_ONLY}
Buses == [profile : Profiles, status : Statuses]
FanStates == [FANS -> Levels \cup {FAN_AUTO}]

IInv ==
    /\ phase \in {"up", "stopping", "down"}
    /\ ec \in {"ok", "flaky", READ_ONLY}
    /\ fan \in FanStates
    /\ eng \in Engines
    /\ wd \in Watchdogs
    /\ disk \in Saved \cup {None}
    /\ bus \in Buses
    /\ reply \in {"none", "ok", "error"}
    /\ wanted \in Choices
    /\ behind \in BOOLEAN
    /\ dark \in 0 .. FailsafeAfter
    /\ refused \subseteq FANS

LEMMA IInvIsTypeOK == IInv => TypeOK /\ LinkedCurvesMirror
<1> SUFFICES ASSUME IInv PROVE TypeOK /\ LinkedCurvesMirror
  OBVIOUS
<1>1. eng \in [profile : Profiles, linked : BOOLEAN, curves : CurvePairs \cup {None},
               lastDuty : [FANS -> Levels \cup {None}]]
  BY DEF IInv, Engines
<1>2. Saved \subseteq Snapshots
  BY DEF Saved
<1>3. wd \in [tripped : BOOLEAN, restored : BOOLEAN, failures : 0 .. FailsafeAfter,
              fault : Faults, beforeTrip : Snapshots \cup {None}]
  BY <1>2 DEF IInv, Watchdogs
<1>4. TypeOK
  BY <1>1, <1>2, <1>3 DEF IInv, TypeOK, Profiles, CurvePairs, Faults, Statuses, Buses, FanStates
<1>5. ASSUME NEW s \in Saved, s.linked, s.curves # None
      PROVE  s.curves[1] = s.curves[2]
  BY <1>5 DEF Saved, Mirrored
<1>6. Snapshot(eng) \in Saved /\ disk \in Saved \cup {None} /\ wd.beforeTrip \in Saved \cup {None}
  BY SnapshotIsSaved DEF IInv, Watchdogs
<1>7. LinkedCurvesMirror
  BY <1>5, <1>6 DEF LinkedCurvesMirror
<1> QED
  BY <1>4, <1>7

LEMMA FreshWatchdogIsOne ==
  /\ FreshWatchdog \in Watchdogs
  /\ \A fault \in Faults : [Rearmed EXCEPT !.fault = fault] \in Watchdogs
<1>1. FreshWatchdog \in Watchdogs
  BY ParameterAssumption DEF FreshWatchdog, Watchdogs, Faults
<1> QED
  BY <1>1 DEF Rearmed, Watchdogs

LEMMA ChosenIsChoice ==
  ASSUME NEW e \in Engines PROVE Chosen(e) \in Choices
  BY DEF Chosen, Choices, Engines, Profiles, CurvePairs

LEMMA QuietBus == [profile |-> FIRMWARE, status |-> None] \in Buses
  BY DEF Buses, Statuses, Faults, Profiles

LEMMA FreeFans == OnBoth(FAN_AUTO) \in FanStates
  BY DEF OnBoth, FanStates

LEMMA InitIsIInv == Init => IInv
<1>1. Chosen(FreshEngine) \in Choices
  BY FreshEngineIsOne, ChosenIsChoice
<1>2. 0 \in 0 .. FailsafeAfter
  BY ParameterAssumption
<1> QED
  BY <1>1, <1>2, FreshEngineIsOne, FreshWatchdogIsOne, QuietBus, FreeFans DEF Init, IInv

LEMMA ResumedIsOne ==
  ASSUME IInv PROVE Resumed \in Engines
  BY RestoredIsOne DEF Resumed, IInv, Watchdogs

(* What a sequence of handbacks and a run of the engine leave.                 *)
LEMMA FansStayFans ==
  ASSUME NEW now \in FanStates, NEW todo, NEW x
  PROVE  HandedBack(now, todo, x) \in FanStates
  BY DEF HandedBack, FanStates

LEMMA RanIsOne ==
  ASSUME IInv, NEW e \in Engines, NEW target \in Targets(e), NEW x
  PROVE  EngineRan(e, target, x) \in Engines /\ FansRan(e, target, x) \in FanStates
<1>1. CASE ~Driving(e)
  <2>1. Due(e, target) = {}
    BY <1>1 DEF Due
  <2> QED
    BY <1>1, <2>1 DEF EngineRan, FansRan, Landed, IInv, FanStates
<1>2. CASE Driving(e)
  <2>1. target \in [FANS -> Levels]
    BY <1>2 DEF Targets
  <2>2. RetryNextTick(e) \in Engines
    BY DEF RetryNextTick, Engines, OnBoth, Whole, Mirrored
  <2>3. [e EXCEPT !.lastDuty = target] \in Engines
    BY <2>1 DEF Engines, Whole, Mirrored
  <2> QED
    BY <1>2, <2>1, <2>2, <2>3 DEF EngineRan, FansRan, IInv, FanStates
<1> QED
  BY <1>1, <1>2

LEMMA PersistSaves ==
  ASSUME IInv, eng' \in Engines, wd' \in Watchdogs, Persist
  PROVE  disk' \in Saved \cup {None} /\ behind' \in BOOLEAN
<1>1. ToSave(eng', wd') \in Saved
  BY SnapshotIsSaved DEF ToSave, Watchdogs
<1> QED
  BY <1>1 DEF Persist, IInv

LEMMA NotifiedIsBus ==
  ASSUME IInv, eng' \in Engines, NotifyFanState
  PROVE  bus' \in Buses
  BY DEF NotifyFanState, IInv, Buses, Engines

-----------------------------------------------------------------------------
(* Every step keeps it.                                                        *)

LEMMA WantedProfileIsChoice ==
  ASSUME IInv, NEW name \in Builtins \cup {FIRMWARE, CUSTOM}, WantProfile(name)
  PROVE  wanted' \in Choices
<1>1. OnBoth(name) \in CurvePairs \/ name \in {FIRMWARE, CUSTOM}
  BY DEF OnBoth, CurvePairs
<1> QED
  BY <1>1 DEF WantProfile, IInv, Choices, CurvePairs

LEMMA WantedCurveIsChoice ==
  ASSUME IInv, NEW f \in FANS, NEW new \in Drawn, NEW linked \in BOOLEAN, WantCurve(f, new, linked)
  PROVE  wanted' \in Choices
<1> DEFINE cs == IF linked \/ wanted.curves = None THEN OnBoth(new)
                 ELSE [wanted.curves EXCEPT ![f] = new]
<1>1. OnBoth(new) \in CurvePairs
  BY DEF OnBoth, CurvePairs
<1>2. wanted.curves \in CurvePairs \cup {None}
  BY DEF IInv, Choices, CurvePairs
<1>3. cs \in CurvePairs
  BY <1>1, <1>2 DEF CurvePairs
<1>4. wanted' = [profile |-> CUSTOM, curves |-> cs]
  BY DEF WantCurve
<1> HIDE DEF cs
<1> QED
  BY <1>3, <1>4 DEF Choices, CurvePairs

LEMMA TakeFirmwareKeepsIInv ==
  ASSUME IInv, NEW e \in Engines, TakeFirmware(e),
         UNCHANGED <<phase, ec, refused>>, dark' = 0
  PROVE  IInv'
<1>1. eng' \in Engines
  BY SwitchedOffIsOne DEF TakeFirmware
<1>2. fan' \in FanStates
  BY FansStayFans DEF TakeFirmware, IInv
<1>3. wd' \in Watchdogs /\ wanted' \in Choices
  BY FreshWatchdogIsOne, WantedProfileIsChoice DEF TakeFirmware, Rearmed, IInv
<1>4. /\ disk' \in Saved \cup {None} /\ behind' \in BOOLEAN
      /\ bus' \in Buses /\ reply' \in {"ok", "error"}
  BY <1>1, <1>3, PersistSaves, NotifiedIsBus DEF TakeFirmware, Succeed, Refuse, IInv
<1>5. 0 \in 0 .. FailsafeAfter
  BY ParameterAssumption
<1> QED
  BY <1>1, <1>2, <1>3, <1>4, <1>5 DEF IInv

LEMMA TakeChoiceKeepsIInv ==
  ASSUME IInv, NEW e \in Engines, TakeChoice(e), wanted' \in Choices,
         UNCHANGED <<phase, ec, refused>>, dark' = 0
  PROVE  IInv'
<1>1. PICK target \in Targets(e), unread \in ReadFails :
      \E x \in IF unread THEN {None} ELSE FirstRefused(Due(e, target)) :
        /\ eng' = IF unread THEN e ELSE EngineRan(e, target, x)
        /\ fan' = IF unread THEN fan ELSE FansRan(e, target, x)
        /\ wd' = [Rearmed EXCEPT !.fault = IF x = None THEN None ELSE "drive"]
        /\ IF unread \/ x # None THEN Refuse /\ behind' = TRUE ELSE Succeed
  BY DEF TakeChoice
<1>2. PICK x \in IF unread THEN {None} ELSE FirstRefused(Due(e, target)) :
        /\ eng' = IF unread THEN e ELSE EngineRan(e, target, x)
        /\ fan' = IF unread THEN fan ELSE FansRan(e, target, x)
        /\ wd' = [Rearmed EXCEPT !.fault = IF x = None THEN None ELSE "drive"]
        /\ IF unread \/ x # None THEN Refuse /\ behind' = TRUE ELSE Succeed
  BY <1>1
<1>3. eng' \in Engines /\ fan' \in FanStates
  BY <1>2, RanIsOne DEF IInv
<1>4. wd' \in Watchdogs
  BY <1>2, FreshWatchdogIsOne DEF Faults
<1>5. /\ disk' \in Saved \cup {None} /\ behind' \in BOOLEAN
      /\ bus' \in Buses /\ reply' \in {"ok", "error"}
  BY <1>2, <1>3, <1>4, PersistSaves, NotifiedIsBus DEF Succeed, Refuse, IInv
<1>6. 0 \in 0 .. FailsafeAfter
  BY ParameterAssumption
<1> QED
  BY <1>3, <1>4, <1>5, <1>6 DEF IInv

(* A failure noted, and the watchdog's report after the handback it asks for.  *)
LEMMA NotedIsOne ==
  ASSUME NEW e \in Engines, NEW w \in Watchdogs
  PROVE  AfterFailure(e, w) \in Watchdogs /\ [w EXCEPT !.failures = 0] \in Watchdogs
<1>1. Snapshot(e) \in Saved
  BY SnapshotIsSaved
<1>2. FailsafeAfter \in Nat /\ 0 \in 0 .. FailsafeAfter /\ FailsafeAfter \in 0 .. FailsafeAfter
  BY ParameterAssumption
<1>3. [w EXCEPT !.tripped = TRUE, !.restored = FALSE, !.failures = FailsafeAfter,
                !.beforeTrip = Snapshot(e)] \in Watchdogs
  BY <1>1, <1>2 DEF Watchdogs
<1>4. w.failures \in 0 .. FailsafeAfter
  BY DEF Watchdogs
<1>5. ASSUME w.failures < FailsafeAfter
      PROVE  [w EXCEPT !.failures = @ + 1] \in Watchdogs
  <2>1. w.failures + 1 \in 0 .. FailsafeAfter
    BY <1>2, <1>4, <1>5
  <2> QED
    BY <2>1 DEF Watchdogs
<1>6. AfterFailure(e, w) \in Watchdogs
  BY <1>3, <1>5 DEF AfterFailure
<1>7. [w EXCEPT !.failures = 0] \in Watchdogs
  BY <1>2 DEF Watchdogs
<1> QED
  BY <1>6, <1>7

LEMMA TickKeepsTypes ==
  ASSUME IInv, NEW e \in Engines, NEW w \in Watchdogs, NEW told \in Buses,
         TickOn(e, w, told)
  PROVE  /\ eng' \in Engines /\ fan' \in FanStates /\ wd' \in Watchdogs
         /\ bus'.profile \in Profiles /\ bus' = [profile |-> bus'.profile, status |-> Status(wd')]
         /\ dark' \in 0 .. FailsafeAfter /\ reply' = "none"
<1>1. PICK target \in Targets(e), unread \in ReadFails :
      \E x \in IF unread THEN {None} ELSE FirstRefused(Due(e, target)),
         back \in [FANS -> IF ec = "flaky" THEN BOOLEAN ELSE {ec = "ok"}] :
        TickWith(e, w, told, target, unread, x, back)
  BY DEF TickOn
<1>2. PICK x \in IF unread THEN {None} ELSE FirstRefused(Due(e, target)),
           back \in [FANS -> IF ec = "flaky" THEN BOOLEAN ELSE {ec = "ok"}] :
        TickWith(e, w, told, target, unread, x, back)
  BY <1>1
<1> DEFINE ran == IF unread THEN e ELSE EngineRan(e, target, x)
           driven == IF unread THEN fan ELSE FansRan(e, target, x)
           fault == IF unread THEN w.fault
                    ELSE IF x # None THEN "drive"
                    ELSE IF w.tripped THEN w.fault ELSE None
           failed == unread \/ (fault # None /\ ~w.tripped)
           tripping == failed /\ Trips(ran, w)
           noted == IF failed THEN AfterFailure(ran, w) ELSE [w EXCEPT !.failures = 0]
           handing == noted.tripped /\ ~noted.restored
           restored == noted.restored \/ (handing /\ HandbackLanded(back))
           report == IF noted.tripped THEN FailsafeStatus(restored, ~failed) ELSE fault
<1>3. /\ eng' = IF tripping THEN EngineFirmware(ran) ELSE ran
      /\ fan' = [f \in FANS |-> IF handing /\ back[f] THEN FAN_AUTO ELSE driven[f]]
      /\ wd' = [noted EXCEPT !.restored = restored, !.fault = report]
      /\ bus' = [profile |-> IF tripping THEN FIRMWARE ELSE told.profile, status |-> Status(wd')]
      /\ dark' = IF Driving(eng') /\ bus'.status = None /\ ~InEffect(eng', fan')
                 THEN IF dark < FailsafeAfter THEN dark + 1 ELSE dark
                 ELSE 0
      /\ reply' = "none"
  BY <1>2 DEF TickWith
<1>4. ran \in Engines /\ driven \in FanStates
  BY RanIsOne DEF IInv
<1>5. noted \in Watchdogs
  BY <1>4, NotedIsOne
<1>6. fault \in Faults
  BY DEF Watchdogs, Faults
<1>7. report \in Faults
  BY <1>6 DEF FailsafeStatus, Faults
<1>8. restored \in BOOLEAN
  BY <1>5 DEF Watchdogs, HandbackLanded
<1> HIDE DEF ran, driven, fault, failed, tripping, noted, handing, restored, report
<1>9. eng' \in Engines
  BY <1>3, <1>4, SwitchedOffIsOne
<1>10. fan' \in FanStates
  BY <1>3, <1>4 DEF FanStates
<1>11. wd' \in Watchdogs
  BY <1>3, <1>5, <1>7, <1>8 DEF Watchdogs
<1>12. bus'.profile \in Profiles /\ bus' = [profile |-> bus'.profile, status |-> Status(wd')]
  BY <1>3 DEF Buses, Profiles
<1>13. dark' \in 0 .. FailsafeAfter
  <2>1. dark \in 0 .. FailsafeAfter /\ FailsafeAfter \in Nat
    BY ParameterAssumption DEF IInv
  <2> QED
    BY <1>3, <2>1
<1> QED
  BY <1>3, <1>9, <1>10, <1>11, <1>12, <1>13

LEMMA TickKeepsIInv ==
  ASSUME IInv, NEW e \in Engines, NEW w \in Watchdogs, NEW told \in Buses, TickOn(e, w, told),
         phase' \in {"up", "stopping", "down"}, wanted' \in Choices,
         behind' \in BOOLEAN, refused' \subseteq FANS, UNCHANGED <<ec, disk>>
  PROVE  IInv'
<1>1. Status(wd') \in Statuses
  BY TickKeepsTypes DEF Status, Watchdogs, Statuses
<1>2. bus' \in Buses
  BY <1>1, TickKeepsTypes DEF Buses
<1> QED
  BY <1>2, TickKeepsTypes DEF IInv

LEMMA GoneKeepsIInv ==
  ASSUME IInv, fan' \in FanStates, refused' \subseteq FANS, Gone
  PROVE  IInv'
<1>1. 0 \in 0 .. FailsafeAfter
  BY ParameterAssumption
<1> QED
  BY <1>1, FreshEngineIsOne, FreshWatchdogIsOne, QuietBus DEF IInv, Gone

LEMMA SetFanDutyKeepsIInv ==
  ASSUME IInv, SetFanDuty
  PROVE  IInv'
<1>1. PICK targets \in {{1}, {2}, {1, 2}}, level \in Levels :
        TakeDuty(targets, level) \/ LoseDuty(targets, level) \/ RevertDuty(targets, level)
  BY DEF SetFanDuty
<1>2. fan' \in FanStates
  <2>1. CASE TakeDuty(targets, level)
    BY <2>1 DEF TakeDuty, FanStates, IInv
  <2>2. CASE LoseDuty(targets, level)
    BY <2>2 DEF LoseDuty, FanStates, IInv
  <2>3. CASE RevertDuty(targets, level)
    <3>1. PICK rejected \in SUBSET targets \ {{}}, y \in FirstRefused(targets) :
            fan' = HandedBack([f \in FANS |-> IF f \in targets \ rejected THEN level ELSE fan[f]],
                              targets, y)
      BY <2>3 DEF RevertDuty
    <3>2. [f \in FANS |-> IF f \in targets \ rejected THEN level ELSE fan[f]] \in FanStates
      BY DEF FanStates, IInv
    <3> QED
      BY <3>1, <3>2, FansStayFans
  <2> QED
    BY <1>1, <2>1, <2>2, <2>3
<1>3. /\ eng' \in Engines /\ wd' \in Watchdogs /\ disk' \in Saved \cup {None}
      /\ bus' \in Buses /\ reply' \in {"ok", "error"} /\ behind' \in BOOLEAN
  <2>1. CASE TakeDuty(targets, level)
    <3>1. eng' \in Engines /\ wd' \in Watchdogs
      BY <2>1, SwitchedOffIsOne, FreshWatchdogIsOne DEF TakeDuty, Rearmed, IInv
    <3>2. bus' \in Buses
      BY <2>1, <3>1, NotifiedIsBus DEF TakeDuty
    <3> QED
      BY <2>1, <3>1, <3>2 DEF TakeDuty, IInv
  <2>2. CASE LoseDuty(targets, level) \/ RevertDuty(targets, level)
    BY <2>2 DEF LoseDuty, RevertDuty, Refuse, IInv
  <2> QED
    BY <1>1, <2>1, <2>2
<1>4. 0 \in 0 .. FailsafeAfter
  BY ParameterAssumption
<1> QED
  BY <1>2, <1>3, <1>4 DEF SetFanDuty, IInv

LEMMA StepKeepsIInv == IInv /\ [Next]_vars => IInv'
<1> SUFFICES ASSUME IInv, [Next]_vars PROVE IInv'
  OBVIOUS
<1>1. CASE SetProfile
  <2>1. PICK name \in Builtins \cup {FIRMWARE, CUSTOM} :
          /\ KnownProfile(Resumed, name)
          /\ IF name = FIRMWARE
             THEN TakeFirmware(Resumed)
             ELSE TakeChoice(EngineProfile(Resumed, name)) /\ WantProfile(name)
    BY <1>1 DEF SetProfile
  <2>2. dark' = 0 /\ UNCHANGED <<phase, ec, refused>>
    BY <1>1 DEF SetProfile
  <2>3. EngineProfile(Resumed, name) \in Engines
    BY <2>1, ResumedIsOne, NamedIsOne
  <2> QED
    BY <2>1, <2>2, <2>3, ResumedIsOne, TakeFirmwareKeepsIInv, TakeChoiceKeepsIInv,
       WantedProfileIsChoice
<1>2. CASE SetCurve
  <2>1. PICK f \in FANS, new \in Drawn, linked \in BOOLEAN :
          TakeChoice(EngineOneCurve(Resumed, f, new, linked)) /\ WantCurve(f, new, linked)
    BY <1>2 DEF SetCurve
  <2>2. EngineOneCurve(Resumed, f, new, linked) \in Engines
    BY ResumedIsOne, OneCurveIsOne
  <2> QED
    BY <1>2, <2>1, <2>2, TakeChoiceKeepsIInv, WantedCurveIsChoice DEF SetCurve
<1>3. CASE RestoreFirmware
  <2>1. eng \in Engines
    BY DEF IInv
  <2> QED
    BY <1>3, <2>1, TakeFirmwareKeepsIInv DEF RestoreFirmware
<1>4. CASE BadArgs
  BY <1>4, ResumedIsOne DEF BadArgs, Refuse, IInv
<1>5. CASE SetFanDuty
  BY <1>5, SetFanDutyKeepsIInv
<1>6. CASE Setting
  <2>1. eng' \in Engines /\ wd' \in Watchdogs
    BY <1>6 DEF Setting, IInv
  <2>2. disk' \in Saved \cup {None} /\ behind' \in BOOLEAN
    BY <1>6, <2>1, PersistSaves DEF Setting
  <2> QED
    BY <1>6, <2>1, <2>2 DEF Setting, IInv
<1>7. CASE Deny
  BY <1>7 DEF Deny, Refuse, IInv
<1>8. CASE Tick
  <2>1. eng \in Engines /\ wd \in Watchdogs /\ bus \in Buses
    BY DEF IInv
  <2>2. /\ TickOn(eng, wd, bus) /\ phase' \in {"up", "stopping", "down"}
        /\ wanted' \in Choices /\ behind' \in BOOLEAN /\ refused' \subseteq FANS
        /\ UNCHANGED <<ec, disk>>
    BY <1>8 DEF Tick, IInv
  <2> QED
    BY <2>1, <2>2, TickKeepsIInv
<1>9. CASE Start
  <2> DEFINE e == IF disk = None THEN FreshEngine ELSE Restored(FreshEngine, disk)
             told == [bus EXCEPT !.profile = e.profile]
  <2>1. e \in Engines
    BY FreshEngineIsOne, RestoredIsOne DEF IInv
  <2>2. TickOn(e, FreshWatchdog, told) /\ wanted' = Chosen(e)
    BY <1>9 DEF Start
  <2>3. /\ phase' \in {"up", "stopping", "down"} /\ behind' \in BOOLEAN /\ refused' \subseteq FANS
        /\ UNCHANGED <<ec, disk>>
    BY <1>9 DEF Start
  <2> HIDE DEF e
  <2>4. told \in Buses
    BY <2>1 DEF Buses, Engines, IInv
  <2>5. wanted' \in Choices
    BY <2>1, <2>2, ChosenIsChoice
  <2> HIDE DEF told
  <2> QED
    BY <2>1, <2>2, <2>3, <2>4, <2>5, FreshWatchdogIsOne, TickKeepsIInv
<1>10. CASE Terminate
  <2>1. fan' \in FanStates /\ refused' \subseteq FANS
    BY <1>10, FansStayFans DEF Terminate, IInv
  <2> QED
    BY <1>10, <2>1, GoneKeepsIInv DEF Terminate
<1>11. CASE Crash
  BY <1>11, GoneKeepsIInv DEF Crash, IInv
<1>12. CASE StopPost
  <2>1. fan' \in FanStates /\ refused' \subseteq FANS
    BY <1>12, FansStayFans DEF StopPost, IInv
  <2> QED
    BY <1>12, <2>1 DEF StopPost, IInv
<1>13. CASE PowerCycle
  <2>1. 0 \in 0 .. FailsafeAfter
    BY ParameterAssumption
  <2> QED
    BY <1>13, <2>1, FreshEngineIsOne, FreshWatchdogIsOne, QuietBus, FreeFans DEF PowerCycle, IInv
<1>14. CASE EcChanges
  BY <1>14 DEF EcChanges, IInv
<1>15. CASE UNCHANGED vars
  BY <1>15 DEF vars, IInv
<1> QED
  BY <1>1, <1>2, <1>3, <1>4, <1>5, <1>6, <1>7, <1>8, <1>9, <1>10, <1>11, <1>12, <1>13, <1>14,
     <1>15 DEF Next, Call

(* For every set of names, curves, duties and calls: state keeps its shape, and *)
(* wherever a choice is kept (engine, file, watchdog) a linked pair of curves   *)
(* is one curve, so restoring or mirroring it overwrites nothing.               *)
THEOREM TypesAndLinkedCurves == Spec => [](TypeOK /\ LinkedCurvesMirror)
<1>1. Spec => []IInv
  BY InitIsIInv, StepKeepsIInv, PTL DEF Spec
<1> QED
  BY <1>1, IInvIsTypeOK, PTL

-----------------------------------------------------------------------------
(***************************************************************************)
(* What holds of the fan daemon as long as its clients make the calls the  *)
(* window and the tray make (no SetFanDuty, no malformed arguments), for   *)
(* every set of profiles, curves and duties and every threshold: the       *)
(* watchdog, the engine and the fans agree.                                *)
(***************************************************************************)

AppCallsOnly == Requests \cap {"SetFanDuty", "BadArgs"} = {}

Idle(e) == ~Driving(e) => e.lastDuty = OnBoth(None)
Believed(e, now) == \A f \in FANS : e.lastDuty[f] # None => now[f] = e.lastDuty[f]
Paired(e, w) == /\ w.tripped => e.profile = FIRMWARE
                /\ w.tripped <=> w.beforeTrip # None

(* The two properties, and what they rest on: an engine that drives nothing    *)
(* believes in no duty, and a process that is gone has an engine like that.    *)
Agree ==
    /\ Paired(eng, wd)
    /\ wd.tripped /\ wd.restored => fan = OnBoth(FAN_AUTO)
    /\ Believed(eng, fan)
    /\ Idle(eng)
    /\ ~Up => eng.profile = FIRMWARE

LEMMA AgreeIsSafe == Agree => TrippedOnFirmware /\ BelievedDutyIsReal
  BY DEF Agree, Paired, Believed, TrippedOnFirmware, BelievedDutyIsReal

-----------------------------------------------------------------------------
(* Engines just switched, started or run. *)

LEMMA SwitchedIsIdle ==
  ASSUME NEW e \in Engines, NEW name, NEW cs
  PROVE  /\ Selected(e, name, cs).lastDuty = OnBoth(None)
         /\ Selected(e, name, cs).profile = name
  BY DEF Selected, Engines

LEMMA FirmwareIsQuiet ==
  ASSUME NEW e \in Engines
  PROVE  EngineFirmware(e).profile = FIRMWARE /\ EngineFirmware(e).lastDuty = OnBoth(None)
  BY SwitchedIsIdle DEF EngineFirmware

LEMMA FreshIsQuiet == FreshEngine.profile = FIRMWARE /\ FreshEngine.lastDuty = OnBoth(None)
  BY DEF FreshEngine

LEMMA FreshWatchdogFields ==
  /\ FreshWatchdog.tripped = FALSE /\ FreshWatchdog.beforeTrip = None
  /\ \A fault : /\ [Rearmed EXCEPT !.fault = fault].tripped = FALSE
                /\ [Rearmed EXCEPT !.fault = fault].beforeTrip = None
  BY DEF FreshWatchdog, Rearmed

LEMMA NobodyBelieves ==
  ASSUME NEW e \in Engines, e.lastDuty = OnBoth(None), NEW now
  PROVE  Believed(e, now) /\ Idle(e)
  BY DEF Believed, Idle, OnBoth

(* A run of the engine: if it believed in real duties it still does. *)
LEMMA RanIsBelieved ==
  ASSUME IInv, NEW e \in Engines, Believed(e, fan), Idle(e),
         NEW target \in Targets(e), NEW x \in FirstRefused(Due(e, target))
  PROVE  /\ Believed(EngineRan(e, target, x), FansRan(e, target, x))
         /\ Idle(EngineRan(e, target, x))
         /\ EngineRan(e, target, x).profile = e.profile
         /\ ~Driving(e) => FansRan(e, target, x) = fan
<1>1. CASE ~Driving(e)
  <2>1. Due(e, target) = {}
    BY <1>1 DEF Due
  <2>2. FansRan(e, target, x) = fan
    BY <2>1 DEF FansRan, Landed, IInv, FanStates
  <2> QED
    BY <1>1, <2>2 DEF EngineRan
<1>2. CASE Driving(e) /\ x # None
  <2>1. EngineRan(e, target, x) = RetryNextTick(e)
    BY <1>2 DEF EngineRan
  <2>2. RetryNextTick(e).lastDuty = OnBoth(None) /\ RetryNextTick(e).profile = e.profile
    BY DEF RetryNextTick, Engines
  <2>3. RetryNextTick(e) \in Engines
    BY <2>1, RanIsOne
  <2> QED
    BY <1>2, <2>1, <2>2, <2>3, NobodyBelieves
<1>3. CASE Driving(e) /\ x = None
  <2>1. target \in [FANS -> Levels] /\ None \notin Levels
    BY <1>3, ParameterAssumption DEF Targets
  <2>2. EngineRan(e, target, x) = [e EXCEPT !.lastDuty = target]
    BY <1>3 DEF EngineRan
  <2>3. /\ [e EXCEPT !.lastDuty = target].lastDuty = target
        /\ [e EXCEPT !.lastDuty = target].profile = e.profile
    BY DEF Engines
  <2>4. Landed(Due(e, target), x) = Due(e, target)
    BY <1>3 DEF Landed
  <2>5. ASSUME NEW f \in FANS
        PROVE  FansRan(e, target, x)[f] = target[f]
    <3>1. CASE f \in Due(e, target)
      BY <2>4, <3>1 DEF FansRan
    <3>2. CASE f \notin Due(e, target)
      <4>1. target[f] = e.lastDuty[f] /\ target[f] # None
        BY <1>3, <2>1, <3>2 DEF Due
      <4> QED
        BY <2>4, <3>2, <4>1 DEF FansRan, Believed
    <3> QED
      BY <3>1, <3>2
  <2>6. Driving([e EXCEPT !.lastDuty = target])
    BY <1>3, <2>3 DEF Driving
  <2> QED
    BY <1>3, <2>2, <2>3, <2>5, <2>6 DEF Believed, Idle
<1> QED
  BY <1>1, <1>2, <1>3

-----------------------------------------------------------------------------
(* The calls. *)

LEMMA ResumedIsIdle ==
  ASSUME IInv, Agree
  PROVE  Idle(Resumed) /\ Believed(Resumed, fan)
<1>1. CASE wd.beforeTrip = None
  BY <1>1 DEF Resumed, Agree
<1>2. CASE wd.beforeTrip # None
  <2>1. wd.beforeTrip \in Saved /\ eng \in Engines
    BY <1>2 DEF IInv, Watchdogs
  <2>2. Restored(eng, wd.beforeTrip).lastDuty = OnBoth(None)
    <3>1. CASE wd.beforeTrip.profile = CUSTOM
      BY <2>1, <3>1, ParameterAssumption
         DEF Restored, EngineCustom, Selected, Engines, CUSTOM, FIRMWARE
    <3>2. CASE wd.beforeTrip.profile \in Builtins \cup {FIRMWARE}
      BY <2>1, <3>2, ParameterAssumption
         DEF Restored, EngineProfile, EngineFirmware, Selected, Engines, CUSTOM, FIRMWARE
    <3>3. CASE wd.beforeTrip.profile \notin Builtins \cup {FIRMWARE, CUSTOM}
      BY <2>1, <3>3 DEF Restored, EngineFirmware, Selected, Engines
    <3> QED
      BY <3>1, <3>2, <3>3
  <2> QED
    BY <1>2, <2>1, <2>2, ResumedIsOne, NobodyBelieves DEF Resumed
<1> QED
  BY <1>1, <1>2

LEMMA TakeFirmwareAgrees ==
  ASSUME IInv, Agree, Up, UNCHANGED phase, NEW e \in Engines, TakeFirmware(e)
  PROVE  Agree'
<1>1. eng' = EngineFirmware(e) /\ EngineFirmware(e) \in Engines
  BY SwitchedOffIsOne DEF TakeFirmware
<1>2. Believed(eng, fan)' /\ Idle(eng)' /\ eng'.profile = FIRMWARE
  BY <1>1, FirmwareIsQuiet, NobodyBelieves DEF Believed, Idle, Driving
<1>3. PICK x \in FirstRefused(FANS) :
        /\ fan' = HandedBack(fan, FANS, x)
        /\ wd' = IF x = None THEN Rearmed ELSE wd
  BY DEF TakeFirmware
<1>4. CASE x = None
  BY <1>2, <1>3, <1>4, FreshWatchdogFields DEF Agree, Paired, Rearmed, Up
<1>5. CASE x # None
  <2>1. fan = OnBoth(FAN_AUTO) => fan' = OnBoth(FAN_AUTO)
    BY <1>3 DEF HandedBack, OnBoth
  <2> QED
    BY <1>2, <1>3, <1>5, <2>1 DEF Agree, Paired, Up
<1> QED
  BY <1>4, <1>5

LEMMA TakeChoiceAgrees ==
  ASSUME IInv, Up, UNCHANGED phase, NEW e \in Engines, e.lastDuty = OnBoth(None), TakeChoice(e)
  PROVE  Agree'
<1>1. PICK target \in Targets(e), unread \in ReadFails :
      \E x \in IF unread THEN {None} ELSE FirstRefused(Due(e, target)) :
        /\ eng' = IF unread THEN e ELSE EngineRan(e, target, x)
        /\ fan' = IF unread THEN fan ELSE FansRan(e, target, x)
        /\ wd' = [Rearmed EXCEPT !.fault = IF x = None THEN None ELSE "drive"]
  BY DEF TakeChoice
<1>2. PICK x \in IF unread THEN {None} ELSE FirstRefused(Due(e, target)) :
        /\ eng' = IF unread THEN e ELSE EngineRan(e, target, x)
        /\ fan' = IF unread THEN fan ELSE FansRan(e, target, x)
        /\ wd' = [Rearmed EXCEPT !.fault = IF x = None THEN None ELSE "drive"]
  BY <1>1
<1>3. Believed(e, fan) /\ Idle(e)
  BY NobodyBelieves
<1>4. Believed(eng, fan)' /\ Idle(eng)'
  <2>1. CASE unread
    BY <1>2, <1>3, <2>1 DEF Believed, Idle, Driving
  <2>2. CASE ~unread
    <3>1. x \in FirstRefused(Due(e, target)) /\ eng' = EngineRan(e, target, x)
          /\ fan' = FansRan(e, target, x)
      BY <1>2, <2>2
    <3>2. Believed(eng', fan') /\ Idle(eng')
      BY <1>3, <3>1, RanIsBelieved
    <3> QED
      BY <3>2 DEF Believed, Idle, Driving
  <2> QED
    BY <2>1, <2>2
<1>5. wd'.tripped = FALSE /\ wd'.beforeTrip = None
  BY <1>2, FreshWatchdogFields
<1> QED
  BY <1>4, <1>5 DEF Agree, Paired, Up

LEMMA ChosenBelievesNothing ==
  ASSUME IInv
  PROVE  /\ \A name \in Builtins \cup {FIRMWARE, CUSTOM} :
               EngineProfile(Resumed, name).lastDuty = OnBoth(None)
         /\ \A f \in FANS, new \in Drawn, linked \in BOOLEAN :
               EngineOneCurve(Resumed, f, new, linked).lastDuty = OnBoth(None)
<1>1. Resumed \in Engines
  BY ResumedIsOne
<1>2. \A name \in Builtins \cup {FIRMWARE, CUSTOM} :
        EngineProfile(Resumed, name).lastDuty = OnBoth(None)
  BY <1>1, SwitchedIsIdle DEF EngineProfile, EngineFirmware
<1>3. ASSUME NEW f \in FANS, NEW new \in Drawn, NEW linked \in BOOLEAN
      PROVE  EngineOneCurve(Resumed, f, new, linked).lastDuty = OnBoth(None)
  BY <1>1 DEF EngineOneCurve, Selected, Engines
<1> QED
  BY <1>2, <1>3

-----------------------------------------------------------------------------
(* The tick. *)

LEMMA NotedKeepsPairs ==
  ASSUME NEW e \in Engines, NEW w \in Watchdogs, w.tripped <=> w.beforeTrip # None
  PROVE  /\ AfterFailure(e, w).tripped <=> AfterFailure(e, w).beforeTrip # None
         /\ AfterFailure(e, w).tripped <=> w.tripped \/ Trips(e, w)
         /\ Trips(e, w) => ~AfterFailure(e, w).restored
         /\ ~Trips(e, w) => AfterFailure(e, w).restored = w.restored
         /\ [w EXCEPT !.failures = 0].tripped = w.tripped
         /\ [w EXCEPT !.failures = 0].restored = w.restored
         /\ [w EXCEPT !.failures = 0].beforeTrip = w.beforeTrip
<1>1. Snapshot(e) # None
  BY SnapshotIsSaved, ParameterAssumption DEF Saved
<1> QED
  BY <1>1 DEF AfterFailure, Trips, Watchdogs

LEMMA TickAgrees ==
  ASSUME IInv, NEW e \in Engines, NEW w \in Watchdogs, NEW told, TickOn(e, w, told), phase' = "up",
         Paired(e, w), w.tripped /\ w.restored => fan = OnBoth(FAN_AUTO),
         Believed(e, fan), Idle(e)
  PROVE  Agree'
<1>1. PICK target \in Targets(e), unread \in ReadFails :
      \E x \in IF unread THEN {None} ELSE FirstRefused(Due(e, target)),
         back \in [FANS -> IF ec = "flaky" THEN BOOLEAN ELSE {ec = "ok"}] :
        TickWith(e, w, told, target, unread, x, back)
  BY DEF TickOn
<1>2. PICK x \in IF unread THEN {None} ELSE FirstRefused(Due(e, target)),
           back \in [FANS -> IF ec = "flaky" THEN BOOLEAN ELSE {ec = "ok"}] :
        TickWith(e, w, told, target, unread, x, back)
  BY <1>1
<1> DEFINE ran == IF unread THEN e ELSE EngineRan(e, target, x)
           driven == IF unread THEN fan ELSE FansRan(e, target, x)
           fault == IF unread THEN w.fault
                    ELSE IF x # None THEN "drive"
                    ELSE IF w.tripped THEN w.fault ELSE None
           failed == unread \/ (fault # None /\ ~w.tripped)
           tripping == failed /\ Trips(ran, w)
           noted == IF failed THEN AfterFailure(ran, w) ELSE [w EXCEPT !.failures = 0]
           handing == noted.tripped /\ ~noted.restored
           restored == noted.restored \/ (handing /\ HandbackLanded(back))
           report == IF noted.tripped THEN FailsafeStatus(restored, ~failed) ELSE fault
<1>3. /\ eng' = IF tripping THEN EngineFirmware(ran) ELSE ran
      /\ fan' = [f \in FANS |-> IF handing /\ back[f] THEN FAN_AUTO ELSE driven[f]]
      /\ wd' = [noted EXCEPT !.restored = restored, !.fault = report]
  BY <1>2 DEF TickWith
<1>4. /\ ran \in Engines /\ driven \in FanStates
      /\ Believed(ran, driven) /\ Idle(ran) /\ ran.profile = e.profile
      /\ ~Driving(e) => driven = fan
  <2>1. CASE unread
    BY <2>1 DEF IInv
  <2>2. CASE ~unread
    BY <2>2, RanIsOne, RanIsBelieved
  <2> QED
    BY <2>1, <2>2
<1>5. noted \in Watchdogs /\ (w.tripped <=> w.beforeTrip # None)
  BY <1>4, NotedIsOne DEF Paired
<1>6. /\ noted.tripped <=> noted.beforeTrip # None
      /\ noted.tripped <=> w.tripped \/ tripping
      /\ tripping => ~noted.restored
      /\ ~tripping => noted.restored = w.restored
  BY <1>4, <1>5, NotedKeepsPairs
<1>7. restored => noted.restored \/ (handing /\ \A f \in FANS : back[f])
  BY DEF HandbackLanded
<1> HIDE DEF ran, driven, fault, failed, tripping, noted, restored, report
<1>8. wd'.tripped = noted.tripped /\ wd'.beforeTrip = noted.beforeTrip /\ wd'.restored = restored
  BY <1>3, <1>5 DEF Watchdogs
<1>9. eng'.profile = (IF tripping THEN FIRMWARE ELSE e.profile) /\ Idle(eng')
  <2>1. CASE tripping
    BY <1>3, <1>4, <2>1, FirmwareIsQuiet DEF Idle
  <2>2. CASE ~tripping
    BY <1>3, <1>4, <2>2
  <2> QED
    BY <2>1, <2>2
<1>10. Paired(eng', wd')
  BY <1>6, <1>8, <1>9 DEF Paired
<1>11. Believed(eng', fan')
  <2>1. CASE handing
    <3>1. ~Driving(eng') /\ eng'.lastDuty = OnBoth(None)
      BY <1>6, <1>9, <2>1 DEF Paired, Driving, Idle
    <3> QED
      BY <3>1 DEF Believed, OnBoth
  <2>2. CASE ~handing
    <3>1. fan' = driven
      BY <1>3, <1>4, <2>2 DEF FanStates
    <3>2. CASE tripping
      BY <1>3, <1>4, <3>2, FirmwareIsQuiet DEF Believed, OnBoth
    <3> QED
      BY <1>3, <1>4, <3>1, <3>2
  <2> QED
    BY <2>1, <2>2
<1>12. wd'.tripped /\ wd'.restored => fan' = OnBoth(FAN_AUTO)
  <2> SUFFICES ASSUME wd'.tripped, wd'.restored PROVE fan' = OnBoth(FAN_AUTO)
    OBVIOUS
  <2>1. CASE handing
    BY <1>3, <1>7, <1>8, <2>1 DEF OnBoth
  <2>2. CASE ~handing
    <3>1. noted.tripped /\ noted.restored /\ w.tripped /\ w.restored
      BY <1>6, <1>8, <2>2
    <3>2. driven = fan /\ fan = OnBoth(FAN_AUTO)
      BY <1>4, <3>1 DEF Paired, Driving
    <3> QED
      BY <1>3, <2>2, <3>2 DEF OnBoth
  <2> QED
    BY <2>1, <2>2
<1> QED
  BY <1>9, <1>10, <1>11, <1>12 DEF Agree, Paired, Believed, Idle, Driving, Up

LEMMA GoneAgrees ==
  ASSUME Gone PROVE Agree'
  BY FreshIsQuiet, FreshWatchdogFields
     DEF Gone, Agree, Paired, Believed, Idle, Driving, Up, OnBoth

LEMMA InitAgrees == Init => Agree
  BY FreshIsQuiet, FreshWatchdogFields
     DEF Init, Agree, Paired, Believed, Idle, Driving, Up, OnBoth

(* A process that starts believes in no duty. *)
LEMMA StartedBelievesNothing ==
  ASSUME IInv, NEW e, e = IF disk = None THEN FreshEngine ELSE Restored(FreshEngine, disk)
  PROVE  e \in Engines /\ e.lastDuty = OnBoth(None)
<1>1. e \in Engines
  BY FreshEngineIsOne, RestoredIsOne DEF IInv
<1>2. e.lastDuty = OnBoth(None)
  <2>1. CASE disk = None
    BY <2>1, FreshIsQuiet
  <2>2. CASE disk # None
    <3>1. disk \in Saved
      BY <2>2 DEF IInv
    <3>2. CASE disk.profile = CUSTOM
      BY <2>2, <3>2, FreshEngineIsOne, ParameterAssumption
         DEF Restored, EngineCustom, Selected, Engines, CUSTOM, FIRMWARE
    <3>3. CASE disk.profile \in Builtins \cup {FIRMWARE}
      BY <2>2, <3>3, FreshEngineIsOne, ParameterAssumption
         DEF Restored, EngineProfile, EngineFirmware, Selected, Engines, CUSTOM, FIRMWARE
    <3>4. CASE disk.profile \notin Builtins \cup {FIRMWARE, CUSTOM}
      BY <2>2, <3>4, FreshEngineIsOne DEF Restored, EngineFirmware, Selected, Engines
    <3> QED
      BY <3>2, <3>3, <3>4
  <2> QED
    BY <2>1, <2>2
<1> QED
  BY <1>1, <1>2

LEMMA StepAgrees ==
  ASSUME AppCallsOnly, IInv, Agree, [Next]_vars
  PROVE  Agree'
<1>1. CASE SetProfile
  <2>1. PICK name \in Builtins \cup {FIRMWARE, CUSTOM} :
          /\ KnownProfile(Resumed, name)
          /\ IF name = FIRMWARE
             THEN TakeFirmware(Resumed)
             ELSE TakeChoice(EngineProfile(Resumed, name)) /\ WantProfile(name)
    BY <1>1 DEF SetProfile
  <2>2. Up /\ UNCHANGED phase
    BY <1>1 DEF SetProfile
  <2>3. EngineProfile(Resumed, name) \in Engines
    BY <2>1, ResumedIsOne, NamedIsOne
  <2> QED
    BY <2>1, <2>2, <2>3, ResumedIsOne, ChosenBelievesNothing, TakeFirmwareAgrees, TakeChoiceAgrees
<1>2. CASE SetCurve
  <2>1. PICK f \in FANS, new \in Drawn, linked \in BOOLEAN :
          TakeChoice(EngineOneCurve(Resumed, f, new, linked))
    BY <1>2 DEF SetCurve
  <2>2. EngineOneCurve(Resumed, f, new, linked) \in Engines
    BY ResumedIsOne, OneCurveIsOne
  <2> QED
    BY <1>2, <2>1, <2>2, ChosenBelievesNothing, TakeChoiceAgrees DEF SetCurve
<1>3. CASE RestoreFirmware
  BY <1>3, TakeFirmwareAgrees DEF RestoreFirmware, IInv
<1>4. CASE BadArgs \/ SetFanDuty
  BY <1>4 DEF AppCallsOnly, BadArgs, SetFanDuty
<1>5. CASE Setting \/ Deny \/ EcChanges \/ UNCHANGED vars
  BY <1>5 DEF Setting, Deny, EcChanges, vars, Agree, Paired, Believed, Idle, Driving, Up
<1>6. CASE Tick
  <2>1. /\ TickOn(eng, wd, bus) /\ phase' = "up" /\ eng \in Engines /\ wd \in Watchdogs
        /\ Paired(eng, wd) /\ Believed(eng, fan) /\ Idle(eng)
        /\ wd.tripped /\ wd.restored => fan = OnBoth(FAN_AUTO)
    BY <1>6 DEF Tick, Agree, IInv, Up
  <2> QED
    BY <2>1, TickAgrees
<1>7. CASE Start
  <2> DEFINE e == IF disk = None THEN FreshEngine ELSE Restored(FreshEngine, disk)
  <2>1. e \in Engines /\ e.lastDuty = OnBoth(None)
    BY StartedBelievesNothing
  <2>2. TickOn(e, FreshWatchdog, [bus EXCEPT !.profile = e.profile]) /\ phase' = "up"
    BY <1>7 DEF Start
  <2> HIDE DEF e
  <2>3. Believed(e, fan) /\ Idle(e)
    BY <2>1, NobodyBelieves
  <2>4. Paired(e, FreshWatchdog) /\ ~FreshWatchdog.tripped
    BY FreshWatchdogFields DEF Paired
  <2> QED
    BY <2>1, <2>2, <2>3, <2>4, FreshWatchdogIsOne, TickAgrees
<1>8. CASE Terminate \/ Crash
  BY <1>8, GoneAgrees DEF Terminate, Crash
<1>9. CASE StopPost
  <2>1. ~Up /\ ~Up' /\ UNCHANGED <<eng, wd>>
    BY <1>9 DEF StopPost, Up
  <2>2. eng.profile = FIRMWARE /\ eng.lastDuty = OnBoth(None)
    BY <2>1 DEF Agree, Idle, Driving
  <2>3. fan = OnBoth(FAN_AUTO) => fan' = OnBoth(FAN_AUTO)
    BY <1>9 DEF StopPost, HandedBack, OnBoth
  <2> QED
    BY <2>1, <2>2, <2>3 DEF Agree, Paired, Believed, Idle, Driving, OnBoth
<1>10. CASE PowerCycle
  BY <1>10, FreshIsQuiet, FreshWatchdogFields
     DEF PowerCycle, Agree, Paired, Believed, Idle, Driving, Up, OnBoth
<1> QED
  BY <1>1, <1>2, <1>3, <1>4, <1>5, <1>6, <1>7, <1>8, <1>9, <1>10 DEF Next, Call

(* The watchdog, the engine and the fans agree at any moment, with the window    *)
(* and the tray as the daemon's clients.                                         *)
THEOREM WatchdogAndFansAgree == AppCallsOnly => (Spec => [](IInv /\ Agree))
<1> SUFFICES ASSUME AppCallsOnly
             PROVE  Spec => [](IInv /\ Agree)
  OBVIOUS
<1>1. IInv /\ Agree /\ [Next]_vars => (IInv /\ Agree)'
  BY StepKeepsIInv, StepAgrees
<1> QED
  BY <1>1, InitIsIInv, InitAgrees, PTL DEF Spec

(* A tripped watchdog has dropped the profile and keeps the choice it dropped.   *)
THEOREM ATripDropsTheProfile == AppCallsOnly => (Spec => []TrippedOnFirmware)
  BY WatchdogAndFansAgree, AgreeIsSafe, PTL

(* No duty the engine takes for sent differs from what the fan does, whatever    *)
(* writes were refused.                                                          *)
THEOREM BeliefsAreReal == AppCallsOnly => (Spec => []BelievedDutyIsReal)
  BY WatchdogAndFansAgree, AgreeIsSafe, PTL
-----------------------------------------------------------------------------
(* Silence. *)

(* Every tick of silence was counted as a failure, and the watchdog, short of    *)
(* its limit, has not tripped.                                                   *)
Counted ==
    /\ dark <= wd.failures
    /\ ~wd.tripped => wd.failures < FailsafeAfter
    /\ wd.tripped => dark = 0
    /\ ~Up => dark = 0

LEMMA CountedIsHeard == ASSUME IInv, Counted PROVE NeverSilentForLong
<1>1. dark \in Nat /\ wd.failures \in Nat /\ FailsafeAfter \in Nat \ {0}
  BY ParameterAssumption DEF IInv, Watchdogs
<1> QED BY <1>1 DEF Counted, NeverSilentForLong

(* A choice ends the silence, and a watchdog it rearms has counted nothing.      *)
LEMMA ChoiceIsHeard ==
  ASSUME IInv, Counted, dark' = 0, Up, Up',
         NEW e, TakeFirmware(e) \/ TakeChoice(e)
  PROVE  Counted'
<1>1. wd' = wd \/ (wd'.tripped = FALSE /\ wd'.failures = 0)
  BY DEF TakeFirmware, TakeChoice, Rearmed, FreshWatchdog
<1>2. FailsafeAfter \in Nat \ {0} /\ wd.failures \in Nat
  BY ParameterAssumption DEF IInv, Watchdogs
<1>3. CASE wd' = wd
  BY <1>2, <1>3 DEF Counted
<1>4. CASE wd'.tripped = FALSE /\ wd'.failures = 0
  BY <1>2, <1>4 DEF Counted
<1> QED BY <1>1, <1>3, <1>4

LEMMA NotedCounts ==
  ASSUME NEW e \in Engines, NEW w \in Watchdogs, ~w.tripped => w.failures < FailsafeAfter
  PROVE  /\ ~AfterFailure(e, w).tripped => AfterFailure(e, w).failures < FailsafeAfter
         /\ ~w.tripped /\ e.profile # FIRMWARE /\ ~Trips(e, w) =>
               AfterFailure(e, w).failures = w.failures + 1
         /\ [w EXCEPT !.failures = 0].failures = 0
         /\ 0 < FailsafeAfter
  BY ParameterAssumption DEF AfterFailure, Trips, Counts, Watchdogs

(* A tick that leaves a driving profile silent and without effect could not read *)
(* the EC, and counts that.                                                      *)
LEMMA TickIsHeard ==
  ASSUME IInv, NEW e \in Engines, NEW w \in Watchdogs, NEW told, TickOn(e, w, told), Up',
         Paired(e, w), Believed(e, fan), Idle(e),
         dark <= w.failures, ~w.tripped => w.failures < FailsafeAfter
  PROVE  Counted'
<1>1. PICK target \in Targets(e), unread \in ReadFails :
      \E x \in IF unread THEN {None} ELSE FirstRefused(Due(e, target)),
         back \in [FANS -> IF ec = "flaky" THEN BOOLEAN ELSE {ec = "ok"}] :
        TickWith(e, w, told, target, unread, x, back)
  BY DEF TickOn
<1>2. PICK x \in IF unread THEN {None} ELSE FirstRefused(Due(e, target)),
           back \in [FANS -> IF ec = "flaky" THEN BOOLEAN ELSE {ec = "ok"}] :
        TickWith(e, w, told, target, unread, x, back)
  BY <1>1
<1> DEFINE ran == IF unread THEN e ELSE EngineRan(e, target, x)
           driven == IF unread THEN fan ELSE FansRan(e, target, x)
           fault == IF unread THEN w.fault
                    ELSE IF x # None THEN "drive"
                    ELSE IF w.tripped THEN w.fault ELSE None
           failed == unread \/ (fault # None /\ ~w.tripped)
           tripping == failed /\ Trips(ran, w)
           noted == IF failed THEN AfterFailure(ran, w) ELSE [w EXCEPT !.failures = 0]
           handing == noted.tripped /\ ~noted.restored
           restored == noted.restored \/ (handing /\ HandbackLanded(back))
           report == IF noted.tripped THEN FailsafeStatus(restored, ~failed) ELSE fault
           silent == Driving(eng') /\ bus'.status = None /\ ~InEffect(eng', fan')
<1>3. /\ eng' = IF tripping THEN EngineFirmware(ran) ELSE ran
      /\ fan' = [f \in FANS |-> IF handing /\ back[f] THEN FAN_AUTO ELSE driven[f]]
      /\ wd' = [noted EXCEPT !.restored = restored, !.fault = report]
      /\ dark' = IF silent THEN IF dark < FailsafeAfter THEN dark + 1 ELSE dark ELSE 0
  BY <1>2 DEF TickWith
<1>4. /\ ran \in Engines /\ driven \in FanStates
      /\ ran.profile = e.profile /\ Believed(ran, driven)
      /\ ~unread /\ x = None /\ Driving(e) => ran.lastDuty = target /\ target \in [FANS -> Levels]
  <2>1. CASE unread
    BY <2>1 DEF IInv
  <2>2. CASE ~unread
    <3>1. Driving(e) => target \in [FANS -> Levels]
      BY DEF Targets
    <3>2. x = None /\ Driving(e) => EngineRan(e, target, x).lastDuty = target
      BY DEF EngineRan, Engines
    <3> QED BY <2>2, <3>1, <3>2, RanIsOne, RanIsBelieved
  <2> QED BY <2>1, <2>2
<1>5. noted \in Watchdogs
  BY <1>4, NotedIsOne
<1>6. noted.tripped <=> w.tripped \/ tripping
  BY <1>4, NotedKeepsPairs DEF Paired
<1>7. /\ ~noted.tripped => noted.failures < FailsafeAfter
      /\ failed /\ ~w.tripped /\ e.profile # FIRMWARE /\ ~tripping => noted.failures = w.failures + 1
  BY <1>4, NotedCounts
<1>8. ~failed /\ ~w.tripped => ~unread /\ x = None
  <2>1. None # "drive"
    BY ParameterAssumption
  <2> QED BY <2>1
<1>9. tripping => ~Driving(eng')
  BY <1>3, <1>4, FirmwareIsQuiet DEF Driving
<1> HIDE DEF ran, driven, fault, failed, tripping, noted, restored, report
<1>10. wd'.tripped = noted.tripped /\ wd'.failures = noted.failures
  BY <1>3, <1>5 DEF Watchdogs
<1>11. noted.failures \in Nat /\ w.failures \in Nat /\ dark \in Nat /\ FailsafeAfter \in Nat
  BY <1>5, ParameterAssumption DEF Watchdogs, IInv
<1>12. ASSUME silent PROVE ~noted.tripped /\ dark' <= noted.failures
  <2>1. ~tripping /\ Driving(e) /\ eng' = ran
    BY <1>3, <1>4, <1>9, <1>12 DEF Driving
  <2>2. ~w.tripped /\ e.profile # FIRMWARE
    BY <2>1 DEF Paired, Driving
  <2>3. ~noted.tripped /\ fan' = driven
    BY <1>3, <1>4, <1>6, <2>1, <2>2 DEF FanStates
  <2>4. failed
    <3> SUFFICES ASSUME ~failed PROVE FALSE
      OBVIOUS
    <3>1. ran.lastDuty = target /\ target \in [FANS -> Levels]
      BY <1>4, <1>8, <2>1, <2>2
    <3>2. \A f \in FANS : ran.lastDuty[f] # None
      BY <3>1, ParameterAssumption
    <3>3. InEffect(eng', fan')
      BY <1>4, <2>1, <2>3, <3>2 DEF InEffect, Believed
    <3> QED BY <1>12, <3>3
  <2>5. noted.failures = w.failures + 1
    BY <1>7, <2>1, <2>2, <2>4
  <2> QED BY <1>3, <1>11, <2>3, <2>5
<1>13. ~silent => dark' = 0
  BY <1>3
<1> HIDE DEF silent
<1> QED BY <1>7, <1>10, <1>11, <1>12, <1>13 DEF Counted

LEMMA StepIsHeard ==
  ASSUME AppCallsOnly, IInv, Agree, Counted, [Next]_vars
  PROVE  Counted'
<1>1. CASE SetProfile \/ SetCurve \/ RestoreFirmware
  <2>1. Up /\ Up' /\ dark' = 0 /\ \E e : TakeFirmware(e) \/ TakeChoice(e)
    BY <1>1 DEF SetProfile, SetCurve, RestoreFirmware, Up
  <2> QED BY <2>1, ChoiceIsHeard
<1>2. CASE BadArgs \/ SetFanDuty
  BY <1>2 DEF AppCallsOnly, BadArgs, SetFanDuty
<1>3. CASE Setting \/ Deny \/ EcChanges \/ UNCHANGED vars
  BY <1>3 DEF Setting, Deny, EcChanges, vars, Counted, Up
<1>4. CASE Tick
  <2>1. /\ TickOn(eng, wd, bus) /\ Up' /\ eng \in Engines /\ wd \in Watchdogs
        /\ Paired(eng, wd) /\ Believed(eng, fan) /\ Idle(eng)
        /\ dark <= wd.failures /\ (~wd.tripped => wd.failures < FailsafeAfter)
    BY <1>4 DEF Tick, Agree, IInv, Up, Counted
  <2> QED BY <2>1, TickIsHeard
<1>5. CASE Start
  <2> DEFINE e == IF disk = None THEN FreshEngine ELSE Restored(FreshEngine, disk)
  <2>1. /\ TickOn(e, FreshWatchdog, [bus EXCEPT !.profile = e.profile]) /\ ~Up /\ Up'
        /\ e \in Engines /\ e.lastDuty = OnBoth(None)
    BY <1>5, StartedBelievesNothing DEF Start, Up
  <2> HIDE DEF e
  <2>2. Believed(e, fan) /\ Idle(e) /\ Paired(e, FreshWatchdog)
    BY <2>1, NobodyBelieves, FreshWatchdogFields DEF Paired
  <2>3. dark = 0 /\ FreshWatchdog.failures = 0 /\ FailsafeAfter \in Nat \ {0}
    BY <2>1, ParameterAssumption DEF Counted, FreshWatchdog
  <2>4. dark <= FreshWatchdog.failures /\ FreshWatchdog.failures < FailsafeAfter
    BY <2>3
  <2> QED BY <2>1, <2>2, <2>4, FreshWatchdogIsOne, TickIsHeard
<1>6. CASE Terminate \/ Crash \/ PowerCycle
  <2>1. dark' = 0 /\ wd' = FreshWatchdog
    BY <1>6 DEF Terminate, Crash, PowerCycle, Gone
  <2>2. wd'.failures = 0 /\ FailsafeAfter \in Nat \ {0}
    BY <2>1, ParameterAssumption DEF FreshWatchdog
  <2> QED BY <2>1, <2>2 DEF Counted
<1>7. CASE StopPost
  BY <1>7 DEF StopPost, Counted, Up
<1> QED
  BY <1>1, <1>2, <1>3, <1>4, <1>5, <1>6, <1>7 DEF Next, Call

(* With the window and the tray as clients: a driving profile that has no effect *)
(* works, is complained about or is dropped within FAILSAFE_AFTER_TICKS ticks.   *)
THEOREM SilenceIsShort == AppCallsOnly => (Spec => []NeverSilentForLong)
<1> SUFFICES ASSUME AppCallsOnly
             PROVE  Spec => []NeverSilentForLong
  OBVIOUS
<1>1. IInv /\ Agree /\ Counted /\ [Next]_vars => (IInv /\ Agree /\ Counted)'
  BY StepKeepsIInv, StepAgrees, StepIsHeard
<1>2. Init => Counted
  <2>1. FreshWatchdog.failures = 0 /\ FreshWatchdog.tripped = FALSE /\ FailsafeAfter \in Nat \ {0}
    BY ParameterAssumption DEF FreshWatchdog
  <2> QED BY <2>1 DEF Init, Counted
<1>3. IInv /\ Counted => NeverSilentForLong
  BY CountedIsHeard
<1> QED
  BY <1>1, <1>2, <1>3, InitIsIInv, InitAgrees, PTL DEF Spec
-----------------------------------------------------------------------------
(* Stopping. *)

LEMMA AllHandedBack ==
  ASSUME NEW now PROVE HandedBack(now, FANS, None) = OnBoth(FAN_AUTO)
  BY DEF HandedBack, Landed, OnBoth

LEMMA StepFreesTheFans ==
  ASSUME IInv, StopFreesTheFans, [Next]_vars
  PROVE  StopFreesTheFans'
<1>1. CASE Call \/ Tick \/ Start
  BY <1>1 DEF Call, SetProfile, SetCurve, RestoreFirmware, BadArgs, SetFanDuty, Setting, Deny,
              Tick, Start, Up, StopFreesTheFans
<1>2. CASE Terminate \/ Crash
  BY <1>2 DEF Terminate, Crash, Gone, StopFreesTheFans
<1>3. CASE StopPost
  <2>1. PICK x \in FirstRefused(FANS) :
          /\ fan' = HandedBack(fan, FANS, x)
          /\ refused' = {f \in FANS : f = x \/ (f \in refused /\ fan'[f] # FAN_AUTO)}
    BY <1>3 DEF StopPost
  <2>2. CASE x = None
    BY <2>1, <2>2, AllHandedBack DEF StopFreesTheFans
  <2>3. CASE x # None
    <3>1. x \in FANS
      BY <2>3, <2>1 DEF FirstRefused, IInv
    <3> QED
      BY <2>1, <3>1 DEF StopFreesTheFans
  <2> QED
    BY <2>2, <2>3
<1>4. CASE PowerCycle
  BY <1>4 DEF PowerCycle, StopFreesTheFans
<1>5. CASE EcChanges \/ UNCHANGED vars
  BY <1>5 DEF EcChanges, vars, StopFreesTheFans
<1> QED
  BY <1>1, <1>2, <1>3, <1>4, <1>5 DEF Next

(* Whatever the clients did and however the process ended, a stop whose        *)
(* ExecStopPost left no refused fan behind has freed both fans: no duty of a   *)
(* dead daemon outlives it unless the EC itself refused to give it up.         *)
THEOREM StopHandsBack == Spec => []StopFreesTheFans
<1>1. Init => StopFreesTheFans
  BY DEF Init, StopFreesTheFans
<1>2. IInv /\ StopFreesTheFans /\ [Next]_vars => (IInv /\ StopFreesTheFans)'
  BY StepKeepsIInv, StepFreesTheFans
<1> QED
  BY <1>1, <1>2, InitIsIInv, PTL DEF Spec

-----------------------------------------------------------------------------
(* The choice: what the daemon saves is what its user chose last, whatever *)
(* trips, fails, crashes and restarts in between, as long as the clients   *)
(* make the calls the window and the tray make.                            *)


(* A choice the window can have made: never "manual", and a built-in profile   *)
(* runs its own curve on both fans.                                            *)
Regular(s) == /\ s.profile # MANUAL
              /\ s.profile \in Builtins => s.curves = OnBoth(s.profile)

(* SavesTheUsersChoice, and what it rests on: the engine, the file and the     *)
(* choice a trip set aside are choices the window can have made.               *)
Keeps ==
    /\ SavesTheUsersChoice
    /\ Regular(eng)
    /\ wd.beforeTrip # None => Regular(wd.beforeTrip)
    /\ disk # None => Regular(disk)

-----------------------------------------------------------------------------
(* The engine's operations, seen from the choice they make. *)

LEMMA NamesApart ==
  /\ FIRMWARE \notin Builtins /\ CUSTOM \notin Builtins /\ MANUAL \notin Builtins
  /\ FIRMWARE # CUSTOM /\ FIRMWARE # MANUAL /\ CUSTOM # MANUAL
  BY ParameterAssumption DEF FIRMWARE, CUSTOM, MANUAL

LEMMA SelectedChoice ==
  ASSUME NEW e \in Engines, NEW name, NEW cs
  PROVE  Selected(e, name, cs).profile = name /\ Selected(e, name, cs).curves = cs
  BY DEF Selected, Engines

LEMMA FirmwareChoice ==
  ASSUME NEW e \in Engines
  PROVE  /\ Chosen(EngineFirmware(e)) = [profile |-> FIRMWARE, curves |-> None]
         /\ Regular(EngineFirmware(e))
  BY SelectedChoice, NamesApart DEF EngineFirmware, Chosen, Regular

LEMMA NamedChoice ==
  ASSUME NEW e \in Engines, NEW name \in Builtins \cup {CUSTOM}
  PROVE  /\ Chosen(EngineProfile(e, name)) =
              [profile |-> name, curves |-> IF name = CUSTOM THEN e.curves ELSE OnBoth(name)]
         /\ Regular(EngineProfile(e, name))
  BY SelectedChoice, NamesApart DEF EngineProfile, Chosen, Regular

LEMMA CustomisedChoice ==
  ASSUME NEW e \in Engines, NEW cs, NEW linked
  PROVE  /\ [Selected(e, CUSTOM, cs) EXCEPT !.linked = linked].profile = CUSTOM
         /\ [Selected(e, CUSTOM, cs) EXCEPT !.linked = linked].curves = cs
  BY DEF Selected, Engines

LEMMA OneCurveChoice ==
  ASSUME NEW e \in Engines, NEW f \in FANS, NEW new \in Drawn, NEW linked \in BOOLEAN
  PROVE  /\ Chosen(EngineOneCurve(e, f, new, linked)) =
              [profile |-> CUSTOM,
               curves |-> IF linked \/ e.curves = None THEN OnBoth(new)
                          ELSE [e.curves EXCEPT ![f] = new]]
         /\ Regular(EngineOneCurve(e, f, new, linked))
<1> DEFINE kept == IF e.curves = None THEN OnBoth(new) ELSE e.curves
           cs == IF linked THEN OnBoth(new) ELSE [kept EXCEPT ![f] = new]
<1>1. EngineOneCurve(e, f, new, linked) = [Selected(e, CUSTOM, cs) EXCEPT !.linked = linked]
  BY DEF EngineOneCurve
<1>2. [OnBoth(new) EXCEPT ![f] = new] = OnBoth(new)
  BY DEF OnBoth
<1>3. cs = IF linked \/ e.curves = None THEN OnBoth(new) ELSE [e.curves EXCEPT ![f] = new]
  BY <1>2
<1> HIDE DEF cs
<1>4. /\ EngineOneCurve(e, f, new, linked).profile = CUSTOM
      /\ EngineOneCurve(e, f, new, linked).curves = cs
  BY <1>1, CustomisedChoice
<1> QED
  BY <1>3, <1>4, NamesApart DEF Chosen, Regular

LEMMA RestoredChoice ==
  ASSUME NEW e \in Engines, NEW s \in Saved, Regular(s)
  PROVE  Chosen(Restored(e, s)) = Chosen(s) /\ Regular(Restored(e, s))
<1>1. CASE s.profile = CUSTOM
  <2> DEFINE cs == IF s.linked THEN OnBoth(s.curves[1]) ELSE s.curves
  <2>1. Restored(e, s) = [Selected(e, CUSTOM, cs) EXCEPT !.linked = s.linked]
    BY <1>1, NamesApart DEF Restored, EngineCustom
  <2>2. s.curves \in CurvePairs /\ (s.linked => s.curves[1] = s.curves[2])
    BY <1>1, NamesApart DEF Saved, Snapshots, Whole, Mirrored, CurvePairs
  <2>3. OnBoth(s.curves[1]) = s.curves \/ ~s.linked
    BY <2>2 DEF OnBoth, CurvePairs, FANS
  <2>4. cs = s.curves
    BY <2>3
  <2> HIDE DEF cs
  <2>5. Restored(e, s).profile = CUSTOM /\ Restored(e, s).curves = s.curves
    BY <2>1, <2>4, CustomisedChoice
  <2> QED
    BY <1>1, <2>5, NamesApart DEF Chosen, Regular
<1>2. CASE s.profile \in Builtins
  <2>1. Restored(e, s) = EngineProfile(e, s.profile)
    BY <1>2, NamesApart DEF Restored
  <2>2. s.profile # CUSTOM /\ s.curves = OnBoth(s.profile)
    BY <1>2, NamesApart DEF Regular
  <2> QED
    BY <1>2, <2>1, <2>2, NamedChoice DEF Chosen
<1>3. CASE s.profile = FIRMWARE
  <2>1. Restored(e, s) = EngineFirmware(e)
    BY <1>3, NamesApart DEF Restored, EngineProfile
  <2>2. s.curves = None
    BY <1>3 DEF Saved, Whole
  <2> QED
    BY <1>3, <2>1, <2>2, FirmwareChoice DEF Chosen
<1> QED
  BY <1>1, <1>2, <1>3 DEF Saved, Snapshots, Regular

LEMMA SnapshotChoice ==
  ASSUME NEW e
  PROVE  Chosen(Snapshot(e)) = Chosen(e) /\ (Regular(Snapshot(e)) <=> Regular(e))
  BY DEF Snapshot, Chosen, Regular

LEMMA RanChoice ==
  ASSUME NEW e \in Engines, NEW target, NEW x
  PROVE  /\ Chosen(EngineRan(e, target, x)) = Chosen(e)
         /\ Regular(EngineRan(e, target, x)) <=> Regular(e)
<1>1. /\ EngineRan(e, target, x).profile = e.profile
      /\ EngineRan(e, target, x).curves = e.curves
  BY DEF EngineRan, RetryNextTick, Engines
<1> QED
  BY <1>1 DEF Chosen, Regular

LEMMA FreshIsRegular == Regular(FreshEngine)
  BY NamesApart DEF FreshEngine, Regular

LEMMA ResumedChoice ==
  ASSUME IInv, Keeps, Up
  PROVE  Chosen(Resumed) = wanted
<1>1. CASE wd.beforeTrip = None
  BY <1>1, SnapshotChoice DEF Resumed, Keeps, SavesTheUsersChoice, ToSave
<1>2. CASE wd.beforeTrip # None
  <2>1. wd.beforeTrip \in Saved /\ Regular(wd.beforeTrip) /\ eng \in Engines
    BY <1>2 DEF IInv, Watchdogs, Keeps
  <2>2. Chosen(Restored(eng, wd.beforeTrip)) = Chosen(wd.beforeTrip)
    BY <2>1, RestoredChoice
  <2> QED
    BY <1>2, <2>2 DEF Resumed, Keeps, SavesTheUsersChoice, ToSave
<1> QED
  BY <1>1, <1>2

-----------------------------------------------------------------------------
(* The calls. *)

(* What a save leaves behind, when the choice to save is the one now wanted.   *)
LEMMA SavedIsWanted ==
  ASSUME Persist, Chosen(ToSave(eng', wd')) = wanted', ToSave(eng', wd') # None,
         Regular(ToSave(eng', wd')), disk # None => Regular(disk)
  PROVE  /\ ~behind' => disk' # None /\ wanted' = Chosen(disk')
         /\ disk' # None => Regular(disk')
  BY DEF Persist

LEMMA TakeFirmwareKeeps ==
  ASSUME IInv, Agree, Keeps, Up, UNCHANGED phase, NEW e \in Engines, TakeFirmware(e)
  PROVE  Keeps'
<1>1. /\ eng' = EngineFirmware(e) /\ EngineFirmware(e) \in Engines
      /\ Chosen(eng') = [profile |-> FIRMWARE, curves |-> None] /\ Regular(eng')
  BY SwitchedOffIsOne, FirmwareChoice DEF TakeFirmware
<1>2. PICK x \in FirstRefused(FANS) :
         IF x = None
         THEN wd' = Rearmed /\ Succeed /\ WantProfile(FIRMWARE)
         ELSE /\ Refuse
              /\ behind' = TRUE
              /\ IF wd.tripped THEN UNCHANGED <<wd, wanted>>
                 ELSE UNCHANGED wd /\ WantProfile(FIRMWARE)
  BY DEF TakeFirmware
<1>3. WantProfile(FIRMWARE) => wanted' = Chosen(eng')
  BY <1>1 DEF WantProfile
<1>4. Snapshot(eng') # None /\ Chosen(Snapshot(eng')) = Chosen(eng') /\ Regular(Snapshot(eng'))
  BY <1>1, SnapshotIsSaved, SnapshotChoice, ParameterAssumption DEF Saved
<1>5. CASE x = None
  <2>1. wd'.beforeTrip = None /\ wanted' = Chosen(eng') /\ Persist
    BY <1>2, <1>3, <1>5, FreshWatchdogFields DEF Rearmed, Succeed
  <2>2. ToSave(eng', wd') = Snapshot(eng')
    BY <2>1 DEF ToSave
  <2>3. /\ ~behind' => disk' # None /\ wanted' = Chosen(disk')
        /\ disk' # None => Regular(disk')
    BY <1>4, <2>1, <2>2, SavedIsWanted DEF Keeps
  <2> QED
    BY <1>1, <1>4, <2>1, <2>2, <2>3 DEF Keeps, SavesTheUsersChoice
<1>6. CASE x # None
  <2>1. UNCHANGED <<wd, disk>> /\ behind' = TRUE
    BY <1>2, <1>6 DEF Refuse
  <2>2. Chosen(ToSave(eng', wd')) = wanted'
    <3>1. CASE wd.tripped
      BY <1>2, <1>6, <2>1, <3>1 DEF Agree, Paired, ToSave, Keeps, SavesTheUsersChoice
    <3>2. CASE ~wd.tripped
      BY <1>2, <1>3, <1>4, <1>6, <2>1, <3>2 DEF Agree, Paired, ToSave
    <3> QED
      BY <3>1, <3>2
  <2> QED
    BY <1>1, <2>1, <2>2 DEF Keeps, SavesTheUsersChoice
<1> QED
  BY <1>5, <1>6

LEMMA TakeChoiceKeeps ==
  ASSUME IInv, Keeps, NEW e \in Engines, Regular(e), TakeChoice(e), wanted' = Chosen(e)
  PROVE  Keeps'
<1>1. PICK target \in Targets(e), unread \in ReadFails :
      \E x \in IF unread THEN {None} ELSE FirstRefused(Due(e, target)) :
        /\ eng' = IF unread THEN e ELSE EngineRan(e, target, x)
        /\ wd' = [Rearmed EXCEPT !.fault = IF x = None THEN None ELSE "drive"]
        /\ IF unread \/ x # None THEN Refuse /\ behind' = TRUE ELSE Succeed
  BY DEF TakeChoice
<1>2. PICK x \in IF unread THEN {None} ELSE FirstRefused(Due(e, target)) :
        /\ eng' = IF unread THEN e ELSE EngineRan(e, target, x)
        /\ wd' = [Rearmed EXCEPT !.fault = IF x = None THEN None ELSE "drive"]
        /\ IF unread \/ x # None THEN Refuse /\ behind' = TRUE ELSE Succeed
  BY <1>1
<1>3. eng' \in Engines /\ Chosen(eng') = wanted' /\ Regular(eng')
  BY <1>2, RanIsOne, RanChoice
<1>4. wd'.beforeTrip = None /\ ToSave(eng', wd') = Snapshot(eng')
  BY <1>2, FreshWatchdogFields DEF ToSave
<1>5. /\ Snapshot(eng') # None /\ Chosen(Snapshot(eng')) = wanted'
      /\ Regular(Snapshot(eng'))
  BY <1>3, SnapshotIsSaved, SnapshotChoice, ParameterAssumption DEF Saved
<1>6. /\ ~behind' => disk' # None /\ wanted' = Chosen(disk')
      /\ disk' # None => Regular(disk')
  <2>1. CASE unread \/ x # None
    BY <1>2, <2>1 DEF Refuse, Keeps
  <2>2. CASE ~(unread \/ x # None)
    <3>1. Persist
      BY <1>2, <2>2 DEF Succeed
    <3> QED
      BY <1>4, <1>5, <3>1, SavedIsWanted DEF Keeps
  <2> QED
    BY <2>1, <2>2
<1> QED
  BY <1>3, <1>4, <1>5, <1>6 DEF Keeps, SavesTheUsersChoice

LEMMA SettingKeeps ==
  ASSUME IInv, Keeps, Setting
  PROVE  Keeps'
<1>1. Up /\ UNCHANGED <<phase, eng, wd, wanted>> /\ Persist
  BY DEF Setting
<1>2. Chosen(ToSave(eng', wd')) = wanted'
  BY <1>1 DEF Keeps, SavesTheUsersChoice
<1>3. ToSave(eng', wd') # None /\ Regular(ToSave(eng', wd'))
  BY <1>1, SnapshotIsSaved, SnapshotChoice, ParameterAssumption
     DEF ToSave, Saved, Keeps, IInv
<1>4. /\ ~behind' => disk' # None /\ wanted' = Chosen(disk')
      /\ disk' # None => Regular(disk')
  BY <1>1, <1>2, <1>3, SavedIsWanted DEF Keeps
<1> QED
  BY <1>1, <1>2, <1>4 DEF Keeps, SavesTheUsersChoice

-----------------------------------------------------------------------------
(* The tick, the process, and every step. *)

(* A tick that trips sets the choice it drops aside; any other leaves it.      *)
LEMMA TickChoice ==
  ASSUME IInv, NEW e \in Engines, NEW w \in Watchdogs, NEW told, TickOn(e, w, told),
         w.tripped <=> w.beforeTrip # None, Regular(e),
         w.beforeTrip # None => Regular(w.beforeTrip)
  PROVE  /\ Chosen(ToSave(eng', wd')) = Chosen(ToSave(e, w))
         /\ Regular(eng')
         /\ wd'.beforeTrip # None => Regular(wd'.beforeTrip)
<1>1. PICK target \in Targets(e), unread \in ReadFails :
      \E x \in IF unread THEN {None} ELSE FirstRefused(Due(e, target)),
         back \in [FANS -> IF ec = "flaky" THEN BOOLEAN ELSE {ec = "ok"}] :
        TickWith(e, w, told, target, unread, x, back)
  BY DEF TickOn
<1>2. PICK x \in IF unread THEN {None} ELSE FirstRefused(Due(e, target)),
           back \in [FANS -> IF ec = "flaky" THEN BOOLEAN ELSE {ec = "ok"}] :
        TickWith(e, w, told, target, unread, x, back)
  BY <1>1
<1> DEFINE ran == IF unread THEN e ELSE EngineRan(e, target, x)
           fault == IF unread THEN w.fault
                    ELSE IF x # None THEN "drive"
                    ELSE IF w.tripped THEN w.fault ELSE None
           failed == unread \/ (fault # None /\ ~w.tripped)
           tripping == failed /\ Trips(ran, w)
           noted == IF failed THEN AfterFailure(ran, w) ELSE [w EXCEPT !.failures = 0]
           handing == noted.tripped /\ ~noted.restored
           restored == noted.restored \/ (handing /\ HandbackLanded(back))
           report == IF noted.tripped THEN FailsafeStatus(restored, ~failed) ELSE fault
<1>3. /\ eng' = IF tripping THEN EngineFirmware(ran) ELSE ran
      /\ wd' = [noted EXCEPT !.restored = restored, !.fault = report]
  BY <1>2 DEF TickWith
<1>4. ran \in Engines /\ Chosen(ran) = Chosen(e) /\ Regular(ran)
  BY RanIsOne, RanChoice
<1>5. noted \in Watchdogs
  BY <1>4, NotedIsOne
<1>6. IF tripping THEN w.beforeTrip = None /\ noted.beforeTrip = Snapshot(ran)
                  ELSE noted.beforeTrip = w.beforeTrip
  BY DEF AfterFailure, Trips, Watchdogs
<1>7. Snapshot(ran) # None
  BY <1>4, SnapshotIsSaved, ParameterAssumption DEF Saved
<1> HIDE DEF ran, fault, failed, tripping, noted, handing, restored, report
<1>8. wd'.beforeTrip = noted.beforeTrip
  BY <1>3, <1>5 DEF Watchdogs
<1>9. CASE tripping
  BY <1>3, <1>4, <1>6, <1>7, <1>8, <1>9, FirmwareChoice, SnapshotChoice DEF ToSave
<1>10. CASE ~tripping
  BY <1>3, <1>4, <1>6, <1>8, <1>10, SnapshotChoice DEF ToSave
<1> QED
  BY <1>9, <1>10

LEMMA GoneKeeps ==
  ASSUME Keeps, Gone PROVE Keeps'
  BY FreshIsRegular, FreshWatchdogFields DEF Gone, Keeps, SavesTheUsersChoice, Up

LEMMA InitKeeps == Init => Keeps
  BY FreshIsRegular, FreshWatchdogFields DEF Init, Keeps, SavesTheUsersChoice, Up

LEMMA StartKeeps ==
  ASSUME IInv, Keeps, Start PROVE Keeps'
<1> DEFINE e == IF disk = None THEN FreshEngine ELSE Restored(FreshEngine, disk)
<1>1. /\ TickOn(e, FreshWatchdog, [bus EXCEPT !.profile = e.profile])
      /\ wanted' = Chosen(e) /\ behind' = FALSE /\ UNCHANGED disk
  BY DEF Start
<1>2. e \in Engines /\ Regular(e)
  BY FreshEngineIsOne, RestoredIsOne, FreshIsRegular, RestoredChoice DEF IInv, Keeps
<1>3. Chosen(e) = IF disk = None THEN Chosen(FreshEngine) ELSE Chosen(disk)
  BY FreshEngineIsOne, RestoredChoice DEF IInv, Keeps
<1> HIDE DEF e
<1>4. /\ Chosen(ToSave(eng', wd')) = Chosen(ToSave(e, FreshWatchdog))
      /\ Regular(eng')
      /\ wd'.beforeTrip # None => Regular(wd'.beforeTrip)
  BY <1>1, <1>2, FreshWatchdogIsOne, FreshWatchdogFields, TickChoice
<1>5. Chosen(ToSave(e, FreshWatchdog)) = Chosen(e)
  BY FreshWatchdogFields, SnapshotChoice DEF ToSave
<1> QED
  BY <1>1, <1>3, <1>4, <1>5 DEF Keeps, SavesTheUsersChoice

LEMMA StepKeeps ==
  ASSUME AppCallsOnly, IInv, Agree, Keeps, [Next]_vars
  PROVE  Keeps'
<1>1. CASE SetProfile
  <2>1. PICK name \in Builtins \cup {FIRMWARE, CUSTOM} :
          /\ KnownProfile(Resumed, name)
          /\ IF name = FIRMWARE
             THEN TakeFirmware(Resumed)
             ELSE TakeChoice(EngineProfile(Resumed, name)) /\ WantProfile(name)
    BY <1>1 DEF SetProfile
  <2>2. Up /\ UNCHANGED phase /\ Resumed \in Engines /\ Chosen(Resumed) = wanted
    BY <1>1, ResumedIsOne, ResumedChoice DEF SetProfile
  <2>3. CASE name = FIRMWARE
    BY <2>1, <2>2, <2>3, TakeFirmwareKeeps
  <2>4. CASE name # FIRMWARE
    <3>1. name \in Builtins \cup {CUSTOM} /\ EngineProfile(Resumed, name) \in Engines
      BY <2>1, <2>2, <2>4, NamedIsOne
    <3>2. Resumed.curves = wanted.curves
      BY <2>2 DEF Chosen
    <3>3. /\ wanted' = Chosen(EngineProfile(Resumed, name))
          /\ Regular(EngineProfile(Resumed, name))
      BY <2>1, <2>2, <2>4, <3>1, <3>2, NamedChoice DEF WantProfile
    <3> QED
      BY <2>1, <2>4, <3>1, <3>3, TakeChoiceKeeps
  <2> QED
    BY <2>3, <2>4
<1>2. CASE SetCurve
  <2>1. PICK f \in FANS, new \in Drawn, linked \in BOOLEAN :
          /\ TakeChoice(EngineOneCurve(Resumed, f, new, linked))
          /\ WantCurve(f, new, linked)
    BY <1>2 DEF SetCurve
  <2>2. Resumed \in Engines /\ Resumed.curves = wanted.curves
    BY <1>2, ResumedIsOne, ResumedChoice DEF SetCurve, Chosen
  <2>3. /\ wanted' = Chosen(EngineOneCurve(Resumed, f, new, linked))
        /\ Regular(EngineOneCurve(Resumed, f, new, linked))
    BY <2>1, <2>2, OneCurveChoice DEF WantCurve
  <2>4. EngineOneCurve(Resumed, f, new, linked) \in Engines
    BY <2>2, OneCurveIsOne
  <2> QED
    BY <2>1, <2>3, <2>4, TakeChoiceKeeps
<1>3. CASE RestoreFirmware
  BY <1>3, TakeFirmwareKeeps DEF RestoreFirmware, IInv
<1>4. CASE BadArgs \/ SetFanDuty
  BY <1>4 DEF AppCallsOnly, BadArgs, SetFanDuty
<1>5. CASE Setting
  BY <1>5, SettingKeeps
<1>6. CASE Deny \/ EcChanges \/ UNCHANGED vars
  BY <1>6 DEF Deny, Refuse, EcChanges, vars, Keeps, SavesTheUsersChoice, Up
<1>7. CASE Tick
  <2>1. /\ TickOn(eng, wd, bus) /\ UNCHANGED <<phase, disk, wanted, behind>> /\ Up
        /\ eng \in Engines /\ wd \in Watchdogs
        /\ wd.tripped <=> wd.beforeTrip # None
    BY <1>7 DEF Tick, Agree, Paired, IInv
  <2>2. /\ Chosen(ToSave(eng', wd')) = Chosen(ToSave(eng, wd))
        /\ Regular(eng')
        /\ wd'.beforeTrip # None => Regular(wd'.beforeTrip)
    BY <2>1, TickChoice DEF Keeps
  <2> QED
    BY <2>1, <2>2 DEF Keeps, SavesTheUsersChoice
<1>8. CASE Start
  BY <1>8, StartKeeps
<1>9. CASE Terminate \/ Crash
  BY <1>9, GoneKeeps DEF Terminate, Crash
<1>10. CASE StopPost
  BY <1>10 DEF StopPost, Keeps, SavesTheUsersChoice, Up
<1>11. CASE PowerCycle
  BY <1>11, FreshIsRegular, FreshWatchdogFields DEF PowerCycle, Keeps, SavesTheUsersChoice, Up
<1> QED
  BY <1>1, <1>2, <1>3, <1>4, <1>5, <1>6, <1>7, <1>8, <1>9, <1>10, <1>11 DEF Next, Call

(* "A trip is not the user's choice; keep theirs": with the window and the tray *)
(* as clients, what the daemon would save is at any moment the choice its user  *)
(* last made, and the file holds it unless a call was refused or a save failed  *)
(* since; trips, crashes and restarts in between change nothing of that.        *)
THEOREM TheChoiceIsKept == AppCallsOnly => (Spec => []SavesTheUsersChoice)
<1> SUFFICES ASSUME AppCallsOnly
             PROVE  Spec => []SavesTheUsersChoice
  OBVIOUS
<1>1. IInv /\ Agree /\ Keeps /\ [Next]_vars => (IInv /\ Agree /\ Keeps)'
  BY StepKeepsIInv, StepAgrees, StepKeeps
<1>2. Keeps => SavesTheUsersChoice
  BY DEF Keeps
<1> QED
  BY <1>1, <1>2, InitIsIInv, InitAgrees, InitKeeps, PTL DEF Spec

-----------------------------------------------------------------------------
(* What clients are told of the profile. *)

Told ==
    /\ reply' = "ok" /\ eng' # eng => bus'.profile = eng'.profile
    /\ bus.profile = eng.profile /\ bus'.profile # eng'.profile => reply' = "error"

LEMMA NotifiedTellsAll ==
  ASSUME IInv, NotifyFanState PROVE bus'.profile = eng'.profile
  BY DEF NotifyFanState, IInv, Buses

LEMMA TakeFirmwareTells ==
  ASSUME IInv, NEW e, TakeFirmware(e) PROVE Told
<1>1. PICK x \in FirstRefused(FANS) :
        IF x = None THEN Succeed ELSE Refuse
  BY Zenon DEF TakeFirmware
<1>2. CASE x = None
  BY <1>1, <1>2, NotifiedTellsAll DEF Succeed, Told
<1>3. CASE x # None
  BY <1>1, <1>3 DEF Refuse, Told
<1> QED BY <1>2, <1>3

LEMMA TakeChoiceTells ==
  ASSUME IInv, NEW e, TakeChoice(e) PROVE Told
<1>1. Refuse \/ Succeed
  BY Zenon DEF TakeChoice
<1>2. CASE Refuse
  BY <1>2 DEF Refuse, Told
<1>3. CASE Succeed
  BY <1>3, NotifiedTellsAll DEF Succeed, Told
<1> QED BY <1>1, <1>2, <1>3

(* A tick replies to nobody; it tells of a trip, and changes no profile else. *)
LEMMA TickTells ==
  ASSUME IInv, NEW e \in Engines, NEW w \in Watchdogs, NEW told, TickOn(e, w, told),
         told.profile = e.profile
  PROVE  reply' = "none" /\ bus'.profile = eng'.profile
<1>1. PICK target \in Targets(e), unread \in ReadFails :
      \E x \in IF unread THEN {None} ELSE FirstRefused(Due(e, target)),
         back \in [FANS -> IF ec = "flaky" THEN BOOLEAN ELSE {ec = "ok"}] :
        TickWith(e, w, told, target, unread, x, back)
  BY DEF TickOn
<1>2. PICK x \in IF unread THEN {None} ELSE FirstRefused(Due(e, target)),
           back \in [FANS -> IF ec = "flaky" THEN BOOLEAN ELSE {ec = "ok"}] :
        TickWith(e, w, told, target, unread, x, back)
  BY <1>1
<1> DEFINE ran == IF unread THEN e ELSE EngineRan(e, target, x)
           fault == IF unread THEN w.fault
                    ELSE IF x # None THEN "drive"
                    ELSE IF w.tripped THEN w.fault ELSE None
           failed == unread \/ (fault # None /\ ~w.tripped)
           tripping == failed /\ Trips(ran, w)
<1>3. /\ eng' = IF tripping THEN EngineFirmware(ran) ELSE ran
      /\ bus' = [profile |-> IF tripping THEN FIRMWARE ELSE told.profile, status |-> Status(wd')]
      /\ reply' = "none"
  BY <1>2 DEF TickWith
<1>4. ran.profile = e.profile
  <2>1. Chosen(EngineRan(e, target, x)) = Chosen(e)
    BY RanChoice
  <2> QED BY <2>1 DEF Chosen
<1>5. EngineFirmware(ran).profile = FIRMWARE
  <2>1. ran \in Engines
    BY RanIsOne
  <2> QED BY <2>1, FirmwareChoice DEF Chosen
<1> HIDE DEF ran, fault, failed, tripping
<1> QED BY <1>3, <1>4, <1>5

LEMMA StepTells == IInv /\ [Next]_vars => Told
<1> SUFFICES ASSUME IInv, [Next]_vars PROVE Told
  OBVIOUS
<1>1. CASE SetProfile
  BY <1>1, TakeFirmwareTells, TakeChoiceTells DEF SetProfile
<1>2. CASE SetCurve
  BY <1>2, TakeChoiceTells DEF SetCurve
<1>3. CASE RestoreFirmware
  BY <1>3, TakeFirmwareTells DEF RestoreFirmware
<1>4. CASE SetFanDuty
  <2>1. Refuse \/ (NotifyFanState /\ reply' = "ok")
    BY <1>4, Zenon DEF SetFanDuty, TakeDuty, LoseDuty, RevertDuty
  <2>2. CASE Refuse
    BY <2>2 DEF Refuse, Told
  <2>3. CASE NotifyFanState
    BY <2>3, NotifiedTellsAll DEF Told
  <2> QED BY <2>1, <2>2, <2>3
<1>5. CASE BadArgs \/ Deny
  BY <1>5 DEF BadArgs, Deny, Refuse, Told
<1>6. CASE Setting \/ StopPost \/ EcChanges \/ UNCHANGED vars
  BY <1>6 DEF Setting, StopPost, EcChanges, vars, Told
<1>7. CASE Tick
  <2>1. TickOn(eng, wd, bus) /\ eng \in Engines /\ wd \in Watchdogs
    BY <1>7 DEF Tick, IInv
  <2>2. reply' = "none"
    BY <2>1 DEF TickOn, TickWith
  <2>3. bus.profile = eng.profile => bus'.profile = eng'.profile
    BY <2>1, TickTells
  <2> QED BY <2>2, <2>3 DEF Told
<1>8. CASE Start
  <2> DEFINE e == IF disk = None THEN FreshEngine ELSE Restored(FreshEngine, disk)
             told == [bus EXCEPT !.profile = e.profile]
  <2>1. TickOn(e, FreshWatchdog, told)
    BY <1>8 DEF Start
  <2>2. e \in Engines /\ FreshWatchdog \in Watchdogs
    BY StartedBelievesNothing, FreshWatchdogIsOne
  <2>3. told.profile = e.profile
    BY DEF IInv, Buses
  <2> HIDE DEF e, told
  <2>4. reply' = "none" /\ bus'.profile = eng'.profile
    BY <2>1, <2>2, <2>3, TickTells
  <2> QED BY <2>4 DEF Told
<1>9. CASE Terminate \/ Crash \/ PowerCycle
  <2>1. reply' = "none" /\ bus' = [profile |-> FIRMWARE, status |-> None] /\ eng' = FreshEngine
    BY <1>9 DEF Terminate, Crash, PowerCycle, Gone
  <2>2. bus'.profile = eng'.profile
    BY <2>1 DEF FreshEngine
  <2> QED BY <2>1, <2>2 DEF Told
<1> QED
  BY <1>1, <1>2, <1>3, <1>4, <1>5, <1>6, <1>7, <1>8, <1>9 DEF Next, Call

(* Whatever clients call and whatever the EC and the disk do, clients learn of *)
(* every profile the daemon comes to drive or drops by itself, restarts and    *)
(* trips included: only a call that was refused may leave them with the old    *)
(* one, until the next one that changes the choice and succeeds.               *)
THEOREM OnlyRefusalsGoUntold == Spec => OnlyARefusalGoesUntold
<1>1. IInv /\ [Next]_vars => IInv'
  BY StepKeepsIInv
<1>2. IInv /\ [Next]_vars => [Told]_vars
  BY StepTells
<1> QED
  BY <1>1, <1>2, InitIsIInv, PTL DEF Spec, OnlyARefusalGoesUntold, Told

-----------------------------------------------------------------------------
(***************************************************************************)
(* The fan daemon keeps what FanService promises, for every set of         *)
(* profiles, curves and duties and every threshold, as long as the clients *)
(* make the calls the window and the tray make.                            *)
(***************************************************************************)

Known == IInv /\ Agree /\ Keeps

(* The choices of the abstract service. *)
UserChoices == [profile : {FIRMWARE, CUSTOM} \cup Builtins,
                curves : [FANS -> Builtins \cup Drawn] \cup {None}]

FirmwareChosen == Chosen(FreshEngine)

LEMMA ChoiceIsWanted ==
  ASSUME Known
  PROVE  CurrentChoice = IF Up THEN wanted ELSE KeptChoice
  BY DEF Known, Keeps, SavesTheUsersChoice, CurrentChoice

LEMMA FirmwareChosenParts == FirmwareChosen = [profile |-> FIRMWARE, curves |-> None]
  BY DEF FirmwareChosen, FreshEngine, Chosen

LEMMA DriverParts ==
  /\ ~Up => Driver = "nobody"
  /\ Up /\ wd.tripped => Driver = "failsafe"
  /\ Up /\ ~wd.tripped /\ Driving(eng) => Driver = "profile"
  /\ Up /\ ~wd.tripped /\ ~Driving(eng) => Driver = "firmware"
  BY DEF Driver

LEMMA DriverParts2 ==
  /\ ~Up' => Driver' = "nobody"
  /\ Up' /\ wd'.tripped => Driver' = "failsafe"
  /\ Up' /\ ~wd'.tripped /\ Driving(eng') => Driver' = "profile"
  /\ Up' /\ ~wd'.tripped /\ ~Driving(eng') => Driver' = "firmware"
  BY DEF Driver, Driving

(* What is handed back is held by fewer, what is driven by more. *)
LEMMA HandingBackReleases ==
  ASSUME NEW todo, NEW x, fan' = HandedBack(fan, todo, x)
  PROVE  Held' \subseteq Held
  BY DEF HandedBack, Held

LEMMA DrivingHolds ==
  ASSUME IInv, NEW e \in Engines, NEW target \in Targets(e), NEW x, fan' = FansRan(e, target, x)
  PROVE  Held \subseteq Held'
<1>1. CASE Driving(e)
  <2>1. \A f \in FANS : target[f] # FAN_AUTO
    BY <1>1, ParameterAssumption DEF Targets
  <2> QED BY <2>1 DEF FansRan, Held
<1>2. CASE ~Driving(e)
  <2>1. Landed(Due(e, target), x) = {}
    BY <1>2 DEF Due, Landed
  <2> QED BY <2>1 DEF FansRan, Held
<1> QED BY <1>1, <1>2

(* Succeed saves the choice or leaves the file. *)
LEMMA SavedOrNot ==
  ASSUME Persist, ToSave(eng', wd') # None
  PROVE  KeptChoice' \in {KeptChoice, Chosen(ToSave(eng', wd'))}
<1>1. disk' = disk \/ disk' = ToSave(eng', wd')
  BY DEF Persist
<1>2. CASE disk' = disk
  BY <1>2 DEF KeptChoice, Chosen
<1>3. CASE disk' = ToSave(eng', wd')
  BY <1>3 DEF KeptChoice, Chosen
<1> QED BY <1>1, <1>2, <1>3
-----------------------------------------------------------------------------
(* The calls. *)

LEMMA TakeFirmwareServes ==
  ASSUME Known, Known', Up, UNCHANGED phase, NEW e \in Engines, TakeFirmware(e)
  PROVE  Service!ChooseFirmware \/ Service!GiveBack
<1>1. eng' = EngineFirmware(e) /\ Chosen(eng') = FirmwareChosen /\ ~Driving(eng')
  BY FirmwareChoice, FirmwareIsQuiet, FirmwareChosenParts DEF TakeFirmware, Driving
<1>2. PICK x \in FirstRefused(FANS) :
        /\ fan' = HandedBack(fan, FANS, x)
        /\ IF x = None
           THEN wd' = Rearmed /\ Succeed /\ WantProfile(FIRMWARE)
           ELSE /\ Refuse
                /\ IF wd.tripped THEN UNCHANGED <<wd, wanted>>
                   ELSE UNCHANGED wd /\ WantProfile(FIRMWARE)
  BY DEF TakeFirmware
<1>3. WantProfile(FIRMWARE) => wanted' = FirmwareChosen
  BY FirmwareChosenParts DEF WantProfile
<1>4. Up' /\ CurrentChoice = wanted /\ CurrentChoice' = wanted' /\ Driver # "nobody"
  <2>1. Up'
    BY DEF Up
  <2>2. Known' => (Up' => CurrentChoice' = wanted')
    BY DEF Known, Keeps, SavesTheUsersChoice, CurrentChoice
  <2> QED BY <2>1, <2>2, ChoiceIsWanted DEF Driver
<1>5. Held' \subseteq Held
  BY <1>2, HandingBackReleases
<1>6. CASE x = None
  <2>1. Held' = {}
    BY <1>2, <1>6, AllHandedBack DEF Held, OnBoth
  <2>2. Driver' = "firmware"
    BY <1>1, <1>2, <1>4, <1>6, DriverParts2, FreshWatchdogFields DEF Rearmed
  <2>3. wanted' = FirmwareChosen
    BY <1>2, <1>3, <1>6
  <2>4. KeptChoice' \in {KeptChoice, FirmwareChosen}
    <3>1. Persist /\ ToSave(eng', wd') = Snapshot(eng')
      BY <1>2, <1>6, FreshWatchdogFields DEF Succeed, ToSave, Rearmed
    <3>2. eng' \in Engines
      BY DEF Known, IInv
    <3>3. Snapshot(eng') # None /\ Chosen(Snapshot(eng')) = FirmwareChosen
      BY <1>1, <3>2, SnapshotIsSaved, SnapshotChoice, ParameterAssumption DEF Saved
    <3> QED BY <3>1, <3>3, SavedOrNot
  <2> QED
    BY <1>4, <2>1, <2>2, <2>3, <2>4 DEF Service!ChooseFirmware, FirmwareChosen
<1>7. CASE x # None
  <2>1. UNCHANGED <<wd, disk>>
    BY <1>2, <1>7 DEF Refuse
  <2>2. UNCHANGED KeptChoice
    BY <2>1 DEF KeptChoice, Chosen
  <2>3. CASE wd.tripped
    <3>1. Driver = "failsafe" /\ Driver' = "failsafe"
      BY <1>4, <2>1, <2>3, DriverParts, DriverParts2
    <3>2. UNCHANGED CurrentChoice
      BY <1>2, <1>4, <1>7, <2>3
    <3> QED BY <1>5, <2>2, <3>1, <3>2 DEF Service!GiveBack
  <2>4. CASE ~wd.tripped
    <3>1. Driver # "failsafe" /\ Driver' = "firmware"
      BY <1>1, <1>4, <2>1, <2>4, DriverParts, DriverParts2
    <3>2. CurrentChoice' = FirmwareChosen
      BY <1>2, <1>3, <1>4, <1>7, <2>4
    <3> QED BY <1>4, <1>5, <2>2, <3>1, <3>2 DEF Service!ChooseFirmware, FirmwareChosen
  <2> QED BY <2>3, <2>4
<1> QED BY <1>6, <1>7

LEMMA TakeChoiceServes ==
  ASSUME Known, Known', Up, UNCHANGED phase, NEW e \in Engines, Driving(e), TakeChoice(e),
         Chosen(e) = wanted'
  PROVE  \E c \in UserChoices : Service!Choose(c)
<1>1. PICK target \in Targets(e), unread \in ReadFails :
      \E x \in IF unread THEN {None} ELSE FirstRefused(Due(e, target)) :
        /\ eng' = IF unread THEN e ELSE EngineRan(e, target, x)
        /\ fan' = IF unread THEN fan ELSE FansRan(e, target, x)
        /\ wd' = [Rearmed EXCEPT !.fault = IF x = None THEN None ELSE "drive"]
        /\ IF unread \/ x # None THEN Refuse /\ behind' = TRUE ELSE Succeed
  BY DEF TakeChoice
<1>2. PICK x \in IF unread THEN {None} ELSE FirstRefused(Due(e, target)) :
        /\ eng' = IF unread THEN e ELSE EngineRan(e, target, x)
        /\ fan' = IF unread THEN fan ELSE FansRan(e, target, x)
        /\ wd' = [Rearmed EXCEPT !.fault = IF x = None THEN None ELSE "drive"]
        /\ IF unread \/ x # None THEN Refuse /\ behind' = TRUE ELSE Succeed
  BY <1>1
<1>3. e.profile \in {CUSTOM} \cup Builtins /\ Chosen(e) \in UserChoices /\ Chosen(e) # FirmwareChosen
  <2>1. e.profile \in Profiles /\ e.curves \in CurvePairs \cup {None} /\ e.profile \notin {FIRMWARE, MANUAL}
    BY DEF Engines, Driving
  <2> QED BY <2>1, FirmwareChosenParts DEF Profiles, CurvePairs, Chosen, UserChoices
<1>4. Chosen(eng') = Chosen(e) /\ Driving(eng') /\ eng' \in Engines
  <2>1. Chosen(eng') = Chosen(e)
    BY <1>2, RanChoice
  <2>2. eng'.profile = e.profile
    BY <2>1 DEF Chosen
  <2>3. eng' \in Engines
    BY DEF Known, IInv
  <2> QED BY <2>1, <2>2, <2>3 DEF Driving
<1>5. wd'.tripped = FALSE /\ wd'.beforeTrip = None
  BY <1>2, FreshWatchdogFields
<1>6. Up' /\ Driver # "nobody" /\ Driver' = "profile"
  <2>1. Up'
    BY DEF Up
  <2>2. Driver # "nobody"
    BY DEF Driver
  <2> QED BY <1>4, <1>5, <2>1, <2>2, DriverParts2
<1>7. CurrentChoice' = Chosen(e)
  BY <1>6 DEF Known, Keeps, SavesTheUsersChoice, CurrentChoice
<1>8. KeptChoice' \in {KeptChoice, Chosen(e)}
  <2>1. CASE unread \/ x # None
    BY <1>2, <2>1 DEF Refuse, KeptChoice, Chosen
  <2>2. CASE ~(unread \/ x # None)
    <3>1. Persist /\ ToSave(eng', wd') = Snapshot(eng')
      BY <1>2, <1>5, <2>2 DEF Succeed, ToSave
    <3>2. Snapshot(eng') # None /\ Chosen(Snapshot(eng')) = Chosen(e)
      BY <1>4, SnapshotIsSaved, SnapshotChoice, ParameterAssumption DEF Saved
    <3> QED BY <3>1, <3>2, SavedOrNot
  <2> QED BY <2>1, <2>2
<1>9. Held \subseteq Held' /\ Held' \subseteq FANS
  <2>1. CASE unread
    BY <1>2, <2>1 DEF Held
  <2>2. CASE ~unread
    BY <1>2, <2>2, DrivingHolds DEF Known, Held
  <2> QED BY <2>1, <2>2
<1>10. Service!Choose(Chosen(e))
  BY <1>3, <1>6, <1>7, <1>8, <1>9 DEF Service!Choose, FirmwareChosen
<1> QED BY <1>3, <1>10
-----------------------------------------------------------------------------
(* The tick: a failsafe gives back, a profile drives or trips, and the firmware *)
(* is left alone.                                                               *)
LEMMA TickServes ==
  ASSUME IInv, NEW e \in Engines, NEW w \in Watchdogs, NEW told, TickOn(e, w, told),
         Paired(e, w), e.profile # MANUAL
  PROVE  /\ w.tripped => wd'.tripped /\ Held' \subseteq Held
         /\ ~w.tripped /\ Driving(e) /\ ~wd'.tripped => eng'.profile = e.profile /\ Held \subseteq Held'
         /\ ~w.tripped /\ ~Driving(e) => ~wd'.tripped /\ UNCHANGED fan /\ eng'.profile = e.profile
<1>1. PICK target \in Targets(e), unread \in ReadFails :
      \E x \in IF unread THEN {None} ELSE FirstRefused(Due(e, target)),
         back \in [FANS -> IF ec = "flaky" THEN BOOLEAN ELSE {ec = "ok"}] :
        TickWith(e, w, told, target, unread, x, back)
  BY DEF TickOn
<1>2. PICK x \in IF unread THEN {None} ELSE FirstRefused(Due(e, target)),
           back \in [FANS -> IF ec = "flaky" THEN BOOLEAN ELSE {ec = "ok"}] :
        TickWith(e, w, told, target, unread, x, back)
  BY <1>1
<1> DEFINE ran == IF unread THEN e ELSE EngineRan(e, target, x)
           driven == IF unread THEN fan ELSE FansRan(e, target, x)
           fault == IF unread THEN w.fault
                    ELSE IF x # None THEN "drive"
                    ELSE IF w.tripped THEN w.fault ELSE None
           failed == unread \/ (fault # None /\ ~w.tripped)
           tripping == failed /\ Trips(ran, w)
           noted == IF failed THEN AfterFailure(ran, w) ELSE [w EXCEPT !.failures = 0]
           handing == noted.tripped /\ ~noted.restored
           restored == noted.restored \/ (handing /\ HandbackLanded(back))
           report == IF noted.tripped THEN FailsafeStatus(restored, ~failed) ELSE fault
<1>3. /\ eng' = IF tripping THEN EngineFirmware(ran) ELSE ran
      /\ fan' = [f \in FANS |-> IF handing /\ back[f] THEN FAN_AUTO ELSE driven[f]]
      /\ wd' = [noted EXCEPT !.restored = restored, !.fault = report]
  BY <1>2 DEF TickWith
<1>4. ran \in Engines /\ ran.profile = e.profile /\ driven \in FanStates
  <2>1. CASE unread
    BY <2>1 DEF IInv
  <2>2. CASE ~unread
    <3>1. Chosen(EngineRan(e, target, x)) = Chosen(e)
      BY RanChoice
    <3> QED BY <2>2, <3>1, RanIsOne DEF Chosen
  <2> QED BY <2>1, <2>2
<1>5. ~Driving(e) => driven = fan
  <2>1. ~Driving(e) => Landed(Due(e, target), x) = {}
    BY DEF Due, Landed
  <2> QED BY <2>1 DEF FansRan, IInv, FanStates
<1>6. noted \in Watchdogs
  BY <1>4, NotedIsOne
<1>7. noted.tripped <=> w.tripped \/ tripping
  BY <1>4, NotedKeepsPairs DEF Paired
<1>8. tripping => ~w.tripped /\ e.profile # FIRMWARE
  BY <1>4 DEF Trips, Counts
<1>9. driven = fan \/ driven = FansRan(e, target, x)
  OBVIOUS
<1> HIDE DEF ran, driven, fault, failed, tripping, noted, restored, report
<1>10. wd'.tripped = noted.tripped
  BY <1>3, <1>6 DEF Watchdogs
<1>11. CASE w.tripped
  <2>1. ~Driving(e)
    BY <1>11 DEF Paired, Driving
  <2>2. Held' \subseteq Held
    BY <1>3, <1>5, <2>1 DEF Held
  <2> QED BY <1>7, <1>10, <1>11, <2>2
<1>12. CASE ~w.tripped /\ Driving(e) /\ ~wd'.tripped
  <2>1. ~tripping /\ ~handing
    BY <1>7, <1>10, <1>12
  <2>2. eng'.profile = e.profile /\ fan' = driven
    BY <1>3, <1>4, <2>1 DEF FanStates
  <2>3. Held \subseteq Held'
    <3>1. CASE driven = fan
      BY <2>2, <3>1 DEF Held
    <3>2. CASE driven = FansRan(e, target, x)
      BY <2>2, <3>2, DrivingHolds
    <3> QED BY <1>9, <3>1, <3>2
  <2> QED BY <1>12, <2>2, <2>3
<1>13. CASE ~w.tripped /\ ~Driving(e)
  <2>1. e.profile = FIRMWARE
    BY <1>13 DEF Driving
  <2>2. ~tripping /\ ~noted.tripped /\ ~handing
    BY <1>7, <1>8, <1>13, <2>1
  <2>3. fan' = fan /\ eng'.profile = e.profile
    BY <1>3, <1>4, <1>5, <1>13, <2>2 DEF FanStates
  <2> QED BY <1>10, <1>13, <2>2, <2>3
<1> QED BY <1>11, <1>12, <1>13

LEMMA TickIsServed ==
  ASSUME Known, Known', Tick
  PROVE  Service!Next \/ UNCHANGED <<CurrentChoice, KeptChoice, Driver, Held>>
<1>1. /\ TickOn(eng, wd, bus) /\ UNCHANGED <<phase, disk, wanted>> /\ Up /\ Up'
      /\ eng \in Engines /\ wd \in Watchdogs /\ Paired(eng, wd) /\ eng.profile # MANUAL
  BY DEF Tick, Known, IInv, Agree, Keeps, Regular, Up
<1>2. UNCHANGED <<CurrentChoice, KeptChoice>>
  <2>1. CurrentChoice = wanted /\ CurrentChoice' = wanted'
    BY <1>1 DEF Known, Keeps, SavesTheUsersChoice, CurrentChoice
  <2> QED BY <1>1, <2>1 DEF KeptChoice, Chosen
<1>3. /\ wd.tripped => wd'.tripped /\ Held' \subseteq Held
      /\ ~wd.tripped /\ Driving(eng) /\ ~wd'.tripped => eng'.profile = eng.profile /\ Held \subseteq Held'
      /\ ~wd.tripped /\ ~Driving(eng) => ~wd'.tripped /\ UNCHANGED fan /\ eng'.profile = eng.profile
  BY <1>1, TickServes DEF Known
<1>4. Held' \subseteq FANS
  BY DEF Held
<1>5. eng'.profile = eng.profile => (Driving(eng') <=> Driving(eng))
  BY DEF Driving
<1>6. CASE wd.tripped
  <2>1. Driver = "failsafe" /\ Driver' = "failsafe"
    BY <1>1, <1>3, <1>6, DriverParts, DriverParts2
  <2> QED BY <1>2, <1>3, <1>6, <2>1 DEF Service!GiveBack, Service!Next
<1>7. CASE ~wd.tripped /\ Driving(eng) /\ wd'.tripped
  <2>1. Driver = "profile" /\ Driver' = "failsafe"
    BY <1>1, <1>7, DriverParts, DriverParts2
  <2> QED BY <1>2, <1>4, <2>1 DEF Service!Trip, Service!Next
<1>8. CASE ~wd.tripped /\ Driving(eng) /\ ~wd'.tripped
  <2>1. Driver = "profile" /\ Driver' = "profile"
    BY <1>1, <1>3, <1>5, <1>8, DriverParts, DriverParts2
  <2> QED BY <1>2, <1>3, <1>4, <1>8, <2>1 DEF Service!Drive, Service!Next
<1>9. CASE ~wd.tripped /\ ~Driving(eng)
  <2>1. Driver = "firmware" /\ Driver' = "firmware"
    BY <1>1, <1>3, <1>5, <1>9, DriverParts, DriverParts2
  <2>2. UNCHANGED Held
    BY <1>3, <1>9 DEF Held
  <2> QED BY <1>2, <2>1, <2>2
<1> QED BY <1>6, <1>7, <1>8, <1>9

LEMMA StartIsServed ==
  ASSUME Known, Known', Start
  PROVE  Service!Begin
<1> DEFINE e == IF disk = None THEN FreshEngine ELSE Restored(FreshEngine, disk)
<1>1. /\ TickOn(e, FreshWatchdog, [bus EXCEPT !.profile = e.profile])
      /\ wanted' = Chosen(e) /\ UNCHANGED disk /\ ~Up /\ Up'
  BY DEF Start, Up
<1>2. e \in Engines /\ Regular(e)
  BY FreshEngineIsOne, RestoredIsOne, FreshIsRegular, RestoredChoice DEF Known, IInv, Keeps
<1>3. Chosen(e) = KeptChoice
  BY FreshEngineIsOne, RestoredChoice DEF Known, IInv, Keeps, KeptChoice
<1> HIDE DEF e
<1>4. UNCHANGED KeptChoice /\ CurrentChoice = KeptChoice /\ CurrentChoice' = wanted'
  BY <1>1 DEF KeptChoice, Chosen, Known, Keeps, SavesTheUsersChoice, CurrentChoice
<1>5. Paired(e, FreshWatchdog) /\ ~FreshWatchdog.tripped /\ e.profile # MANUAL
  BY <1>2, FreshWatchdogFields DEF Paired, Regular
<1>6. /\ Driving(e) /\ ~wd'.tripped => eng'.profile = e.profile /\ Held \subseteq Held'
      /\ ~Driving(e) => ~wd'.tripped /\ UNCHANGED fan /\ eng'.profile = e.profile
  BY <1>1, <1>2, <1>5, FreshWatchdogIsOne, TickServes DEF Known
<1>7. Held' \subseteq FANS /\ Driver = "nobody"
  BY <1>1 DEF Held, Driver
<1>8. eng'.profile = e.profile => (Driving(eng') <=> Driving(e))
  BY DEF Driving
<1>9. Driving(e) <=> KeptChoice # FirmwareChosen
  <2>1. e.profile = FIRMWARE => e.curves = None
    BY <1>2 DEF Engines, Whole
  <2>2. Driving(e) <=> e.profile # FIRMWARE
    BY <1>5 DEF Driving
  <2> QED BY <1>3, <2>1, <2>2, FirmwareChosenParts DEF Chosen
<1>10. CASE Driving(e) /\ wd'.tripped
  <2>1. Driver' = "failsafe"
    BY <1>1, <1>10, DriverParts2
  <2> QED BY <1>1, <1>3, <1>4, <1>7, <1>9, <1>10, <2>1 DEF Service!Begin, FirmwareChosen
<1>11. CASE Driving(e) /\ ~wd'.tripped
  <2>1. Driver' = "profile"
    BY <1>1, <1>6, <1>8, <1>11, DriverParts2
  <2> QED BY <1>1, <1>3, <1>4, <1>6, <1>7, <1>9, <1>11, <2>1
          DEF Service!Begin, Service!DriverOf, FirmwareChosen
<1>12. CASE ~Driving(e)
  <2>1. Driver' = "firmware"
    BY <1>1, <1>6, <1>8, <1>12, DriverParts2
  <2>2. UNCHANGED Held
    BY <1>6, <1>12 DEF Held
  <2> QED BY <1>1, <1>3, <1>4, <1>7, <1>9, <1>12, <2>1, <2>2
          DEF Service!Begin, Service!DriverOf, FirmwareChosen
<1> QED BY <1>10, <1>11, <1>12

LEMMA GoneIsServed ==
  ASSUME phase' \in {"stopping", "down"}, UNCHANGED disk, Held' \subseteq Held
  PROVE  Service!End
<1>1. ~Up'
  BY DEF Up
<1>2. UNCHANGED KeptChoice /\ CurrentChoice' = KeptChoice'
  BY <1>1 DEF KeptChoice, Chosen, CurrentChoice
<1>3. Driver' = "nobody"
  BY <1>1, DriverParts2
<1> QED BY <1>2, <1>3 DEF Service!End

LEMMA StepIsServed ==
  ASSUME AppCallsOnly, Known, Known', [Next]_vars
  PROVE  Service!Next \/ UNCHANGED <<CurrentChoice, KeptChoice, Driver, Held>>
<1>1. CASE SetProfile
  <2>1. PICK name \in Builtins \cup {FIRMWARE, CUSTOM} :
          /\ KnownProfile(Resumed, name)
          /\ IF name = FIRMWARE
             THEN TakeFirmware(Resumed)
             ELSE TakeChoice(EngineProfile(Resumed, name)) /\ WantProfile(name)
    BY <1>1 DEF SetProfile
  <2>2. Up /\ UNCHANGED phase /\ Resumed \in Engines /\ Chosen(Resumed) = wanted
    BY <1>1, ResumedIsOne, ResumedChoice DEF SetProfile, Known
  <2>3. CASE name = FIRMWARE
    BY <2>1, <2>2, <2>3, TakeFirmwareServes DEF Service!Next
  <2>4. CASE name # FIRMWARE
    <3>1. name \in Builtins \cup {CUSTOM} /\ EngineProfile(Resumed, name) \in Engines
      BY <2>1, <2>2, <2>4, NamedIsOne
    <3>2. Resumed.curves = wanted.curves
      BY <2>2 DEF Chosen
    <3>3. wanted' = Chosen(EngineProfile(Resumed, name))
      BY <2>1, <2>2, <2>4, <3>1, <3>2, NamedChoice DEF WantProfile
    <3>4. Driving(EngineProfile(Resumed, name))
      <4>1. EngineProfile(Resumed, name).profile = name
        BY <2>2, <3>1, NamedChoice DEF Chosen
      <4> QED BY <3>1, <4>1, NamesApart DEF Driving
    <3>5. \E c \in UserChoices : Service!Choose(c)
      BY <2>1, <2>2, <2>4, <3>1, <3>3, <3>4, TakeChoiceServes
    <3> QED BY <3>5 DEF Service!Next, UserChoices
  <2> QED BY <2>3, <2>4
<1>2. CASE SetCurve
  <2>1. PICK f \in FANS, new \in Drawn, linked \in BOOLEAN :
          /\ TakeChoice(EngineOneCurve(Resumed, f, new, linked))
          /\ WantCurve(f, new, linked)
    BY <1>2 DEF SetCurve
  <2>2. Up /\ UNCHANGED phase /\ Resumed \in Engines /\ Resumed.curves = wanted.curves
    BY <1>2, ResumedIsOne, ResumedChoice DEF SetCurve, Chosen, Known
  <2>3. Chosen(EngineOneCurve(Resumed, f, new, linked)) = wanted'
    BY <2>1, <2>2, OneCurveChoice DEF WantCurve
  <2>4. EngineOneCurve(Resumed, f, new, linked) \in Engines
    BY <2>2, OneCurveIsOne
  <2>5. EngineOneCurve(Resumed, f, new, linked).profile = CUSTOM
    BY <2>1, <2>3 DEF WantCurve, Chosen
  <2>6. Driving(EngineOneCurve(Resumed, f, new, linked))
    BY <2>5, NamesApart DEF Driving
  <2>7. \E c \in UserChoices : Service!Choose(c)
    BY <2>1, <2>2, <2>3, <2>4, <2>6, TakeChoiceServes
  <2> QED BY <2>7 DEF Service!Next, UserChoices
<1>3. CASE RestoreFirmware
  BY <1>3, TakeFirmwareServes DEF RestoreFirmware, Known, IInv, Service!Next
<1>4. CASE BadArgs \/ SetFanDuty
  BY <1>4 DEF AppCallsOnly, BadArgs, SetFanDuty
<1>5. CASE Setting
  <2>1. Up /\ Up' /\ UNCHANGED <<eng, wd, fan, phase>> /\ Persist
    BY <1>5 DEF Setting, Up
  <2>2. UNCHANGED <<CurrentChoice, Driver, Held>> /\ CurrentChoice = Chosen(ToSave(eng, wd))
    BY <2>1 DEF CurrentChoice, Driver, Held, ToSave, Snapshot, Chosen, Driving, Up
  <2>3. ToSave(eng', wd') # None /\ ToSave(eng', wd') = ToSave(eng, wd)
    BY <2>1, SnapshotIsSaved, ParameterAssumption DEF ToSave, Saved, Known, IInv, Snapshot
  <2>4. KeptChoice' \in {KeptChoice, CurrentChoice}
    BY <2>1, <2>2, <2>3, SavedOrNot DEF Chosen
  <2>5. Driver # "nobody"
    BY <2>1 DEF Driver
  <2> QED BY <2>2, <2>4, <2>5 DEF Service!Save, Service!Next
<1>6. CASE Deny \/ EcChanges \/ UNCHANGED vars
  BY <1>6 DEF Deny, Refuse, EcChanges, vars, CurrentChoice, KeptChoice, Driver, Held,
              ToSave, Snapshot, Chosen, Driving, Up
<1>7. CASE Tick
  BY <1>7, TickIsServed
<1>8. CASE Start
  BY <1>8, StartIsServed DEF Service!Next
<1>9. CASE Terminate \/ Crash \/ PowerCycle
  <2>1. phase' \in {"stopping", "down"} /\ UNCHANGED disk
    BY <1>9 DEF Terminate, Crash, PowerCycle, Gone
  <2>2. Held' \subseteq Held
    <3>1. CASE Terminate
      BY <3>1, HandingBackReleases DEF Terminate
    <3>2. CASE Crash \/ PowerCycle
      BY <3>2 DEF Crash, PowerCycle, Held, OnBoth
    <3> QED BY <1>9, <3>1, <3>2
  <2> QED BY <2>1, <2>2, GoneIsServed DEF Service!Next
<1>10. CASE StopPost
  <2>1. phase' = "down" /\ UNCHANGED disk /\ Held' \subseteq Held
    BY <1>10, HandingBackReleases DEF StopPost
  <2> QED BY <2>1, GoneIsServed DEF Service!Next
<1> QED
  BY <1>1, <1>2, <1>3, <1>4, <1>5, <1>6, <1>7, <1>8, <1>9, <1>10 DEF Next, Call

(* With the window and the tray as the daemon's clients: only the profile the  *)
(* user chose last holds a fan at a duty, a failsafe gives back and forgets no  *)
(* choice, and a restart goes back to the last choice that was saved.           *)
THEOREM DaemonKeepsItsPromises == AppCallsOnly => (Spec => KeepsItsPromises)
<1> SUFFICES ASSUME AppCallsOnly
             PROVE  Spec => KeepsItsPromises
  OBVIOUS
<1>1. Known /\ [Next]_vars => Known'
  BY StepKeepsIInv, StepAgrees, StepKeeps DEF Known
<1>2. Init => Known
  BY InitIsIInv, InitAgrees, InitKeeps DEF Known
<1>3. Init => Service!Init
  BY DEF Init, Service!Init, CurrentChoice, KeptChoice, Driver, Held, OnBoth, Up
<1>4. Known /\ Known' /\ [Next]_vars => [Service!Next]_<<CurrentChoice, KeptChoice, Driver, Held>>
  BY StepIsServed
<1> QED
  BY <1>1, <1>2, <1>3, <1>4, PTL DEF Spec, KeepsItsPromises, Service!Spec, Service!vars
=============================================================================
