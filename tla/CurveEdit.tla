----------------------------- MODULE CurveEdit ------------------------------
(***************************************************************************)
(* A curve's round trip through the daemon.  A client sends points, the    *)
(* daemon normalises them (set_one_curve), a client reads the result back, *)
(* moves one point and sends it again - a script as it likes, the window's *)
(* editor by its own rules (gui/gigactl_gui/curves.py) - and after a       *)
(* restart the saved curve is normalised once more (state.restore ->       *)
(* set_custom).  Some names carry the prefix Edit: Curve_proofs extends    *)
(* this module beside ProfileEngine, which has its own.                    *)
(***************************************************************************)
EXTENDS CurveMath

CONSTANTS Inputs,       \* the point lists a client may send
          Moves,        \* where a client may drag a point of a curve it read
          MaxEdits      \* bound: points moved, one after the other

(* int() has been applied to every number by the time normalize() sorts. *)
ASSUME EditParameters ==
    /\ Inputs \subseteq Seq(Int \X Int)
    /\ Moves \subseteq Int \X Int
    /\ MaxEdits \in Nat

VARIABLES curve,        \* the curve the engine holds
          sent,         \* the points the daemon was last given
          edits         \* bound: the points moved so far

editVars == <<curve, sent, edits>>

EditInit == sent \in Inputs /\ curve = Normalize(sent) /\ edits = 0

(* The editor, in which a dragged point stays between its neighbours. *)
TEMP_MIN == 30
TEMP_MAX == 100

Clamp(n, low, high) == Larger(low, Smaller(high, n))

IsValid(points) ==
    /\ Len(points) = POINTS
    /\ \A i \in 1 .. POINTS : Duty(points[i]) \in 0 .. 100
    /\ \A i \in 1 .. POINTS - 1 : /\ Temp(points[i]) < Temp(points[i + 1])
                                  /\ Duty(points[i]) <= Duty(points[i + 1])

(* Mutant: a dragged point may sit on its neighbour's temperature. *)
DraggedOnto(points, i, p) ==
    LET loT == IF i = 1 THEN TEMP_MIN ELSE Temp(points[i - 1])
        hiT == IF i = Len(points) THEN TEMP_MAX ELSE Temp(points[i + 1])
        loD == IF i = 1 THEN 0 ELSE Duty(points[i - 1])
        hiD == IF i = Len(points) THEN 100 ELSE Duty(points[i + 1])
    IN  [points EXCEPT ![i] = <<Clamp(Temp(p), loT, Larger(loT, hiT)), Clamp(Duty(p), loD, Larger(loD, hiD))>>]

(* move_point *)
Dragged(points, i, p) ==
    LET loT == IF i = 1 THEN TEMP_MIN ELSE Temp(points[i - 1]) + 1
        hiT == IF i = Len(points) THEN TEMP_MAX ELSE Temp(points[i + 1]) - 1
        loD == IF i = 1 THEN 0 ELSE Duty(points[i - 1])
        hiD == IF i = Len(points) THEN 100 ELSE Duty(points[i + 1])
    IN  [points EXCEPT ![i] = <<Clamp(Temp(p), loT, Larger(loT, hiT)), Clamp(Duty(p), loD, Larger(loD, hiD))>>]

(* A point of the curve on screen is dragged, and the curve sent.  The curve   *)
(* on screen is the daemon's: seeded_from takes a valid one untouched.         *)
Drag(i, p) ==
    /\ IsValid(curve)
    /\ sent' = Dragged(curve, i, p)
    /\ curve' = Normalize(sent')

(* set_one_curve with one point of the current curve moved. *)
MovePoint(i, p) ==
    /\ sent' = [curve EXCEPT ![i] = p]
    /\ curve' = Normalize(sent')

(* The curve saved to disk and restored by state.restore at the next start. *)
Restart ==
    /\ sent' = curve
    /\ curve' = Normalize(curve)
    /\ UNCHANGED edits

EditNext ==
    \/ Restart
    \/ /\ edits < MaxEdits
       /\ edits' = edits + 1
       /\ \E i \in 1 .. POINTS, p \in Moves : MovePoint(i, p) \/ Drag(i, p)

EditSpec == EditInit /\ [][EditNext]_editVars

-----------------------------------------------------------------------------
(* Whatever a client sends, the engine gets five points inside 0..100 with   *)
(* temperatures strictly increasing and duties never falling (normalize()).  *)
ValidCurve == IsCurve(curve)

(* A hotter component never gets a slower fan, the duty at a point is exactly *)
(* the one drawn there, and no temperature gets a duty outside the curve's    *)
(* own ends (duty_for over a normalised curve).                               *)
RisesThroughItsPoints ==
    /\ \A t \in 0 .. 100 : DutyFor(curve, t) <= DutyFor(curve, t + 1)
    /\ \A i \in 1 .. POINTS : DutyFor(curve, Temp(curve[i])) = Duty(curve[i])
    /\ DutyFor(curve, 0) = Duty(curve[1]) /\ DutyFor(curve, 101) = Duty(curve[POINTS])

(* A restart gives back the very curve that was saved: normalize() leaves a  *)
(* curve it produced as it is, so repeated restarts cannot make it drift.    *)
RestartKeepsTheCurve == [][sent' = curve => curve' = curve]_editVars

(* The editor "never shows the user something the daemon would quietly        *)
(* change": what a drag draws is what the daemon drives - save a first point  *)
(* whose neighbour lies below the drawn range (see DragKeepsItValid).       *)
DrawnIsDriven ==
    [][\A i \in 1 .. POINTS, p \in Moves :
         Drag(i, p) /\ ~(i = 1 /\ Temp(curve[2]) <= TEMP_MIN) => curve' = sent']_editVars

(* The same for every drag, as curves.py says: "clamped so the curve stays     *)
(* valid".  The code does not keep it: the first point's lower bound is the    *)
(* drawn range's, whatever the second point's temperature.                     *)
DragKeepsItValid ==
    [][\A i \in 1 .. POINTS, p \in Moves : Drag(i, p) => IsValid(sent')]_editVars
=============================================================================
