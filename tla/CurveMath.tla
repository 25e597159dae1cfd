----------------------------- MODULE CurveMath -----------------------------
(***************************************************************************)
(* The pure arithmetic of daemon/gigactld/curve.py: the duty a curve gives *)
(* at a temperature, the safety floor, and the normalisation every curve a *)
(* client sends goes through.  A point is a pair <<temp, duty>>, a curve a *)
(* sequence of points.                                                     *)
(***************************************************************************)
EXTENDS Integers, Sequences, FiniteSets

POINTS == 5
FLOOR_PCT == 30

Temp(p) == p[1]
Duty(p) == p[2]

Larger(a, b) == IF a >= b THEN a ELSE b
Smaller(a, b) == IF a <= b THEN a ELSE b

(* Python's round() of n / d for n >= 0, d > 0: a half goes to the even neighbour. *)
RoundHalfEven(n, d) ==
    LET q == n \div d
        r == 2 * (n % d)
    IN  IF r < d \/ (r = d /\ q % 2 = 0) THEN q ELSE q + 1

(* The first segment whose two ends enclose temp, as the zip loop meets them. *)
Segment(curve, temp) ==
    CHOOSE i \in 1 .. Len(curve) - 1 :
        /\ Temp(curve[i]) <= temp /\ temp <= Temp(curve[i + 1])
        /\ \A j \in 1 .. i - 1 : ~(Temp(curve[j]) <= temp /\ temp <= Temp(curve[j + 1]))

Interpolate(p, q, temp) ==
    LET span == Temp(q) - Temp(p)
    IN  IF span = 0 THEN Duty(q)
        ELSE RoundHalfEven(Duty(p) * span + (Duty(q) - Duty(p)) * (temp - Temp(p)), span)

DutyFor(curve, temp) ==
    LET last == curve[Len(curve)]
    IN  CASE temp <= Temp(curve[1]) -> Duty(curve[1])
          [] temp > Temp(curve[1]) /\ temp >= Temp(last) -> Duty(last)
          [] OTHER -> LET i == Segment(curve, temp) IN Interpolate(curve[i], curve[i + 1], temp)

ApplyFloor(duty, temp, floorPct, floorTemp) ==
    IF temp >= floorTemp THEN Larger(duty, floorPct) ELSE duty

(* A valid curve: POINTS points in range, temperatures rising, duties not falling. *)
IsCurve(curve) ==
    /\ curve \in [1 .. POINTS -> (0 .. 100) \X (0 .. 100)]
    /\ \A i \in 1 .. POINTS - 1 : /\ Temp(curve[i]) < Temp(curve[i + 1])
                                  /\ Duty(curve[i]) <= Duty(curve[i + 1])

-----------------------------------------------------------------------------
(* normalize(): clamp, stable sort, reduce, pad, space, raise. *)

Clamp100(n) == Larger(0, Smaller(100, n))

Clamped(points) == [i \in DOMAIN points |-> <<Clamp100(Temp(points[i])), Clamp100(Duty(points[i]))>>]

(* list.sort(key=temp) is stable: equal temperatures keep their order. *)
SortedByTemp(pts) ==
    LET before(i) == {j \in DOMAIN pts : \/ Temp(pts[j]) < Temp(pts[i])
                                         \/ Temp(pts[j]) = Temp(pts[i]) /\ j <= i}
    IN  [k \in DOMAIN pts |-> pts[CHOOSE i \in DOMAIN pts : Cardinality(before(i)) = k]]

(* More than POINTS points: the first, the last and rounded even steps between. *)
Reduced(pts) ==
    LET kept == {1 + RoundHalfEven(i * (Len(pts) - 1), POINTS - 1) : i \in 0 .. POINTS - 1}
        nth(k) == CHOOSE i \in kept : Cardinality({j \in kept : j <= i}) = k
    IN  IF Len(pts) > POINTS THEN [k \in 1 .. Cardinality(kept) |-> pts[nth(k)]] ELSE pts

Padded(pts) == [k \in 1 .. POINTS |-> pts[Smaller(k, Len(pts))]]

(* Temperatures forced apart upwards, each leaving room below 100 for those  *)
(* to come: Lifted is the i-th one, after prev.                               *)
LiftedToCeiling(t, prev, i) == Smaller(Larger(t, prev + 1), 100)              \* mutant
LiftedTooFar(t, prev, i) == Smaller(Larger(t, prev) + 1, 100 - (POINTS - i))  \* mutant
Lifted(t, prev, i) == Smaller(Larger(t, prev + 1), 100 - (POINTS - i))

Spaced(pts) ==
    LET t1 == Lifted(Temp(pts[1]), -1, 1)
        t2 == Lifted(Temp(pts[2]), t1, 2)
        t3 == Lifted(Temp(pts[3]), t2, 3)
        t4 == Lifted(Temp(pts[4]), t3, 4)
        t5 == Lifted(Temp(pts[5]), t4, 5)
    IN  << <<t1, Duty(pts[1])>>, <<t2, Duty(pts[2])>>, <<t3, Duty(pts[3])>>,
           <<t4, Duty(pts[4])>>, <<t5, Duty(pts[5])>> >>

(* Mutant: duties left as drawn. *)
DutiesAsDrawn(pts) == pts

(* Each duty raised to the largest before it. *)
NonDecreasing(pts) ==
    LET d1 == Larger(Duty(pts[1]), 0)
        d2 == Larger(Duty(pts[2]), d1)
        d3 == Larger(Duty(pts[3]), d2)
        d4 == Larger(Duty(pts[4]), d3)
        d5 == Larger(Duty(pts[5]), d4)
    IN  << <<Temp(pts[1]), d1>>, <<Temp(pts[2]), d2>>, <<Temp(pts[3]), d3>>,
           <<Temp(pts[4]), d4>>, <<Temp(pts[5]), d5>> >>

(* The stages in the order of the code; each is mapped over a one-element set *)
(* so that TLC evaluates it once.                                             *)
The(S) == CHOOSE x \in S : TRUE

Normalize(points) ==
    LET sorted == {SortedByTemp(p) : p \in {Clamped(points)}}
        filled == {IF p = <<>> THEN <<<<40, FLOOR_PCT>>>> ELSE p : p \in sorted}
        five == {Padded(p) : p \in {Reduced(q) : q \in filled}}
    IN  The({NonDecreasing(p) : p \in {Spaced(q) : q \in five}})

(* The built-in profiles. *)
PROFILES == [
    quiet       |-> << <<40, 20>>, <<60, 25>>, <<75, 40>>, <<85, 60>>, <<95, 100>> >>,
    balanced    |-> << <<40, 25>>, <<55, 35>>, <<70, 55>>, <<85, 80>>, <<95, 100>> >>,
    performance |-> << <<40, 40>>, <<55, 55>>, <<70, 75>>, <<85, 95>>, <<95, 100>> >>,
    max         |-> << <<40, 100>>, <<55, 100>>, <<70, 100>>, <<85, 100>>, <<95, 100>> >> ]
=============================================================================
