------------------------------ MODULE MCSettings ------------------------------
(***************************************************************************)
(* Settings for TLC.  gkbd and the turbo knob share nothing but the        *)
(* daemon, and their product is out of TLC's reach; so gkbd runs only on   *)
(* the machines without a knob, and two at once only until a client has    *)
(* set something.  There a save of the keyboard's state does not fail, and *)
(* a client asks for no brightness but the firmware's.                     *)
(***************************************************************************)
EXTENDS Settings, TLC

Symmetry == Permutations(Users)

NoKnob == knob = "missing"
AtMostOneRuns == \A u, w \in Users : at[u] # "ended" /\ at[w] # "ended" => u = w

Bounded ==
    /\ ~NoKnob => UNCHANGED at
    /\ NoKnob => /\ "turbo" \notin chose'
                 /\ chose # {} => AtMostOneRuns'
                 /\ served' /\ keyboard' # keyboard => disk'.keyboard = keyboard'
                 /\ work' # None => work'.asked.percent = FULL

MCSpec == Init /\ [][Next /\ Bounded]_vars
=============================================================================
