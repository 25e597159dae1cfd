---------------------------- MODULE MCEcMailbox -----------------------------
EXTENDS EcMailbox

(* Fan commands (doorbell 0xC1) take one parameter, the backlight colour     *)
(* (doorbell 0xCA) three.  Two byte values tell any two registers apart.     *)
Fan(f, d) == [bell |-> "C1", sub |-> f, params |-> <<d>>]
Colour(b, r, g) == [bell |-> "CA", sub |-> "1", params |-> <<b, r, g>>]

MCBells == {"C1", "CA"}
MCBytes == {"1", "2"}
MCArity == [bell \in MCBells |-> [sub \in MCBytes |-> IF bell = "C1" THEN 1 ELSE 3]]

(* The daemon issues single commands, gfan two fans under one lock, gkbd a   *)
(* colour.                                                                   *)
MCProcs == {"daemon", "gfan", "gkbd"}
MCSessions == [daemon |-> {<<Fan("1", "2")>>, <<Fan("2", "1")>>},
               gfan   |-> {<<Fan("1", "1"), Fan("2", "1")>>},
               gkbd   |-> {<<Colour("2", "1", "2")>>}]
MCPatient == {"daemon"}
=============================================================================
