----------------------------- MODULE FanService ------------------------------
(***************************************************************************)
(* What the fan daemon promises its users, whatever happens to the EC, the *)
(* disk and the process: the fans are driven by the profile the user chose *)
(* last, or by the firmware because the user said so, or by the firmware   *)
(* because a failsafe tripped.  Only a driving profile puts a fan at a     *)
(* duty.  A failsafe gives fans back and takes none, forgets no choice and *)
(* ends with the user's next one.  A restart goes back to the last choice  *)
(* that was saved.                                                         *)
(***************************************************************************)
CONSTANTS Choices,          \* what a user can choose
          FirmwareChoice,   \* the choice of the laptop's own control
          Fans

VARIABLES choice,   \* the user's choice, as far as the process knows it
          kept,     \* the choice a restart will find
          driver,   \* "profile", "firmware", "failsafe" or "nobody" (no process)
          held      \* fans at a duty; the firmware's curve has the others

vars == <<choice, kept, driver, held>>

DriverOf(c) == IF c = FirmwareChoice THEN "firmware" ELSE "profile"

Init ==
    /\ choice = FirmwareChoice /\ kept = FirmwareChoice
    /\ driver = "nobody"
    /\ held = {}

(* A choice that drives: it may be refused halfway, and is then not saved.     *)
Choose(c) ==
    /\ driver # "nobody" /\ c # FirmwareChoice
    /\ choice' = c /\ kept' \in {kept, c}
    /\ driver' = "profile"
    /\ held \subseteq held' /\ held' \subseteq Fans

(* The laptop's own control: the call succeeds with every fan given back.      *)
(* Refused, it gives back what the EC accepts: a profile is dropped all the     *)
(* same, a failsafe stays in charge with the choice it set aside (GiveBack).    *)
ChooseFirmware ==
    /\ driver # "nobody"
    /\ \/ /\ choice' = FirmwareChoice /\ kept' \in {kept, FirmwareChoice}
          /\ driver' = "firmware"
          /\ held' = {}
       \/ /\ driver # "failsafe"
          /\ choice' = FirmwareChoice /\ driver' = "firmware"
          /\ held' \subseteq held
          /\ UNCHANGED kept

(* Some other setting is saved, and the choice with it.                        *)
Save == driver # "nobody" /\ kept' = choice /\ UNCHANGED <<choice, driver, held>>

(* The profile drives the fans; fans it holds it goes on holding.              *)
Drive ==
    /\ driver = "profile"
    /\ held \subseteq held' /\ held' \subseteq Fans
    /\ UNCHANGED <<choice, kept, driver>>

(* Too many failures in a row: the profile is dropped, its choice is not.      *)
Trip ==
    /\ driver = "profile" /\ driver' = "failsafe"
    /\ held' \subseteq Fans
    /\ UNCHANGED <<choice, kept>>

(* The failsafe, a stop, or what runs after a stop gives fans back.            *)
GiveBack ==
    /\ driver \in {"failsafe", "nobody"}
    /\ held' \subseteq held
    /\ UNCHANGED <<choice, kept, driver>>

(* The process ends; whatever it had not saved is lost.                        *)
End ==
    /\ driver' = "nobody" /\ choice' = kept
    /\ held' \subseteq held
    /\ UNCHANGED kept

(* A process starts with the choice that was kept, and acts on it at once.     *)
Begin ==
    /\ driver = "nobody"
    /\ held' \subseteq Fans
    /\ \/ driver' = DriverOf(choice) /\ held \subseteq held' /\ (driver' = "firmware" => held' = held)
       \/ choice # FirmwareChoice /\ driver' = "failsafe"
    /\ UNCHANGED <<choice, kept>>

Next ==
    \/ \E c \in Choices : Choose(c)
    \/ ChooseFirmware \/ Save \/ Drive \/ Trip \/ GiveBack \/ End \/ Begin

Spec == Init /\ [][Next]_vars
=============================================================================
