-------------------------------- MODULE Gfan ---------------------------------
(***************************************************************************)
(* The fan command gfan (src/gfan, src/gigactl-cli-lib.sh): several        *)
(* invocations at once, each choosing between the daemon and the EC, with  *)
(* a daemon that comes and goes and an EC that may refuse.                 *)
(*                                                                         *)
(* An invocation is a shell script under `set -e`: every command that      *)
(* fails ends it where it stands, and the kernel then lets go of the lock. *)
(* Each EC command and each D-Bus call is a step of its own (what keeps a  *)
(* command whole is EcMailbox's subject, what the daemon does inside a     *)
(* call is FanDaemon's).  sudo re-running the script is the same detection *)
(* once more.                                                              *)
(***************************************************************************)
EXTENDS Naturals

CONSTANTS
    Users,      \* invocations that may run at the same time
    Duties,     \* percentages a user asks for
    Low,        \* those the hot-and-slow guard is about (below 30)
    Rounds,     \* how often a verification reads the duties (50)
    AUTO,       \* the firmware's control of a fan
    None

FANS == {"cpu", "gpu"}
Pairs == [FANS -> Duties]
OnBoth(d) == [f \in FANS |-> d]

ASSUME ParameterAssumption ==
    /\ Low \subseteq Duties /\ Rounds \in Nat \ {0}
    /\ AUTO \notin Duties /\ None \notin Users /\ None \notin Pairs

VARIABLES
    fan,        \* what each fan does: AUTO or the duty it was told
    kind,       \* whether it follows this protocol on this machine: "follows",
                \* if need be only as far as the firmware lets it; "deaf", and
                \* its register shows what the firmware does; "stuck", and its
                \* register is never near a duty that is asked for
    served,     \* does the daemon own its bus name?
    lock,       \* the EC lock's holder among the invocations
    mode,       \* /run/gfan.mode: the pair it names, None when it is not there
    at,         \* where each invocation is; "ended" when none runs
    job,        \* what it is to do: AUTO or a pair
    round,      \* of the verification under way: its next reading,
    strikes,    \* and how many in a row have shown no movement
    unclean     \* history: since an invocation last took the lock, has one died
                \* holding it, or has the daemon written the EC?

counters == <<round, strikes>>
vars == <<fan, kind, served, lock, mode, at, job, counters, unclean>>
machine == <<fan, kind, mode, unclean>>

Kinds == {"follows", "deaf", "stuck"}
Follows(f) == kind[f] = "follows"

Init ==
    /\ fan = OnBoth(AUTO) /\ kind \in [FANS -> Kinds]
    /\ served \in BOOLEAN
    /\ lock = None /\ mode = None
    /\ at = [u \in Users |-> "ended"] /\ job = [u \in Users |-> AUTO]
    /\ round = 1 /\ strikes = 0
    /\ unclean = served

-----------------------------------------------------------------------------
(* Where an invocation goes next; one that ends has nothing to do any more. *)
GoTo(u, place) ==
    /\ at' = [at EXCEPT ![u] = place]
    /\ job' = IF place = "ended" THEN [job EXCEPT ![u] = AUTO] ELSE job

(* A fan told d: it follows, if it follows this protocol at all. *)
Told(f, d) == IF Follows(f) THEN [fan EXCEPT ![f] = d] ELSE fan
AllTold(p) == [f \in FANS |-> IF Follows(f) THEN p[f] ELSE fan[f]]

(* die, or the command that failed under set -e. *)
End(u) ==
    /\ GoTo(u, "ended")
    /\ lock' = IF lock = u THEN None ELSE lock

-----------------------------------------------------------------------------
(* Choosing what to do, and through whom. *)

Run(u) ==
    /\ at[u] = "ended"
    /\ at' = [at EXCEPT ![u] = "detect"]
    /\ \E j \in Pairs \cup {AUTO} : job' = [job EXCEPT ![u] = j]
    /\ UNCHANGED <<machine, served, lock, counters>>

(* detect_mode, which may also be unable to tell; then the guard, against the *)
(* temperature of that moment, unless --force is given.                       *)
DetectMode(u) ==
    /\ at[u] = "detect"
    /\ \/ GoTo(u, "ended")
       \/ GoTo(u, IF served THEN "call" ELSE "lock")
       \/ job[u] # AUTO /\ GoTo(u, IF served THEN "guardCall" ELSE "guardLock")
    /\ UNCHANGED <<machine, served, lock, counters>>

Guard(u) ==
    /\ at[u] \in {"guardCall", "guardLock"}
    /\ \E hot \in BOOLEAN :
         LET refused == hot /\ \E f \in FANS : job[u][f] \in Low
         IN  GoTo(u, IF refused THEN "ended" ELSE IF at[u] = "guardCall" THEN "call" ELSE "lock")
    /\ UNCHANGED <<machine, served, lock, counters>>

-----------------------------------------------------------------------------
(* Direct mode. *)

(* Mutant: two invocations may both hold the lock. *)
LockEcShared(u) ==
    /\ at[u] = "lock"
    /\ lock' = u /\ unclean' = FALSE
    /\ GoTo(u, IF job[u] = AUTO THEN "auto1" ELSE "fan1")
    /\ UNCHANGED <<fan, kind, served, mode, counters>>

(* lock_ec: gets the lock, or gives up after LOCK_WAIT. *)
LockEc(u) ==
    /\ at[u] = "lock"
    /\ IF lock = None
       THEN /\ lock' = u /\ unclean' = FALSE
            /\ GoTo(u, IF job[u] = AUTO THEN "auto1" ELSE "fan1")
       ELSE End(u) /\ UNCHANGED unclean
    /\ UNCHANGED <<fan, kind, served, mode, counters>>

(* One EC command and where the script goes from there. *)
Writes(u, here, f, d, next) ==
    /\ at[u] = here
    /\ fan' = Told(f, d)
    /\ GoTo(u, next)
    /\ UNCHANGED <<kind, served, lock, mode, counters, unclean>>

SetFans(u) ==
    \/ Writes(u, "fan1", "cpu", job[u]["cpu"], "fan2")
    \/ Writes(u, "fan2", "gpu", job[u]["gpu"], "verify")

(* direct_restore_auto and revert_auto *)
AutoFans(u) ==
    \/ Writes(u, "auto1", "cpu", AUTO, "auto2")
    \/ Writes(u, "auto2", "gpu", AUTO, "forget")

(* What the duty registers may read, the fan further from the duty asked for    *)
(* counting: within 10 of 255, within 40, or further away.  A fan that follows  *)
(* may be on its way, or held off by the firmware; a deaf one may come near,    *)
(* even in passing.                                                             *)
NeverNear(fans) == \E f \in fans : kind[f] = "stuck"
Readings == IF NeverNear(FANS) THEN {"far"} ELSE {"near", "close", "far"}
Stills(moving) == IF round < 3 THEN strikes ELSE IF moving THEN 0 ELSE strikes + 1

(* Mutant: a fan that keeps moving is waited for. *)
GivesUpNever == FALSE

(* The loop has read the duties for the last time. *)
GivesUp == round = Rounds

Verdict(u, next) == GoTo(u, next) /\ round' = 1 /\ strikes' = 0

(* One round of verify_or_revert: the duties have converged, or have stopped    *)
(* moving close enough (a firmware clamp) or too far away, or the time is up.   *)
VerifyOrRevert(u) ==
    /\ at[u] = "verify"
    /\ \E r \in Readings, moving \in BOOLEAN :
        LET stopped == Stills(moving) = 3
        IN  IF r = "near" \/ (stopped /\ r = "close") THEN Verdict(u, "note")
            ELSE IF stopped \/ GivesUp THEN Verdict(u, "auto1")
            ELSE /\ round' = IF round < Rounds THEN round + 1 ELSE round
                 /\ strikes' = Stills(moving)
                 /\ UNCHANGED <<at, job>>
    /\ UNCHANGED <<machine, served, lock>>

(* The mode file follows what was verified, or goes. *)
Note(u) ==
    /\ at[u] \in {"note", "forget"}
    /\ mode' = IF at[u] = "note" THEN job[u] ELSE None
    /\ End(u)
    /\ UNCHANGED <<fan, kind, served, counters, unclean>>

(* Ctrl-C, or an EC access that fails: the script ends where it is.  A revert *)
(* under way is not finished either.                                          *)
Dies(u) ==
    /\ at[u] # "ended"
    /\ End(u)
    /\ IF at[u] = "verify" THEN round' = 1 /\ strikes' = 0 ELSE UNCHANGED counters
    /\ unclean' = (unclean \/ lock = u)
    /\ UNCHANGED <<fan, kind, served, mode>>

-----------------------------------------------------------------------------
(* Daemon mode.  The daemon takes the same lock for its writes. *)

DaemonWrites(next) ==
    /\ lock = None
    /\ fan' = next
    /\ unclean' = TRUE
    /\ UNCHANGED <<mode, kind, served, lock, counters>>

(* daemon_restore_auto, and the first of daemon_set_duties: one call for equal *)
(* duties, the CPU fan's otherwise.  Duties that do not read back are reverted  *)
(* by the daemon, all of the call's; an EC that refuses part of it ends it.     *)
Call(u) ==
    /\ at[u] = "call" /\ served
    /\ \/ /\ job[u] = AUTO
          /\ DaemonWrites(OnBoth(AUTO))
          /\ GoTo(u, "ended")
       \/ /\ job[u] \in {OnBoth(d) : d \in Duties}
          /\ \/ ~NeverNear(FANS) /\ DaemonWrites(AllTold(job[u]))
             \/ DaemonWrites(OnBoth(AUTO))
          /\ GoTo(u, "ended")
       \/ /\ job[u] \in Pairs \ {OnBoth(d) : d \in Duties}
          /\ \/ ~NeverNear({"cpu"}) /\ DaemonWrites(Told("cpu", job[u]["cpu"])) /\ GoTo(u, "call2")
             \/ DaemonWrites(Told("cpu", AUTO)) /\ GoTo(u, "ended")

(* A call the daemon or its EC refuses, or one it does not answer. *)
CallRefused(u) ==
    /\ at[u] \in {"call", "call2", "undo"}
    /\ GoTo(u, IF at[u] = "call2" THEN "undo" ELSE "ended")
    /\ UNCHANGED <<machine, served, lock, counters>>

Call2(u) ==
    /\ at[u] = "call2" /\ served
    /\ \/ ~NeverNear({"gpu"}) /\ DaemonWrites(Told("gpu", job[u]["gpu"])) /\ GoTo(u, "ended")
       \/ DaemonWrites(Told("gpu", AUTO)) /\ GoTo(u, "undo")

Undo(u) ==
    /\ at[u] = "undo" /\ served
    /\ DaemonWrites(OnBoth(AUTO))
    /\ GoTo(u, "ended")

(* The daemon comes, drives the fans (for its profile, for another client, or  *)
(* late for a call that has timed out), and goes: it hands them back at a stop. *)
DaemonStart == ~served /\ served' = TRUE /\ UNCHANGED <<machine, lock, at, job, counters>>
DaemonDrives ==
    /\ served
    /\ \E p \in [FANS -> Duties \cup {AUTO}] : DaemonWrites(AllTold(p))
    /\ UNCHANGED <<at, job>>
DaemonStop ==
    /\ served /\ lock = None
    /\ served' = FALSE
    /\ fan' = OnBoth(AUTO) /\ unclean' = TRUE
    /\ UNCHANGED <<mode, kind, lock, at, job, counters>>

(* A reboot: the EC's defaults, an empty /run. *)
Reboot ==
    /\ fan' = OnBoth(AUTO) /\ mode' = None /\ lock' = None /\ unclean' = FALSE
    /\ served' = FALSE
    /\ at' = [u \in Users |-> "ended"] /\ job' = [u \in Users |-> AUTO]
    /\ round' = 1 /\ strikes' = 0
    /\ UNCHANGED kind

-----------------------------------------------------------------------------
Direct(u) == LockEc(u) \/ SetFans(u) \/ VerifyOrRevert(u) \/ AutoFans(u) \/ Note(u)
ByDaemon(u) == Call(u) \/ CallRefused(u) \/ Call2(u) \/ Undo(u)
Step(u) == DetectMode(u) \/ Guard(u) \/ Direct(u) \/ ByDaemon(u)
Environment == DaemonStart \/ DaemonDrives \/ DaemonStop \/ Reboot

Next == (\E u \in Users : Run(u) \/ Step(u) \/ Dies(u)) \/ Environment

Spec == Init /\ [][Next]_vars

(* A script that is not stopped goes on, whatever the others and the daemon do: *)
(* its waits for the lock, the bus and the EC are all bounded.                  *)
FairSpec == Spec /\ \A u \in Users : WF_vars(Step(u))
-----------------------------------------------------------------------------
Places == {"ended", "detect", "guardCall", "guardLock", "lock", "fan1", "fan2", "verify",
           "note", "auto1", "auto2", "forget", "call", "call2", "undo"}

TypeOK ==
    /\ fan \in [FANS -> Duties \cup {AUTO}]
    /\ kind \in [FANS -> Kinds]
    /\ round \in Nat /\ strikes \in 0 .. 2
    /\ {served, unclean} \subseteq BOOLEAN
    /\ lock \in Users \cup {None}
    /\ mode \in Pairs \cup {None}
    /\ at \in [Users -> Places]
    /\ job \in [Users -> Pairs \cup {AUTO}]

(* "concurrent invocations serialise": whatever invocations ran in direct mode, *)
(* interleaved, reverted or refused, the fans have been told what one of them   *)
(* asked as a whole, or to obey the firmware, and the mode file that `gfan      *)
(* status` shows says which - until one dies half-way or the daemon takes over. *)
(* On a machine with a fan whose register never comes near, it is the firmware. *)
ModeFileIsHonest ==
    /\ mode # None => ~NeverNear(FANS)
    /\ lock = None /\ ~unclean =>
            fan = IF mode = None THEN OnBoth(AUTO)
                  ELSE [f \in FANS |-> IF Follows(f) THEN mode[f] ELSE AUTO]

(* Every invocation ends: a holder of the lock, a machine that does not follow  *)
(* the protocol and a daemon that refuses everything included.                  *)
EveryCallEnds == \A u \in Users : at[u] # "ended" ~> at[u] = "ended"

-----------------------------------------------------------------------------
(* What comments say and the code does not keep. *)

(* verify_or_revert is the "safety net for unknown models": what passes it and  *)
(* is noted in the mode file is what the fans do.                               *)
NotedFansObey == lock = None /\ ~unclean /\ mode # None => fan = mode

(* The daemon owns its name, "which makes it the single writer of the EC"; the *)
(* script writes only when it "is definitely not running".                     *)
NeverBehindTheDaemon ==
    [][(\E u \in Users : SetFans(u) \/ AutoFans(u)) => ~served]_vars
=============================================================================
