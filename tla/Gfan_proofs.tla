----------------------------- MODULE Gfan_proofs ------------------------------
(***************************************************************************)
(* What holds of gfan for any number of invocations and any duties: the    *)
(* mode file says what the fans do whenever nobody is writing and nobody   *)
(* has died half-way.                                                      *)
(*                                                                         *)
(* The argument is that of a lock: only its holder writes, so what the     *)
(* fans are at a place of the script depends on that place alone.          *)
(***************************************************************************)
EXTENDS Gfan, TLAPS

(* Where the script holds the lock, and where it has a pair to set. *)
Holding == {"fan1", "fan2", "verify", "note", "auto1", "auto2", "forget"}
Setting == {"fan1", "fan2", "verify", "note", "call2", "undo"}

(* The places of lock_ec's holder are exactly those after it and before the end. *)
OneHolds == \A u \in Users : at[u] \in Holding <=> lock = u

HasAPair ==
    \A u \in Users :
        /\ at[u] \in Setting => job[u] \in Pairs
        /\ at[u] \in {"guardCall", "guardLock"} => job[u] \in Pairs

(* The fans as p tells them to be: those that do not follow stay with the firmware. *)
Obeying(p) == [f \in FANS |-> IF Follows(f) THEN p[f] ELSE AUTO]

(* What a holder has reached, place by place. *)
Reached ==
    \A u \in Users :
        /\ at[u] = "fan2" => fan["cpu"] = Obeying(job[u])["cpu"]
        /\ at[u] \in {"verify", "note"} => fan = Obeying(job[u])
        /\ at[u] = "note" => ~NeverNear(FANS)
        /\ at[u] = "auto2" => fan["cpu"] = AUTO
        /\ at[u] = "forget" => fan = OnBoth(AUTO)

(* A fan that does not follow the protocol stays with the firmware. *)
DeafStays == \A f \in FANS : ~Follows(f) => fan[f] = AUTO

IInv == TypeOK /\ OneHolds /\ HasAPair /\ DeafStays /\ Reached /\ ModeFileIsHonest

-----------------------------------------------------------------------------
(* The two fans, and what telling them something does. *)

(* Telling one fan, or both, gives duties again and leaves a fan alone that does *)
(* not follow.                                                                   *)
LEMMA TellingFans ==
    ASSUME fan \in [FANS -> Duties \cup {AUTO}]
    PROVE  /\ \A f \in FANS, d \in Duties \cup {AUTO} :
                /\ Told(f, d) \in [FANS -> Duties \cup {AUTO}]
                /\ Follows(f) => Told(f, d)[f] = d
                /\ ~Follows(f) => Told(f, d) = fan
                /\ \A g \in FANS \ {f} : Told(f, d)[g] = fan[g]
           /\ \A p \in [FANS -> Duties \cup {AUTO}] :
                /\ AllTold(p) \in [FANS -> Duties \cup {AUTO}]
                /\ \A f \in FANS : ~Follows(f) => AllTold(p)[f] = fan[f]
BY DEF Told, AllTold, FANS

(* The firmware on both fans, and a pair of duties, are ways to drive the fans. *)
LEMMA WaysToDrive ==
    /\ OnBoth(AUTO) \in [FANS -> Duties \cup {AUTO}]
    /\ \A f \in FANS : OnBoth(AUTO)[f] = AUTO
    /\ \A p \in Pairs : p \in [FANS -> Duties \cup {AUTO}] /\ \A f \in FANS : p[f] \in Duties
    /\ \A p \in [FANS -> Duties \cup {AUTO}] :
          p["cpu"] = AUTO /\ p["gpu"] = AUTO => p = OnBoth(AUTO)
BY DEF OnBoth, Pairs, FANS

(* Where an invocation goes, it keeps what it is to do unless it ends. *)
LEMMA Going ==
    ASSUME TypeOK, NEW u \in Users, NEW place \in Places, GoTo(u, place)
    PROVE  /\ at' \in [Users -> Places] /\ at' = [at EXCEPT ![u] = place]
           /\ job' \in [Users -> Pairs \cup {AUTO}]
           /\ \A v \in Users \ {u} : job'[v] = job[v] /\ at'[v] = at[v]
           /\ at'[u] = place
           /\ place # "ended" => job' = job
BY DEF TypeOK, GoTo

-----------------------------------------------------------------------------
(* The steps of a script that write nothing. *)

(* Nothing but the places outside the lock has changed. *)
LEMMA NothingWritten ==
    ASSUME IInv, NEW u \in Users, NEW place \in Places \ Holding,
           at[u] \notin Holding,
           at' = [at EXCEPT ![u] = place],
           job' \in [Users -> Pairs \cup {AUTO}],
           \A v \in Users \ {u} : job'[v] = job[v],
           place \in Setting \cup {"guardCall", "guardLock"} => job'[u] \in Pairs,
           UNCHANGED <<machine, lock, counters>>, served' \in BOOLEAN
    PROVE  IInv'
<1>1. /\ fan' = fan /\ kind' = kind /\ lock' = lock /\ mode' = mode
      /\ unclean' = unclean /\ round' = round /\ strikes' = strikes
  BY DEF machine, counters
<1>2. /\ at'[u] = place /\ \A v \in Users \ {u} : at'[v] = at[v]
      /\ {"fan2", "verify", "note", "auto2", "forget"} \subseteq Holding
  BY DEF IInv, TypeOK, Holding
<1>3. TypeOK'
  BY <1>1 DEF IInv, TypeOK
<1>4. OneHolds'
  BY <1>1, <1>2 DEF IInv, OneHolds
<1>5. HasAPair'
  BY <1>2 DEF IInv, HasAPair
<1>6. Reached'
  <2>1. \A v \in Users : at'[v] \in Holding => at'[v] = at[v] /\ job'[v] = job[v]
    BY <1>2
  <2> QED BY <1>1, <1>2, <2>1 DEF IInv, Reached, Obeying, NeverNear, Follows
<1>7. DeafStays' /\ ModeFileIsHonest'
  BY <1>1 DEF IInv, DeafStays, ModeFileIsHonest, NeverNear, Follows, OnBoth
<1> QED BY <1>3, <1>4, <1>5, <1>6, <1>7 DEF IInv

(* Choosing, looking at the temperatures, a call that is refused. *)
LEMMA QuietSteps ==
    ASSUME IInv, NEW u \in Users,
           Run(u) \/ DetectMode(u) \/ Guard(u) \/ CallRefused(u)
    PROVE  IInv'
<1>1. UNCHANGED <<machine, lock, counters>> /\ served' \in BOOLEAN
  BY DEF IInv, TypeOK, Run, DetectMode, Guard, CallRefused
<1>2. at[u] \notin Holding
  BY DEF Run, DetectMode, Guard, CallRefused, Holding
<1>3. CASE Run(u)
  <2>1. PICK j \in Pairs \cup {AUTO} : job' = [job EXCEPT ![u] = j]
    BY <1>3 DEF Run
  <2>2. at' = [at EXCEPT ![u] = "detect"] /\ "detect" \in Places \ Holding
    BY <1>3 DEF Run, Places, Holding
  <2>3. /\ job' \in [Users -> Pairs \cup {AUTO}]
        /\ \A v \in Users \ {u} : job'[v] = job[v]
    BY <2>1 DEF IInv, TypeOK
  <2>4. "detect" \notin Setting \cup {"guardCall", "guardLock"}
    BY DEF Setting
  <2> QED BY <1>1, <1>2, <2>2, <2>3, <2>4, NothingWritten
<1>4. CASE DetectMode(u) \/ Guard(u) \/ CallRefused(u)
  <2>1. PICK place \in {"ended", "call", "lock", "guardCall", "guardLock", "undo"} :
            /\ GoTo(u, place)
            /\ place \in Setting \cup {"guardCall", "guardLock"} => job[u] \in Pairs
    BY <1>4 DEF DetectMode, Guard, CallRefused, IInv, TypeOK, HasAPair, Setting
  <2>2. place \in Places \ Holding
    BY DEF Places, Holding
  <2>3. /\ at' = [at EXCEPT ![u] = place]
        /\ job' \in [Users -> Pairs \cup {AUTO}]
        /\ \A v \in Users \ {u} : job'[v] = job[v]
        /\ place # "ended" => job' = job
    BY <2>1, <2>2, Going DEF IInv
  <2>4. place \in Setting \cup {"guardCall", "guardLock"} => job'[u] \in Pairs
    BY <2>1, <2>3 DEF Setting
  <2> QED BY <1>1, <1>2, <2>2, <2>3, <2>4, NothingWritten
<1> QED BY <1>3, <1>4

-----------------------------------------------------------------------------
(* The steps of a script in direct mode. *)

(* A step of the lock's holder that keeps it: the others are elsewhere, and what *)
(* is to be shown is what the place it goes to says.                             *)
LEMMA HolderSteps ==
    ASSUME IInv, NEW u \in Users, at[u] \in Holding, lock' = lock, kind' = kind,
           NEW next \in Holding, at' = [at EXCEPT ![u] = next],
           job' = job, mode' = mode, unclean' = unclean, served' = served,
           round' \in Nat, strikes' \in 0 .. 2,
           fan' \in [FANS -> Duties \cup {AUTO}],
           \A f \in FANS : ~Follows(f) => fan'[f] = AUTO,
           next \in Setting => job[u] \in Pairs,
           next = "fan2" => fan'["cpu"] = Obeying(job[u])["cpu"],
           next \in {"verify", "note"} => fan' = Obeying(job[u]),
           next = "note" => ~NeverNear(FANS),
           next = "auto2" => fan'["cpu"] = AUTO,
           next = "forget" => fan' = OnBoth(AUTO)
    PROVE  IInv'
<1>1. /\ lock = u /\ lock # None
      /\ \A v \in Users \ {u} : at[v] \notin Holding
  BY ParameterAssumption DEF IInv, TypeOK, OneHolds
<1>2. /\ at'[u] = next /\ \A v \in Users \ {u} : at'[v] = at[v]
      /\ {"fan2", "verify", "note", "auto2", "forget"} \subseteq Holding
  BY DEF IInv, TypeOK, Holding
<1>3. TypeOK'
  BY DEF IInv, TypeOK, Places, Holding
<1>4. OneHolds'
  BY <1>1, <1>2 DEF IInv, OneHolds
<1>5. HasAPair'
  BY <1>2 DEF IInv, HasAPair, Setting, Holding
<1>6. DeafStays'
  BY DEF DeafStays, Follows
<1>7. Reached'
  <2>1. \A v \in Users : at'[v] \in Holding => v = u
    BY <1>1, <1>2
  <2>2. Obeying(job[u])' = Obeying(job[u]) /\ NeverNear(FANS)' = NeverNear(FANS)
    BY DEF Obeying, NeverNear, Follows
  <2> HIDE DEF Obeying
  <2> QED BY <1>2, <2>1, <2>2 DEF Reached, OnBoth
<1>8. ModeFileIsHonest'
  BY <1>1 DEF IInv, ModeFileIsHonest, NeverNear
<1> QED BY <1>3, <1>4, <1>5, <1>6, <1>7, <1>8 DEF IInv

(* Whoever gets the lock finds nobody at a place behind it. *)
LEMMA LockStep ==
    ASSUME IInv, NEW u \in Users, LockEc(u)
    PROVE  IInv'
<1>1. CASE lock = None
  <2>1. /\ lock' = u /\ fan' = fan /\ kind' = kind /\ mode' = mode /\ round' = round
        /\ strikes' = strikes /\ served' = served /\ unclean' = FALSE
    BY <1>1 DEF LockEc, counters
  <2>2. PICK place \in {"auto1", "fan1"} :
            /\ GoTo(u, place)
            /\ place = "fan1" => job[u] \in Pairs
    BY <1>1 DEF LockEc, IInv, TypeOK
  <2>3. /\ at' = [at EXCEPT ![u] = place] /\ job' = job /\ at'[u] = place
        /\ at' \in [Users -> Places]
        /\ \A v \in Users \ {u} : at'[v] = at[v]
    BY <2>2, Going DEF IInv, Places
  <2>4. TypeOK'
    BY <2>1, <2>3 DEF IInv, TypeOK
  <2>5. \A v \in Users : at[v] \notin Holding
    BY <1>1, ParameterAssumption DEF IInv, OneHolds
  <2>6. OneHolds'
    BY <2>1, <2>3, <2>5 DEF OneHolds, Holding
  <2>7. HasAPair'
    BY <2>2, <2>3 DEF IInv, HasAPair, Setting
  <2>8. Reached'
    BY <2>3, <2>5 DEF Reached, Holding
  <2>9. DeafStays' /\ ModeFileIsHonest'
    BY <2>1, ParameterAssumption DEF IInv, DeafStays, ModeFileIsHonest, NeverNear, Follows
  <2> QED BY <2>4, <2>6, <2>7, <2>8, <2>9 DEF IInv
<1>2. CASE lock # None
  <2>1. /\ GoTo(u, "ended") /\ at[u] \notin Holding /\ lock # u
        /\ UNCHANGED <<machine, lock, counters>> /\ served' = served
    BY <1>2 DEF LockEc, End, IInv, OneHolds, Holding, machine
  <2>2. "ended" \in Places \ Holding /\ "ended" \notin Setting \cup {"guardCall", "guardLock"}
    BY DEF Places, Holding, Setting
  <2>3. /\ at' = [at EXCEPT ![u] = "ended"]
        /\ job' \in [Users -> Pairs \cup {AUTO}]
        /\ \A v \in Users \ {u} : job'[v] = job[v]
    BY <2>1, <2>2, Going DEF IInv
  <2>4. served' \in BOOLEAN
    BY <2>1 DEF IInv, TypeOK
  <2> QED BY <2>1, <2>2, <2>3, <2>4, NothingWritten
<1> QED BY <1>1, <1>2

(* One EC command of the holder. *)
LEMMA HolderWrites ==
    ASSUME IInv, NEW u \in Users, NEW here \in Holding, NEW f \in FANS,
           NEW d \in Duties \cup {AUTO}, NEW next \in Holding,
           Writes(u, here, f, d, next),
           next \in Setting => job[u] \in Pairs,
           next # "note",
           next = "fan2" => f = "cpu" /\ d = job[u]["cpu"],
           next = "verify" =>
               f = "gpu" /\ d = job[u]["gpu"] /\ fan["cpu"] = Obeying(job[u])["cpu"],
           next = "auto2" => f = "cpu" /\ d = AUTO,
           next = "forget" => fan["cpu"] = AUTO /\ f = "gpu" /\ d = AUTO
    PROVE  IInv'
<1>1. /\ lock' = lock /\ kind' = kind /\ mode' = mode /\ served' = served
      /\ unclean' = unclean /\ round' = round /\ strikes' = strikes
      /\ fan' = Told(f, d) /\ GoTo(u, next) /\ at[u] \in Holding
  BY DEF Writes, counters
<1>2. /\ at' = [at EXCEPT ![u] = next] /\ job' = job
      /\ round' \in Nat /\ strikes' \in 0 .. 2
  <2>1. next \in Places /\ next # "ended"
    BY DEF Holding, Places
  <2> QED BY <1>1, <2>1, Going DEF IInv, TypeOK
<1>3. /\ fan' \in [FANS -> Duties \cup {AUTO}]
      /\ Follows(f) => fan'[f] = d
      /\ ~Follows(f) => fan' = fan
      /\ \A g \in FANS \ {f} : fan'[g] = fan[g]
      /\ {"cpu", "gpu"} = FANS
  BY <1>1, TellingFans DEF IInv, TypeOK, FANS
<1>4. \A g \in FANS : ~Follows(g) => fan'[g] = AUTO
  BY <1>3 DEF IInv, DeafStays
<1>5. next = "fan2" => fan'["cpu"] = Obeying(job[u])["cpu"]
  BY <1>3, <1>4 DEF Obeying
<1>6. next = "verify" => fan' = Obeying(job[u])
  BY <1>3, <1>4 DEF Obeying
<1>7. next = "auto2" => fan'["cpu"] = AUTO
  BY <1>3, <1>4
<1>8. next = "forget" => fan' = OnBoth(AUTO)
  BY <1>3, <1>4, WaysToDrive
<1> QED BY <1>1, <1>2, <1>3, <1>4, <1>5, <1>6, <1>7, <1>8, HolderSteps

(* The four EC commands of direct mode are such writes. *)
LEMMA FanSteps ==
    ASSUME IInv, NEW u \in Users, SetFans(u) \/ AutoFans(u)
    PROVE  IInv'
<1>1. /\ {"cpu", "gpu"} \subseteq FANS /\ AUTO \in Duties \cup {AUTO}
      /\ {"fan1", "fan2", "verify", "auto1", "auto2", "forget"} \subseteq Holding
      /\ {"auto1", "auto2", "forget"} \cap Setting = {}
  BY DEF FANS, Holding, Setting
<1>2. at[u] \in {"fan1", "fan2"} =>
          /\ job[u] \in Pairs
          /\ \A f \in FANS : job[u][f] \in Duties \cup {AUTO}
  BY WaysToDrive DEF IInv, HasAPair, Setting
<1>3. CASE Writes(u, "fan1", "cpu", job[u]["cpu"], "fan2")
  BY <1>1, <1>2, <1>3, HolderWrites DEF Writes
<1>4. CASE Writes(u, "fan2", "gpu", job[u]["gpu"], "verify")
  <2>1. fan["cpu"] = Obeying(job[u])["cpu"] /\ at[u] = "fan2"
    BY <1>4 DEF IInv, Reached, Writes
  <2> QED BY <1>1, <1>2, <1>4, <2>1, HolderWrites
<1>5. CASE Writes(u, "auto1", "cpu", AUTO, "auto2")
  BY <1>1, <1>5, HolderWrites
<1>6. CASE Writes(u, "auto2", "gpu", AUTO, "forget")
  <2>1. fan["cpu"] = AUTO
    BY <1>6 DEF IInv, Reached, Writes
  <2> QED BY <1>1, <1>6, <2>1, HolderWrites
<1> QED BY <1>3, <1>4, <1>5, <1>6 DEF SetFans, AutoFans

(* A round of the verification writes nothing; it passes only where no fan's      *)
(* register stays away from the duty asked for.                                   *)
LEMMA VerifyStep ==
    ASSUME IInv, NEW u \in Users, VerifyOrRevert(u)
    PROVE  IInv'
<1>1. PICK r \in Readings, moving \in BOOLEAN :
          LET stopped == Stills(moving) = 3
          IN  IF r = "near" \/ (stopped /\ r = "close") THEN Verdict(u, "note")
              ELSE IF stopped \/ GivesUp THEN Verdict(u, "auto1")
              ELSE /\ round' = IF round < Rounds THEN round + 1 ELSE round
                   /\ strikes' = Stills(moving)
                   /\ UNCHANGED <<at, job>>
  BY DEF VerifyOrRevert
<1>2. /\ at[u] = "verify" /\ lock' = lock /\ kind' = kind /\ mode' = mode
      /\ unclean' = unclean /\ served' = served /\ fan' = fan
      /\ at[u] \in Holding /\ job[u] \in Pairs
      /\ fan = Obeying(job[u])
      /\ fan \in [FANS -> Duties \cup {AUTO}]
      /\ \A f \in FANS : ~Follows(f) => fan[f] = AUTO
  BY DEF VerifyOrRevert, machine, IInv, TypeOK, HasAPair, Setting, Holding, Reached, DeafStays
<1>3. /\ "verify" \in Holding /\ "note" \in Holding /\ "auto1" \in Holding
      /\ 1 \in Nat /\ 0 \in 0 .. 2
  BY DEF Holding
<1>4. CASE Verdict(u, "note") /\ r # "far"
  <2>1. ~NeverNear(FANS)
    BY <1>4 DEF Readings
  <2>2. GoTo(u, "note") /\ round' = 1 /\ strikes' = 0
    BY <1>4 DEF Verdict
  <2>3. at' = [at EXCEPT ![u] = "note"] /\ job' = job
    BY <2>2 DEF GoTo
  <2> QED BY <1>2, <1>3, <2>1, <2>2, <2>3, HolderSteps
<1>5. CASE Verdict(u, "auto1")
  <2>1. GoTo(u, "auto1") /\ round' = 1 /\ strikes' = 0
    BY <1>5 DEF Verdict
  <2>2. at' = [at EXCEPT ![u] = "auto1"] /\ job' = job
    BY <2>1 DEF GoTo
  <2>3. "auto1" \notin Setting
    BY DEF Setting
  <2> QED BY <1>2, <1>3, <2>1, <2>2, <2>3, HolderSteps
<1>6. CASE /\ Stills(moving) # 3
           /\ round' = IF round < Rounds THEN round + 1 ELSE round
           /\ strikes' = Stills(moving)
           /\ UNCHANGED <<at, job>>
  <2>1. round' \in Nat /\ strikes' \in 0 .. 2
    BY <1>6 DEF IInv, TypeOK, Stills
  <2>2. at' = [at EXCEPT ![u] = "verify"] /\ job' = job
    BY <1>2, <1>6 DEF IInv, TypeOK
  <2> QED BY <1>2, <1>3, <2>1, <2>2, HolderSteps
<1> QED BY <1>1, <1>4, <1>5, <1>6 DEF Readings

(* The mode file, and the end: what the holder has reached is what is left. *)
LEMMA NoteStep ==
    ASSUME IInv, NEW u \in Users, Note(u)
    PROVE  IInv'
<1>1. /\ fan' = fan /\ kind' = kind /\ served' = served /\ unclean' = unclean
      /\ round' = round /\ strikes' = strikes
      /\ GoTo(u, "ended") /\ lock' = None /\ lock = u
      /\ mode' = IF at[u] = "note" THEN job[u] ELSE None
  BY DEF Note, End, IInv, OneHolds, Holding, counters
<1>2. at[u] = "note" => job[u] \in Pairs
  BY DEF IInv, HasAPair, Setting
<1>3. /\ at' \in [Users -> Places] /\ job' \in [Users -> Pairs \cup {AUTO}]
      /\ at'[u] = "ended"
      /\ \A v \in Users \ {u} : job'[v] = job[v] /\ at'[v] = at[v]
  BY <1>1, Going DEF IInv, Places
<1>4. TypeOK'
  BY <1>1, <1>2, <1>3 DEF IInv, TypeOK
<1>5. \A v \in Users : at'[v] \notin Holding
  BY <1>1, <1>3 DEF IInv, OneHolds, Holding
<1>6. OneHolds' /\ Reached'
  BY <1>1, <1>5, ParameterAssumption DEF OneHolds, Reached, Holding
<1>7. HasAPair'
  BY <1>3 DEF IInv, HasAPair, Setting
<1>8. DeafStays'
  BY <1>1 DEF IInv, DeafStays, Follows
<1>9. ModeFileIsHonest'
  <2>1. CASE at[u] = "note"
    <3>1. mode' = job[u] /\ mode' # None /\ fan = Obeying(job[u]) /\ ~NeverNear(FANS)
      BY <1>1, <1>2, <2>1, ParameterAssumption DEF IInv, Reached
    <3> QED BY <1>1, <3>1 DEF ModeFileIsHonest, Obeying, NeverNear, Follows
  <2>2. CASE at[u] # "note"
    <3>1. mode' = None /\ fan = OnBoth(AUTO)
      BY <1>1, <2>2 DEF IInv, Reached, Note
    <3> QED BY <1>1, <3>1 DEF ModeFileIsHonest, OnBoth
  <2> QED BY <2>1, <2>2
<1> QED BY <1>4, <1>6, <1>7, <1>8, <1>9 DEF IInv

(* A script that dies leaves its lock; what it left half-done is not clean. *)
LEMMA DeathStep ==
    ASSUME IInv, NEW u \in Users, Dies(u)
    PROVE  IInv'
<1>1. /\ fan' = fan /\ kind' = kind /\ served' = served /\ mode' = mode
      /\ GoTo(u, "ended")
      /\ lock' = IF lock = u THEN None ELSE lock
      /\ unclean' = (unclean \/ lock = u)
  BY DEF Dies, End
<1>2. round' \in Nat /\ strikes' \in 0 .. 2
  BY DEF Dies, IInv, TypeOK, counters
<1>3. /\ at' \in [Users -> Places] /\ job' \in [Users -> Pairs \cup {AUTO}]
      /\ at'[u] = "ended"
      /\ \A v \in Users \ {u} : job'[v] = job[v] /\ at'[v] = at[v]
  BY <1>1, Going DEF IInv, Places
<1>4. TypeOK'
  BY <1>1, <1>2, <1>3 DEF IInv, TypeOK
<1>5. OneHolds'
  BY <1>1, <1>3, ParameterAssumption DEF IInv, OneHolds, Holding
<1>6. HasAPair'
  BY <1>3 DEF IInv, HasAPair, Setting
<1>7. Reached'
  BY <1>1, <1>3 DEF IInv, Reached, Obeying, NeverNear, Follows
<1>8. DeafStays'
  BY <1>1 DEF IInv, DeafStays, Follows
<1>9. ModeFileIsHonest'
  BY <1>1 DEF IInv, TypeOK, ModeFileIsHonest, NeverNear, Follows, OnBoth
<1> QED BY <1>4, <1>5, <1>6, <1>7, <1>8, <1>9 DEF IInv

-----------------------------------------------------------------------------
(* The daemon's writes. *)

(* While the lock is free, somebody else may write the fans and let a script go *)
(* on, as long as the history says so.                                          *)
LEMMA OthersWrite ==
    ASSUME IInv, NEW next \in [FANS -> Duties \cup {AUTO}],
           lock = None, lock' = None, kind' = kind, mode' = mode, unclean' = TRUE,
           served' \in BOOLEAN, round' = round, strikes' = strikes, fan' = next,
           \A f \in FANS : ~Follows(f) => next[f] = AUTO,
           at' \in [Users -> Places], job' \in [Users -> Pairs \cup {AUTO}],
           \A v \in Users : at'[v] \notin Holding,
           HasAPair'
    PROVE  IInv'
<1>1. TypeOK'
  BY DEF IInv, TypeOK
<1>2. OneHolds' /\ Reached'
  BY ParameterAssumption DEF OneHolds, Reached, Holding
<1>3. DeafStays' /\ ModeFileIsHonest'
  BY DEF IInv, DeafStays, ModeFileIsHonest, NeverNear, Follows
<1> QED BY <1>1, <1>2, <1>3 DEF IInv

LEMMA CallWrites ==
    ASSUME IInv, NEW u \in Users, NEW here \in {"ended", "call2", "undo"},
           NEW next \in [FANS -> Duties \cup {AUTO}],
           DaemonWrites(next), GoTo(u, here), served' = served,
           here # "ended" => job[u] \in Pairs,
           \A f \in FANS : ~Follows(f) => next[f] = AUTO
    PROVE  IInv'
<1>1. /\ lock = None /\ lock' = None /\ kind' = kind /\ mode' = mode /\ unclean' = TRUE
      /\ round' = round /\ strikes' = strikes /\ fan' = next /\ served' \in BOOLEAN
  BY DEF DaemonWrites, counters, IInv, TypeOK
<1>2. /\ at' \in [Users -> Places] /\ job' \in [Users -> Pairs \cup {AUTO}]
      /\ at'[u] = here
      /\ \A v \in Users \ {u} : job'[v] = job[v] /\ at'[v] = at[v]
      /\ here # "ended" => job' = job
  BY Going DEF IInv, Places
<1>3. \A v \in Users : at'[v] \notin Holding
  BY <1>1, <1>2, ParameterAssumption DEF IInv, OneHolds, Holding
<1>4. HasAPair'
  BY <1>2 DEF IInv, HasAPair, Setting
<1> QED BY <1>1, <1>2, <1>3, <1>4, OthersWrite

(* The calls of a script in daemon mode are such writes, whole or by fan. *)
LEMMA CallSteps ==
    ASSUME IInv, NEW u \in Users, Call(u) \/ Call2(u) \/ Undo(u)
    PROVE  IInv'
<1>1. /\ fan \in [FANS -> Duties \cup {AUTO}] /\ {"cpu", "gpu"} = FANS
      /\ \A f \in FANS : ~Follows(f) => fan[f] = AUTO
      /\ AUTO \in Duties \cup {AUTO}
      /\ served' = served
  BY DEF IInv, TypeOK, DeafStays, FANS, Call, Call2, Undo, DaemonWrites
<1>2. \A p \in Pairs : p["cpu"] \in Duties \cup {AUTO} /\ p["gpu"] \in Duties \cup {AUTO}
  BY <1>1, WaysToDrive
<1>3. \A f \in FANS, d \in Duties \cup {AUTO} :
          /\ Told(f, d) \in [FANS -> Duties \cup {AUTO}]
          /\ \A g \in FANS : ~Follows(g) => Told(f, d)[g] = AUTO
  BY <1>1, TellingFans
<1>4. CASE DaemonWrites(OnBoth(AUTO)) /\ GoTo(u, "ended")
  BY <1>1, <1>4, WaysToDrive, CallWrites
<1>5. CASE /\ job[u] \in {OnBoth(d) : d \in Duties}
           /\ DaemonWrites(AllTold(job[u])) /\ GoTo(u, "ended")
  <2>1. job[u] \in [FANS -> Duties \cup {AUTO}]
    BY <1>5 DEF OnBoth
  <2> DEFINE next == AllTold(job[u])
  <2>2. next \in [FANS -> Duties \cup {AUTO}] /\ \A f \in FANS : ~Follows(f) => next[f] = AUTO
    BY <1>1, <2>1, TellingFans
  <2>3. DaemonWrites(next) /\ GoTo(u, "ended")
    BY <1>5
  <2> HIDE DEF next
  <2> QED BY <1>1, <2>2, <2>3, CallWrites
<1>6. CASE /\ job[u] \in Pairs /\ at[u] = "call"
           /\ \/ DaemonWrites(Told("cpu", job[u]["cpu"])) /\ GoTo(u, "call2")
              \/ DaemonWrites(Told("cpu", AUTO)) /\ GoTo(u, "ended")
  BY <1>1, <1>2, <1>3, <1>6, CallWrites
<1>7. CASE /\ at[u] = "call2"
           /\ \/ DaemonWrites(Told("gpu", job[u]["gpu"])) /\ GoTo(u, "ended")
              \/ DaemonWrites(Told("gpu", AUTO)) /\ GoTo(u, "undo")
  <2>1. job[u] \in Pairs
    BY <1>7 DEF IInv, HasAPair, Setting
  <2> QED BY <1>1, <1>2, <1>3, <1>7, <2>1, CallWrites
<1> QED BY <1>4, <1>5, <1>6, <1>7 DEF Call, Call2, Undo

(* The daemon on its own account, its coming and going, and a reboot. *)
LEMMA EnvironmentSteps ==
    ASSUME IInv, Environment
    PROVE  IInv'
<1>1. CASE DaemonStart
  <2>1. /\ fan' = fan /\ mode' = mode /\ unclean' = unclean /\ kind' = kind /\ lock' = lock
        /\ at' = at /\ job' = job /\ served' = TRUE /\ round' = round /\ strikes' = strikes
    BY <1>1 DEF DaemonStart, machine, counters
  <2> QED BY <2>1 DEF IInv, TypeOK, OneHolds, HasAPair, DeafStays, Reached, Obeying,
                      NeverNear, Follows, ModeFileIsHonest, OnBoth
<1>2. CASE DaemonDrives \/ DaemonStop
  <2>1. /\ lock = None /\ lock' = None /\ kind' = kind /\ mode' = mode /\ unclean' = TRUE
        /\ round' = round /\ strikes' = strikes /\ at' = at /\ job' = job
        /\ served' \in BOOLEAN
    BY <1>2 DEF DaemonDrives, DaemonStop, DaemonWrites, counters, IInv, TypeOK
  <2>2. PICK next \in [FANS -> Duties \cup {AUTO}] :
            fan' = next /\ \A f \in FANS : ~Follows(f) => next[f] = AUTO
    <3>1. CASE DaemonDrives
      BY <3>1, TellingFans DEF DaemonDrives, DaemonWrites, IInv, TypeOK, DeafStays
    <3>2. CASE DaemonStop
      BY <3>2, WaysToDrive DEF DaemonStop
    <3> QED BY <1>2, <3>1, <3>2
  <2>3. /\ at' \in [Users -> Places] /\ job' \in [Users -> Pairs \cup {AUTO}]
        /\ \A v \in Users : at'[v] \notin Holding
        /\ HasAPair'
    BY <2>1, ParameterAssumption DEF IInv, TypeOK, OneHolds, HasAPair
  <2> QED BY <2>1, <2>2, <2>3, OthersWrite
<1>3. CASE Reboot
  <2>1. /\ lock' = None /\ kind' = kind /\ mode' = None /\ served' = FALSE
        /\ job' = [v \in Users |-> AUTO] /\ round' = 1 /\ strikes' = 0
        /\ unclean' = FALSE /\ fan' = OnBoth(AUTO) /\ at' = [v \in Users |-> "ended"]
    BY <1>3 DEF Reboot
  <2>2. TypeOK' /\ DeafStays'
    <3>1. fan' \in [FANS -> Duties \cup {AUTO}] /\ \A f \in FANS : fan'[f] = AUTO
      BY <2>1, WaysToDrive
    <3>2. /\ at' \in [Users -> Places] /\ job' \in [Users -> Pairs \cup {AUTO}]
          /\ mode' \in Pairs \cup {None} /\ lock' \in Users \cup {None}
      BY <2>1 DEF Places
    <3>3. round' \in Nat /\ strikes' \in 0 .. 2 /\ kind' \in [FANS -> Kinds]
      BY <2>1 DEF IInv, TypeOK
    <3>4. {served', unclean'} \subseteq BOOLEAN
      BY <2>1, Zenon
    <3> QED BY <3>1, <3>2, <3>3, <3>4 DEF TypeOK, DeafStays
  <2>3. OneHolds' /\ HasAPair' /\ Reached'
    BY <2>1, ParameterAssumption DEF OneHolds, HasAPair, Reached, Holding, Setting
  <2>4. ModeFileIsHonest'
    BY <2>1 DEF ModeFileIsHonest, OnBoth
  <2> QED BY <2>2, <2>3, <2>4 DEF IInv
<1> QED BY <1>1, <1>2, <1>3 DEF Environment

-----------------------------------------------------------------------------
(* The invariant, and what it says to a user. *)

LEMMA AtFirst == Init => IInv
<1> SUFFICES ASSUME Init PROVE IInv
  OBVIOUS
<1>1. TypeOK /\ DeafStays
  BY WaysToDrive DEF Init, TypeOK, DeafStays, Places
<1>2. OneHolds /\ HasAPair /\ Reached
  BY ParameterAssumption DEF Init, OneHolds, HasAPair, Reached, Holding, Setting
<1>3. ModeFileIsHonest
  BY DEF Init, ModeFileIsHonest
<1> QED BY <1>1, <1>2, <1>3 DEF IInv

LEMMA EveryStep == IInv /\ [Next]_vars => IInv'
<1> SUFFICES ASSUME IInv, [Next]_vars PROVE IInv'
  OBVIOUS
<1>1. ASSUME NEW u \in Users, Run(u) \/ Step(u) \/ Dies(u) PROVE IInv'
  <2>1. CASE Run(u) \/ DetectMode(u) \/ Guard(u) \/ CallRefused(u)
    BY <2>1, QuietSteps
  <2>2. CASE LockEc(u)
    BY <2>2, LockStep
  <2>3. CASE SetFans(u) \/ AutoFans(u)
    BY <2>3, FanSteps
  <2>4. CASE VerifyOrRevert(u)
    BY <2>4, VerifyStep
  <2>5. CASE Note(u)
    BY <2>5, NoteStep
  <2>6. CASE Dies(u)
    BY <2>6, DeathStep
  <2>7. CASE Call(u) \/ Call2(u) \/ Undo(u)
    BY <2>7, CallSteps
  <2> QED BY <1>1, <2>1, <2>2, <2>3, <2>4, <2>5, <2>6, <2>7 DEF Step, Direct, ByDaemon
<1>2. CASE Environment
  BY <1>2, EnvironmentSteps
<1>3. CASE UNCHANGED vars
  <2>1. /\ fan' = fan /\ mode' = mode /\ unclean' = unclean /\ kind' = kind /\ lock' = lock
        /\ at' = at /\ job' = job /\ served' = served /\ round' = round /\ strikes' = strikes
    BY <1>3 DEF vars, counters
  <2> QED BY <2>1 DEF IInv, TypeOK, OneHolds, HasAPair, DeafStays, Reached, Obeying,
                      NeverNear, Follows, ModeFileIsHonest, OnBoth
<1> QED BY <1>1, <1>2, <1>3 DEF Next

(* Whatever invocations ran in direct mode, interleaved, reverted, refused or      *)
(* accepted without being followed, the fans have been told what one of them asked *)
(* as a whole, or to obey the firmware, and the mode file says which, until one    *)
(* dies half-way or the daemon writes.  It names a pair only where every fan's     *)
(* register can come near a duty, and then what follows the protocol obeys it.     *)
THEOREM TheModeFileIsHonest == Spec => []ModeFileIsHonest
<1>1. IInv => ModeFileIsHonest
  BY DEF IInv
<1> QED BY <1>1, AtFirst, EveryStep, PTL DEF Spec

(* At most one invocation is between the lock and its end, whoever dies and     *)
(* whenever the machine reboots, and a fan that does not follow the protocol is *)
(* never left with anything but the firmware.                                   *)
OneScriptWrites ==
    /\ DeafStays
    /\ \A u, v \in Users : (at[u] \in Holding /\ at[v] \in Holding) => u = v

THEOREM ScriptsTakeTurns == Spec => [](TypeOK /\ OneScriptWrites)
<1>1. IInv => TypeOK /\ OneScriptWrites
  BY DEF IInv, OneHolds, OneScriptWrites
<1> QED BY <1>1, AtFirst, EveryStep, PTL DEF Spec
=============================================================================
