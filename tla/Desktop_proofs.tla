--------------------------- MODULE Desktop_proofs ---------------------------
(***************************************************************************)
(* What holds of the desktop application - its life and its tray icon, the *)
(* curve editor and its conversation with the daemon - for every set of    *)
(* curves and for queues of any length.                                    *)
(***************************************************************************)
EXTENDS AppLifetime, CurvePage, TLAPS

-----------------------------------------------------------------------------
(* AppLifetime: the application's life and its tray icon. *)


(* A process that is not there has no state. *)
NoProcess ==
    ~running => /\ window = "none" /\ ~hides /\ ~held /\ ~grace /\ ~available /\ ~ever
                /\ ~bus /\ asked = 0

(* The two policies are up to date, and the facts they are made of fit together: *)
(* an icon has been answered for, over a bus; the grace timer waits for the first *)
(* icon, with a window that was built hidden.                                    *)
Policies ==
    /\ HoldIsCurrent /\ NobodyIsStranded
    /\ hides <=> (window # "none" /\ available)
    /\ available => ever /\ bus
    /\ grace => window # "none" /\ ~available
    /\ ~bus => inbox = <<>>

(* While no willing host is there, the icon is not believed in for long: its end *)
(* is on the way and nothing that would bring it back comes after.               *)
Ends(q, icon) ==
    \/ \E i \in 1 .. Len(q) :
          q[i] = "vanished" /\ \A j \in 1 .. Len(q) : j > i => q[j] # "registered"
    \/ ~icon /\ \A j \in 1 .. Len(q) : q[j] # "registered"

EndIsComing == host # "willing" => Ends(inbox, available)

AppInv == AppTypeOK /\ NoProcess /\ Policies /\ EndIsComing

(* The state's shape, variable by variable. *)
LEMMA AppTypes ==
    AppTypeOK <=>
        /\ running \in BOOLEAN /\ hides \in BOOLEAN /\ held \in BOOLEAN /\ grace \in BOOLEAN
        /\ available \in BOOLEAN /\ ever \in BOOLEAN /\ bus \in BOOLEAN
        /\ window \in {"none", "hidden", "shown"}
        /\ inbox \in Seq(Events) /\ asked \in Nat
        /\ host \in {"absent", "willing", "refusing"}
  BY Zenon DEF AppTypeOK

LEMMA AppTypesAfter ==
    AppTypeOK' <=>
        /\ running' \in BOOLEAN /\ hides' \in BOOLEAN /\ held' \in BOOLEAN /\ grace' \in BOOLEAN
        /\ available' \in BOOLEAN /\ ever' \in BOOLEAN /\ bus' \in BOOLEAN
        /\ window' \in {"none", "hidden", "shown"}
        /\ inbox' \in Seq(Events) /\ asked' \in Nat
        /\ host' \in {"absent", "willing", "refusing"}
  BY Zenon DEF AppTypeOK, Events

(* What the two actions every handler ends with leave behind. *)
LEMMA AppSynced ==
    /\ SyncHold <=> held' = (available' \/ grace' \/ window' # "shown")
    /\ ApplyClosePolicy <=> hides' = (window' # "none" /\ available')
  BY DEF SyncHold, ShouldHold, ApplyClosePolicy, ShouldQuitOnClose

LEMMA AppAtFirst == AppInit => AppInv
<1> SUFFICES ASSUME AppInit PROVE AppInv
  OBVIOUS
<1>1. AppTypeOK
  <2>1. inbox \in Seq(Events) /\ asked \in Nat
    BY DEF AppInit
  <2> QED BY <2>1, AppTypes, Zenon DEF AppInit
<1>2. NoProcess /\ Policies
  BY DEF AppInit, NoProcess, Policies, HoldIsCurrent, NobodyIsStranded
<1>3. EndIsComing
  BY DEF AppInit, EndIsComing, Ends
<1> QED BY <1>1, <1>2, <1>3 DEF AppInv

(* A step that leaves the queue, the bus and the session alone, and believes in *)
(* no icon it did not believe in before.                                        *)
LEMMA AppQueueKept ==
    ASSUME AppInv, inbox' = inbox, bus' = bus, host' = host, available' => available
    PROVE  EndIsComing'
  BY DEF AppInv, EndIsComing, Ends

(* The end of the application leaves nothing. *)
LEMMA AppQuits == AppInv /\ Quit => AppInv'
<1> SUFFICES ASSUME AppInv, Quit PROVE AppInv'
  OBVIOUS
<1>1. AppTypeOK'
  <2>1. inbox' \in Seq(Events) /\ asked' \in Nat
    BY DEF Quit
  <2> QED BY <2>1, AppTypes, AppTypesAfter, Zenon DEF AppInv, Quit
<1>2. NoProcess' /\ Policies'
  BY DEF Quit, NoProcess, Policies, HoldIsCurrent, NobodyIsStranded
<1>3. EndIsComing'
  BY DEF Quit, EndIsComing, Ends
<1> QED BY <1>1, <1>2, <1>3 DEF AppInv

(* The user's actions and the grace timer: the queue and the session are not *)
(* concerned.                                                                *)
LEMMA AppUserSteps == AppInv /\ (AppUser \/ GraceExpired) => AppInv'
<1> SUFFICES ASSUME AppInv, AppUser \/ GraceExpired PROVE AppInv'
  OBVIOUS
<1> USE AppSynced DEF ShouldHold
<1>1. CASE Quit
  BY <1>1, AppQuits
<1>2. ASSUME /\ running' = TRUE /\ bus' = bus /\ inbox' = inbox /\ asked' = asked /\ host' = host
             /\ ever' = ever /\ available' = available
             /\ window' \in {"none", "hidden", "shown"}
             /\ hides' = (window' # "none" /\ available)
             /\ held' = (available \/ grace' \/ window' # "shown")
             /\ grace' \in BOOLEAN
             /\ grace' => window' # "none" /\ ~available
             /\ window' # "shown" /\ ~available => grace' \/ ever
      PROVE  AppInv'
  <2>1. AppTypeOK'
    BY <1>2, AppTypes, AppTypesAfter DEF AppInv
  <2>2. NoProcess' /\ Policies'
    BY <1>2 DEF AppInv, NoProcess, Policies, HoldIsCurrent, NobodyIsStranded
  <2>3. EndIsComing'
    BY <1>2, AppQueueKept
  <2> QED BY <2>1, <2>2, <2>3 DEF AppInv
<1>3. ASSUME NEW tray \in BOOLEAN, Launch(tray) PROVE AppInv'
  <2>1. ~running /\ ~available
    BY <1>3 DEF Launch, AppInv, NoProcess
  <2> QED BY <1>2, <1>3, <2>1, AppTypes DEF Launch, AppInv
<1>4. CASE Open
  BY <1>2, <1>4, AppTypes DEF Open, AppInv, Policies
<1>5. CASE Hide
  BY <1>2, <1>5, AppTypes DEF Hide, AppInv, Policies, HoldIsCurrent
<1>6. CASE Destroy
  <2>1. ~available
    BY <1>6 DEF Destroy, AppInv, Policies
  <2> QED BY <1>1, <1>6, <2>1 DEF Destroy, ShouldQuitOnClose
<1>7. CASE QuitFromTray
  BY <1>1, <1>7 DEF QuitFromTray
<1>8. CASE GraceExpired
  BY <1>2, <1>8, AppTypes DEF GraceExpired, ShouldOfferWindow, AppInv, Policies,
                              NobodyIsStranded
<1> QED BY <1>3, <1>4, <1>5, <1>6, <1>7, <1>8 DEF AppUser

(* An icon that comes or goes: both policies follow, and who had an icon may be *)
(* waiting for it again.                                                        *)
LEMMA AppIconChanges ==
    ASSUME AppInv, NEW now \in BOOLEAN, OnAvailable(now), inbox # <<>>,
           bus' = bus, inbox' \in Seq(Events), asked' \in Nat,
           host' \in {"absent", "willing", "refusing"}
    PROVE  AppTypeOK' /\ NoProcess' /\ Policies' /\ available' = now
<1> USE AppSynced
<1>1. running /\ bus
  BY AppTypes DEF AppInv, NoProcess, Policies
<1>2. CASE now = available
  <2>1. /\ running' = running /\ window' = window /\ hides' = hides /\ held' = held
        /\ grace' = grace /\ available' = available /\ ever' = ever
    BY <1>2 DEF OnAvailable, app
  <2>2. AppTypeOK'
    BY <2>1, AppTypes, AppTypesAfter DEF AppInv
  <2> QED BY <1>1, <1>2, <2>1, <2>2 DEF AppInv, NoProcess, Policies, HoldIsCurrent,
                                      NobodyIsStranded, ShouldHold
<1>3. CASE now # available
  <2>1. /\ running' = running /\ window' = window /\ available' = now
        /\ IF now THEN ever' = TRUE /\ grace' = FALSE ELSE ever' = ever /\ grace' = grace
        /\ hides' = (window # "none" /\ now)
        /\ held' = (now \/ grace' \/ window # "shown")
    BY <1>3 DEF OnAvailable
  <2>2. AppTypeOK'
    BY <2>1, AppTypes, AppTypesAfter DEF AppInv
  <2>3. ~now => ever
    BY <1>3, AppTypes DEF AppInv, Policies
  <2>4. Policies'
    BY <1>1, <2>1, <2>3 DEF AppInv, Policies, HoldIsCurrent, NobodyIsStranded,
                            ShouldHold
  <2> QED BY <1>1, <2>1, <2>2, <2>4 DEF NoProcess
<1> QED BY <1>2, <1>3

(* Taking an event brings the icon's end nearer: unless it was that end itself, *)
(* what was to come is still to come.                                           *)
LEMMA EndComesNearer ==
    ASSUME NEW q \in Seq(Events), q # <<>>, NEW icon \in BOOLEAN, NEW now \in BOOLEAN,
           Ends(q, icon),
           now => icon \/ q[1] = "registered",
           q[1] = "vanished" => ~now
    PROVE  Ends(Tail(q), now)
<1> DEFINE t == Tail(q)
<1>1. /\ Len(q) \in Nat \ {0} /\ Len(t) = Len(q) - 1
      /\ \A j \in 1 .. Len(q) - 1 : t[j] = q[j + 1]
  OBVIOUS
<1> HIDE DEF t
<1>2. CASE ~icon /\ \A j \in 1 .. Len(q) : q[j] # "registered"
  <2>1. ~now
    BY <1>1, <1>2
  <2>2. \A j \in 1 .. Len(t) : t[j] # "registered"
    BY <1>1, <1>2
  <2> QED BY <2>1, <2>2 DEF Ends, t
<1>3. ASSUME NEW i \in 1 .. Len(q), q[i] = "vanished",
             \A j \in 1 .. Len(q) : j > i => q[j] # "registered"
      PROVE  Ends(t, now)
  <2>1. CASE i = 1
    <3>1. ~now /\ \A j \in 1 .. Len(t) : t[j] # "registered"
      BY <1>1, <1>3, <2>1
    <3> QED BY <3>1 DEF Ends
  <2>2. CASE i > 1
    <3>1. i - 1 \in 1 .. Len(t) /\ t[i - 1] = "vanished"
      BY <1>1, <1>3, <2>2
    <3>2. \A j \in 1 .. Len(t) : j > i - 1 => t[j] # "registered"
      BY <1>1, <1>3, <2>2
    <3> QED BY <3>1, <3>2 DEF Ends
  <2> QED BY <1>1, <2>1, <2>2
<1> QED BY <1>2, <1>3 DEF Ends, t

(* Events that promise no icon change nothing about it. *)
LEMMA EndStays ==
    ASSUME NEW q \in Seq(Events), NEW icon \in BOOLEAN, Ends(q, icon),
           NEW e \in Seq(Events), \A j \in 1 .. Len(e) : e[j] # "registered"
    PROVE  Ends(q \o e, icon)
<1> DEFINE r == q \o e
<1>1. /\ Len(r) = Len(q) + Len(e) /\ Len(q) \in Nat /\ Len(e) \in Nat
      /\ \A j \in 1 .. Len(q) : r[j] = q[j]
      /\ \A j \in Len(q) + 1 .. Len(q) + Len(e) : r[j] = e[j - Len(q)] /\ j - Len(q) \in 1 .. Len(e)
  OBVIOUS
<1> HIDE DEF r
<1>2. \A j \in Len(q) + 1 .. Len(r) : r[j] # "registered"
  BY <1>1
<1>3. \A j \in 1 .. Len(r) : j \in 1 .. Len(q) \/ j \in Len(q) + 1 .. Len(r)
  BY <1>1
<1> QED BY <1>1, <1>2, <1>3 DEF Ends, r

(* The host's last event, and what comes after it. *)
LEMMA EndIsAnnounced ==
    ASSUME NEW q \in Seq(Events), NEW icon \in BOOLEAN,
           NEW e \in Seq(Events), e # <<>>, e[1] = "vanished",
           \A j \in 1 .. Len(e) : e[j] # "registered"
    PROVE  Ends(q \o e, icon)
<1> DEFINE r == q \o e
<1>1. /\ Len(r) = Len(q) + Len(e) /\ Len(q) \in Nat /\ Len(e) \in Nat \ {0}
      /\ \A j \in Len(q) + 1 .. Len(q) + Len(e) : r[j] = e[j - Len(q)] /\ j - Len(q) \in 1 .. Len(e)
  OBVIOUS
<1> HIDE DEF r
<1>2. Len(q) + 1 \in 1 .. Len(r) /\ r[Len(q) + 1] = "vanished"
  BY <1>1
<1>3. \A j \in 1 .. Len(r) : j > Len(q) + 1 => r[j] # "registered"
  BY <1>1
<1> QED BY <1>2, <1>3 DEF Ends, r

(* A step of the bus or the session changes nothing but the queue, the bus and *)
(* the host.                                                                   *)
LEMMA AppOutside ==
    ASSUME AppInv, UNCHANGED app, inbox' \in Seq(Events), asked' \in Nat,
           host' \in {"absent", "willing", "refusing"}, bus' \in BOOLEAN,
           bus => bus', ~running => ~bus' /\ asked' = 0, ~bus' => inbox' = <<>>, EndIsComing'
    PROVE  AppInv'
<1>1. /\ running' = running /\ window' = window /\ hides' = hides /\ held' = held
      /\ grace' = grace /\ available' = available /\ ever' = ever
  BY DEF app
<1>2. AppTypeOK'
  BY <1>1, AppTypes, AppTypesAfter DEF AppInv
<1>3. NoProcess' /\ Policies'
  BY <1>1 DEF AppInv, NoProcess, Policies, HoldIsCurrent, NobodyIsStranded, ShouldHold
<1> QED BY <1>2, <1>3 DEF AppInv

LEMMA AppLoopSteps == AppInv /\ AppLoop => AppInv'
<1> SUFFICES ASSUME AppInv, AppLoop PROVE AppInv'
  OBVIOUS
<1> DEFINE q == inbox
           h == Head(inbox)
<1>1. /\ Events = {"appeared", "vanished", "registered", "refused"}
      /\ inbox \in Seq(Events) /\ asked \in Nat /\ bus \in BOOLEAN /\ available \in BOOLEAN
      /\ host \in {"absent", "willing", "refusing"}
      /\ inbox # <<>> => bus /\ running
      /\ inbox # <<>> => Tail(inbox) \in Seq(Events) /\ inbox[1] = Head(inbox)
  BY AppTypes DEF AppInv, Policies, NoProcess, Events
<1>2. CASE OnBus
  <2>1. /\ UNCHANGED app /\ running /\ ~bus /\ ~available /\ host' = host /\ asked' = asked
        /\ bus' = TRUE /\ available' = available
        /\ inbox' = <<IF host = "absent" THEN "vanished" ELSE "appeared">>
    BY <1>2 DEF OnBus, AppInv, Policies, app
  <2>2. inbox' \in Seq(Events) /\ \A j \in 1 .. Len(inbox') : inbox'[j] # "registered"
    BY <1>1, <2>1
  <2>3. EndIsComing'
    BY <2>1, <2>2 DEF EndIsComing, Ends
  <2> QED BY <1>1, <2>1, <2>2, <2>3, AppOutside
<1>3. CASE OnAppeared
  <2>1. /\ UNCHANGED app /\ inbox # <<>> /\ Head(inbox) = "appeared"
        /\ host' = host /\ bus' = bus /\ available' = available
        /\ \/ inbox' = Append(Tail(inbox), "refused") /\ asked' = asked
           \/ inbox' = Tail(inbox) /\ asked' = asked + 1
    BY <1>3 DEF OnAppeared, app
  <2>2. Append(Tail(inbox), "refused") = Tail(inbox) \o <<"refused">>
    BY <1>1, <2>1
  <2>3. inbox' \in Seq(Events) /\ asked' \in Nat
    BY <1>1, <2>1
  <2>4. host # "willing" => Ends(Tail(inbox), available)
    BY <1>1, <2>1, EndComesNearer DEF AppInv, EndIsComing
  <2>5. <<"refused">> \in Seq(Events) /\ \A j \in 1 .. Len(<<"refused">>) : <<"refused">>[j] # "registered"
    BY <1>1
  <2>6. host # "willing" => Ends(Tail(inbox) \o <<"refused">>, available)
    BY <1>1, <2>1, <2>4, <2>5, EndStays
  <2>7. EndIsComing'
    BY <2>1, <2>2, <2>4, <2>6 DEF EndIsComing
  <2> QED BY <1>1, <2>1, <2>3, <2>7, AppOutside
<1>4. CASE OnRegistered \/ OnVanished
  <2>1. /\ inbox # <<>> /\ inbox' = Tail(inbox) /\ host' = host /\ bus' = bus /\ asked' = asked
        /\ \/ Head(inbox) = "registered" /\ OnAvailable(TRUE)
           \/ Head(inbox) = "refused" /\ UNCHANGED app
           \/ Head(inbox) = "vanished" /\ OnAvailable(FALSE)
    BY <1>4 DEF OnRegistered, OnVanished
  <2>2. CASE UNCHANGED app /\ Head(inbox) = "refused"
    <3>1. available' = available
      BY <2>2 DEF app
    <3>2. EndIsComing'
      BY <1>1, <2>1, <2>2, <3>1, EndComesNearer DEF AppInv, EndIsComing
    <3> QED BY <1>1, <2>1, <2>2, <3>2, AppOutside
  <2>3. ASSUME NEW now \in BOOLEAN, OnAvailable(now),
               Head(inbox) = IF now THEN "registered" ELSE "vanished"
        PROVE  AppInv'
    <3>1. AppTypeOK' /\ NoProcess' /\ Policies' /\ available' = now
      BY <1>1, <2>1, <2>3, AppIconChanges
    <3>2. EndIsComing'
      BY <1>1, <2>1, <2>3, <3>1, EndComesNearer DEF AppInv, EndIsComing
    <3> QED BY <3>1, <3>2 DEF AppInv
  <2> QED BY <2>1, <2>2, <2>3
<1>5. CASE GraceExpired
  BY <1>5, AppUserSteps
<1> QED BY <1>2, <1>3, <1>4, <1>5 DEF AppLoop

LEMMA AppSessionSteps == AppInv /\ Session => AppInv'
<1> SUFFICES ASSUME AppInv, Session PROVE AppInv'
  OBVIOUS
<1>1. /\ Events = {"appeared", "vanished", "registered", "refused"}
      /\ inbox \in Seq(Events) /\ asked \in Nat /\ bus \in BOOLEAN /\ available \in BOOLEAN
      /\ host \in {"absent", "willing", "refusing"}
      /\ ~bus => inbox = <<>> /\ ~available
      /\ ~running => ~bus /\ asked = 0
  BY AppTypes DEF AppInv, Policies, NoProcess, Events
(* What is told reaches a tray with a bus; without one there is nobody to believe. *)
<1>2. ASSUME NEW e \in Seq(Events), Tell(e), UNCHANGED app, bus' = bus,
             asked' \in Nat, ~running => asked' = 0,
             host' \in {"absent", "willing", "refusing"},
             bus /\ host' # "willing" => Ends(inbox \o e, available)
      PROVE  AppInv'
  <2>1. available' = available
    BY <1>2 DEF app
  <2>2. inbox' \in Seq(Events) /\ (~bus => inbox' = <<>>)
    BY <1>1, <1>2 DEF Tell
  <2>3. EndIsComing'
    BY <1>1, <1>2, <2>1, <2>2 DEF Tell, EndIsComing, Ends
  <2> QED BY <1>1, <1>2, <2>2, <2>3, AppOutside
<1>3. CASE HostAppears
  <2> DEFINE e == <<"appeared">>
  <2>1. e \in Seq(Events) /\ \A j \in 1 .. Len(e) : e[j] # "registered"
    BY <1>1
  <2>2. /\ Tell(e) /\ UNCHANGED app /\ bus' = bus /\ asked' = asked
        /\ host = "absent" /\ host' \in {"willing", "refusing"}
    BY <1>3 DEF HostAppears
  <2> HIDE DEF e
  <2>3. Ends(inbox \o e, available)
    BY <1>1, <2>1, <2>2, EndStays DEF AppInv, EndIsComing
  <2> QED BY <1>1, <1>2, <2>1, <2>2, <2>3
<1>4. CASE HostVanishes
  <2> DEFINE r == [i \in 1 .. asked |-> "refused"]
             e == <<"vanished">> \o r
  <2>1. r \in Seq(Events) /\ Len(r) = asked /\ \A j \in 1 .. asked : r[j] = "refused"
    BY <1>1
  <2>2. /\ Tell(e) /\ UNCHANGED app /\ bus' = bus /\ asked' = 0 /\ host' = "absent"
    BY <1>4 DEF HostVanishes
  <2> HIDE DEF r
  <2>3. /\ e \in Seq(Events) /\ e # <<>> /\ e[1] = "vanished"
        /\ \A j \in 1 .. Len(e) : e[j] # "registered"
    BY <1>1, <2>1
  <2> HIDE DEF e
  <2>4. Ends(inbox \o e, available)
    BY <1>1, <2>3, EndIsAnnounced
  <2> QED BY <1>1, <1>2, <2>2, <2>3, <2>4
<1>5. CASE HostAnswers
  <2> DEFINE e == <<IF host = "willing" THEN "registered" ELSE "refused">>
  <2>1. e \in Seq(Events) /\ (host # "willing" => \A j \in 1 .. Len(e) : e[j] # "registered")
    BY <1>1
  <2>2. /\ Tell(e) /\ UNCHANGED app /\ bus' = bus /\ asked' = asked - 1
        /\ asked > 0 /\ host' = host
    BY <1>5 DEF HostAnswers
  <2> HIDE DEF e
  <2>3. host # "willing" => Ends(inbox \o e, available)
    BY <1>1, <2>1, EndStays DEF AppInv, EndIsComing
  <2>4. asked' \in Nat /\ running
    BY <1>1, <2>2
  <2> QED BY <1>1, <1>2, <2>1, <2>2, <2>3, <2>4
<1> QED BY <1>3, <1>4, <1>5 DEF Session

LEMMA AppInvariant == AppSpec => []AppInv
<1>1. AppInv /\ [AppNext]_appVars => AppInv'
  <2> SUFFICES ASSUME AppInv, UNCHANGED appVars PROVE AppInv'
    BY AppUserSteps, AppLoopSteps, AppSessionSteps DEF AppNext
  <2>1. /\ UNCHANGED app /\ bus' = bus /\ inbox' = inbox /\ asked' = asked /\ host' = host
        /\ available' = available
    BY DEF appVars, app
  <2>2. EndIsComing'
    BY <2>1, AppQueueKept DEF app
  <2> QED BY <2>1, <2>2, AppOutside, AppTypes DEF AppInv, Policies, NoProcess
<1> QED BY <1>1, AppAtFirst, PTL DEF AppSpec

(* Whatever came and went and in whatever order, the application holds itself  *)
(* exactly when it has an icon, waits for one, or has nothing on screen.       *)
THEOREM TheHoldIsCurrent == AppSpec => []HoldIsCurrent
<1>1. AppInv => HoldIsCurrent
  BY DEF AppInv, Policies
<1> QED BY <1>1, AppInvariant, PTL

(* No invisible process the user cannot reach: with neither a window nor an icon *)
(* the application waits for its first host, or for one that has answered.       *)
THEOREM NobodyIsStrandedEver == AppSpec => []NobodyIsStranded
<1>1. AppInv => NobodyIsStranded
  BY DEF AppInv, Policies
<1> QED BY <1>1, AppInvariant, PTL

(* The window hides when it is closed exactly while there is an icon to open it *)
(* from, also when the icon comes or goes while the window is on screen.        *)
THEOREM ClosingIsUpToDate == AppSpec => []ClosingFollowsTheIcon
<1>1. AppInv => ClosingFollowsTheIcon
  BY AppTypes DEF AppInv, Policies, ClosingFollowsTheIcon
<1> QED BY <1>1, AppInvariant, PTL

(* However the host's comings and goings, its answers and the main loop are    *)
(* interleaved and however many events queue up: once the queue is empty, the  *)
(* icon believed in is there.                                                  *)
THEOREM TheIconIsReal == AppSpec => []IconIsReal
<1>1. AppInv => IconIsReal
  BY DEF AppInv, EndIsComing, Ends, IconIsReal
<1> QED BY <1>1, AppInvariant, PTL

-----------------------------------------------------------------------------
(* CurvePage: the curve editor and its conversation with the daemon. *)


Calls == Edits \cup Choices
Messages == [kind : {"changed", "here"}, state : States] \cup [kind : {"gone", "error"}]
Pairs == [FANS -> Shapes]
Pages == [linked : BOOLEAN, editing : FANS, curves : Pairs, dirty : BOOLEAN, hasCurve : BOOLEAN]
Engines == [profile : {FIRMWARE, CUSTOM, Builtin}, linked : BOOLEAN,
            curves : Pairs \cup {None}]

PageTypes ==
    /\ page \in Pages /\ shown \in Shapes /\ dragging \in BOOLEAN
    /\ pending \in Edits \cup {None} /\ cache \in States \cup {None}
    /\ here \in BOOLEAN /\ resync \in BOOLEAN /\ up \in BOOLEAN /\ doubt \in BOOLEAN
    /\ toDaemon \in Seq(Calls) /\ toClient \in Seq(Messages)
    /\ eng \in Engines /\ owed \in Calls \cup {None}

(* An edit that waits was made on a page that shows it, of a curve that is one. *)
EditShown ==
    /\ ScreenIsWhatWeSend
    /\ pending # None => page.dirty \/ page.hasCurve

(* What the daemon has once it has obeyed a call. *)
Fulfils(e, call) ==
    IF call.kind = "profile" THEN e.profile = call.name
    ELSE /\ e.profile = CUSTOM /\ e.linked = call.linked
         /\ e.curves # None /\ e.curves[call.which] = call.points

(* The user's last command waits in the page, is the last of the calls on their *)
(* way, or has been obeyed.                                                      *)
CommandOnItsWay ==
    /\ ~up => toDaemon = <<>>
    /\ (owed # None /\ pending # None) => owed = pending
    /\ (owed # None /\ pending = None) =>
           /\ up
           /\ toDaemon # <<>> => toDaemon[Len(toDaemon)] = owed
           /\ toDaemon = <<>> => Fulfils(eng, owed)

(* What each kind of profile has of curves. *)
CurvesFit(e) ==
    /\ (e.linked /\ e.curves # None) => e.curves[CPU] = e.curves[GPU]
    /\ e.profile = FIRMWARE => e.curves = None
    /\ e.profile = Builtin => e.curves = OnBoth(Builtin)
    /\ e.profile = CUSTOM => e.curves # None

(* The last news of the daemon among messages, and whether they bring a client *)
(* that sees the daemon or not to see it in the end.                           *)
News(m) == m.kind # "error"
LastNews(q, i) == News(q[i]) /\ \A j \in 1 .. Len(q) : j > i => ~News(q[j])
NoNews(q) == \A i \in 1 .. Len(q) : ~News(q[i])
Reaches(q, sees) ==
    \/ \E i \in 1 .. Len(q) : q[i].kind = "here" /\ \A j \in 1 .. Len(q) : j > i => q[j].kind # "gone"
    \/ sees /\ \A j \in 1 .. Len(q) : q[j].kind # "gone"

IsTrue(m, on, unsure, e) ==
    IF on THEN m.kind \in {"changed", "here"} /\ (unsure \/ m.state = Curves(e))
    ELSE m.kind = "gone"

(* The last news on its way is true; without any, what the client has is. *)
NewsIsTrue ==
    /\ \A i \in 1 .. Len(toClient) : LastNews(toClient, i) => IsTrue(toClient[i], up, doubt, eng)
    /\ NoNews(toClient) /\ up => here /\ (doubt \/ cache = Curves(eng))
    /\ NoNews(toClient) /\ ~up => ~here /\ cache = None
    /\ up => Reaches(toClient, here)

(* The page agrees with its client, or something is still to happen. *)
Agrees ==
    cache # None =>
        /\ page.hasCurve = (cache.curves # None)
        /\ cache.curves # None => page.linked = cache.linked /\ page.curves = Adopted(cache)

AgreesInTheEnd ==
    Agrees \/ pending # None \/ resync \/ toDaemon # <<>> \/ toClient # <<>> \/ doubt

PageInv ==
    PageTypes /\ EditShown /\ CommandOnItsWay /\ CurvesFit(eng) /\ NewsIsTrue /\ AgreesInTheEnd

-----------------------------------------------------------------------------
(* The daemon's curves, and the page's. *)

LEMMA PageNames ==
    /\ FIRMWARE # CUSTOM /\ Builtin # FIRMWARE /\ Builtin # CUSTOM
    /\ FANS = {CPU, GPU} /\ CPU # GPU
    /\ \A e \in Calls : e # None
    /\ \A e \in Edits : e.kind = "curve" /\ e # None
    /\ \A e \in Choices : e.kind = "profile" /\ e # None
    /\ \A c \in Pairs : c # None
    /\ \A c \in States : c # None
  BY ParameterAssumption DEF FIRMWARE, CUSTOM, FANS, CPU, GPU, Calls, Edits, Choices, Pairs

LEMMA BothFans ==
    ASSUME NEW c \in Shapes
    PROVE  /\ OnBoth(c) \in Pairs
           /\ OnBoth(c)[CPU] = c /\ OnBoth(c)[GPU] = c
           /\ \A f \in FANS : OnBoth(c)[f] = c
  BY DEF OnBoth, Pairs, FANS

LEMMA TakesAChoice ==
    ASSUME NEW e \in Engines, NEW name \in {FIRMWARE, Builtin}
    PROVE  LET r == Choosing(e, name)
           IN  /\ r \in Engines /\ r.profile = name /\ r.linked = e.linked
               /\ r.curves = IF name = FIRMWARE THEN None ELSE OnBoth(Builtin)
<1>1. OnBoth(Builtin) \in Pairs
  BY BothFans DEF Shapes
<1>2. name # FIRMWARE => name = Builtin
  OBVIOUS
<1> QED BY <1>1, <1>2 DEF Choosing, Engines

LEMMA TakesAnEdit ==
    ASSUME NEW e \in Engines,
           NEW call, call.which \in FANS, call.points \in Shapes, call.linked \in BOOLEAN
    PROVE  LET r == Drawing(e, call)
           IN  /\ r \in Engines /\ r.profile = CUSTOM /\ r.linked = call.linked
               /\ r.curves \in Pairs /\ r.curves[call.which] = call.points
               /\ call.linked => r.curves[CPU] = r.curves[GPU]
<1> DEFINE b == OnBoth(call.points)
           kept == IF e.curves = None THEN b ELSE e.curves
           c == IF call.linked THEN b ELSE [kept EXCEPT ![call.which] = call.points]
<1>1. /\ b \in Pairs /\ b[call.which] = call.points /\ b[CPU] = b[GPU]
  BY BothFans
<1>2. kept \in Pairs
  BY <1>1 DEF Engines
<1> HIDE DEF b, kept
<1>3. /\ c \in Pairs /\ c[call.which] = call.points
      /\ call.linked => c[CPU] = c[GPU]
  BY <1>1, <1>2 DEF Pairs
<1>4. Drawing(e, call) = [profile |-> CUSTOM, linked |-> call.linked, curves |-> c]
  BY DEF Drawing, b, kept
<1> HIDE DEF c
<1> QED BY <1>3, <1>4 DEF Engines

LEMMA AdoptedIsAPair ==
    ASSUME NEW seen \in States, seen.curves \in Pairs
    PROVE  /\ Adopted(seen) \in Pairs
           /\ ~seen.linked => Adopted(seen) = seen.curves
           /\ (seen.linked /\ seen.curves[CPU] = seen.curves[GPU])
                 => Adopted(seen) = seen.curves
<1>1. seen.curves[CPU] \in Shapes
  BY DEF Pairs, FANS
<1>2. CASE seen.linked
  <2>1. Adopted(seen) = OnBoth(seen.curves[CPU])
    BY <1>2 DEF Adopted
  <2>2. seen.curves[CPU] = seen.curves[GPU] => OnBoth(seen.curves[CPU]) = seen.curves
    BY DEF OnBoth, Pairs, FANS
  <2> QED BY <1>1, <1>2, <2>1, <2>2, BothFans
<1>3. CASE ~seen.linked
  BY <1>3 DEF Adopted
<1> QED BY <1>2, <1>3

(* sync_from_daemon leaves a page alone that has something to send, and makes *)
(* any other agree with its client.                                           *)
LEMMA SyncMakesThemAgree ==
    ASSUME PageTypes, SyncFromDaemon, cache' \in States \cup {None}
    PROVE  /\ page' \in Pages /\ shown' \in Shapes /\ dragging' = dragging
           /\ pending # None => page' = page /\ shown' = shown
           /\ pending = None => Agrees'
<1>1. page' = Synced(page, cache') /\ page \in Pages /\ shown \in Shapes
  BY DEF SyncFromDaemon, PageTypes
<1>2. CASE pending # None \/ cache' = None
  <2>1. page' = page /\ shown' = shown /\ dragging' = dragging
    BY <1>1, <1>2 DEF Synced, SyncFromDaemon, view
  <2> QED BY <1>1, <1>2, <2>1 DEF Agrees
<1>3. CASE pending = None /\ cache' # None
  <2> DEFINE seen == cache'
             c == IF seen.curves = None THEN page.curves ELSE Adopted(seen)
  <2>1. seen \in States /\ seen.linked \in BOOLEAN /\ seen.curves \in Pairs \cup {None}
    BY <1>3 DEF States, Pairs
  <2>2. c \in Pairs
    BY <1>1, <2>1, AdoptedIsAPair DEF Pages
  <2>3. page' = [page EXCEPT !.linked = seen.linked, !.hasCurve = (seen.curves # None), !.curves = c]
    BY <1>1, <1>3 DEF Synced
  <2>4. shown' = (IF dragging THEN shown ELSE page'.curves[page'.editing]) /\ dragging' = dragging
    BY <1>3 DEF SyncFromDaemon, RefreshView
  <2> HIDE DEF c
  <2>5. /\ page' \in Pages /\ page'.curves = c /\ page'.linked = seen.linked
        /\ page'.hasCurve = (seen.curves # None)
    BY <1>1, <2>1, <2>2, <2>3 DEF Pages
  <2>6. page'.curves[page'.editing] \in Shapes
    BY <2>5 DEF Pages, Pairs
  <2>7. Agrees'
    BY <2>5 DEF Agrees, c, Adopted, OnBoth
  <2> QED BY <1>1, <1>3, <2>4, <2>5, <2>6, <2>7
<1> QED BY <1>2, <1>3

(* A call reaches the daemon, or an error comes of it. *)
LEMMA Sends ==
    ASSUME PageTypes, NEW call \in Calls, Send(call)
    PROVE  \/ ~here /\ resync' = TRUE /\ toDaemon' = toDaemon /\ toClient' = toClient
           \/ /\ here /\ up /\ resync' = resync /\ toClient' = toClient
              /\ toDaemon' = Append(toDaemon, call)
           \/ /\ here /\ ~up /\ resync' = resync /\ toDaemon' = toDaemon
              /\ toClient' = Append(toClient, [kind |-> "error"])
  BY DEF Send, PageTypes

(* Messages of the three kinds. *)
LEMMA MessagesAre ==
    /\ [kind |-> "error"] \in Messages /\ [kind |-> "gone"] \in Messages
    /\ \A s \in States, k \in {"changed", "here"} : [kind |-> k, state |-> s] \in Messages
    /\ \A m \in Messages : m.kind \in {"changed", "here"} => m.state \in States
    /\ \A m \in Messages : m.kind \in {"changed", "here", "gone", "error"}
  BY DEF Messages

LEMMA CurvesAreStates == \A e \in Engines : Curves(e) \in States
  BY DEF Curves, States, Engines, Pairs

-----------------------------------------------------------------------------
(* The news among messages: what appending one, or taking one, does to it. *)

(* An error reply is no news. *)
LEMMA ErrorAppended ==
    ASSUME NEW q \in Seq(Messages), NEW m \in Messages, m.kind = "error", NEW sees \in BOOLEAN
    PROVE  LET r == Append(q, m)
           IN  /\ \A i \in 1 .. Len(r) : LastNews(r, i) => i \in 1 .. Len(q) /\ r[i] = q[i] /\ LastNews(q, i)
               /\ NoNews(r) => NoNews(q)
               /\ Reaches(q, sees) => Reaches(r, sees)
<1> DEFINE r == Append(q, m)
<1>1. /\ Len(q) \in Nat /\ Len(r) = Len(q) + 1 /\ r[Len(q) + 1] = m
      /\ \A i \in 1 .. Len(q) : r[i] = q[i]
  OBVIOUS
<1> HIDE DEF r
<1>2. \A i \in 1 .. Len(r) : i \in 1 .. Len(q) \/ i = Len(q) + 1
  BY <1>1
<1>3. \A i \in 1 .. Len(q) : i \in 1 .. Len(r)
  BY <1>1
<1>4. \A i \in 1 .. Len(r) : LastNews(r, i) => i \in 1 .. Len(q) /\ r[i] = q[i] /\ LastNews(q, i)
  BY <1>1, <1>2, <1>3 DEF LastNews, News
<1>5. NoNews(r) => NoNews(q)
  BY <1>1, <1>3 DEF NoNews
<1>6. Reaches(q, sees) => Reaches(r, sees)
  BY <1>1, <1>2, <1>3 DEF Reaches
<1> QED BY <1>4, <1>5, <1>6 DEF r

(* Anything else is the last news. *)
LEMMA NewsAppended ==
    ASSUME NEW q \in Seq(Messages), NEW m \in Messages, News(m), NEW sees \in BOOLEAN
    PROVE  LET r == Append(q, m)
           IN  /\ \A i \in 1 .. Len(r) : LastNews(r, i) => r[i] = m
               /\ ~NoNews(r)
               /\ m.kind = "here" \/ (m.kind # "gone" /\ Reaches(q, sees)) => Reaches(r, sees)
<1> DEFINE r == Append(q, m)
<1>1. /\ Len(q) \in Nat /\ Len(r) = Len(q) + 1 /\ r[Len(q) + 1] = m
      /\ \A i \in 1 .. Len(q) : r[i] = q[i]
  OBVIOUS
<1> HIDE DEF r
<1>2. \A i \in 1 .. Len(r) : i \in 1 .. Len(q) \/ i = Len(q) + 1
  BY <1>1
<1>3. Len(q) + 1 \in 1 .. Len(r) /\ \A i \in 1 .. Len(q) : i \in 1 .. Len(r) /\ Len(q) + 1 > i
  BY <1>1
<1>4. \A i \in 1 .. Len(r) : LastNews(r, i) => r[i] = m
  BY <1>1, <1>2, <1>3 DEF LastNews
<1>5. ~NoNews(r)
  BY <1>1, <1>3 DEF NoNews
<1>6. m.kind = "here" => Reaches(r, sees)
  <2>1. \A j \in 1 .. Len(r) : ~(j > Len(q) + 1)
    BY <1>1
  <2> QED BY <1>1, <1>3, <2>1 DEF Reaches
<1>7. m.kind # "gone" /\ Reaches(q, sees) => Reaches(r, sees)
  BY <1>1, <1>2, <1>3 DEF Reaches
<1> QED BY <1>4, <1>5, <1>6, <1>7 DEF r

(* The daemon's end is the last news among the errors that follow it. *)
Ended(q, n) == q \o <<[kind |-> "gone"]>> \o [i \in 1 .. n |-> [kind |-> "error"]]

LEMMA EndAppended ==
    ASSUME NEW q \in Seq(Messages), NEW n \in Nat
    PROVE  /\ Ended(q, n) \in Seq(Messages)
           /\ \A i \in 1 .. Len(Ended(q, n)) :
                  LastNews(Ended(q, n), i) => Ended(q, n)[i] = [kind |-> "gone"]
           /\ ~NoNews(Ended(q, n))
<1> DEFINE m == [kind |-> "gone"]
           e == [kind |-> "error"]
           es == [i \in 1 .. n |-> e]
           h == q \o <<m>>
           r == h \o es
<1>m. m \in Messages /\ m.kind = "gone" /\ e \in Messages /\ e.kind = "error"
  BY MessagesAre
<1>r. Ended(q, n) = r
  BY DEF Ended
<1> HIDE DEF m, e
<1>1. es \in Seq(Messages) /\ Len(es) = n /\ h \in Seq(Messages)
  BY <1>m
<1>2. /\ Len(q) \in Nat /\ Len(h) = Len(q) + 1 /\ h[Len(q) + 1] = m
  OBVIOUS
<1> HIDE DEF h
<1>3. /\ r \in Seq(Messages) /\ Len(r) = Len(h) + n
      /\ \A i \in 1 .. Len(h) : r[i] = h[i]
      /\ \A i \in 1 .. n : r[Len(h) + i] = es[i]
  BY <1>1
<1>4. \A i \in 1 .. n : es[i] = e
  OBVIOUS
<1> HIDE DEF es, r
<1> DEFINE g == Len(q) + 1
<1>5. g \in 1 .. Len(r) /\ r[g] = m
  BY <1>2, <1>3
<1>6. \A i \in 1 .. Len(r) : i > g => r[i] = e
  <2> TAKE i \in 1 .. Len(r)
  <2>1. i > g => i - g \in 1 .. n /\ i = g + (i - g)
    BY <1>2, <1>3
  <2> QED BY <1>2, <1>3, <1>4, <2>1
<1>7. \A i \in 1 .. Len(r) : i < g \/ i = g \/ i > g
  BY <1>2, <1>3
<1> HIDE DEF g
<1>8. \A i \in 1 .. Len(r) : LastNews(r, i) => r[i] = m
  <2> SUFFICES ASSUME NEW i \in 1 .. Len(r), LastNews(r, i) PROVE r[i] = m
    OBVIOUS
  <2>1. ~(i > g)
    BY <1>m, <1>6 DEF LastNews, News
  <2>2. ~(i < g)
    <3>1. i < g => g > i
      BY <1>2 DEF g
    <3> QED BY <1>m, <1>5, <3>1 DEF LastNews, News
  <2> QED BY <1>5, <1>7, <2>1, <2>2
<1>9. ~NoNews(r)
  BY <1>m, <1>5 DEF NoNews, News
<1> QED BY <1>r, <1>3, <1>8, <1>9 DEF m

(* Taking the first message. *)
LEMMA NewsTaken ==
    ASSUME NEW q \in Seq(Messages), q # <<>>, NEW sees \in BOOLEAN, NEW now \in BOOLEAN
    PROVE  LET t == Tail(q)
           IN  /\ t \in Seq(Messages) /\ Head(q) \in Messages
               /\ \A i \in 1 .. Len(t) : LastNews(t, i) => \E k \in 1 .. Len(q) : t[i] = q[k] /\ LastNews(q, k)
               /\ NoNews(t) /\ ~News(Head(q)) => NoNews(q)
               /\ NoNews(t) /\ News(Head(q)) => 1 \in 1 .. Len(q) /\ q[1] = Head(q) /\ LastNews(q, 1)
               /\ (Reaches(q, sees) /\ (Head(q).kind = "here" => now) /\ (sees /\ Head(q).kind # "gone" => now))
                     => Reaches(t, now)
               /\ (Reaches(t, now) /\ NoNews(t)) => now
<1> DEFINE t == Tail(q)
<1>1. /\ Len(q) \in Nat \ {0} /\ Len(t) = Len(q) - 1 /\ t \in Seq(Messages)
      /\ \A i \in 1 .. Len(t) : t[i] = q[i + 1]
      /\ Head(q) = q[1] /\ q[1] \in Messages
  OBVIOUS
<1> HIDE DEF t
<1>2. /\ \A i \in 1 .. Len(q) : i = 1 \/ (i - 1 \in 1 .. Len(t) /\ t[i - 1] = q[i])
      /\ \A i \in 1 .. Len(t) : i + 1 \in 1 .. Len(q)
      /\ 1 \in 1 .. Len(q)
  BY <1>1
<1>3. ASSUME NEW i \in 1 .. Len(t), LastNews(t, i)
      PROVE  LastNews(q, i + 1)
  <2>1. \A j \in 1 .. Len(q) : j > i + 1 => j # 1 /\ j - 1 > i
    BY <1>1
  <2> QED BY <1>1, <1>2, <1>3, <2>1 DEF LastNews
<1>4. NoNews(t) /\ ~News(Head(q)) => NoNews(q)
  BY <1>1, <1>2 DEF NoNews
<1>5. NoNews(t) /\ News(Head(q)) => LastNews(q, 1)
  <2>1. \A j \in 1 .. Len(q) : j > 1 => j # 1
    BY <1>1
  <2> QED BY <1>1, <1>2, <2>1 DEF NoNews, LastNews
<1>6. ASSUME Reaches(q, sees), Head(q).kind = "here" => now, sees /\ Head(q).kind # "gone" => now
      PROVE  Reaches(t, now)
  <2>1. CASE sees /\ \A j \in 1 .. Len(q) : q[j].kind # "gone"
    <3>1. now
      BY <1>1, <1>2, <1>6, <2>1
    <3>2. \A j \in 1 .. Len(t) : t[j].kind # "gone"
      BY <1>1, <1>2, <2>1
    <3> QED BY <3>1, <3>2 DEF Reaches
  <2>2. ASSUME NEW i \in 1 .. Len(q), q[i].kind = "here", \A j \in 1 .. Len(q) : j > i => q[j].kind # "gone"
        PROVE  Reaches(t, now)
    <3>1. CASE i = 1
      <4>1. \A j \in 1 .. Len(t) : j + 1 > i
        BY <1>1, <3>1
      <4> QED BY <1>1, <1>2, <1>6, <2>2, <3>1, <4>1 DEF Reaches
    <3>2. CASE i # 1
      <4>1. \A j \in 1 .. Len(t) : j > i - 1 => j + 1 > i
        BY <1>1
      <4>2. \A j \in 1 .. Len(t) : j > i - 1 => t[j].kind # "gone"
        BY <1>1, <1>2, <2>2, <4>1
      <4>3. i - 1 \in 1 .. Len(t) /\ t[i - 1].kind = "here"
        BY <1>2, <2>2, <3>2
      <4> QED BY <4>2, <4>3 DEF Reaches
    <3> QED BY <3>1, <3>2
  <2> QED BY <1>6, <2>1, <2>2 DEF Reaches
<1>7. Reaches(t, now) /\ NoNews(t) => now
  BY DEF Reaches, NoNews, News
<1> QED BY <1>1, <1>2, <1>3, <1>4, <1>5, <1>6, <1>7 DEF t

-----------------------------------------------------------------------------
(* What each kind of step does to the news on its way. *)

(* A step that brings no news, and changes what the daemon announces only in *)
(* doubt.                                                                    *)
LEMMA NoNewsComes ==
    ASSUME PageInv, up' = up, here' = here, cache' = cache,
           toClient' = toClient \/ toClient' = Append(toClient, [kind |-> "error"]),
           doubt => doubt', doubt' \/ Curves(eng)' = Curves(eng)
    PROVE  NewsIsTrue'
<1>1. toClient \in Seq(Messages) /\ here \in BOOLEAN /\ NewsIsTrue
  BY DEF PageInv, PageTypes
<1>2. /\ \A i \in 1 .. Len(toClient') : LastNews(toClient', i) =>
            i \in 1 .. Len(toClient) /\ toClient'[i] = toClient[i] /\ LastNews(toClient, i)
      /\ NoNews(toClient') => NoNews(toClient)
      /\ Reaches(toClient, here) => Reaches(toClient', here)
  <2>1. CASE toClient' = toClient
    BY <2>1
  <2>2. CASE toClient' = Append(toClient, [kind |-> "error"])
    BY <1>1, <2>2, MessagesAre, ErrorAppended
  <2> QED BY <2>1, <2>2
<1>3. Curves(eng') = Curves(eng) \/ doubt'
  BY DEF Curves
<1>4. \A m \in Messages : IsTrue(m, up, doubt, eng) => IsTrue(m, up', doubt', eng')
  BY <1>3 DEF IsTrue
<1>5. ASSUME NEW i \in 1 .. Len(toClient'), LastNews(toClient', i)
      PROVE  IsTrue(toClient'[i], up', doubt', eng')
  <2>1. i \in 1 .. Len(toClient) /\ toClient'[i] = toClient[i] /\ IsTrue(toClient[i], up, doubt, eng)
    BY <1>1, <1>2, <1>5 DEF NewsIsTrue
  <2>2. toClient[i] \in Messages
    BY <1>1, <2>1
  <2> QED BY <2>1, <2>2, <1>4
<1> QED BY <1>1, <1>2, <1>3, <1>5 DEF NewsIsTrue

(* The running daemon announces itself, or its curves to whom it is known. *)
LEMMA NewsComes ==
    ASSUME PageInv, NEW kind \in {"changed", "here"}, up', here' = here,
           kind = "changed" => up,
           toClient' = Append(toClient, [kind |-> kind, state |-> Curves(eng')]),
           eng' \in Engines
    PROVE  NewsIsTrue'
<1> DEFINE m == [kind |-> kind, state |-> Curves(eng')]
<1>1. toClient \in Seq(Messages) /\ here \in BOOLEAN /\ NewsIsTrue
  BY DEF PageInv, PageTypes
<1>2. m \in Messages /\ m.kind = kind /\ News(m) /\ m.state = Curves(eng')
  BY MessagesAre, CurvesAreStates DEF News
<1> HIDE DEF m
<1>3. /\ \A i \in 1 .. Len(toClient') : LastNews(toClient', i) => toClient'[i] = m
      /\ ~NoNews(toClient')
      /\ m.kind = "here" \/ (m.kind # "gone" /\ Reaches(toClient, here)) => Reaches(toClient', here)
  BY <1>1, <1>2, NewsAppended DEF m
<1>4. IsTrue(m, up', doubt', eng')
  BY <1>2 DEF IsTrue
<1>5. Reaches(toClient', here)
  BY <1>1, <1>2, <1>3 DEF NewsIsTrue
<1> QED BY <1>3, <1>4, <1>5 DEF NewsIsTrue

(* The daemon stops. *)
LEMMA EndComes == PageInv /\ Stop => NewsIsTrue'
<1> SUFFICES ASSUME PageInv, Stop PROVE NewsIsTrue'
  OBVIOUS
<1>1. toClient \in Seq(Messages) /\ Len(toDaemon) \in Nat
  BY DEF PageInv, PageTypes
<1>2. toClient' = Ended(toClient, Len(toDaemon))
  BY DEF Stop, Ended
<1>3. /\ \A i \in 1 .. Len(toClient') : LastNews(toClient', i) => toClient'[i] = [kind |-> "gone"]
      /\ ~NoNews(toClient')
  BY <1>1, <1>2, EndAppended
<1>4. ~up' /\ IsTrue([kind |-> "gone"], up', doubt', eng')
  BY DEF Stop, IsTrue
<1> QED BY <1>3, <1>4 DEF NewsIsTrue

(* A message is taken: what is left on its way is as true as it was, and what *)
(* was the last news is now what the client has.                              *)
LEMMA NewsArrives == PageInv /\ Receive => NewsIsTrue'
<1> SUFFICES ASSUME PageInv, Receive PROVE NewsIsTrue'
  OBVIOUS
<1> DEFINE m == Head(toClient)
<1>1. /\ toClient \in Seq(Messages) /\ toClient # <<>> /\ toClient' = Tail(toClient)
      /\ up' = up /\ doubt' = doubt /\ eng' = eng
      /\ NewsIsTrue /\ up \in BOOLEAN /\ here \in BOOLEAN
  BY DEF PageInv, PageTypes, Receive, history
<1>2. m \in Messages /\ m.kind \in {"changed", "here", "gone", "error"}
  BY <1>1, MessagesAre
<1>3. /\ m.kind \in {"changed", "here"} =>
           here' = (here \/ m.kind = "here") /\ cache' = IF here' THEN m.state ELSE cache
      /\ m.kind = "gone" => here' = FALSE /\ cache' = None
      /\ m.kind = "error" => here' = here /\ cache' = cache
      /\ here' \in BOOLEAN
  BY <1>1, <1>2 DEF Receive
<1> HIDE DEF m
<1>4. /\ \A i \in 1 .. Len(toClient') :
            LastNews(toClient', i) => \E k \in 1 .. Len(toClient) : toClient'[i] = toClient[k] /\ LastNews(toClient, k)
      /\ NoNews(toClient') /\ ~News(m) => NoNews(toClient)
      /\ NoNews(toClient') /\ News(m) =>
            1 \in 1 .. Len(toClient) /\ toClient[1] = m /\ LastNews(toClient, 1)
      /\ (Reaches(toClient, here) /\ (m.kind = "here" => here') /\ (here /\ m.kind # "gone" => here'))
            => Reaches(toClient', here')
      /\ (Reaches(toClient', here') /\ NoNews(toClient')) => here'
  BY <1>1, <1>3, NewsTaken DEF m
<1>5. \A i \in 1 .. Len(toClient') : LastNews(toClient', i) => IsTrue(toClient'[i], up, doubt, eng)
  BY <1>1, <1>4 DEF NewsIsTrue
<1>6. up => Reaches(toClient', here')
  <2>1. (m.kind = "here" => here') /\ (here /\ m.kind # "gone" => here')
    BY <1>2, <1>3
  <2> QED BY <1>1, <1>4, <2>1 DEF NewsIsTrue
<1>7. CASE m.kind = "error"
  <2>1. ~News(m)
    BY <1>7 DEF News
  <2> QED BY <1>1, <1>3, <1>4, <1>5, <1>6, <1>7, <2>1 DEF NewsIsTrue
<1>8. CASE m.kind # "error"
  <2>1. NoNews(toClient') => IsTrue(m, up, doubt, eng)
    BY <1>1, <1>4, <1>8 DEF News, NewsIsTrue
  <2>2. NoNews(toClient') /\ up => here' /\ (doubt \/ cache' = Curves(eng))
    BY <1>3, <1>4, <1>6, <2>1 DEF IsTrue
  <2>3. NoNews(toClient') /\ ~up => ~here' /\ cache' = None
    BY <1>3, <2>1 DEF IsTrue
  <2> QED BY <1>1, <1>5, <1>6, <2>2, <2>3 DEF NewsIsTrue
<1> QED BY <1>7, <1>8

-----------------------------------------------------------------------------
(* The page's user: what is drawn is shown and waits. *)

(* Whatever profile or curve is chosen, by whom it may be, the engine's curves *)
(* go with its profile.                                                        *)
LEMMA ChoiceFits ==
    ASSUME NEW e \in Engines, NEW name \in {FIRMWARE, Builtin}
    PROVE  Choosing(e, name) \in Engines /\ CurvesFit(Choosing(e, name))
<1> DEFINE r == Choosing(e, name)
<1>1. /\ r \in Engines /\ r.profile = name /\ r.linked = e.linked
      /\ r.curves = IF name = FIRMWARE THEN None ELSE OnBoth(Builtin)
  BY TakesAChoice
<1>2. OnBoth(Builtin)[CPU] = OnBoth(Builtin)[GPU]
  BY BothFans DEF Shapes
<1> HIDE DEF r
<1>3. name # FIRMWARE => name = Builtin
  OBVIOUS
<1>4. CurvesFit(r)
  BY <1>1, <1>2, <1>3, PageNames DEF CurvesFit
<1> QED BY <1>1, <1>4 DEF r

LEMMA EditFits ==
    ASSUME NEW e \in Engines,
           NEW call, call.which \in FANS, call.points \in Shapes, call.linked \in BOOLEAN
    PROVE  Drawing(e, call) \in Engines /\ CurvesFit(Drawing(e, call))
<1> DEFINE r == Drawing(e, call)
<1>1. /\ r \in Engines /\ r.profile = CUSTOM /\ r.linked = call.linked /\ r.curves \in Pairs
      /\ call.linked => r.curves[CPU] = r.curves[GPU]
  BY TakesAnEdit
<1> HIDE DEF r
<1>2. CurvesFit(r)
  BY <1>1, PageNames DEF CurvesFit
<1> QED BY <1>1, <1>2 DEF r

LEMMA CallFits ==
    ASSUME NEW e \in Engines, NEW call \in Calls
    PROVE  /\ Obeying(e, call) \in Engines /\ CurvesFit(Obeying(e, call))
           /\ Fulfils(Obeying(e, call), call)
<1>1. CASE call \in Choices
  <2>1. call.kind = "profile" /\ call.name \in {FIRMWARE, Builtin}
    BY <1>1 DEF Choices
  <2>2. Obeying(e, call) = Choosing(e, call.name)
    BY <2>1 DEF Obeying
  <2>3. Choosing(e, call.name).profile = call.name
    BY <2>1, TakesAChoice
  <2> QED BY <2>1, <2>2, <2>3, ChoiceFits DEF Fulfils
<1>2. CASE call \in Edits
  <2>1. /\ call.kind = "curve" /\ call.which \in FANS /\ call.points \in Shapes
        /\ call.linked \in BOOLEAN
    BY <1>2 DEF Edits
  <2>2. Obeying(e, call) = Drawing(e, call)
    BY <2>1 DEF Obeying
  <2>3. LET r == Drawing(e, call)
        IN  /\ r.profile = CUSTOM /\ r.linked = call.linked
            /\ r.curves \in Pairs /\ r.curves[call.which] = call.points
    BY <2>1, TakesAnEdit
  <2> QED BY <2>1, <2>2, <2>3, EditFits, PageNames DEF Fulfils
<1> QED BY <1>1, <1>2 DEF Calls

(* An edit is put on the page it is made on. *)
LEMMA EditIsTaken ==
    ASSUME NEW p \in Pages, NEW c \in Shapes
    PROVE  LET r == Edited(p, c)
           IN  /\ r \in Pages /\ r.linked = p.linked /\ r.editing = p.editing /\ r.dirty
               /\ r.curves[p.editing] = c
               /\ p.linked => r.curves[CPU] = r.curves[GPU]
<1> DEFINE k == IF p.linked THEN OnBoth(c) ELSE [p.curves EXCEPT ![p.editing] = c]
<1>1. p.editing \in FANS /\ p.curves \in Pairs
  BY DEF Pages
<1>2. k \in Pairs /\ k[p.editing] = c /\ (p.linked => k[CPU] = k[GPU])
  BY <1>1, BothFans DEF Pairs
<1>3. Edited(p, c) = [p EXCEPT !.dirty = TRUE, !.curves = k]
  BY DEF Edited
<1> HIDE DEF k
<1> QED BY <1>2, <1>3 DEF Pages

(* What a drawn curve leaves waiting is what the page shows. *)
LEMMA QueuedIsShown ==
    ASSUME page' \in Pages, QueueSend(page'),
           page'.dirty \/ page'.hasCurve,
           page'.linked => page'.curves[CPU] = page'.curves[GPU],
           shown' = page'.curves[page'.editing]
    PROVE  /\ pending' \in Edits /\ pending' # None /\ owed' = pending'
           /\ EditShown'
<1>1. page'.editing \in FANS /\ page'.curves[page'.editing] \in Shapes /\ page'.linked \in BOOLEAN
  BY DEF Pages, Pairs
<1>2. /\ pending' = [kind |-> "curve", which |-> page'.editing, points |-> page'.curves[page'.editing],
                     linked |-> page'.linked]
      /\ owed' = pending'
  BY DEF QueueSend
<1>3. pending' \in Edits
  BY <1>1, <1>2 DEF Edits
<1>4. /\ page'.curves[pending'.which] = pending'.points /\ page'.linked = pending'.linked
      /\ shown' = pending'.points
  BY <1>2
<1> QED BY <1>2, <1>3, <1>4, PageNames DEF EditShown, ScreenIsWhatWeSend

(* A step of the page that leaves the bus and the daemon alone. *)
LEMMA PageOnly ==
    ASSUME PageInv, up' = up, here' = here, cache' = cache, toDaemon' = toDaemon, toClient' = toClient,
           eng' = eng, doubt' \in BOOLEAN, doubt => doubt', resync' \in BOOLEAN,
           page' \in Pages, shown' \in Shapes, dragging' \in BOOLEAN,
           pending' \in Edits \cup {None}, owed' \in Calls \cup {None}
    PROVE  PageTypes' /\ CurvesFit(eng') /\ NewsIsTrue'
<1>1. PageTypes'
  BY DEF PageInv, PageTypes
<1>2. Curves(eng)' = Curves(eng)
  BY DEF Curves
<1>3. NewsIsTrue'
  BY <1>2, NoNewsComes
<1> QED BY <1>1, <1>3 DEF PageInv

(* A point is grabbed or let go. *)
LEMMA PointHeld ==
    ASSUME PageInv, OnDragBegin \/ OnDragEnd PROVE PageInv'
<1>1. /\ up' = up /\ here' = here /\ cache' = cache /\ toDaemon' = toDaemon /\ toClient' = toClient
      /\ eng' = eng /\ doubt' = doubt /\ resync' = resync /\ page' = page /\ shown' = shown
      /\ pending' = pending /\ owed' = owed /\ dragging' \in BOOLEAN
  BY DEF OnDragBegin, OnDragEnd, history
<1>2. PageTypes
  BY DEF PageInv
<1>3. PageTypes' /\ CurvesFit(eng') /\ NewsIsTrue'
  BY <1>1, <1>2, PageOnly DEF PageTypes
<1> QED BY <1>1, <1>3 DEF PageInv, EditShown, ScreenIsWhatWeSend, CommandOnItsWay, Fulfils,
                          AgreesInTheEnd, Agrees

(* A curve is drawn, or the link switch makes an edit of what is drawn. *)
LEMMA EditWaits ==
    ASSUME PageInv, page' \in Pages, QueueSend(page'),
           page'.dirty \/ page'.hasCurve,
           page'.linked => page'.curves[CPU] = page'.curves[GPU],
           shown' = page'.curves[page'.editing], dragging' = dragging,
           up' = up, here' = here, cache' = cache, toDaemon' = toDaemon, toClient' = toClient,
           eng' = eng, doubt' = doubt, resync' = resync
    PROVE  PageInv'
<1>1. pending' \in Edits /\ pending' # None /\ owed' = pending' /\ EditShown'
  BY QueuedIsShown
<1>2. shown' \in Shapes
  BY DEF Pages, Pairs
<1>3. PageTypes' /\ CurvesFit(eng') /\ NewsIsTrue'
  <2>1. owed' \in Calls
    BY <1>1 DEF Calls
  <2> QED BY <1>1, <1>2, <2>1, PageOnly DEF PageInv, PageTypes
<1>4. CommandOnItsWay'
  BY <1>1 DEF PageInv, CommandOnItsWay
<1> QED BY <1>1, <1>3, <1>4 DEF PageInv, AgreesInTheEnd

LEMMA CurveDrawn ==
    ASSUME PageInv, OnCurveEdited PROVE PageInv'
<1>1. PICK c \in Drawn \ {shown} : shown' = c /\ page' = Edited(page, c)
  BY DEF OnCurveEdited
<1>2. c \in Shapes /\ page \in Pages
  BY DEF Shapes, PageInv, PageTypes
<1>3. /\ page' \in Pages /\ page'.linked = page.linked /\ page'.editing = page.editing /\ page'.dirty
      /\ page'.curves[page'.editing] = shown'
      /\ page'.linked => page'.curves[CPU] = page'.curves[GPU]
  BY <1>1, <1>2, EditIsTaken
<1> QED BY <1>3, EditWaits DEF OnCurveEdited

LEMMA LinkToggled ==
    ASSUME PageInv, OnLinkToggled PROVE PageInv'
<1> DEFINE k == IF page.linked THEN page.curves ELSE OnBoth(page.curves[page.editing])
<1>1. /\ page \in Pages /\ page.editing \in FANS /\ page.curves \in Pairs /\ page.linked \in BOOLEAN
      /\ page.curves[page.editing] \in Shapes
  BY DEF PageInv, PageTypes, Pages, Pairs
<1>2. k \in Pairs /\ (~page.linked => k[CPU] = k[GPU])
  BY <1>1, BothFans
<1>3. page' = [page EXCEPT !.linked = ~page.linked, !.curves = k]
  BY DEF OnLinkToggled
<1> HIDE DEF k
<1>4. /\ page' \in Pages /\ page'.linked = (~page.linked) /\ page'.curves = k
      /\ page'.dirty = page.dirty /\ page'.hasCurve = page.hasCurve
  BY <1>1, <1>2, <1>3 DEF Pages
<1>5. /\ ~dragging /\ dragging' = dragging /\ shown' = page'.curves[page'.editing]
      /\ here' = here /\ cache' = cache /\ resync' = resync /\ toDaemon' = toDaemon
      /\ toClient' = toClient /\ up' = up /\ eng' = eng /\ doubt' = doubt
  BY DEF OnLinkToggled, RefreshView
<1>6. page'.linked => page'.curves[CPU] = page'.curves[GPU]
  BY <1>2, <1>4
<1>7. CASE page.dirty \/ page.hasCurve
  <2>1. QueueSend(page')
    BY <1>7 DEF OnLinkToggled
  <2> QED BY <1>4, <1>5, <1>6, <1>7, <2>1, EditWaits
<1>8. CASE ~(page.dirty \/ page.hasCurve)
  <2>1. pending' = pending /\ owed' = owed /\ pending = None
    BY <1>8 DEF OnLinkToggled, PageInv, EditShown
  <2>2. shown' \in Shapes
    BY <1>4, <1>5 DEF Pages, Pairs
  <2>3. PageTypes' /\ CurvesFit(eng') /\ NewsIsTrue'
    BY <1>4, <1>5, <2>1, <2>2, PageOnly DEF PageInv, PageTypes
  <2>4. EditShown' /\ CommandOnItsWay'
    BY <1>5, <2>1 DEF PageInv, EditShown, ScreenIsWhatWeSend, CommandOnItsWay, Fulfils
  <2>5. AgreesInTheEnd'
    BY <1>4, <1>5, <1>8, <2>1 DEF PageInv, AgreesInTheEnd, Agrees
  <2> QED BY <2>3, <2>4, <2>5 DEF PageInv
<1> QED BY <1>7, <1>8

LEMMA FanToggled ==
    ASSUME PageInv, OnFanToggled PROVE PageInv'
<1>1. page \in Pages /\ page.editing \in FANS
  BY DEF PageInv, PageTypes, Pages
<1>2. page' = [page EXCEPT !.editing = Other(page.editing)] /\ Other(page.editing) \in FANS
  BY DEF OnFanToggled, Other, FANS
<1>3. /\ page' \in Pages /\ page'.linked = page.linked /\ page'.curves = page.curves
      /\ page'.dirty = page.dirty /\ page'.hasCurve = page.hasCurve
  BY <1>1, <1>2 DEF Pages
<1>4. /\ ~page.linked /\ ~dragging /\ dragging' = dragging /\ shown' = page'.curves[page'.editing]
      /\ pending' = pending /\ owed' = owed
      /\ here' = here /\ cache' = cache /\ resync' = resync /\ toDaemon' = toDaemon
      /\ toClient' = toClient /\ up' = up /\ eng' = eng /\ doubt' = doubt
  BY DEF OnFanToggled, RefreshView, history
<1>5. shown' \in Shapes
  BY <1>3, <1>4 DEF Pages, Pairs
<1>6. PageTypes' /\ CurvesFit(eng') /\ NewsIsTrue'
  BY <1>3, <1>4, <1>5, PageOnly DEF PageInv, PageTypes
<1>7. EditShown'
  BY <1>3, <1>4 DEF PageInv, EditShown, ScreenIsWhatWeSend
<1>8. CommandOnItsWay' /\ AgreesInTheEnd'
  BY <1>3, <1>4 DEF PageInv, CommandOnItsWay, Fulfils, AgreesInTheEnd, Agrees
<1> QED BY <1>6, <1>7, <1>8 DEF PageInv

(* The page takes what its client has: when it is opened, and when a refused *)
(* call has it done.                                                         *)
LEMMA PageSynced ==
    ASSUME PageInv, SyncFromDaemon,
           cache' = cache, resync' \in BOOLEAN,
           pending' = pending, here' = here, toDaemon' = toDaemon, toClient' = toClient,
           up' = up, eng' = eng, owed' = owed, doubt' = doubt
    PROVE  PageInv'
<1>1. PageTypes /\ cache' \in States \cup {None}
  BY DEF PageInv, PageTypes
<1>2. /\ page' \in Pages /\ shown' \in Shapes /\ dragging' = dragging
      /\ pending # None => page' = page /\ shown' = shown
      /\ pending = None => Agrees'
  BY <1>1, SyncMakesThemAgree
<1>3. PageTypes' /\ CurvesFit(eng') /\ NewsIsTrue'
  BY <1>1, <1>2, PageOnly DEF PageTypes
<1>4. EditShown' /\ CommandOnItsWay'
  BY <1>2 DEF PageInv, EditShown, ScreenIsWhatWeSend, CommandOnItsWay, Fulfils
<1>5. AgreesInTheEnd'
  BY <1>2 DEF AgreesInTheEnd
<1> QED BY <1>3, <1>4, <1>5 DEF PageInv

LEMMA PageOpens ==
    ASSUME PageInv, OnCustomClicked PROVE PageInv'
<1>1. resync' \in BOOLEAN
  BY DEF OnCustomClicked, PageInv, PageTypes
<1> QED BY <1>1, PageSynced DEF OnCustomClicked, history

LEMMA RefusalIsFollowed ==
    ASSUME PageInv, Resync PROVE PageInv'
<1>1. resync' \in BOOLEAN
  BY DEF Resync
<1> QED BY <1>1, PageSynced DEF Resync, history

(* The window closes. *)
LEMMA PageCloses ==
    ASSUME PageInv, OnClose PROVE PageInv'
<1>1. /\ pending' = None /\ resync' = FALSE /\ owed' = None /\ doubt' = TRUE
      /\ page' = page /\ shown' = shown /\ dragging' = dragging /\ cache' = cache /\ here' = here
      /\ toDaemon' = toDaemon /\ toClient' = toClient /\ up' = up /\ eng' = eng
  BY DEF OnClose, view
<1>2. PageTypes' /\ CurvesFit(eng') /\ NewsIsTrue'
  BY <1>1, PageOnly DEF PageInv, PageTypes
<1> QED BY <1>1, <1>2 DEF PageInv, EditShown, ScreenIsWhatWeSend, CommandOnItsWay, AgreesInTheEnd

-----------------------------------------------------------------------------
(* The calls, and the daemon. *)

(* A call is made: it is the last on its way, or its error is. *)
LEMMA CallIsMade ==
    ASSUME PageInv, NEW call \in Calls, Send(call),
           page' = page, shown' = shown, dragging' = dragging, cache' = cache, here' = here,
           up' = up, eng' = eng, doubt' = doubt,
           pending' = pending \/ pending' = None,
           owed' = None \/ (owed' = call /\ here /\ up /\ pending' = None)
    PROVE  PageInv'
<1>1. PageTypes /\ toDaemon \in Seq(Calls) /\ toClient \in Seq(Messages)
  BY DEF PageInv, PageTypes
<1>2. [kind |-> "error"] \in Messages
  BY MessagesAre
<1>3. \/ ~here /\ resync' = TRUE /\ toDaemon' = toDaemon /\ toClient' = toClient
      \/ /\ here /\ up /\ resync' = resync /\ toClient' = toClient
         /\ toDaemon' = Append(toDaemon, call)
      \/ /\ here /\ ~up /\ resync' = resync /\ toDaemon' = toDaemon
         /\ toClient' = Append(toClient, [kind |-> "error"])
  BY <1>1, Sends
<1>4. /\ Append(toDaemon, call) \in Seq(Calls) /\ Append(toDaemon, call) # <<>>
      /\ Append(toDaemon, call)[Len(Append(toDaemon, call))] = call
      /\ Append(toClient, [kind |-> "error"]) \in Seq(Messages)
      /\ Append(toClient, [kind |-> "error"]) # <<>>
  BY <1>1, <1>2
<1>5. PageTypes'
  BY <1>1, <1>3, <1>4 DEF PageTypes
<1>6. NewsIsTrue'
  BY <1>3, NoNewsComes DEF Curves
<1>7. CommandOnItsWay'
  BY <1>3, <1>4 DEF PageInv, CommandOnItsWay
<1>8. EditShown'
  BY DEF PageInv, EditShown, ScreenIsWhatWeSend
<1>9. AgreesInTheEnd'
  BY <1>3, <1>4 DEF AgreesInTheEnd
<1> QED BY <1>5, <1>6, <1>7, <1>8, <1>9 DEF PageInv

LEMMA ProfileClicked ==
    ASSUME PageInv, OnProfileClicked PROVE PageInv'
<1>1. PICK name \in {FIRMWARE, Builtin} :
        /\ Send([kind |-> "profile", name |-> name])
        /\ owed' = IF pending # None \/ ~up THEN None ELSE [kind |-> "profile", name |-> name]
  BY DEF OnProfileClicked
<1> DEFINE call == [kind |-> "profile", name |-> name]
<1>2. call \in Calls
  BY DEF Calls, Choices
<1>3. /\ page' = page /\ shown' = shown /\ dragging' = dragging /\ cache' = cache /\ here' = here
      /\ up' = up /\ eng' = eng /\ doubt' = doubt /\ pending' = pending /\ here
  BY DEF OnProfileClicked, view
<1>4. Send(call) /\ owed' = IF pending # None \/ ~up THEN None ELSE call
  BY <1>1
<1> HIDE DEF call
<1> QED BY <1>2, <1>3, <1>4, CallIsMade

LEMMA EditIsSent ==
    ASSUME PageInv, SendNow PROVE PageInv'
<1>1. /\ page' = page /\ shown' = shown /\ dragging' = dragging /\ cache' = cache /\ here' = here
      /\ up' = up /\ eng' = eng /\ doubt' = doubt /\ pending' = None /\ pending # None
      /\ Send(pending) /\ owed' = IF here /\ up THEN owed ELSE None
  BY DEF SendNow, view
<1>2. pending \in Calls
  BY <1>1 DEF PageInv, PageTypes, Calls
<1>3. owed # None => owed = pending
  BY <1>1 DEF PageInv, CommandOnItsWay
<1> QED BY <1>1, <1>2, <1>3, CallIsMade

(* A message is taken. *)
LEMMA MessageTaken ==
    ASSUME PageInv, Receive PROVE PageInv'
<1>1. /\ PageTypes /\ toClient \in Seq(Messages) /\ toClient # <<>> /\ toClient' = Tail(toClient)
      /\ pending' = pending /\ toDaemon' = toDaemon /\ up' = up /\ eng' = eng
      /\ owed' = owed /\ doubt' = doubt
  BY DEF PageInv, PageTypes, Receive, history
<1>2. Tail(toClient) \in Seq(Messages) /\ Head(toClient) \in Messages
  BY <1>1
<1>3. \/ /\ Head(toClient).kind # "error" /\ SyncFromDaemon /\ resync' = resync
         /\ here' \in BOOLEAN /\ cache' \in States \cup {None}
      \/ /\ resync' = TRUE /\ page' = page /\ shown' = shown /\ dragging' = dragging
         /\ cache' = cache /\ here' = here
  <2>1. CASE Head(toClient).kind \in {"changed", "here"}
    <3>1. Head(toClient).state \in States
      BY <1>2, <2>1, MessagesAre
    <3> QED BY <1>1, <2>1, <3>1 DEF Receive, PageTypes
  <2>2. CASE Head(toClient).kind = "gone"
    BY <2>2 DEF Receive
  <2>3. CASE Head(toClient).kind = "error"
    BY <2>3 DEF Receive, view
  <2> QED BY <1>2, <2>1, <2>2, <2>3, MessagesAre
<1>4. /\ page' \in Pages /\ shown' \in Shapes /\ dragging' = dragging
      /\ pending # None => page' = page /\ shown' = shown
      /\ pending = None => Agrees' \/ resync'
      /\ here' \in BOOLEAN /\ cache' \in States \cup {None} /\ resync' \in BOOLEAN
  <2>1. CASE SyncFromDaemon /\ resync' = resync /\ here' \in BOOLEAN
             /\ cache' \in States \cup {None}
    BY <1>1, <2>1, SyncMakesThemAgree DEF PageTypes
  <2>2. CASE /\ resync' = TRUE /\ page' = page /\ shown' = shown /\ dragging' = dragging
             /\ cache' = cache /\ here' = here
    BY <1>1, <2>2 DEF PageTypes
  <2> QED BY <1>3, <2>1, <2>2
<1>5. PageTypes'
  BY <1>1, <1>2, <1>4 DEF PageTypes
<1>6. NewsIsTrue'
  BY NewsArrives
<1>7. CommandOnItsWay' /\ CurvesFit(eng')
  BY <1>1 DEF PageInv, CommandOnItsWay, Fulfils
<1>8. EditShown'
  BY <1>1, <1>4 DEF PageInv, EditShown, ScreenIsWhatWeSend
<1>9. AgreesInTheEnd'
  BY <1>1, <1>4 DEF AgreesInTheEnd
<1> QED BY <1>5, <1>6, <1>7, <1>8, <1>9 DEF PageInv

(* A step of the daemon: the page is not concerned, and a message is on its way. *)
LEMMA DaemonOnly ==
    ASSUME PageInv, UNCHANGED gui, up' \in BOOLEAN, doubt' \in BOOLEAN,
           toDaemon' \in Seq(Calls), toClient' \in Seq(Messages), toClient' # <<>>,
           eng' \in Engines, CurvesFit(eng'), owed' \in Calls \cup {None},
           NewsIsTrue', CommandOnItsWay'
    PROVE  PageInv'
<1>1. /\ page' = page /\ shown' = shown /\ dragging' = dragging /\ pending' = pending
      /\ cache' = cache /\ here' = here /\ resync' = resync
  BY DEF gui, view
<1>2. PageTypes'
  BY <1>1 DEF PageInv, PageTypes
<1>3. EditShown'
  BY <1>1 DEF PageInv, EditShown, ScreenIsWhatWeSend
<1> QED BY <1>2, <1>3 DEF PageInv, AgreesInTheEnd

(* The last call stays the last as long as it is not taken. *)
LEMMA LastIsLeft ==
    ASSUME NEW q \in Seq(Calls), q # <<>>
    PROVE  /\ Head(q) = q[1] /\ Head(q) \in Calls /\ Tail(q) \in Seq(Calls)
           /\ Len(Tail(q)) = Len(q) - 1 /\ Len(q) \in Nat \ {0}
           /\ Tail(q) = <<>> => Len(q) = 1
           /\ Tail(q) # <<>> => Tail(q)[Len(Tail(q))] = q[Len(q)]
<1> DEFINE t == Tail(q)
<1>1. /\ Head(q) = q[1] /\ Head(q) \in Calls /\ t \in Seq(Calls)
      /\ Len(t) = Len(q) - 1 /\ Len(q) \in Nat \ {0}
      /\ \A i \in 1 .. Len(t) : t[i] = q[i + 1]
  OBVIOUS
<1> HIDE DEF t
<1>2. t = <<>> <=> Len(t) = 0
  BY <1>1
<1>3. t # <<>> => Len(t) \in 1 .. Len(t) /\ Len(t) + 1 = Len(q)
  BY <1>1, <1>2
<1> QED BY <1>1, <1>2, <1>3 DEF t

(* A call taken or refused. *)
LEMMA CallIsHandled ==
    ASSUME PageInv, Handle PROVE PageInv'
<1> DEFINE call == Head(toDaemon)
           e == Obeying(eng, call)
<1>1. /\ PageTypes /\ toDaemon \in Seq(Calls) /\ toClient \in Seq(Messages) /\ eng \in Engines
      /\ toDaemon # <<>> /\ toDaemon' = Tail(toDaemon) /\ up' = up
      /\ here' = here /\ cache' = cache /\ pending' = pending /\ UNCHANGED gui
  BY DEF PageInv, PageTypes, Handle, gui
<1>2. up
  BY <1>1 DEF PageInv, PageTypes, CommandOnItsWay
<1>3. /\ call \in Calls /\ Tail(toDaemon) \in Seq(Calls)
      /\ Len(Tail(toDaemon)) = Len(toDaemon) - 1 /\ Len(toDaemon) \in Nat \ {0}
      /\ call = toDaemon[1]
      /\ Tail(toDaemon) = <<>> => Len(toDaemon) = 1
      /\ Tail(toDaemon) # <<>> => Tail(toDaemon)[Len(Tail(toDaemon))] = toDaemon[Len(toDaemon)]
  BY <1>1, LastIsLeft
<1>4. e \in Engines /\ CurvesFit(e) /\ Fulfils(e, call)
  BY <1>1, <1>3, CallFits
<1>5. \/ /\ eng' = e /\ toClient' = Append(toClient, [kind |-> "changed", state |-> Curves(eng')])
         /\ doubt' = FALSE /\ owed' = owed
      \/ /\ eng' \in {eng, e} /\ toClient' = Append(toClient, [kind |-> "error"])
         /\ doubt' = (doubt \/ eng' # eng) /\ owed' = None
  BY DEF Handle, Announced
<1> HIDE DEF call, e
<1>6. eng' \in Engines /\ CurvesFit(eng')
  BY <1>1, <1>4, <1>5 DEF PageInv
<1>7. toClient' \in Seq(Messages) /\ toClient' # <<>>
  <2>1. [kind |-> "changed", state |-> Curves(eng')] \in Messages /\ [kind |-> "error"] \in Messages
    BY <1>6, MessagesAre, CurvesAreStates
  <2>2. \A m \in Messages : Append(toClient, m) \in Seq(Messages) /\ Append(toClient, m) # <<>>
    BY <1>1
  <2> QED BY <1>5, <2>1, <2>2
<1>8. NewsIsTrue'
  <2>1. CASE toClient' = Append(toClient, [kind |-> "changed", state |-> Curves(eng')])
    BY <1>1, <1>2, <1>6, <2>1, NewsComes
  <2>2. CASE /\ eng' \in {eng, e} /\ toClient' = Append(toClient, [kind |-> "error"])
             /\ doubt' = (doubt \/ eng' # eng)
    BY <1>1, <2>2, NoNewsComes DEF Curves
  <2> QED BY <1>5, <2>1, <2>2
<1>9. CommandOnItsWay'
  <2>1. CASE owed' = None
    BY <1>1, <1>2, <2>1 DEF CommandOnItsWay
  <2>2. CASE owed' # None /\ pending # None
    BY <1>1, <1>2, <1>5, <2>2 DEF PageInv, CommandOnItsWay
  <2>3. CASE owed' # None /\ pending = None
    <3>1. owed' = owed /\ eng' = e /\ toDaemon[Len(toDaemon)] = owed
      BY <1>1, <1>5, <2>3 DEF PageInv, CommandOnItsWay
    <3>2. toDaemon' = <<>> => Fulfils(eng', owed')
      BY <1>1, <1>3, <1>4, <3>1
    <3> QED BY <1>1, <1>2, <1>3, <2>3, <3>1, <3>2 DEF CommandOnItsWay
  <2> QED BY <2>1, <2>2, <2>3
<1>10. doubt' \in BOOLEAN /\ owed' \in Calls \cup {None}
  BY <1>1, <1>5 DEF PageTypes
<1> QED BY <1>1, <1>2, <1>3, <1>6, <1>7, <1>8, <1>9, <1>10, DaemonOnly

(* Somebody else chooses. *)
LEMMA ChosenElsewhere ==
    ASSUME PageInv, Elsewhere PROVE PageInv'
<1>1. /\ eng \in Engines /\ toDaemon \in Seq(Calls) /\ toClient \in Seq(Messages) /\ up
      /\ UNCHANGED gui /\ here' = here /\ cache' = cache /\ pending' = pending
      /\ toDaemon' = toDaemon /\ up' = up /\ owed' = None /\ doubt' = FALSE
      /\ toClient' = Append(toClient, [kind |-> "changed", state |-> Curves(eng')])
  BY DEF PageInv, PageTypes, Elsewhere, gui, Announced
<1>2. eng' \in Engines /\ CurvesFit(eng')
  <2>1. ASSUME NEW name \in {FIRMWARE, Builtin}, eng' = Choosing(eng, name)
        PROVE  eng' \in Engines /\ CurvesFit(eng')
    BY <1>1, <2>1, ChoiceFits
  <2>2. ASSUME NEW f \in FANS, NEW c \in Drawn, NEW linked \in BOOLEAN,
               eng' = Drawing(eng, [which |-> f, points |-> c, linked |-> linked])
        PROVE  eng' \in Engines /\ CurvesFit(eng')
    <3>1. c \in Shapes
      BY DEF Shapes
    <3> QED BY <1>1, <2>2, <3>1, EditFits
  <2> QED BY <2>1, <2>2 DEF Elsewhere
<1>3. [kind |-> "changed", state |-> Curves(eng')] \in Messages
  BY <1>2, MessagesAre, CurvesAreStates
<1>4. toClient' \in Seq(Messages) /\ toClient' # <<>>
  BY <1>1, <1>3
<1>5. NewsIsTrue'
  BY <1>1, <1>2, NewsComes
<1>6. CommandOnItsWay'
  BY <1>1 DEF CommandOnItsWay
<1> QED BY <1>1, <1>2, <1>4, <1>5, <1>6, DaemonOnly

(* The daemon stops, and comes back. *)
LEMMA DaemonStops ==
    ASSUME PageInv, Stop PROVE PageInv'
<1>1. /\ toClient \in Seq(Messages) /\ Len(toDaemon) \in Nat /\ UNCHANGED gui /\ pending' = pending
      /\ up' = FALSE /\ toDaemon' = <<>> /\ owed' = None /\ eng' = eng /\ doubt' = doubt
      /\ toClient' = Ended(toClient, Len(toDaemon))
  BY DEF PageInv, PageTypes, Stop, gui, Ended
<1>2. /\ eng' \in Engines /\ CurvesFit(eng') /\ doubt' \in BOOLEAN /\ up' \in BOOLEAN
      /\ owed' \in Calls \cup {None} /\ toDaemon' \in Seq(Calls)
  <2>1. eng \in Engines /\ CurvesFit(eng) /\ doubt \in BOOLEAN
    BY DEF PageInv, PageTypes
  <2>2. eng' = eng /\ doubt' = doubt /\ up' = FALSE /\ owed' = None /\ toDaemon' = <<>>
    BY <1>1
  <2>3. CurvesFit(eng')
    BY <2>1, <2>2
  <2>4. <<>> \in Seq(Calls)
    OBVIOUS
  <2> QED BY <2>1, <2>2, <2>3, <2>4
<1>3. NewsIsTrue'
  BY EndComes
<1>4. toClient' \in Seq(Messages) /\ ~NoNews(toClient')
  BY <1>1, EndAppended
<1>5. toClient' # <<>>
  BY <1>4 DEF NoNews
<1>6. CommandOnItsWay'
  BY <1>1 DEF CommandOnItsWay
<1> QED BY <1>1, <1>2, <1>3, <1>4, <1>5, <1>6, DaemonOnly

LEMMA DaemonStarts ==
    ASSUME PageInv, Start PROVE PageInv'
<1>1. /\ eng \in Engines /\ CurvesFit(eng) /\ toDaemon \in Seq(Calls) /\ toClient \in Seq(Messages)
      /\ owed \in Calls \cup {None} /\ ~up
      /\ UNCHANGED gui /\ here' = here /\ cache' = cache /\ pending' = pending
      /\ toDaemon' = toDaemon /\ up' = TRUE /\ owed' = owed /\ doubt' = FALSE
      /\ toClient' = Append(toClient, [kind |-> "here", state |-> Curves(eng')])
  BY DEF PageInv, PageTypes, Start, gui
<1>2. eng' \in Engines /\ CurvesFit(eng')
  <2>1. CASE eng' = [profile |-> FIRMWARE, linked |-> TRUE, curves |-> None]
    BY <2>1, PageNames DEF Engines, CurvesFit
  <2>2. CASE eng' = [eng EXCEPT !.linked = IF eng.profile = CUSTOM THEN @ ELSE TRUE]
    <3>1. OnBoth(Builtin)[CPU] = OnBoth(Builtin)[GPU]
      BY BothFans DEF Shapes
    <3>2. /\ eng' \in Engines /\ eng'.profile = eng.profile /\ eng'.curves = eng.curves
          /\ eng.profile = CUSTOM => eng'.linked = eng.linked
      BY <1>1, <2>2 DEF Engines
    <3>3. eng.profile \in {FIRMWARE, CUSTOM, Builtin}
      BY <1>1 DEF Engines
    <3> QED BY <1>1, <3>1, <3>2, <3>3 DEF CurvesFit
  <2> QED BY <2>1, <2>2 DEF Start
<1>3. [kind |-> "here", state |-> Curves(eng')] \in Messages
  BY <1>2, MessagesAre, CurvesAreStates
<1>4. toClient' \in Seq(Messages) /\ toClient' # <<>>
  BY <1>1, <1>3
<1>5. NewsIsTrue'
  BY <1>1, <1>2, NewsComes
<1>6. CommandOnItsWay'
  BY <1>1 DEF PageInv, CommandOnItsWay
<1> QED BY <1>1, <1>2, <1>4, <1>5, <1>6, DaemonOnly

-----------------------------------------------------------------------------
(* The page in every state. *)

LEMMA PageAtFirst == Init => PageInv
<1> SUFFICES ASSUME Init PROVE PageInv
  OBVIOUS
<1>1. SEED \in Shapes /\ OnBoth(SEED) \in Pairs /\ CPU \in FANS
  BY BothFans DEF Shapes, FANS
<1>2. /\ page = [linked |-> TRUE, editing |-> CPU, curves |-> OnBoth(SEED),
                 dirty |-> FALSE, hasCurve |-> FALSE]
      /\ eng = [profile |-> FIRMWARE, linked |-> TRUE, curves |-> None]
      /\ shown = SEED /\ dragging = FALSE /\ pending = None /\ cache = None /\ here = FALSE
      /\ resync = FALSE /\ toDaemon = <<>> /\ toClient = <<>> /\ up = FALSE
      /\ owed = None /\ doubt = FALSE
  BY DEF Init
<1>3. page \in Pages
  BY <1>1, <1>2 DEF Pages
<1>4. eng \in Engines /\ CurvesFit(eng)
  BY <1>2, PageNames DEF Engines, CurvesFit
<1>5. toDaemon \in Seq(Calls) /\ toClient \in Seq(Messages)
  BY <1>2
<1>6. PageTypes
  BY <1>1, <1>2, <1>3, <1>4, <1>5 DEF PageTypes
<1>7. EditShown /\ CommandOnItsWay /\ AgreesInTheEnd
  BY <1>2 DEF EditShown, ScreenIsWhatWeSend, CommandOnItsWay, AgreesInTheEnd, Agrees
<1>8. NewsIsTrue
  <2>1. 1 .. Len(toClient) = {}
    BY <1>2
  <2> QED BY <1>2, <2>1 DEF NewsIsTrue
<1> QED BY <1>4, <1>6, <1>7, <1>8 DEF PageInv

LEMMA PageGoesOn ==
    PageInv /\ [Next]_vars => PageInv'
<1> SUFFICES ASSUME PageInv, [Next]_vars PROVE PageInv'
  OBVIOUS
<1>1. CASE User
  BY <1>1, PointHeld, CurveDrawn, LinkToggled, FanToggled, ProfileClicked, PageOpens, PageCloses
     DEF User
<1>2. CASE Loop
  BY <1>2, EditIsSent, RefusalIsFollowed, MessageTaken DEF Loop
<1>3. CASE Daemon
  BY <1>3, CallIsHandled, ChosenElsewhere, DaemonStops, DaemonStarts DEF Daemon
<1>4. CASE UNCHANGED vars
  <2>1. /\ up' = up /\ here' = here /\ cache' = cache /\ toDaemon' = toDaemon /\ toClient' = toClient
        /\ eng' = eng /\ doubt' = doubt /\ resync' = resync /\ page' = page /\ shown' = shown
        /\ pending' = pending /\ owed' = owed /\ dragging' = dragging
    BY <1>4 DEF vars
  <2>2. PageTypes' /\ CurvesFit(eng') /\ NewsIsTrue'
    BY <2>1, PageOnly DEF PageInv, PageTypes
  <2> QED BY <2>1, <2>2 DEF PageInv, EditShown, ScreenIsWhatWeSend, CommandOnItsWay, Fulfils,
                            AgreesInTheEnd, Agrees
<1> QED BY <1>1, <1>2, <1>3, <1>4 DEF Next

LEMMA PageInvariant == Spec => []PageInv
<1>1. Init => PageInv
  BY PageAtFirst
<1>2. PageInv /\ [Next]_vars => PageInv'
  BY PageGoesOn
<1> QED BY <1>1, <1>2, PTL DEF Spec

(* As long as an edit waits for its timer the screen shows what will be sent: *)
(* no echo of the daemon, no other client and no refusal changes it           *)
(* (curve_page.py, _queue_send and sync_from_daemon).                         *)
THEOREM TheScreenIsWhatWeSend ==
    Spec => []ScreenIsWhatWeSend
<1>1. PageInv => ScreenIsWhatWeSend
  BY DEF PageInv, EditShown
<1> QED BY <1>1, PageInvariant, PTL

(* Once nothing is on its way the editor shows the curves the daemon drives,   *)
(* however the calls, the announcements, the refusals and the daemon's own     *)
(* comings and goings crossed each other, unless a close dropped something or  *)
(* a refused call changed the daemon without a word (curve_page.py,            *)
(* sync_from_daemon; window.py, _resync; client.py).                           *)
THEOREM AQuietPageIsHonest ==
    Spec => []QuietPageIsHonest
<1>1. PageInv => QuietPageIsHonest
  <2> SUFFICES ASSUME PageInv, Quiet, up, ~doubt, eng.curves # None
               PROVE  page.curves = eng.curves /\ page.linked = eng.linked
    BY DEF QuietPageIsHonest
  <2>1. pending = None /\ ~resync /\ toDaemon = <<>> /\ toClient = <<>>
    BY DEF Quiet
  <2>2. eng \in Engines /\ eng.curves \in Pairs /\ eng.linked \in BOOLEAN
    BY DEF PageInv, PageTypes, Engines
  <2>3. NoNews(toClient)
    BY <2>1 DEF NoNews
  <2>4. cache = Curves(eng)
    BY <2>3 DEF PageInv, NewsIsTrue
  <2>5. cache \in States /\ cache # None /\ cache.curves = eng.curves /\ cache.linked = eng.linked
    BY <2>2, <2>4, CurvesAreStates, PageNames DEF Curves
  <2>6. page.linked = cache.linked /\ page.curves = Adopted(cache)
    BY <2>1, <2>5 DEF PageInv, AgreesInTheEnd, Agrees
  <2>7. cache.linked => cache.curves[CPU] = cache.curves[GPU]
    BY <2>5 DEF PageInv, CurvesFit
  <2>8. cache.linked \in BOOLEAN
    BY <2>2, <2>5
  <2> QED BY <2>2, <2>5, <2>6, <2>7, <2>8, AdoptedIsAPair
<1> QED BY <1>1, PageInvariant, PTL

(* Once nothing is on its way the machine does what the user's last command on *)
(* this page says, unless it was refused, the daemon left, somebody else chose *)
(* or the timer of an older edit came after it (curve_page.py, _send_now and   *)
(* _on_firmware_clicked).                                                      *)
THEOREM TheLastCommandWins ==
    Spec => []LastCommandWins
<1>1. PageInv => LastCommandWins
  <2> SUFFICES ASSUME PageInv, Quiet, owed # None
               PROVE  Fulfils(eng, owed)
    BY DEF LastCommandWins, Fulfils
  <2> QED BY DEF PageInv, CommandOnItsWay, Quiet
<1> QED BY <1>1, PageInvariant, PTL

=============================================================================
