----------------------------- MODULE EcMailbox ------------------------------
(***************************************************************************)
(* The EC command mailbox (daemon/gigactld/mailbox.py, the transaction of  *)
(* ec.py, and the direct mode of gfan and gkbd): a command is a sub-code,  *)
(* some parameters and a doorbell, written register by register by one of  *)
(* several processes that share nothing but a lock file.  The doorbell     *)
(* makes the EC execute whatever the registers then hold.                  *)
(***************************************************************************)
EXTENDS Integers, Sequences

CONSTANTS
    Procs,          \* processes that write the EC
    Sessions,       \* per process, the command sequences it issues under one lock
    Arity,          \* how many parameters the EC reads, per doorbell and sub-code
    Bytes,          \* register values
    Bells,          \* the doorbell values (the FCMD register)
    Patient,        \* processes that wait for the lock without a limit
    NoCommand, Nobody

PARAMS == 1 .. 4                \* FBUF, FBF1, FBF2, FBF3
FDAT == 0
REGISTERS == {FDAT} \cup PARAMS

Width(c) == Len(c.params)

Commands ==
    {c \in [bell : Bells, sub : Bytes, params : UNION {[1 .. n -> Bytes] : n \in 0 .. 4}] :
        Width(c) = Arity[c.bell][c.sub]}

ASSUME ParameterAssumption ==
    /\ Arity \in [Bells -> [Bytes -> 0 .. 4]]
    /\ Sessions \in [Procs -> SUBSET (Seq(Commands) \ {<<>>})]
    /\ Patient \subseteq Procs
    /\ Nobody \notin Procs

VARIABLES
    todo,       \* per process, the commands it still has to get executed
    lock,       \* who holds /run/lock/gigactl-ec.lock
    at,         \* per process, how many registers of Head(todo) it has written
    regs,       \* the mailbox registers
    ran         \* the command the EC executed last

vars == <<todo, lock, at, regs, ran>>

Init ==
    /\ todo = [p \in Procs |-> <<>>]
    /\ lock = Nobody
    /\ at = [p \in Procs |-> 0]
    /\ regs \in [REGISTERS -> Bytes]
    /\ ran = NoCommand

(* A caller enters transaction(), or a tool reaches lock_ec. *)
Begin(p) ==
    /\ todo[p] = <<>> /\ lock # p
    /\ \E s \in Sessions[p] : todo' = [todo EXCEPT ![p] = s]
    /\ UNCHANGED <<lock, at, regs, ran>>

(* flock(LOCK_EX) *)
Acquire(p) ==
    /\ todo[p] # <<>> /\ lock = Nobody
    /\ lock' = p
    /\ at' = [at EXCEPT ![p] = 0]
    /\ UNCHANGED <<todo, regs, ran>>

(* Mutant: registers written outside the transaction. *)
WriteUnlocked(p) ==
    /\ todo[p] # <<>>
    /\ at[p] <= Width(Head(todo[p]))
    /\ regs' = [regs EXCEPT ![at[p]] =
                   IF at[p] = FDAT THEN Head(todo[p]).sub ELSE Head(todo[p]).params[at[p]]]
    /\ at' = [at EXCEPT ![p] = @ + 1]
    /\ UNCHANGED <<todo, lock, ran>>

(* FDAT first, then the parameters in order. *)
WriteRegister(p) ==
    /\ lock = p /\ todo[p] # <<>>
    /\ at[p] <= Width(Head(todo[p]))
    /\ regs' = [regs EXCEPT ![at[p]] =
                   IF at[p] = FDAT THEN Head(todo[p]).sub ELSE Head(todo[p]).params[at[p]]]
    /\ at' = [at EXCEPT ![p] = @ + 1]
    /\ UNCHANGED <<todo, lock, ran>>

(* What the EC makes of the registers when the doorbell rings. *)
Decoded(bell) ==
    [bell |-> bell, sub |-> regs[FDAT],
     params |-> [i \in 1 .. Arity[bell][regs[FDAT]] |-> regs[i]]]

(* The doorbell, written last. *)
RingDoorbell(p) ==
    /\ lock = p /\ todo[p] # <<>>
    /\ at[p] = Width(Head(todo[p])) + 1
    /\ ran' = Decoded(Head(todo[p]).bell)
    /\ todo' = [todo EXCEPT ![p] = Tail(@)]
    /\ at' = [at EXCEPT ![p] = 0]
    /\ UNCHANGED <<lock, regs>>

(* Mutant: the lock is not given back. *)
ReleaseNothing(p) == lock = p /\ todo[p] = <<>> /\ UNCHANGED vars

(* The end of the transaction, or of the tool that held the lock. *)
Release(p) ==
    /\ lock = p /\ todo[p] = <<>>
    /\ lock' = Nobody
    /\ UNCHANGED <<todo, at, regs, ran>>

(* A write is refused or its process dies: the registers stay as they are, the *)
(* finally clause or the kernel releases the lock.                             *)
Abort(p) ==
    /\ lock = p
    /\ lock' = Nobody
    /\ todo' = [todo EXCEPT ![p] = <<>>]
    /\ UNCHANGED <<at, regs, ran>>

(* flock -w runs out, or the process dies waiting. *)
StopWaiting(p) ==
    /\ todo[p] # <<>> /\ lock # p
    /\ todo' = [todo EXCEPT ![p] = <<>>]
    /\ UNCHANGED <<lock, at, regs, ran>>

Step(p) == WriteRegister(p) \/ RingDoorbell(p) \/ Release(p)

Next == \E p \in Procs : Begin(p) \/ Acquire(p) \/ Step(p) \/ Abort(p) \/ StopWaiting(p)

Spec == Init /\ [][Next]_vars

(* A process that holds the lock keeps running; one without a time limit keeps *)
(* asking, and flock lets it through when the lock is free again and again.    *)
Fairness == /\ \A p \in Procs : WF_vars(Step(p))
            /\ \A p \in Patient : SF_vars(Acquire(p))

FairSpec == Spec /\ Fairness
-----------------------------------------------------------------------------
TypeOK ==
    /\ todo \in [Procs -> Seq(Commands)]
    /\ lock \in Procs \cup {Nobody}
    /\ at \in [Procs -> 0 .. 5]
    /\ regs \in [REGISTERS -> Bytes]
    /\ ran \in Commands \cup {NoCommand}

(* What the lock is for: as far as its holder has written a command, the       *)
(* registers hold that command, whatever other processes left behind.          *)
HolderOwnsTheMailbox ==
    \A p \in Procs : lock = p /\ todo[p] # <<>> =>
        LET c == Head(todo[p])
        IN  /\ at[p] <= Width(c) + 1
            /\ at[p] > 0 => regs[FDAT] = c.sub
            /\ \A i \in PARAMS : i < at[p] => regs[i] = c.params[i]

(* Every EC write sequence looks to the rest of the system like one command    *)
(* executed whole ("so the sequence is atomic").                               *)
Atomic == INSTANCE AtomicEc
AtomicCommands == Atomic!Spec

(* A process that waits without a limit (the daemon) gets its turn, or dies.   *)
NobodyStarves == \A p \in Patient : todo[p] # <<>> ~> todo[p] = <<>>
=============================================================================
