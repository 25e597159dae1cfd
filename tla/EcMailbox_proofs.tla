-------------------------- MODULE EcMailbox_proofs --------------------------
(***************************************************************************)
(* For any set of processes and of commands: the registers belong to the   *)
(* holder of the lock, so the mailbox implements AtomicEc.                 *)
(***************************************************************************)
EXTENDS EcMailbox, SequenceTheorems, TLAPS

(* What a command is made of. *)
LEMMA CommandParts ==
    ASSUME NEW c \in Commands
    PROVE  /\ c.bell \in Bells /\ c.sub \in Bytes
           /\ Width(c) \in 0 .. 4
           /\ Width(c) = Arity[c.bell][c.sub]
           /\ c.params \in [1 .. Width(c) -> Bytes]
           /\ c = [bell |-> c.bell, sub |-> c.sub, params |-> c.params]
<1>1. PICK n \in 0 .. 4 : c.params \in [1 .. n -> Bytes]
  BY DEF Commands
<1>2. Width(c) = n
  BY <1>1 DEF Width
<1> QED BY <1>1, <1>2 DEF Commands

(* The pending commands of a process stay commands when the first is taken off. *)
LEMMA PendingParts ==
    ASSUME NEW s \in Seq(Commands), s # <<>>
    PROVE  Head(s) \in Commands /\ Tail(s) \in Seq(Commands)
BY HeadTailProperties

(* Type correctness: what every process writes and the EC executes is a command. *)
LEMMA StepKeepsTypes == ASSUME TypeOK, HolderOwnsTheMailbox, [Next]_vars PROVE TypeOK'
<1> USE DEF TypeOK
<1>1. ASSUME NEW p \in Procs, Begin(p) PROVE TypeOK'
  <2>1. \A s \in Sessions[p] : s \in Seq(Commands)
    BY ParameterAssumption
  <2> QED BY <1>1, <2>1 DEF Begin
<1>2. ASSUME NEW p \in Procs, Acquire(p) PROVE TypeOK'
  BY <1>2 DEF Acquire
<1>3. ASSUME NEW p \in Procs, WriteRegister(p) PROVE TypeOK'
  <2> DEFINE c == Head(todo[p])
  <2>1. c \in Commands
    BY <1>3, PendingParts DEF WriteRegister
  <2>2. /\ c.sub \in Bytes /\ Width(c) \in 0 .. 4
        /\ c.params \in [1 .. Width(c) -> Bytes]
    BY <2>1, CommandParts
  <2>3. at[p] \in 0 .. 4 /\ at[p] <= Width(c)
    <3>1. at[p] \in 0 .. 5
      OBVIOUS
    <3>2. at[p] <= Width(c)
      BY <1>3 DEF WriteRegister
    <3> HIDE DEF c
    <3> QED BY <2>2, <3>1, <3>2
  <2>4. regs' \in [REGISTERS -> Bytes]
    <3>1. CASE at[p] = FDAT
      BY <1>3, <2>2, <3>1 DEF WriteRegister, REGISTERS, FDAT
    <3>2. CASE at[p] # FDAT
      <4>1. at[p] \in 1 .. Width(c)
        BY <2>2, <2>3, <3>2 DEF FDAT
      <4>2. c.params[at[p]] \in Bytes
        BY <2>2, <4>1
      <4> QED BY <1>3, <3>2, <4>2 DEF WriteRegister
    <3> QED BY <3>1, <3>2
  <2>5. at' \in [Procs -> 0 .. 5]
    BY <1>3, <2>3 DEF WriteRegister
  <2> QED BY <1>3, <2>4, <2>5 DEF WriteRegister
<1>4. ASSUME NEW p \in Procs, RingDoorbell(p) PROVE TypeOK'
  <2>1. Head(todo[p]) \in Commands /\ Tail(todo[p]) \in Seq(Commands)
    BY <1>4, PendingParts DEF RingDoorbell
  <2>2. Decoded(Head(todo[p]).bell) \in Commands
    <3> DEFINE b == Head(todo[p]).bell
               n == Arity[b][regs[FDAT]]
    <3>1. b \in Bells /\ regs[FDAT] \in Bytes
      BY <2>1, CommandParts DEF REGISTERS
    <3>2. n \in 0 .. 4
      BY <3>1, ParameterAssumption
    <3> HIDE DEF n, b
    <3>3. [i \in 1 .. n |-> regs[i]] \in [1 .. n -> Bytes]
      BY <3>2 DEF REGISTERS, PARAMS
    <3>4. Len([i \in 1 .. n |-> regs[i]]) = n
      BY <3>2
    <3> QED BY <3>1, <3>2, <3>3, <3>4 DEF Decoded, Commands, Width, n, b
  <2> QED BY <1>4, <2>1, <2>2 DEF RingDoorbell
<1>5. ASSUME NEW p \in Procs, Release(p) PROVE TypeOK'
  BY <1>5 DEF Release
<1>6. ASSUME NEW p \in Procs, Abort(p) PROVE TypeOK'
  BY <1>6 DEF Abort
<1>7. ASSUME NEW p \in Procs, StopWaiting(p) PROVE TypeOK'
  BY <1>7 DEF StopWaiting
<1>8. CASE UNCHANGED vars
  BY <1>8 DEF vars
<1> QED BY <1>1, <1>2, <1>3, <1>4, <1>5, <1>6, <1>7, <1>8 DEF Next, Step

(* Only the holder of the lock writes, and it writes its command front to back. *)
LEMMA StepKeepsTheMailbox ==
    ASSUME TypeOK, HolderOwnsTheMailbox, [Next]_vars PROVE HolderOwnsTheMailbox'
<1> USE DEF TypeOK
<1>1. ASSUME NEW p \in Procs, Begin(p) PROVE HolderOwnsTheMailbox'
  BY <1>1 DEF Begin, HolderOwnsTheMailbox
<1>2. ASSUME NEW p \in Procs, Acquire(p) PROVE HolderOwnsTheMailbox'
  <2>1. Head(todo[p]) \in Commands
    BY <1>2, PendingParts DEF Acquire
  <2>2. Width(Head(todo[p])) \in 0 .. 4
    BY <2>1, CommandParts
  <2> QED BY <1>2, <2>2 DEF Acquire, HolderOwnsTheMailbox, PARAMS
<1>3. ASSUME NEW p \in Procs, WriteRegister(p) PROVE HolderOwnsTheMailbox'
  <2> DEFINE c == Head(todo[p])
  <2>1. c \in Commands
    BY <1>3, PendingParts DEF WriteRegister
  <2>2. Width(c) \in 0 .. 4
    BY <2>1, CommandParts
  <2>3. /\ lock' = p /\ todo' = todo /\ at' = [at EXCEPT ![p] = at[p] + 1]
        /\ regs' = [regs EXCEPT ![at[p]] = IF at[p] = FDAT THEN c.sub ELSE c.params[at[p]]]
        /\ lock = p /\ todo[p] # <<>> /\ at[p] <= Width(c) /\ at[p] \in 0 .. 5
    BY <1>3 DEF WriteRegister
  <2>4. at'[p] <= Width(c) + 1
    BY <2>2, <2>3
  <2>5. regs'[FDAT] = c.sub
    <3>1. CASE at[p] = FDAT
      BY <2>3, <3>1 DEF REGISTERS
    <3>2. CASE at[p] # FDAT
      BY <2>3, <3>2 DEF HolderOwnsTheMailbox, REGISTERS, FDAT
    <3> QED BY <3>1, <3>2
  <2>6. ASSUME NEW i \in PARAMS, i < at'[p] PROVE regs'[i] = c.params[i]
    <3>1. CASE i = at[p]
      BY <2>3, <3>1 DEF REGISTERS, PARAMS, FDAT
    <3>2. CASE i # at[p]
      <4>1. i < at[p]
        BY <2>3, <2>6, <3>2 DEF PARAMS
      <4> QED BY <2>3, <3>2, <4>1 DEF HolderOwnsTheMailbox, REGISTERS
    <3> QED BY <3>1, <3>2
  <2> QED BY <2>3, <2>4, <2>5, <2>6 DEF HolderOwnsTheMailbox
<1>4. ASSUME NEW p \in Procs, RingDoorbell(p) PROVE HolderOwnsTheMailbox'
  <2>1. lock = p /\ lock' = p /\ at'[p] = 0
        /\ todo' = [todo EXCEPT ![p] = Tail(todo[p])] /\ todo[p] # <<>>
    BY <1>4 DEF RingDoorbell
  <2>2. SUFFICES ASSUME todo'[p] # <<>>
                 PROVE Width(Head(todo'[p])) \in 0 .. 4
    BY <2>1 DEF HolderOwnsTheMailbox, PARAMS
  <2>3. todo'[p] \in Seq(Commands)
    BY <2>1, PendingParts
  <2> QED BY <2>2, <2>3, PendingParts, CommandParts
<1>5. ASSUME NEW p \in Procs, Release(p) PROVE HolderOwnsTheMailbox'
  BY <1>5, ParameterAssumption DEF Release, HolderOwnsTheMailbox
<1>6. ASSUME NEW p \in Procs, Abort(p) PROVE HolderOwnsTheMailbox'
  BY <1>6, ParameterAssumption DEF Abort, HolderOwnsTheMailbox
<1>7. ASSUME NEW p \in Procs, StopWaiting(p) PROVE HolderOwnsTheMailbox'
  BY <1>7 DEF StopWaiting, HolderOwnsTheMailbox
<1>8. CASE UNCHANGED vars
  BY <1>8 DEF vars, HolderOwnsTheMailbox
<1> QED BY <1>1, <1>2, <1>3, <1>4, <1>5, <1>6, <1>7, <1>8 DEF Next, Step

(* Whatever its processes, sessions and commands, the mailbox only ever holds  *)
(* what the holder of the lock has written, and every value has its type.      *)
THEOREM MailboxInvariant == Spec => [](TypeOK /\ HolderOwnsTheMailbox)
<1>1. Init => TypeOK /\ HolderOwnsTheMailbox
  BY ParameterAssumption DEF Init, TypeOK, HolderOwnsTheMailbox
<1>2. TypeOK /\ HolderOwnsTheMailbox /\ [Next]_vars => (TypeOK /\ HolderOwnsTheMailbox)'
  BY StepKeepsTypes, StepKeepsTheMailbox
<1> QED BY <1>1, <1>2, PTL DEF Spec

(* What the EC reads when the doorbell rings is the command its issuer meant. *)
LEMMA DoorbellExecutesTheCommand ==
    ASSUME TypeOK, HolderOwnsTheMailbox, NEW p \in Procs, RingDoorbell(p)
    PROVE  ran' = Head(todo[p])
<1> DEFINE c == Head(todo[p])
<1>1. c \in Commands
  BY PendingParts DEF RingDoorbell, TypeOK
<1>2. /\ Width(c) \in 0 .. 4 /\ Width(c) = Arity[c.bell][c.sub]
      /\ c.params \in [1 .. Width(c) -> Bytes]
      /\ c = [bell |-> c.bell, sub |-> c.sub, params |-> c.params]
  BY <1>1, CommandParts
<1>3. at[p] = Width(c) + 1 /\ lock = p /\ todo[p] # <<>>
  BY DEF RingDoorbell
<1>4. /\ at[p] > 0 => regs[FDAT] = c.sub
      /\ \A i \in PARAMS : i < at[p] => regs[i] = c.params[i]
  BY <1>3 DEF HolderOwnsTheMailbox
<1>5. ran' = Decoded(c.bell)
  BY DEF RingDoorbell
<1> HIDE DEF c
<1>6. regs[FDAT] = c.sub
  BY <1>2, <1>3, <1>4
<1>7. [i \in 1 .. Arity[c.bell][regs[FDAT]] |-> regs[i]] = c.params
  <2>1. \A i \in 1 .. Width(c) : regs[i] = c.params[i]
    BY <1>2, <1>3, <1>4 DEF PARAMS
  <2> QED BY <1>2, <1>6, <2>1
<1>8. Decoded(c.bell) = c
  BY <1>2, <1>6, <1>7 DEF Decoded
<1> QED BY <1>5, <1>8 DEF c

(* The register-by-register mailbox, with its lock, refused writes and crashes, *)
(* implements the abstract EC that executes whole commands one at a time.       *)
THEOREM MailboxIsAtomic == Spec => AtomicCommands
<1>1. Init => Atomic!Init
  BY DEF Init, Atomic!Init
<1>2. TypeOK /\ HolderOwnsTheMailbox /\ [Next]_vars => [Atomic!Next]_<<todo, ran>>
  <2> SUFFICES ASSUME TypeOK, HolderOwnsTheMailbox, [Next]_vars
               PROVE  Atomic!Next \/ UNCHANGED <<todo, ran>>
    OBVIOUS
  <2>1. ASSUME NEW p \in Procs, Begin(p) PROVE Atomic!Submit(p)
    BY <2>1 DEF Begin, Atomic!Submit
  <2>2. ASSUME NEW p \in Procs, RingDoorbell(p) PROVE Atomic!Execute(p)
    BY <2>2, DoorbellExecutesTheCommand DEF RingDoorbell, Atomic!Execute
  <2>3. ASSUME NEW p \in Procs, Abort(p) \/ StopWaiting(p) PROVE Atomic!GiveUp(p)
    BY <2>3 DEF Abort, StopWaiting, Atomic!GiveUp
  <2>4. ASSUME NEW p \in Procs, Acquire(p) \/ WriteRegister(p) \/ Release(p)
        PROVE UNCHANGED <<todo, ran>>
    BY <2>4 DEF Acquire, WriteRegister, Release
  <2>5. CASE UNCHANGED vars
    BY <2>5 DEF vars
  <2> QED BY <2>1, <2>2, <2>3, <2>4, <2>5 DEF Next, Step, Atomic!Next
<1> QED BY <1>1, <1>2, MailboxInvariant, PTL DEF Spec, AtomicCommands, Atomic!Spec, Atomic!vars
=============================================================================
