------------------------------ MODULE AtomicEc ------------------------------
(***************************************************************************)
(* What the EC mailbox promises its users: commands are executed one at a  *)
(* time, each whole, in the order their issuer gave them, none of them     *)
(* invented.  A user may lose the rest of what it wanted done (a refused   *)
(* write, a crash, no lock in time), never a part of a command.            *)
(***************************************************************************)
EXTENDS Sequences

CONSTANTS Procs,        \* processes that write the EC
          Sessions,     \* per process, the sequences of commands it may issue at once
          NoCommand

VARIABLES todo,         \* per process, the commands still to be executed
          ran           \* the command the EC executed last

vars == <<todo, ran>>

Init == todo = [p \in Procs |-> <<>>] /\ ran = NoCommand

Submit(p) ==
    /\ todo[p] = <<>>
    /\ \E s \in Sessions[p] : todo' = [todo EXCEPT ![p] = s]
    /\ UNCHANGED ran

Execute(p) ==
    /\ todo[p] # <<>>
    /\ ran' = Head(todo[p])
    /\ todo' = [todo EXCEPT ![p] = Tail(@)]

GiveUp(p) ==
    /\ todo' = [todo EXCEPT ![p] = <<>>]
    /\ UNCHANGED ran

Next == \E p \in Procs : Submit(p) \/ Execute(p) \/ GiveUp(p)

Spec == Init /\ [][Next]_vars
=============================================================================
