---------------------------- MODULE RegisterFile -----------------------------
(***************************************************************************)
(* What the byte access of the EC (EcBackend of daemon/gigactld/ec.py)     *)
(* promises its callers: a read returns what the register holds, a write   *)
(* that returns has changed its register and no other, a call that raises  *)
(* has changed nothing.  Only after a call that timed out may answers be   *)
(* wrong, until a call finds the interface at rest again.                  *)
(***************************************************************************)
CONSTANTS Offsets, Bytes, Requests, Nothing

VARIABLES regs,     \* the registers
          call,     \* the call under way, or Nothing
          reply,    \* what the last call returned: a byte, "done" or "timeout"
          sound     \* are answers to be trusted?

vars == <<regs, call, reply, sound>>

Init ==
    /\ regs \in [Offsets -> Bytes]
    /\ call = Nothing /\ reply = Nothing /\ sound = TRUE

Ask(c) ==
    /\ call = Nothing
    /\ call' = c /\ reply' = Nothing
    /\ sound' \in {sound, TRUE}
    /\ UNCHANGED regs

Read ==
    /\ call # Nothing /\ call.op = "read"
    /\ call' = Nothing
    /\ reply' \in Bytes
    /\ sound => reply' = regs[call.reg]
    /\ UNCHANGED <<regs, sound>>

Write ==
    /\ call # Nothing /\ call.op = "write"
    /\ call' = Nothing
    /\ reply' = "done"
    /\ regs' = [regs EXCEPT ![call.reg] = call.val]
    /\ UNCHANGED sound

Fail ==
    /\ call # Nothing
    /\ call' = Nothing
    /\ reply' = "timeout"
    /\ sound' = FALSE
    /\ UNCHANGED regs

Next == (\E c \in Requests : Ask(c)) \/ Read \/ Write \/ Fail

Spec == Init /\ [][Next]_vars
=============================================================================
