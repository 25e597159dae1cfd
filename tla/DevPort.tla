------------------------------- MODULE DevPort -------------------------------
(***************************************************************************)
(* DevPortBackend (daemon/gigactld/ec.py): one byte of the EC read or      *)
(* written through the ACPI handshake on two I/O ports, against an EC that *)
(* takes its time, or so much of it that the host gives up.                *)
(*                                                                         *)
(* The host polls a flag and then moves one byte; only the host fills the  *)
(* input buffer and empties the output buffer, so poll and byte are one    *)
(* step.  The EC is the hardware on the other side, as the backend and its *)
(* tests expect it: it takes one byte at a time out of its input buffer, a *)
(* command byte starts a new command whatever came before, and its answer  *)
(* stays in the output buffer until the host takes it.  The kernel's own   *)
(* EC driver, which the unit file says this backend races, is left out.    *)
(***************************************************************************)
EXTENDS Integers, Sequences

CONSTANTS
    Offsets,        \* EC registers
    Bytes,          \* what a register holds
    Nothing         \* an empty buffer, or no call

CMD == "0x66"       \* the status and command port
DATA == "0x62"      \* the data port
RD_EC == "0x80"
WR_EC == "0x81"

Requests == [op : {"read"}, reg : Offsets, val : {Nothing}]
            \cup [op : {"write"}, reg : Offsets, val : Bytes]

ASSUME ParameterAssumption ==
    /\ Nothing \notin Bytes \cup Requests \cup [port : {CMD, DATA}, byte : {RD_EC, WR_EC} \cup Offsets \cup Bytes]
    /\ Bytes \cap {"done", "timeout"} = {} /\ Nothing \notin {"done", "timeout"}

VARIABLES
    call,       \* the call under way, or Nothing
    sent,       \* how many bytes of it the host has sent
    reply,      \* how the last call ended: the byte read, "done" or "timeout"
    ibf,        \* the input buffer: a byte and the port it was sent to, or Nothing
    obf,        \* the output buffer: a byte, or Nothing
    ec,         \* what the EC is about: its stage, the command and the address
    mem,        \* the EC's registers
    sound       \* history: no call has timed out since one began with the EC at rest

vars == <<call, sent, reply, ibf, obf, ec, mem, sound>>

To(port, byte) == [port |-> port, byte |-> byte]

(* The bytes of a call, in the order the host sends them. *)
Script(c) ==
    IF c.op = "read" THEN <<To(CMD, RD_EC), To(DATA, c.reg)>>
    ELSE <<To(CMD, WR_EC), To(DATA, c.reg), To(DATA, c.val)>>

Init ==
    /\ call = Nothing /\ sent = 0 /\ reply = Nothing
    /\ ibf = Nothing /\ obf = Nothing
    /\ \E r \in Offsets : ec = [stage |-> "command", cmd |-> RD_EC, addr |-> r]
    /\ mem \in [Offsets -> Bytes]
    /\ sound = TRUE

AtRest == ibf = Nothing /\ obf = Nothing /\ ec.stage = "command"

Call ==
    /\ call = Nothing
    /\ call' \in Requests
    /\ sent' = 0 /\ reply' = Nothing
    /\ sound' = (sound \/ AtRest)
    /\ UNCHANGED <<ibf, obf, ec, mem>>

-----------------------------------------------------------------------------
(* The host. *)

Sending == call # Nothing /\ sent < Len(Script(call))
Awaiting == call # Nothing /\ sent = Len(Script(call))

(* Mutant: the byte goes out without waiting for IBF to clear. *)
SendByteAtOnce ==
    /\ Sending
    /\ ibf' = Script(call)[sent + 1]
    /\ IF call.op = "write" /\ sent + 1 = Len(Script(call))
       THEN call' = Nothing /\ sent' = 0 /\ reply' = "done"
       ELSE sent' = sent + 1 /\ UNCHANGED <<call, reply>>
    /\ UNCHANGED <<obf, ec, mem, sound>>

(* Wait for IBF to clear, then send the next byte.  A write returns with its   *)
(* last byte sent; nobody waits for the EC to take it.                         *)
SendByte ==
    /\ Sending /\ ibf = Nothing
    /\ ibf' = Script(call)[sent + 1]
    /\ IF call.op = "write" /\ sent + 1 = Len(Script(call))
       THEN call' = Nothing /\ sent' = 0 /\ reply' = "done"
       ELSE sent' = sent + 1 /\ UNCHANGED <<call, reply>>
    /\ UNCHANGED <<obf, ec, mem, sound>>

(* Mutant: the data port is read without waiting for OBF. *)
TakeAnswerAtOnce ==
    /\ Awaiting
    /\ reply' \in IF obf = Nothing THEN Bytes ELSE {obf}
    /\ obf' = Nothing
    /\ call' = Nothing /\ sent' = 0
    /\ UNCHANGED <<ibf, ec, mem, sound>>

(* Wait for OBF to be set, then take the byte. *)
TakeAnswer ==
    /\ Awaiting /\ obf # Nothing
    /\ reply' = obf /\ obf' = Nothing
    /\ call' = Nothing /\ sent' = 0
    /\ UNCHANGED <<ibf, ec, mem, sound>>

(* Mutant: the host polls for ever. *)
KeepPolling ==
    /\ (Sending /\ ibf # Nothing) \/ (Awaiting /\ obf = Nothing)
    /\ UNCHANGED vars

(* _SPINS polls found the flag as it was: EcError. *)
TimeOut ==
    /\ (Sending /\ ibf # Nothing) \/ (Awaiting /\ obf = Nothing)
    /\ call' = Nothing /\ sent' = 0 /\ reply' = "timeout"
    /\ sound' = FALSE
    /\ UNCHANGED <<ibf, obf, ec, mem>>

-----------------------------------------------------------------------------
(* The EC. *)

TakeCommand ==
    /\ ibf # Nothing /\ ibf.port = CMD
    /\ ec' = [stage |-> "address", cmd |-> ibf.byte, addr |-> ec.addr]
    /\ ibf' = Nothing
    /\ UNCHANGED <<call, sent, reply, obf, mem, sound>>

TakeAddress ==
    /\ ibf # Nothing /\ ibf.port = DATA /\ ec.stage = "address"
    /\ ec' = [stage |-> IF ec.cmd = RD_EC THEN "answer" ELSE "value",
              cmd |-> ec.cmd, addr |-> ibf.byte]
    /\ ibf' = Nothing
    /\ UNCHANGED <<call, sent, reply, obf, mem, sound>>

TakeValue ==
    /\ ibf # Nothing /\ ibf.port = DATA /\ ec.stage = "value"
    /\ mem' = [mem EXCEPT ![ec.addr] = ibf.byte]
    /\ ec' = [ec EXCEPT !.stage = "command"]
    /\ ibf' = Nothing
    /\ UNCHANGED <<call, sent, reply, obf, sound>>

(* A byte nobody has taken is overwritten. *)
Answer ==
    /\ ec.stage = "answer"
    /\ obf' = mem[ec.addr]
    /\ ec' = [ec EXCEPT !.stage = "command"]
    /\ UNCHANGED <<call, sent, reply, ibf, mem, sound>>

Host == SendByte \/ TakeAnswer \/ TimeOut
Ec == TakeCommand \/ TakeAddress \/ TakeValue \/ Answer

Next == Call \/ Host \/ Ec

Spec == Init /\ [][Next]_vars

(* The host runs; the EC may stop answering for good. *)
FairSpec == Spec /\ WF_vars(Host)
-----------------------------------------------------------------------------
TypeOK ==
    /\ call \in Requests \cup {Nothing}
    /\ sent \in 0 .. 2
    /\ reply \in Bytes \cup {"done", "timeout", Nothing}
    /\ ibf \in {To(CMD, RD_EC), To(CMD, WR_EC), Nothing}
               \cup {To(DATA, b) : b \in Offsets \cup Bytes}
    /\ obf \in Bytes \cup {Nothing}
    /\ ec \in [stage : {"command", "address", "value", "answer"},
               cmd : {RD_EC, WR_EC}, addr : Offsets]
    /\ mem \in [Offsets -> Bytes]
    /\ sound \in BOOLEAN

(* What makes the handshake work: by the time the host sends the next byte the *)
(* EC has taken the one before, is at the stage that byte is for, and knows    *)
(* the command and the address of this call and of no earlier one.             *)
InStep ==
    /\ call # Nothing /\ sent = 1 =>
          IF ibf = Nothing THEN ec.stage = "address" /\ To(CMD, ec.cmd) = Script(call)[1]
          ELSE ibf = Script(call)[1]
    /\ call # Nothing /\ sent = 2 =>
          IF ibf = Nothing
          THEN IF call.op = "write" THEN ec.stage = "value" /\ ec.addr = call.reg
               ELSE ec.stage \in {"answer", "command"} /\ ec.addr = call.reg
          ELSE ibf = Script(call)[2] /\ ec.stage = "address" /\ To(CMD, ec.cmd) = Script(call)[1]

(* A write that returned holds from then on, although the EC may not have taken *)
(* its last byte yet: every later call waits for that.                          *)
Committed ==
    IF ibf # Nothing /\ ibf.port = DATA /\ ec.stage = "value"
    THEN [mem EXCEPT ![ec.addr] = ibf.byte]
    ELSE mem

File == INSTANCE RegisterFile WITH regs <- Committed

(* To its callers the handshake is a register file: no read returns another    *)
(* register's byte, no acknowledged write is lost and no write that timed out   *)
(* lands later, as far as the answers are sound.                                *)
LikeARegisterFile == File!Spec

(* "EC status timeout": an EC that hangs holds up no caller for ever.           *)
EveryCallEnds == call # Nothing ~> call = Nothing

(* The EC answers what it is asked, also after a call that timed out (it need   *)
(* not: nothing empties the output buffer of the answer that came too late).    *)
AnswersTheCall ==
    [][reply' \in Bytes /\ reply' # reply => reply' = Committed[call.reg]]_vars
=============================================================================
