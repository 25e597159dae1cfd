--------------------------- MODULE DevPort_proofs ----------------------------
(***************************************************************************)
(* For any registers and bytes, and an EC as slow as it likes: host and EC *)
(* stay in step, so the handshake implements RegisterFile.                 *)
(***************************************************************************)
EXTENDS DevPort, SequenceTheorems, TLAPS

(* A byte in the input buffer fits the stage the EC is at. *)
DataFits ==
    ibf # Nothing /\ ibf.port = DATA =>
        /\ ec.stage = "address" => ibf.byte \in Offsets
        /\ ec.stage = "value" => ibf.byte \in Bytes

(* As long as no call has timed out, the output buffer is empty but for the    *)
(* answer of the call under way, and the input buffer but for its bytes or the *)
(* last byte of the write before.                                              *)
Tidy ==
    LET resting == call = Nothing \/ sent = 0
        answered == call # Nothing /\ sent = 2 /\ call.op = "read" /\ ibf = Nothing
                    /\ ec.stage = "command"
    IN  /\ IF answered THEN obf = mem[ec.addr] ELSE obf = Nothing
        /\ resting /\ ibf = Nothing => ec.stage = "command"
        /\ resting /\ ibf # Nothing => ibf.port = DATA /\ ec.stage = "value"
        /\ ~resting /\ sent = 1 => ec.stage # "answer"

IInv == TypeOK /\ InStep /\ DataFits /\ (sound => Tidy)

(* What a call is made of. *)
LEMMA ScriptParts ==
  ASSUME NEW c \in Requests
  PROVE  /\ c # Nothing
         /\ c.reg \in Offsets
         /\ c.op \in {"read", "write"}
         /\ c.op = "write" => c.val \in Bytes
         /\ Script(c)[1] = To(CMD, IF c.op = "read" THEN RD_EC ELSE WR_EC)
         /\ Script(c)[2] = To(DATA, c.reg)
         /\ c.op = "write" => Script(c)[3] = To(DATA, c.val)
         /\ Len(Script(c)) = IF c.op = "read" THEN 2 ELSE 3
  BY ParameterAssumption DEF Requests, Script

(* A byte and its port. *)
LEMMA ByteParts ==
  ASSUME NEW port \in {CMD, DATA}, NEW byte \in {RD_EC, WR_EC} \cup Offsets \cup Bytes
  PROVE  To(port, byte).port = port /\ To(port, byte).byte = byte /\ To(port, byte) # Nothing
  BY ParameterAssumption DEF To, CMD, DATA

LEMMA InitIsInOrder == Init => IInv
  BY ParameterAssumption DEF Init, IInv, TypeOK, InStep, DataFits, Tidy, RD_EC, WR_EC

LEMMA CallIsInOrder == ASSUME IInv, Call PROVE IInv'
<1>1. call' \in Requests /\ call' # Nothing /\ sent' = 0
  BY ScriptParts DEF Call
<1>2. TypeOK' /\ InStep' /\ DataFits'
  BY <1>1 DEF Call, IInv, TypeOK, InStep, DataFits
<1>3. sound' => Tidy'
  <2>1. CASE AtRest
    BY <1>1, <2>1 DEF Call, Tidy, AtRest
  <2>2. CASE Tidy
    BY <1>1, <2>2 DEF Call, Tidy
  <2>3. sound' => AtRest \/ Tidy
    BY DEF Call, IInv
  <2> QED BY <2>1, <2>2, <2>3
<1> QED BY <1>2, <1>3 DEF IInv

LEMMA SendByteIsInOrder == ASSUME IInv, SendByte PROVE IInv'
<1>1. call \in Requests /\ ibf = Nothing /\ sent \in 0 .. 2
  BY DEF SendByte, Sending, IInv, TypeOK
<1>2. CASE sent = 0
  <2>1. /\ ibf' = To(CMD, IF call.op = "read" THEN RD_EC ELSE WR_EC)
        /\ sent' = 1 /\ UNCHANGED <<call, reply, obf, ec, mem, sound>>
    BY <1>1, <1>2, ScriptParts DEF SendByte
  <2>2. ibf' # Nothing /\ ibf'.port = CMD /\ ibf' = Script(call)[1]
    BY <1>1, <2>1, ByteParts, ScriptParts
  <2>3. TypeOK'
    BY <2>1 DEF IInv, TypeOK
  <2>4. InStep' /\ DataFits'
    BY <2>1, <2>2 DEF InStep, DataFits, CMD, DATA
  <2>5. ASSUME sound PROVE Tidy'
    <3>1. Tidy /\ call # Nothing
      BY <1>1, <2>5, ScriptParts DEF IInv
    <3> QED BY <1>1, <1>2, <2>1, <2>2, <3>1 DEF Tidy
  <2> QED
    BY <2>1, <2>3, <2>4, <2>5 DEF IInv
<1>3. CASE sent = 1
  <2>1. ibf' = To(DATA, call.reg) /\ sent' = 2 /\ UNCHANGED <<call, reply, obf, ec, mem, sound>>
    BY <1>1, <1>3, ScriptParts DEF SendByte
  <2>2. ibf' # Nothing /\ ibf'.byte = call.reg /\ ibf' = Script(call)[2]
    BY <1>1, <2>1, ByteParts, ScriptParts
  <2>3. ec.stage = "address" /\ To(CMD, ec.cmd) = Script(call)[1]
    BY <1>1, <1>3, ScriptParts DEF IInv, InStep
  <2>4. TypeOK'
    BY <1>1, <2>1, ScriptParts DEF IInv, TypeOK
  <2> QED
    BY <1>1, <1>3, <2>1, <2>2, <2>3, <2>4, ScriptParts DEF IInv, InStep, DataFits, Tidy
<1>4. CASE sent = 2
  <2>1. call.op = "write"
    BY <1>1, <1>4, ScriptParts DEF SendByte, Sending
  <2>2. /\ ibf' = To(DATA, call.val) /\ call' = Nothing /\ sent' = 0 /\ reply' = "done"
        /\ UNCHANGED <<obf, ec, mem, sound>>
    BY <1>1, <1>4, <2>1, ScriptParts DEF SendByte
  <2>3. ibf' # Nothing /\ ibf'.port = DATA /\ ibf'.byte = call.val /\ call.val \in Bytes
    BY <1>1, <2>1, <2>2, ByteParts, ScriptParts
  <2>4. ec.stage = "value"
    BY <1>1, <1>4, <2>1, ScriptParts DEF IInv, InStep
  <2>5. TypeOK'
    BY <2>2, <2>3 DEF IInv, TypeOK
  <2> QED
    BY <1>1, <1>4, <2>1, <2>2, <2>3, <2>4, <2>5 DEF IInv, InStep, DataFits, Tidy
<1> QED BY <1>1, <1>2, <1>3, <1>4

(* Only a read whose two bytes are out awaits an answer. *)
LEMMA AnsweredParts ==
  ASSUME IInv, TakeAnswer
  PROVE  call \in Requests /\ call # Nothing /\ sent = 2 /\ call.op = "read" /\ obf # Nothing
<1>1. call \in Requests /\ call # Nothing /\ sent \in 0 .. 2 /\ obf # Nothing
  BY DEF TakeAnswer, Awaiting, IInv, TypeOK
<1>2. sent = Len(Script(call))
  BY DEF TakeAnswer, Awaiting
<1>3. /\ call.op \in {"read", "write"}
      /\ Len(Script(call)) = IF call.op = "read" THEN 2 ELSE 3
  BY <1>1, ScriptParts
<1> QED BY <1>1, <1>2, <1>3

LEMMA TakeAnswerIsInOrder == ASSUME IInv, TakeAnswer PROVE IInv'
<1>1. call \in Requests /\ sent = 2 /\ call.op = "read" /\ obf # Nothing
  BY AnsweredParts
<1>2. TypeOK' /\ InStep' /\ DataFits'
  BY DEF TakeAnswer, IInv, TypeOK, InStep, DataFits
<1>3. ASSUME sound PROVE Tidy'
  <2>1. Tidy /\ call # Nothing
    BY <1>1, <1>3, ScriptParts DEF IInv
  <2>2. ibf = Nothing /\ ec.stage = "command"
    BY <1>1, <2>1 DEF Tidy
  <2> QED BY <2>2 DEF TakeAnswer, Tidy
<1> QED BY <1>2, <1>3 DEF IInv, TakeAnswer

LEMMA TimeOutIsInOrder == ASSUME IInv, TimeOut PROVE IInv'
<1>1. /\ call' = Nothing /\ sent' = 0 /\ reply' = "timeout" /\ sound' = FALSE
      /\ UNCHANGED <<ibf, obf, ec, mem>>
  BY DEF TimeOut
<1>2. TypeOK'
  <2>1. sent' \in 0 .. 2
    BY <1>1
  <2>2. sound' \in BOOLEAN
    BY <1>1
  <2>3. reply' \in Bytes \cup {"done", "timeout", Nothing} /\ call' \in Requests \cup {Nothing}
    BY <1>1
  <2> QED BY <1>1, <2>1, <2>2, <2>3 DEF IInv, TypeOK
<1>3. InStep' /\ DataFits'
  BY <1>1 DEF IInv, InStep, DataFits
<1> QED BY <1>1, <1>2, <1>3 DEF IInv

LEMMA TakeCommandIsInOrder == ASSUME IInv, TakeCommand PROVE IInv'
<1>1. ibf \in {To(CMD, RD_EC), To(CMD, WR_EC)} /\ ibf # Nothing
  <2>1. \A b \in Offsets \cup Bytes : To(DATA, b).port # CMD
    BY DEF To, CMD, DATA
  <2> QED BY <2>1 DEF TakeCommand, IInv, TypeOK
<1>2. /\ ec'.stage = "address" /\ ec'.cmd = ibf.byte /\ ec'.addr = ec.addr
      /\ ibf' = Nothing
      /\ UNCHANGED <<call, sent, reply, obf, mem, sound>>
  BY DEF TakeCommand, IInv, TypeOK
<1>3. ibf.byte \in {RD_EC, WR_EC} /\ ibf = To(CMD, ibf.byte) /\ ibf.port = CMD
  BY <1>1 DEF To
<1>4. TypeOK'
  BY <1>3 DEF TakeCommand, IInv, TypeOK
<1>5. ASSUME call # Nothing, sent = 2 PROVE FALSE
  <2>1. call \in Requests
    BY <1>5 DEF IInv, TypeOK
  <2>2. ibf = To(DATA, call.reg)
    BY <1>1, <1>5, <2>1, ScriptParts DEF IInv, InStep
  <2> QED BY <1>3, <2>2 DEF To, CMD, DATA
<1>6. InStep'
  BY <1>1, <1>2, <1>3, <1>5 DEF IInv, InStep
<1>7. sound' => Tidy'
  BY <1>1, <1>2, <1>3, <1>5 DEF IInv, Tidy, TypeOK, CMD, DATA
<1> QED BY <1>2, <1>4, <1>6, <1>7 DEF IInv, DataFits

(* An address byte belongs to the call under way, if one has got that far. *)
LEMMA TakeAddressIsInOrder == ASSUME IInv, TakeAddress PROVE IInv'
<1>1. /\ ibf # Nothing /\ ibf.port = DATA /\ ec.stage = "address" /\ ibf.byte \in Offsets
      /\ ec'.stage = (IF ec.cmd = RD_EC THEN "answer" ELSE "value")
      /\ ec'.cmd = ec.cmd /\ ec'.addr = ibf.byte
      /\ ibf' = Nothing
      /\ UNCHANGED <<call, sent, reply, obf, mem, sound>>
  BY DEF TakeAddress, IInv, TypeOK, DataFits
<1>2. TypeOK'
  BY <1>1 DEF TakeAddress, IInv, TypeOK
<1>3. ASSUME call # Nothing, sent = 1 PROVE FALSE
  <2>1. call \in Requests
    BY <1>3 DEF IInv, TypeOK
  <2>2. ibf = To(CMD, IF call.op = "read" THEN RD_EC ELSE WR_EC)
    BY <1>1, <1>3, <2>1, ScriptParts DEF IInv, InStep
  <2> QED BY <1>1, <2>2 DEF To, CMD, DATA
<1>4. ASSUME call # Nothing, sent = 2
      PROVE  /\ ibf.byte = call.reg
             /\ IF call.op = "write" THEN ec'.stage = "value" ELSE ec'.stage = "answer"
  <2>1. call \in Requests
    BY <1>4 DEF IInv, TypeOK
  <2>2. ibf = To(DATA, call.reg) /\ To(CMD, ec.cmd) = To(CMD, IF call.op = "read" THEN RD_EC ELSE WR_EC)
    BY <1>1, <1>4, <2>1, ScriptParts DEF IInv, InStep
  <2>3. ec.cmd = IF call.op = "read" THEN RD_EC ELSE WR_EC
    BY <2>2 DEF To
  <2>4. ibf.byte = call.reg
    BY <2>2 DEF To
  <2> QED BY <1>1, <2>1, <2>3, <2>4, ScriptParts DEF RD_EC, WR_EC
<1>5. InStep'
  BY <1>1, <1>3, <1>4 DEF InStep
<1>6. sound' => Tidy'
  <2>1. call \in Requests \cup {Nothing} /\ sent \in 0 .. 2
    BY DEF IInv, TypeOK
  <2> QED BY <1>1, <1>3, <1>4, <2>1, ScriptParts DEF IInv, Tidy
<1> QED BY <1>1, <1>2, <1>5, <1>6 DEF IInv, DataFits

LEMMA TakeValueIsInOrder == ASSUME IInv, TakeValue PROVE IInv'
<1>1. /\ ibf # Nothing /\ ibf.port = DATA /\ ec.stage = "value" /\ ibf.byte \in Bytes
      /\ ec'.stage = "command" /\ ec'.addr = ec.addr /\ ec.addr \in Offsets
      /\ mem' = [mem EXCEPT ![ec.addr] = ibf.byte]
      /\ ibf' = Nothing
      /\ UNCHANGED <<call, sent, reply, obf, sound>>
  BY DEF TakeValue, IInv, TypeOK, DataFits
<1>2. TypeOK'
  BY <1>1 DEF TakeValue, IInv, TypeOK
<1>3. ASSUME call # Nothing, sent # 0 PROVE FALSE
  <2>1. call \in Requests /\ sent \in 0 .. 2
    BY <1>3 DEF IInv, TypeOK
  <2>2. CASE sent = 1
    <3>1. ibf = To(CMD, IF call.op = "read" THEN RD_EC ELSE WR_EC)
      BY <1>1, <2>1, <2>2, <1>3, ScriptParts DEF IInv, InStep
    <3> QED BY <1>1, <3>1 DEF To, CMD, DATA
  <2>3. CASE sent = 2
    BY <1>1, <1>3, <2>3 DEF IInv, InStep
  <2> QED BY <1>3, <2>1, <2>2, <2>3
<1>4. InStep'
  BY <1>1, <1>3 DEF InStep
<1>5. sound' => Tidy'
  BY <1>1, <1>3 DEF IInv, Tidy
<1> QED BY <1>1, <1>2, <1>4, <1>5 DEF IInv, DataFits

LEMMA AnswerIsInOrder == ASSUME IInv, Answer PROVE IInv'
<1>1. /\ ec.stage = "answer" /\ ec'.stage = "command" /\ ec'.addr = ec.addr /\ ec'.cmd = ec.cmd
      /\ obf' = mem[ec.addr] /\ mem[ec.addr] \in Bytes
      /\ UNCHANGED <<call, sent, reply, ibf, mem, sound>>
  BY DEF Answer, IInv, TypeOK
<1>2. TypeOK'
  BY <1>1 DEF Answer, IInv, TypeOK
<1>3. InStep'
  BY <1>1 DEF IInv, InStep
<1>4. sound' => Tidy'
  <2>1. call \in Requests \cup {Nothing} /\ sent \in 0 .. 2
    BY DEF IInv, TypeOK
  <2> QED BY <1>1, <2>1, ScriptParts DEF IInv, Tidy, InStep
<1> QED BY <1>1, <1>2, <1>3, <1>4 DEF IInv, DataFits

(* The two sides stay in step, whenever either of them gives up or is slow. *)
THEOREM HandshakeInvariant == Spec => [](IInv /\ InStep)
<1>1. IInv /\ [Next]_vars => IInv'
  <2>1. ASSUME IInv, UNCHANGED vars PROVE IInv'
    BY <2>1 DEF vars, IInv, TypeOK, InStep, DataFits, Tidy
  <2> QED
    BY <2>1, CallIsInOrder, SendByteIsInOrder, TakeAnswerIsInOrder, TimeOutIsInOrder,
       TakeCommandIsInOrder, TakeAddressIsInOrder, TakeValueIsInOrder, AnswerIsInOrder
       DEF Next, Host, Ec
<1>2. IInv => InStep
  BY DEF IInv
<1> QED BY <1>1, <1>2, InitIsInOrder, PTL DEF Spec
-----------------------------------------------------------------------------
(* The refinement: the byte that commits a write is the write, the byte taken  *)
(* is the read, and what the EC does meanwhile nobody sees.                     *)

LEMMA SendByteCommits ==
  ASSUME IInv, SendByte
  PROVE  File!Write \/ UNCHANGED <<Committed, call, reply, sound>>
<1>1. call \in Requests /\ ibf = Nothing /\ sent \in 0 .. 2
  BY DEF SendByte, Sending, IInv, TypeOK
<1>2. Committed = mem
  BY <1>1 DEF Committed
<1>3. CASE sent = 0
  <2>1. ibf' = To(CMD, IF call.op = "read" THEN RD_EC ELSE WR_EC) /\ UNCHANGED <<call, reply, mem, sound>>
    BY <1>1, <1>3, ScriptParts DEF SendByte
  <2>2. Committed' = mem
    BY <2>1 DEF Committed, To, CMD, DATA
  <2> QED BY <1>2, <2>1, <2>2
<1>4. CASE sent = 1
  <2>1. UNCHANGED <<call, reply, ec, mem, sound>>
    BY <1>1, <1>4, ScriptParts DEF SendByte
  <2>2. ec.stage = "address"
    BY <1>1, <1>4, ScriptParts DEF IInv, InStep
  <2>3. Committed' = mem
    BY <2>1, <2>2 DEF Committed
  <2> QED BY <1>2, <2>1, <2>3
<1>5. CASE sent = 2
  <2>1. call.op = "write" /\ call # Nothing
    BY <1>1, <1>5, ScriptParts DEF SendByte, Sending
  <2>2. ibf' = To(DATA, call.val) /\ call' = Nothing /\ reply' = "done" /\ UNCHANGED <<ec, mem, sound>>
    BY <1>1, <1>5, <2>1, ScriptParts DEF SendByte
  <2>3. ec.stage = "value" /\ ec.addr = call.reg
    BY <1>1, <1>5, <2>1 DEF IInv, InStep
  <2>4. ibf' # Nothing /\ ibf'.port = DATA /\ ibf'.byte = call.val
    BY <1>1, <2>1, <2>2, ByteParts, ScriptParts
  <2>5. Committed' = [mem EXCEPT ![call.reg] = call.val]
    BY <2>2, <2>3, <2>4 DEF Committed
  <2> QED BY <1>2, <2>1, <2>2, <2>5 DEF File!Write
<1> QED BY <1>1, <1>3, <1>4, <1>5

LEMMA TakeAnswerReads == ASSUME IInv, TakeAnswer PROVE File!Read
<1>1. call \in Requests /\ call # Nothing /\ sent = 2 /\ call.op = "read" /\ obf # Nothing
  BY AnsweredParts
<1>2. obf \in Bytes
  BY <1>1 DEF IInv, TypeOK
<1>3. ASSUME sound PROVE obf = Committed[call.reg]
  <2>1. ibf = Nothing /\ obf = mem[ec.addr]
    BY <1>1, <1>3 DEF IInv, Tidy
  <2>2. ec.addr = call.reg
    BY <1>1, <2>1 DEF IInv, InStep
  <2> QED BY <2>1, <2>2 DEF Committed
<1>4. UNCHANGED <<Committed, sound>> /\ call' = Nothing /\ reply' = obf
  BY DEF TakeAnswer, Committed
<1> QED BY <1>1, <1>2, <1>3, <1>4 DEF File!Read

LEMMA EcIsInvisible ==
  ASSUME IInv, Ec
  PROVE  UNCHANGED <<Committed, call, reply, sound>>
<1>1. CASE TakeCommand
  BY <1>1 DEF TakeCommand, Committed, CMD, DATA
<1>2. CASE TakeAddress
  BY <1>2 DEF TakeAddress, Committed
<1>3. CASE TakeValue
  BY <1>3 DEF TakeValue, Committed
<1>4. CASE Answer
  <2>1. ec'.stage = "command"
    BY <1>4 DEF Answer, IInv, TypeOK
  <2> QED BY <1>4, <2>1 DEF Answer, Committed
<1> QED BY <1>1, <1>2, <1>3, <1>4 DEF Ec

(* For any registers and bytes, and an EC as slow as it likes, the handshake   *)
(* implements the register file its callers take it for.                        *)
THEOREM HandshakeIsARegisterFile == Spec => LikeARegisterFile
<1>1. Init => File!Init
  BY ParameterAssumption DEF Init, File!Init, Committed
<1>2. IInv /\ [Next]_vars => [File!Next]_<<Committed, call, reply, sound>>
  <2> SUFFICES ASSUME IInv, [Next]_vars
               PROVE  File!Next \/ UNCHANGED <<Committed, call, reply, sound>>
    OBVIOUS
  <2>1. CASE Call
    <3>1. UNCHANGED Committed /\ sound' \in {sound, TRUE}
      BY <2>1 DEF Call, Committed, IInv, TypeOK
    <3>2. File!Ask(call') /\ call' \in Requests
      BY <2>1, <3>1 DEF Call, File!Ask
    <3> QED BY <3>2 DEF File!Next
  <2>2. CASE SendByte
    BY <2>2, SendByteCommits DEF File!Next
  <2>3. CASE TakeAnswer
    BY <2>3, TakeAnswerReads DEF File!Next
  <2>4. CASE TimeOut
    <3>1. UNCHANGED Committed /\ call # Nothing
      BY <2>4 DEF TimeOut, Committed, Sending, Awaiting
    <3> QED BY <2>4, <3>1 DEF TimeOut, File!Fail, File!Next
  <2>5. CASE Ec
    BY <2>5, EcIsInvisible
  <2>6. CASE UNCHANGED vars
    BY <2>6 DEF vars, Committed
  <2> QED BY <2>1, <2>2, <2>3, <2>4, <2>5, <2>6 DEF Next, Host
<1> QED BY <1>1, <1>2, HandshakeInvariant, PTL DEF Spec, LikeARegisterFile, File!Spec, File!vars
=============================================================================
