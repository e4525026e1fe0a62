-------------------------------- MODULE SmSpc --------------------------------
(***************************************************************************)
(* The SPC700 side of the SNESMOD driver (sm_spc.as7) as far as the ports  *)
(* go: the main loop, which polls for the streaming signal (SPROC) before  *)
(* each of its routines, the command dispatcher ProcessComms, the upload   *)
(* of modules and effects, and the streaming routine.  What the commands   *)
(* do to the player is not part of this module: a command that needs no    *)
(* further exchange is one entry of the log `executed'.                    *)
(***************************************************************************)
EXTENDS ApuPorts, Sequences

VARIABLES
  spcPc,         \* where the SPC700 is
  stage,         \* the routine of the main loop that is next or running
  comms_v,       \* validation byte of the last message taken
  spcA,          \* register a: the message byte read from port 0
  spcX,          \* register x in DoTransfer and Streaming_Run
  loading,       \* the command a transfer belongs to
  xfer,          \* words received since StartTransfer
  directory,     \* loop points registered since CMD_LOAD
  next_sample,   \* effects registered since CMD_LOAD
  stream_a,      \* chunks left to copy in this Streaming_Run
  group,         \* groups of three bytes copied of the current chunk
  stream_initial,
  stream_buf,    \* bytes written to the streaming region since the note
  stream_note,   \* volume/panning and pitch of the streamed note
  executed       \* history: the messages executed

spcVars == <<spcPc, stage, comms_v, spcA, spcX, loading, xfer, directory,
             next_sample, stream_a, group, stream_initial, stream_buf,
             stream_note, executed>>

transferVars == <<loading, xfer, directory, next_sample>>
streamVars == <<stream_a, group, stream_initial, stream_buf, stream_note>>

Routine == {"ProcessComms", "ProcessFade", "Module_Update", "UpdatePorts",
            "SFX_Update"}
SproLabel == {"sproc", "run"}
CommsLabel == {"cm_new", "cm_verify", "cm_exec", "cm_ret"}
TransferLabel == {"tx_start", "tx_wait", "tx_reply", "tx_sources",
                  "tx_which"}
StreamingLabel == {"sr_ready", "sr_amount", "sr_note", "sr_echo", "sr_wait",
                   "sr_copy", "sr_exit"}
SpcLabel == SproLabel \union CommsLabel \union TransferLabel
              \union StreamingLabel

SpcTypeOK ==
  /\ spcPc \in SpcLabel
  /\ stage \in Routine
  /\ comms_v \in Byte
  /\ spcA \in Byte
  /\ spcX \in Byte
  /\ loading \in {CMD_LOAD, CMD_LOADE}
  /\ xfer \in Seq(Word)
  /\ directory \in Seq(Word)
  /\ next_sample \in Nat
  /\ stream_a \in Byte
  /\ group \in 0..2
  /\ stream_initial \in BOOLEAN
  /\ stream_buf \in Seq(Byte)
  /\ stream_note \in Byte \X Byte
  /\ executed \in Seq([id : Byte, lo : Byte, hi : Byte])

(* main has cleared its memory and run up to the first ProcessComms.       *)
SpcInit ==
  /\ spcOut = [p \in Port |-> 0]
  /\ spcPc = "run"
  /\ stage = "ProcessComms"
  /\ comms_v = 0
  /\ spcA = 0
  /\ spcX = 0
  /\ loading = CMD_LOAD
  /\ xfer = <<>>
  /\ directory = <<>>
  /\ next_sample = 0
  /\ stream_a = 0
  /\ group = 0
  /\ stream_initial = FALSE
  /\ stream_buf = <<>>
  /\ stream_note = <<0, 0>>
  /\ executed = <<>>

SpcAt(label) == spcPc = label
SpcGoto(label) == spcPc' = label

NextRoutine ==
  [r \in Routine |->
     CASE r = "ProcessComms"  -> "ProcessFade"
       [] r = "ProcessFade"   -> "Module_Update"
       [] r = "Module_Update" -> "UpdatePorts"
       [] r = "UpdatePorts"   -> "SFX_Update"
       [] r = "SFX_Update"    -> "ProcessComms"]

(* ret to the main loop.                                                   *)
NextStage == SpcGoto("sproc") /\ stage' = NextRoutine[stage]

-----------------------------------------------------------------------------
(* __BRK_ROUTINE__: asl SPC_PORT0 shifts what the S-CPU wrote into the     *)
(* carry and leaves the shifted byte in the SPC700's own latch.            *)
SPROC ==
  /\ SpcAt("sproc")
  /\ SpcWrite(0, (2 * cpuOut[0]) % 256)
  /\ SpcGoto(IF cpuOut[0] >= 128 THEN "sr_ready" ELSE "run")
  /\ UNCHANGED <<stage, comms_v, spcA, spcX, transferVars, streamVars,
                 executed>>

(* ProcessFade, Module_Update, UpdatePorts and SFX_Update take no part in  *)
(* the exchange.                                                           *)
OtherRoutine ==
  /\ SpcAt("run")
  /\ stage # "ProcessComms"
  /\ NextStage
  /\ UNCHANGED <<spcOut, comms_v, spcA, spcX, transferVars, streamVars,
                 executed>>

NoMessage ==
  /\ SpcAt("run")
  /\ stage = "ProcessComms"
  /\ comms_v = cpuOut[1]
  /\ NextStage
  /\ UNCHANGED <<spcOut, comms_v, spcA, spcX, transferVars, streamVars,
                 executed>>

NewMessage ==
  /\ \/ SpcAt("run") /\ stage = "ProcessComms" /\ comms_v # cpuOut[1]
     \/ SpcAt("cm_new")
  /\ comms_v' = cpuOut[1]
  /\ spcA' = cpuOut[0]
  /\ SpcGoto("cm_verify")
  /\ UNCHANGED <<spcOut, stage, spcX, transferVars, streamVars, executed>>

VerifyMessage ==
  /\ SpcAt("cm_verify")
  /\ SpcGoto(IF spcA = cpuOut[0] THEN "cm_exec" ELSE "cm_new")
  /\ UNCHANGED <<spcOut, stage, comms_v, spcA, spcX, transferVars, streamVars,
                 executed>>

(* The arguments a command reads from ports 2 and 3; 0 stands for one it   *)
(* does not read.                                                          *)
ReadsPort2(id) == id \in {CMD_FADE, CMD_FX}
ReadsPort3(id) == id \in {CMD_PLAY, CMD_MVOL, CMD_FADE, CMD_FX, CMD_SSIZE}

Arguments(id, p2, p3) ==
  [id |-> id,
   lo |-> IF ReadsPort2(id) THEN p2 ELSE 0,
   hi |-> IF ReadsPort3(id) THEN p3 ELSE 0]

(* The handlers that only read ports 2 and 3 and return to CommandRet (or  *)
(* reply themselves before they go on).                                    *)
ExecuteCommand ==
  /\ SpcAt("cm_exec")
  /\ Low7(spcA) \notin {CMD_LOAD, CMD_LOADE}
  /\ executed' = Append(executed, Arguments(Low7(spcA), cpuOut[2], cpuOut[3]))
  /\ SpcGoto("cm_ret")
  /\ UNCHANGED <<spcOut, stage, comms_v, spcA, spcX, transferVars, streamVars>>

(* Faulty: the validation byte is not mimicked.                            *)
FaultyCommandRet ==
  /\ SpcAt("cm_ret")
  /\ NextStage
  /\ UNCHANGED <<spcOut, comms_v, spcA, spcX, transferVars, streamVars,
                 executed>>

CommandRet ==
  /\ SpcAt("cm_ret")
  /\ SpcWrite(1, comms_v)
  /\ NextStage
  /\ UNCHANGED <<comms_v, spcA, spcX, transferVars, streamVars, executed>>

-----------------------------------------------------------------------------
(* Faulty: ResetMemory forgets the effects.                                *)
FaultyBeginLoad ==
  /\ SpcAt("cm_exec")
  /\ Low7(spcA) \in {CMD_LOAD, CMD_LOADE}
  /\ loading' = Low7(spcA)
  /\ IF loading' = CMD_LOAD
       THEN next_sample' = next_sample /\ directory' = <<>>
       ELSE next_sample' = next_sample + 1 /\ directory' = directory
  /\ SpcGoto("tx_start")
  /\ UNCHANGED <<spcOut, stage, comms_v, spcA, spcX, xfer, streamVars,
                 executed>>

(* CMD_LOAD starts with ResetMemory, CMD_LOADE registers the effect.       *)
BeginLoad ==
  /\ SpcAt("cm_exec")
  /\ Low7(spcA) \in {CMD_LOAD, CMD_LOADE}
  /\ loading' = Low7(spcA)
  /\ IF loading' = CMD_LOAD
       THEN next_sample' = 0 /\ directory' = <<>>
       ELSE next_sample' = next_sample + 1 /\ directory' = directory
  /\ SpcGoto("tx_start")
  /\ UNCHANGED <<spcOut, stage, comms_v, spcA, spcX, xfer, streamVars,
                 executed>>

StartTransfer ==
  /\ SpcAt("tx_start")
  /\ spcX' = comms_v
  /\ xfer' = <<>>
  /\ SpcWrite(1, comms_v)
  /\ SpcGoto("tx_wait")
  /\ UNCHANGED <<stage, comms_v, spcA, loading, directory, next_sample,
                 streamVars, executed>>

DoTransfer ==
  /\ SpcAt("tx_wait")
  /\ spcX # cpuOut[1]
  /\ spcX' = cpuOut[1]
  /\ xfer' = Append(xfer, WordFromCpu)
  /\ SpcGoto("tx_reply")
  /\ UNCHANGED <<spcOut, stage, comms_v, spcA, loading, directory,
                 next_sample, streamVars, executed>>

(* The reply to a word; the word that came with a zero was the last one.   *)
TransferReply ==
  /\ SpcAt("tx_reply")
  /\ SpcWrite(1, spcX)
  /\ IF spcX # 0
       THEN comms_v' = comms_v /\ SpcGoto("tx_wait")
       ELSE /\ comms_v' = spcX
            /\ SpcGoto(IF loading = CMD_LOAD THEN "tx_sources" ELSE "cm_ret")
  /\ UNCHANGED <<stage, spcA, spcX, transferVars, streamVars, executed>>

WaitForSource ==
  /\ SpcAt("tx_sources")
  /\ comms_v # cpuOut[1]
  /\ comms_v' = cpuOut[1]
  /\ SpcGoto("tx_which")
  /\ UNCHANGED <<spcOut, stage, spcA, spcX, transferVars, streamVars,
                 executed>>

(* RegisterSource *)
NextSource ==
  /\ SpcAt("tx_which")
  /\ cpuOut[0] # 0
  /\ directory' = Append(directory, WordFromCpu)
  /\ SpcGoto("tx_start")
  /\ UNCHANGED <<spcOut, stage, comms_v, spcA, spcX, loading, xfer,
                 next_sample, streamVars, executed>>

EndOfSources ==
  /\ SpcAt("tx_which")
  /\ cpuOut[0] = 0
  /\ SpcGoto("cm_ret")
  /\ UNCHANGED <<spcOut, stage, comms_v, spcA, spcX, transferVars, streamVars,
                 executed>>

-----------------------------------------------------------------------------
(* Streaming_Run                                                           *)

StreamingReady ==
  /\ SpcAt("sr_ready")
  /\ SpcWrite(0, 128)
  /\ SpcGoto("sr_amount")
  /\ UNCHANGED <<stage, comms_v, spcA, spcX, transferVars, streamVars,
                 executed>>

StreamingAmount ==
  /\ SpcAt("sr_amount")
  /\ cpuOut[0] < 128
  /\ stream_a' = cpuOut[0]
  /\ SpcGoto("sr_note")
  /\ UNCHANGED <<spcOut, stage, comms_v, spcA, spcX, transferVars, group,
                 stream_initial, stream_buf, stream_note, executed>>

(* A nonzero port 1 is a new note: Streaming_Activate.                     *)
StreamingNote ==
  /\ SpcAt("sr_note")
  /\ IF cpuOut[1] # 0
       THEN /\ stream_note' = <<cpuOut[2], cpuOut[3]>>
            /\ stream_initial' = TRUE
            /\ stream_buf' = <<>>
       ELSE UNCHANGED <<stream_note, stream_initial, stream_buf>>
  /\ SpcGoto("sr_echo")
  /\ UNCHANGED <<spcOut, stage, comms_v, spcA, spcX, transferVars, stream_a,
                 group, executed>>

StreamingEcho ==
  /\ SpcAt("sr_echo")
  /\ SpcWrite(0, cpuOut[0])
  /\ spcX' = (cpuOut[0] + 1) % 256
  /\ group' = 0
  /\ SpcGoto("sr_wait")
  /\ UNCHANGED <<stage, comms_v, spcA, transferVars, stream_a,
                 stream_initial, stream_buf, stream_note, executed>>

StreamingWait ==
  /\ SpcAt("sr_wait")
  /\ spcX = cpuOut[0]
  /\ SpcGoto("sr_copy")
  /\ UNCHANGED <<spcOut, stage, comms_v, spcA, spcX, transferVars, streamVars,
                 executed>>

(* Three bytes of a chunk.  Port 1 is read one instruction after the       *)
(* signal, long before the S-CPU can have seen it and stored the next      *)
(* group: both are one step.                                               *)
StreamingCopy ==
  /\ SpcAt("sr_copy")
  /\ stream_buf' = stream_buf \o <<cpuOut[2], cpuOut[3], cpuOut[1]>>
  /\ SpcWrite(0, spcX)
  /\ group' = (group + 1) % 3
  /\ IF group = 2
       THEN /\ stream_a' = (stream_a + 255) % 256
            /\ SpcGoto(IF stream_a = 1 THEN "sr_exit" ELSE "sr_wait")
            /\ spcX' = IF stream_a = 1 THEN spcX ELSE (spcX + 1) % 256
       ELSE /\ UNCHANGED stream_a
            /\ SpcGoto("sr_wait")
            /\ spcX' = (spcX + 1) % 256
  /\ UNCHANGED <<stage, comms_v, spcA, transferVars, stream_initial,
                 stream_note, executed>>

(* _sr_exit: move the write address, start the channel on the first call,  *)
(* return to where SPROC was called.  It takes about 45 microseconds.      *)
StreamingExit ==
  /\ SpcAt("sr_exit")
  /\ stream_initial' = FALSE
  /\ SpcGoto("run")
  /\ UNCHANGED <<spcOut, stage, comms_v, spcA, spcX, transferVars, stream_a,
                 group, stream_buf, stream_note, executed>>

CommsStep ==
  \/ SPROC \/ OtherRoutine \/ NoMessage \/ NewMessage \/ VerifyMessage
  \/ ExecuteCommand \/ CommandRet

TransferStep ==
  \/ BeginLoad \/ StartTransfer \/ DoTransfer \/ TransferReply
  \/ WaitForSource \/ NextSource \/ EndOfSources

StreamingStep ==
  \/ StreamingReady \/ StreamingAmount \/ StreamingNote \/ StreamingEcho
  \/ StreamingWait \/ StreamingCopy \/ StreamingExit
=============================================================================
