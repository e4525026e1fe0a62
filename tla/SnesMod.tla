------------------------------- MODULE SnesMod -------------------------------
(***************************************************************************)
(* The S-CPU side of the SNESMOD sound driver (snesmodwla.asm): the        *)
(* message queue, spcProcess, the uploads of modules and sound effects,    *)
(* and the streaming of BRR samples.  One action is at most one access to  *)
(* an I/O port, so that the SPC700 can run between any two of them; the    *)
(* work on the S-CPU's own memory is part of the neighbouring access.      *)
(*                                                                         *)
(* The queue is a sequence of messages: its byte ring and the interrupt    *)
(* that may empty it have a module of their own, CommandFifo.              *)
(***************************************************************************)
EXTENDS ApuPorts, Sequences

CONSTANTS
  Commands,        \* messages the program may queue: [id, lo, hi]
  Regions,         \* sizes the program may ask spcAllocateSoundRegion for
  ModuleWords,     \* the module of the sound bank, as 16-bit words
  ModuleSources,   \* its samples: [loop |-> word, data |-> words]
  EffectWords,     \* a sound effect of the sound bank, as words
  Sound,           \* a BRR sample to stream: the sequence of its bytes
  digi_rates,      \* blocks sent on each call for the sample's pitch
  INIT_DATACOPY,   \* additional blocks on the first call (13 in the code)
  NmiHandler,      \* whether the VBlank handler may interrupt the driver
  MaxCommands,     \* bounds: messages queued in a run,
  MaxUploads,      \*   calls of spcLoad and spcLoadEffect,
  MaxSounds        \*   calls of spcPlaySound

Message == [id : Byte, lo : Byte, hi : Byte]

(* Volume and panning, and pitch, of the streamed sound: any two bytes do. *)
DigiVp == 200
DigiPitch == 4

ASSUME SnesModAssumption ==
  /\ Commands \subseteq Message
  /\ Regions \subseteq Byte
  /\ ModuleWords \in Seq(Word) /\ ModuleWords # <<>>
  /\ ModuleSources \in Seq([loop : Word, data : Seq(Word)])
  /\ ModuleSources # <<>>
  /\ EffectWords \in Seq(Word) /\ EffectWords # <<>>
  /\ Sound \in Seq(Byte) /\ Len(Sound) % 9 = 0
  /\ digi_rates \in Nat \ {0} /\ INIT_DATACOPY \in Nat
  /\ digi_rates + INIT_DATACOPY <= 28
  /\ NmiHandler \in BOOLEAN
  /\ MaxCommands \in Nat /\ MaxUploads \in Nat /\ MaxSounds \in Nat

VARIABLES
  pc,            \* where the S-CPU is
  caller,        \* the entry point on whose behalf a subroutine runs
  fifo,          \* messages queued and not yet written to the ports
  spc_v,         \* last validation byte written to port 1
  spc_pr,        \* record of the ports, restored after streaming
  spc_sfx_next,  \* index the next spcLoadEffect will return
  size,          \* argument of spcAllocateSoundRegion, kept on the stack
  block,         \* the words of the transfer in progress
  pos,           \* how many of them were written to the ports
  source,        \* how many samples of the module were started
  digi_active, digi_init, digi_remain, digi_src,
  digi_x,        \* register x: the counter sent through port 0
  tribytes,      \* spc1: groups of three bytes left to send
  nmi,           \* the VBlank handler is running
  accepted,      \* history: the messages the program asked for
  uploads, sounds \* history: calls made so far

cpuVars == <<pc, caller, fifo, spc_v, spc_pr, spc_sfx_next, size, block, pos,
             source, digi_active, digi_init, digi_remain, digi_src, digi_x,
             tribytes, nmi, accepted, uploads, sounds>>

queueVars == <<fifo, accepted>>
loadVars == <<spc_sfx_next, block, pos, source, uploads>>
digiVars == <<digi_active, digi_init, digi_remain, digi_src, digi_x,
              tribytes, sounds>>

QueueLabel == {"mq_test", "mq_p0", "mq_p2", "mq_p3", "mq_p1", "mq_next"}
UploadLabel == {"ld_sync", "ld_p0", "ld_p1", "ld_ack",
                "so_p0", "so_loop", "so_p1", "so_ack",
                "tx_data", "tx_p1", "tx_ack", "tx_end", "tx_endack",
                "ed_p0", "ed_p1", "ed_ack"}
RegionLabel == {"ss_sync", "ss_p3", "ss_p0", "ss_p1"}
RestoreLabel == {"st_r0", "st_r1", "st_r2", "st_r3"}
StreamLabel == {"st_begin", "st_wait", "st_p1", "st_vp", "st_pitch",
                "st_note", "st_n", "st_sync", "st_data", "st_third",
                "st_send", "st_last"} \union RestoreLabel
CpuLabel == {"idle"} \union QueueLabel \union UploadLabel
              \union RegionLabel \union StreamLabel
Caller == {"spcProcess", "spcLoad", "spcLoadEffect", "spcAllocateSoundRegion"}

CpuTypeOK ==
  /\ pc \in CpuLabel
  /\ caller \in Caller
  /\ fifo \in Seq(Message)
  /\ spc_v \in Byte
  /\ spc_pr \in [Port -> Byte]
  /\ spc_sfx_next \in Nat
  /\ size \in Byte
  /\ block \in Seq(Word)
  /\ pos \in Nat
  /\ source \in Nat
  /\ digi_active \in BOOLEAN
  /\ digi_init \in BOOLEAN
  /\ digi_remain \in Nat
  /\ digi_src \in Nat
  /\ digi_x \in Byte
  /\ tribytes \in Byte
  /\ nmi \in BOOLEAN
  /\ accepted \in Seq(Message)
  /\ uploads \in Nat
  /\ sounds \in Nat

(* The state spcBoot leaves behind.                                        *)
CpuInit ==
  /\ cpuOut = [p \in Port |-> IF p = 3 THEN 4 ELSE 0]
  /\ pc = "idle"
  /\ caller = "spcProcess"
  /\ fifo = <<>>
  /\ spc_v = 0
  /\ spc_pr = [p \in Port |-> 0]
  /\ spc_sfx_next = 0
  /\ size = 0
  /\ block = <<>>
  /\ pos = 0
  /\ source = 0
  /\ digi_active = FALSE
  /\ digi_init = FALSE
  /\ digi_remain = 0
  /\ digi_src = 0
  /\ digi_x = 0
  /\ tribytes = 0
  /\ nmi = FALSE
  /\ accepted = <<>>
  /\ uploads = 0
  /\ sounds = 0

At(label) == pc = label /\ ~nmi
Goto(label) == pc' = label

(* cmp REG_APUIO1 / bne -: the SPC700 has mimicked the validation byte.    *)
SpcReady == spcOut[1] = spc_v

-----------------------------------------------------------------------------
(* The message queue.                                                      *)

(* spcPlay, spcStop, spcSetModuleVolume, spcFadeModuleVolume and spcEffect:*)
(* each stores its arguments in spc1 and jumps to QueueMessage.  An effect *)
(* is played by an index spcLoadEffect returned.                           *)
QueueMessage(c) ==
  /\ At("idle")
  /\ Len(accepted) < MaxCommands
  /\ c.id = CMD_FX => c.hi \div 16 < spc_sfx_next
  /\ fifo' = Append(fifo, c)
  /\ accepted' = Append(accepted, c)
  /\ UNCHANGED <<cpuOut, pc, caller, spc_v, spc_pr, size, loadVars, digiVars,
                 nmi>>

(* Where spcProcessMessages (or xspcFlush) continues once the queue is     *)
(* empty.                                                                  *)
AfterQueue(c) ==
  CASE c = "spcLoad" -> "ld_sync"
    [] c = "spcAllocateSoundRegion" -> "ss_sync"
    [] OTHER -> "idle"

(* Faulty: the queue is not flushed.                                       *)
FaultyMessagesOrReturn(c) ==
  IF fifo = <<>> \/ c # "spcProcess" THEN AfterQueue(c) ELSE "mq_test"

MessagesOrReturn(c) == IF fifo = <<>> THEN AfterQueue(c) ELSE "mq_test"

spcProcess ==
  /\ At("idle")
  /\ digi_active \/ fifo # <<>>
  /\ caller' = "spcProcess"
  /\ IF digi_active THEN Goto("st_begin") ELSE Goto("mq_test")
  /\ UNCHANGED <<cpuOut, spc_v, spc_pr, size, queueVars, loadVars, digiVars,
                 nmi>>

(* Faulty: does not wait for the SPC700 to have executed the last message. *)
FaultyMessageTest ==
  /\ At("mq_test")
  /\ Goto("mq_p0")
  /\ UNCHANGED <<cpuOut, caller, spc_v, spc_pr, size, queueVars, loadVars,
                 digiVars, nmi>>

MessageTest ==
  /\ At("mq_test")
  /\ IF SpcReady THEN Goto("mq_p0") ELSE Goto("mq_next")
  /\ UNCHANGED <<cpuOut, caller, spc_v, spc_pr, size, queueVars, loadVars,
                 digiVars, nmi>>

(* Faulty: the byte is not recorded.                                       *)
FaultyMessageByte(label, p, b, next) ==
  /\ At(label)
  /\ CpuWrite(p, b)
  /\ UNCHANGED spc_pr
  /\ Goto(next)

(* One byte of the message at the head of the queue, to its port and to    *)
(* the record of the ports.                                                *)
MessageByte(label, p, b, next) ==
  /\ At(label)
  /\ CpuWrite(p, b)
  /\ spc_pr' = [spc_pr EXCEPT ![p] = b]
  /\ Goto(next)

MessagePort0 ==
  /\ MessageByte("mq_p0", 0, Head(fifo).id, "mq_p2")
  /\ UNCHANGED <<caller, spc_v, size, queueVars, loadVars, digiVars, nmi>>

MessagePort2 ==
  /\ MessageByte("mq_p2", 2, Head(fifo).lo, "mq_p3")
  /\ UNCHANGED <<caller, spc_v, size, queueVars, loadVars, digiVars, nmi>>

MessagePort3 ==
  /\ MessageByte("mq_p3", 3, Head(fifo).hi, "mq_p1")
  /\ fifo' = Tail(fifo)
  /\ UNCHANGED <<caller, spc_v, size, accepted, loadVars, digiVars, nmi>>

(* Toggling port 1 is what makes the message visible to the SPC700.        *)
MessageDispatch ==
  /\ MessageByte("mq_p1", 1, Toggle(spc_v),
                 IF fifo = <<>> THEN AfterQueue(caller) ELSE "mq_next")
  /\ spc_v' = Toggle(spc_v)
  /\ UNCHANGED <<caller, size, queueVars, loadVars, digiVars, nmi>>

(* The scanline counter decides how often the loop runs: five scanlines    *)
(* may pass at any time.  xspcFlush starts the loop again.                 *)
MessageRetry ==
  /\ At("mq_next")
  /\ Goto("mq_test")
  /\ UNCHANGED <<cpuOut, caller, spc_v, spc_pr, size, queueVars, loadVars,
                 digiVars, nmi>>

MessageTimeout ==
  /\ At("mq_next")
  /\ caller = "spcProcess"
  /\ Goto("idle")
  /\ UNCHANGED <<cpuOut, caller, spc_v, spc_pr, size, queueVars, loadVars,
                 digiVars, nmi>>

-----------------------------------------------------------------------------
(* Uploads.                                                                *)

spcLoad ==
  /\ At("idle")
  /\ uploads < MaxUploads
  /\ uploads' = uploads + 1
  /\ caller' = "spcLoad"
  /\ Goto(MessagesOrReturn("spcLoad"))
  /\ block' = ModuleWords /\ pos' = 0 /\ source' = 0
  /\ UNCHANGED <<cpuOut, spc_v, spc_pr, spc_sfx_next, size, queueVars,
                 digiVars, nmi>>

spcLoadEffect ==
  /\ At("idle")
  /\ uploads < MaxUploads
  /\ uploads' = uploads + 1
  /\ caller' = "spcLoadEffect"
  /\ Goto("ld_sync")
  /\ block' = EffectWords /\ pos' = 0
  /\ UNCHANGED <<cpuOut, spc_v, spc_pr, spc_sfx_next, size, queueVars, source,
                 digiVars, nmi>>

LoadSync ==
  /\ At("ld_sync")
  /\ SpcReady
  /\ Goto("ld_p0")
  /\ UNCHANGED <<cpuOut, caller, spc_v, spc_pr, size, queueVars, loadVars,
                 digiVars, nmi>>

LoadMessage ==
  /\ At("ld_p0")
  /\ CpuWrite(0, IF caller = "spcLoad" THEN CMD_LOAD ELSE CMD_LOADE)
  /\ Goto("ld_p1")
  /\ UNCHANGED <<caller, spc_v, spc_pr, size, queueVars, loadVars, digiVars,
                 nmi>>

(* Write a validation byte and remember it.                                *)
Validate(v) == CpuWrite(1, v) /\ spc_v' = v

(* Faulty: without ora #01h.                                               *)
FaultyLoadDispatch ==
  /\ At("ld_p1")
  /\ Validate(Toggle(spc_v))
  /\ Goto("ld_ack")
  /\ UNCHANGED <<caller, spc_pr, size, queueVars, loadVars, digiVars, nmi>>

LoadDispatch ==
  /\ At("ld_p1")
  /\ Validate(MakeOdd(Toggle(spc_v)))
  /\ Goto("ld_ack")
  /\ UNCHANGED <<caller, spc_pr, size, queueVars, loadVars, digiVars, nmi>>

LoadAck ==
  /\ At("ld_ack")
  /\ SpcReady
  /\ Goto("tx_data")
  /\ UNCHANGED <<cpuOut, caller, spc_v, spc_pr, size, queueVars, loadVars,
                 digiVars, nmi>>

(* transfer_source: announce the next sample and its loop point.           *)
SourceBegin ==
  /\ At("so_p0")
  /\ CpuWrite(0, 1)
  /\ source' = source + 1
  /\ block' = ModuleSources[source + 1].data /\ pos' = 0
  /\ Goto("so_loop")
  /\ UNCHANGED <<caller, spc_v, spc_pr, spc_sfx_next, size, queueVars,
                 uploads, digiVars, nmi>>

SourceLoop ==
  /\ At("so_loop")
  /\ CpuWriteWord(ModuleSources[source].loop)
  /\ Goto("so_p1")
  /\ UNCHANGED <<caller, spc_v, spc_pr, size, queueVars, loadVars, digiVars,
                 nmi>>

SourceDispatch ==
  /\ At("so_p1")
  /\ Validate(MakeOdd(Toggle(spc_v)))
  /\ Goto("so_ack")
  /\ UNCHANGED <<caller, spc_pr, size, queueVars, loadVars, digiVars, nmi>>

(* An empty sample, which it2spc exports for an unused slot, has no words  *)
(* to send: its transfer is ended at once.                                 *)
SourceAck ==
  /\ At("so_ack")
  /\ SpcReady
  /\ Goto(IF block = <<>> THEN "tx_end" ELSE "tx_data")
  /\ UNCHANGED <<cpuOut, caller, spc_v, spc_pr, size, queueVars, loadVars,
                 digiVars, nmi>>

(* Faulty: the last word is taken for one that is left over.               *)
FaultyTransferWord ==
  /\ At("tx_data")
  /\ CpuWriteWord(block[pos + 1])
  /\ pos' = pos + 1
  /\ IF pos + 2 < Len(block) THEN Goto("tx_p1") ELSE Goto("tx_end")
  /\ UNCHANGED <<caller, spc_v, spc_pr, spc_sfx_next, size, queueVars, block,
                 source, uploads, digiVars, nmi>>

(* do_transfer: one word, then either its validation byte or, after the    *)
(* last word, the zero that ends the transfer.                             *)
TransferWord ==
  /\ At("tx_data")
  /\ CpuWriteWord(block[pos + 1])
  /\ pos' = pos + 1
  /\ IF pos + 1 < Len(block) THEN Goto("tx_p1") ELSE Goto("tx_end")
  /\ UNCHANGED <<caller, spc_v, spc_pr, spc_sfx_next, size, queueVars, block,
                 source, uploads, digiVars, nmi>>

TransferAgain ==
  /\ At("tx_p1")
  /\ Validate(Toggle(spc_v))
  /\ Goto("tx_ack")
  /\ UNCHANGED <<caller, spc_pr, size, queueVars, loadVars, digiVars, nmi>>

TransferAck ==
  /\ At("tx_ack")
  /\ SpcReady
  /\ Goto("tx_data")
  /\ UNCHANGED <<cpuOut, caller, spc_v, spc_pr, size, queueVars, loadVars,
                 digiVars, nmi>>

TransferEnd ==
  /\ At("tx_end")
  /\ Validate(0)
  /\ Goto("tx_endack")
  /\ UNCHANGED <<caller, spc_pr, size, queueVars, loadVars, digiVars, nmi>>

TransferEndAck ==
  /\ At("tx_endack")
  /\ SpcReady
  /\ spc_pr' = [spc_pr EXCEPT ![1] = 0]
  /\ IF caller = "spcLoadEffect"
       THEN /\ spc_sfx_next' = spc_sfx_next + 1
            /\ Goto("idle")
       ELSE /\ spc_sfx_next' = spc_sfx_next
            /\ Goto(IF source < Len(ModuleSources) THEN "so_p0" ELSE "ed_p0")
  /\ UNCHANGED <<cpuOut, caller, spc_v, size, queueVars, block, pos, source,
                 uploads, digiVars, nmi>>

(* @no_more_sources: end the transfers of spcLoad.                         *)
EndTransfers ==
  /\ At("ed_p0")
  /\ CpuWrite(0, 0)
  /\ Goto("ed_p1")
  /\ UNCHANGED <<caller, spc_v, spc_pr, size, queueVars, loadVars, digiVars,
                 nmi>>

EndDispatch ==
  /\ At("ed_p1")
  /\ Validate(Toggle(spc_v))
  /\ Goto("ed_ack")
  /\ UNCHANGED <<caller, spc_pr, size, queueVars, loadVars, digiVars, nmi>>

(* Faulty: the effect index is not reset.                                  *)
FaultyEndAck ==
  /\ At("ed_ack")
  /\ SpcReady
  /\ spc_pr' = [spc_pr EXCEPT ![1] = spc_v]
  /\ Goto("idle")
  /\ UNCHANGED <<cpuOut, caller, spc_v, spc_sfx_next, size, queueVars, block,
                 pos, source, uploads, digiVars, nmi>>

EndAck ==
  /\ At("ed_ack")
  /\ SpcReady
  /\ spc_pr' = [spc_pr EXCEPT ![1] = spc_v]
  /\ spc_sfx_next' = 0
  /\ Goto("idle")
  /\ UNCHANGED <<cpuOut, caller, spc_v, size, queueVars, block, pos, source,
                 uploads, digiVars, nmi>>

-----------------------------------------------------------------------------
(* spcAllocateSoundRegion.                                                 *)

(* Faulty: the queued messages are not sent first.                         *)
FaultyAllocateSoundRegion(s) ==
  /\ At("idle")
  /\ Len(accepted) < MaxCommands
  /\ accepted' = Append(accepted, [id |-> CMD_SSIZE, lo |-> 0, hi |-> s])
  /\ size' = s
  /\ caller' = "spcAllocateSoundRegion"
  /\ Goto("ss_sync")
  /\ UNCHANGED <<cpuOut, fifo, spc_v, spc_pr, loadVars, digiVars, nmi>>

spcAllocateSoundRegion(s) ==
  /\ At("idle")
  /\ Len(accepted) < MaxCommands
  /\ accepted' = Append(accepted, [id |-> CMD_SSIZE, lo |-> 0, hi |-> s])
  /\ size' = s
  /\ caller' = "spcAllocateSoundRegion"
  /\ Goto(MessagesOrReturn("spcAllocateSoundRegion"))
  /\ UNCHANGED <<cpuOut, fifo, spc_v, spc_pr, loadVars, digiVars, nmi>>

RegionSync ==
  /\ At("ss_sync")
  /\ SpcReady
  /\ Goto("ss_p3")
  /\ UNCHANGED <<cpuOut, caller, spc_v, spc_pr, size, queueVars, loadVars,
                 digiVars, nmi>>

(* Port 3 is written without being recorded in spc_pr.                     *)
RegionSize ==
  /\ At("ss_p3")
  /\ CpuWrite(3, size)
  /\ Goto("ss_p0")
  /\ UNCHANGED <<caller, spc_v, spc_pr, size, queueVars, loadVars, digiVars,
                 nmi>>

RegionMessage ==
  /\ At("ss_p0")
  /\ CpuWrite(0, CMD_SSIZE)
  /\ spc_pr' = [spc_pr EXCEPT ![0] = CMD_SSIZE]
  /\ Goto("ss_p1")
  /\ UNCHANGED <<caller, spc_v, size, queueVars, loadVars, digiVars, nmi>>

RegionDispatch ==
  /\ At("ss_p1")
  /\ Validate(Toggle(spc_v))
  /\ spc_pr' = [spc_pr EXCEPT ![1] = Toggle(spc_v)]
  /\ Goto("idle")
  /\ UNCHANGED <<caller, size, queueVars, loadVars, digiVars, nmi>>

-----------------------------------------------------------------------------
(* Streaming.                                                              *)

(* spcPlaySound, spcPlaySoundV: make the sample of the sound table the one *)
(* spcProcess streams; a sound already playing is replaced.                *)
spcPlaySound ==
  /\ At("idle")
  /\ sounds < MaxSounds
  /\ sounds' = sounds + 1
  /\ digi_remain' = Len(Sound) \div 9
  /\ digi_src' = 0
  /\ digi_init' = TRUE
  /\ digi_active' = TRUE
  /\ UNCHANGED <<cpuOut, pc, caller, spc_v, spc_pr, size, queueVars, loadVars,
                 digi_x, tribytes, nmi>>

(* Faulty: digi_active is left alone.                                      *)
FaultyStreamFinished ==
  /\ At("st_begin")
  /\ digi_remain = 0
  /\ Goto(MessagesOrReturn("spcProcess"))
  /\ UNCHANGED <<cpuOut, caller, spc_v, spc_pr, size, queueVars, loadVars,
                 digiVars, nmi>>

(* spcProcessStream with nothing left to copy.                             *)
StreamFinished ==
  /\ At("st_begin")
  /\ digi_remain = 0
  /\ digi_active' = FALSE
  /\ Goto(MessagesOrReturn("spcProcess"))
  /\ UNCHANGED <<cpuOut, caller, spc_v, spc_pr, size, queueVars, loadVars,
                 digi_init, digi_remain, digi_src, digi_x, tribytes, sounds,
                 nmi>>

StreamSignal ==
  /\ At("st_begin")
  /\ digi_remain # 0
  /\ CpuWrite(0, SetBit7(spc_pr[0]))
  /\ Goto("st_wait")
  /\ UNCHANGED <<caller, spc_v, spc_pr, size, queueVars, loadVars, digiVars,
                 nmi>>

(* bit REG_APUIO0 / bpl -                                                  *)
StreamWait ==
  /\ At("st_wait")
  /\ spcOut[0] >= 128
  /\ Goto("st_p1")
  /\ UNCHANGED <<cpuOut, caller, spc_v, spc_pr, size, queueVars, loadVars,
                 digiVars, nmi>>

StreamNoNote ==
  /\ At("st_p1")
  /\ CpuWrite(1, 0)
  /\ Goto(IF digi_init THEN "st_vp" ELSE "st_n")
  /\ UNCHANGED <<caller, spc_v, spc_pr, size, queueVars, loadVars, digiVars,
                 nmi>>

StreamVolume ==
  /\ At("st_vp")
  /\ CpuWrite(2, DigiVp)
  /\ Goto("st_pitch")
  /\ UNCHANGED <<caller, spc_v, spc_pr, size, queueVars, loadVars, digiVars,
                 nmi>>

StreamPitch ==
  /\ At("st_pitch")
  /\ CpuWrite(3, DigiPitch)
  /\ Goto("st_note")
  /\ UNCHANGED <<caller, spc_v, spc_pr, size, queueVars, loadVars, digiVars,
                 nmi>>

StreamNote ==
  /\ At("st_note")
  /\ CpuWrite(1, 1)
  /\ Goto("st_n")
  /\ UNCHANGED <<caller, spc_v, spc_pr, size, queueVars, loadVars, digiVars,
                 nmi>>

(* Blocks to copy on this call, saturated against the remaining length.    *)
CopyAmount ==
  LET rate == IF digi_init THEN digi_rates + INIT_DATACOPY ELSE digi_rates
  IN  IF rate < digi_remain THEN rate ELSE digi_remain

StreamAmount ==
  /\ At("st_n")
  /\ CpuWrite(0, CopyAmount)
  /\ digi_x' = CopyAmount
  /\ tribytes' = (3 * CopyAmount) % 256
  /\ digi_remain' = digi_remain - CopyAmount
  /\ digi_init' = FALSE
  /\ Goto("st_sync")
  /\ UNCHANGED <<caller, spc_v, spc_pr, size, queueVars, loadVars,
                 digi_active, digi_src, sounds, nmi>>

(* Faulty: the next group is sent without waiting for the SPC700.          *)
FaultyStreamSync ==
  /\ At("st_sync")
  /\ digi_x' = (digi_x + 1) % 256
  /\ Goto("st_data")
  /\ UNCHANGED <<cpuOut, caller, spc_v, spc_pr, size, queueVars, loadVars,
                 digi_active, digi_init, digi_remain, digi_src, tribytes,
                 sounds, nmi>>

StreamSync ==
  /\ At("st_sync")
  /\ digi_x = spcOut[0]
  /\ digi_x' = (digi_x + 1) % 256
  /\ Goto("st_data")
  /\ UNCHANGED <<cpuOut, caller, spc_v, spc_pr, size, queueVars, loadVars,
                 digi_active, digi_init, digi_remain, digi_src, tribytes,
                 sounds, nmi>>

StreamTwoBytes ==
  /\ At("st_data")
  /\ CpuWriteWord(Sound[digi_src + 1] + 256 * Sound[digi_src + 2])
  /\ Goto("st_third")
  /\ UNCHANGED <<caller, spc_v, spc_pr, size, queueVars, loadVars, digiVars,
                 nmi>>

StreamThirdByte ==
  /\ At("st_third")
  /\ CpuWrite(1, Sound[digi_src + 3])
  /\ digi_src' = digi_src + 3
  /\ Goto("st_send")
  /\ UNCHANGED <<caller, spc_v, spc_pr, size, queueVars, loadVars,
                 digi_active, digi_init, digi_remain, digi_x, tribytes,
                 sounds, nmi>>

StreamSend ==
  /\ At("st_send")
  /\ CpuWrite(0, digi_x)
  /\ tribytes' = (tribytes + 255) % 256
  /\ Goto(IF tribytes = 1 THEN "st_last" ELSE "st_sync")
  /\ UNCHANGED <<caller, spc_v, spc_pr, size, queueVars, loadVars,
                 digi_active, digi_init, digi_remain, digi_src, digi_x,
                 sounds, nmi>>

StreamLast ==
  /\ At("st_last")
  /\ digi_x = spcOut[0]
  /\ Goto("st_r0")
  /\ UNCHANGED <<cpuOut, caller, spc_v, spc_pr, size, queueVars, loadVars,
                 digiVars, nmi>>

(* Restore the ports, then go on with the queued messages.                 *)
StreamRestore(label, p, next) ==
  /\ At(label)
  /\ CpuWrite(p, spc_pr[p])
  /\ Goto(next)
  /\ UNCHANGED <<caller, spc_v, spc_pr, size, queueVars, loadVars, digiVars,
                 nmi>>

(* Faulty: port 3 is forgotten.                                            *)
FaultyStreamRestorePorts ==
  \/ StreamRestore("st_r0", 0, "st_r1")
  \/ StreamRestore("st_r1", 1, "st_r2")
  \/ StreamRestore("st_r2", 2, MessagesOrReturn("spcProcess"))

StreamRestorePorts ==
  \/ StreamRestore("st_r0", 0, "st_r1")
  \/ StreamRestore("st_r1", 1, "st_r2")
  \/ StreamRestore("st_r2", 2, "st_r3")
  \/ StreamRestore("st_r3", 3, MessagesOrReturn("spcProcess"))

-----------------------------------------------------------------------------
(* The VBlank handler: it does not touch the driver or the ports, it only  *)
(* takes the S-CPU's time.  It is entered at most once per call.           *)
NmiBegin ==
  /\ NmiHandler
  /\ ~nmi
  /\ nmi' = TRUE
  /\ UNCHANGED <<cpuOut, pc, caller, spc_v, spc_pr, size, queueVars, loadVars,
                 digiVars>>

NmiEnd ==
  /\ nmi
  /\ nmi' = FALSE
  /\ UNCHANGED <<cpuOut, pc, caller, spc_v, spc_pr, size, queueVars, loadVars,
                 digiVars>>

(* The calls the program makes.                                            *)
ApiCall ==
  \/ \E c \in Commands : QueueMessage(c)
  \/ spcProcess
  \/ spcLoad
  \/ spcLoadEffect
  \/ \E s \in Regions : spcAllocateSoundRegion(s)
  \/ spcPlaySound

(* The steps of a call that is in progress.                                *)
CpuStep ==
  \/ MessageTest \/ MessagePort0 \/ MessagePort2 \/ MessagePort3
  \/ MessageDispatch \/ MessageRetry \/ MessageTimeout
  \/ LoadSync \/ LoadMessage \/ LoadDispatch \/ LoadAck
  \/ SourceBegin \/ SourceLoop \/ SourceDispatch \/ SourceAck
  \/ TransferWord \/ TransferAgain \/ TransferAck
  \/ TransferEnd \/ TransferEndAck
  \/ EndTransfers \/ EndDispatch \/ EndAck
  \/ RegionSync \/ RegionSize \/ RegionMessage \/ RegionDispatch
  \/ StreamFinished \/ StreamSignal \/ StreamWait \/ StreamNoNote
  \/ StreamVolume \/ StreamPitch \/ StreamNote \/ StreamAmount
  \/ StreamSync \/ StreamTwoBytes \/ StreamThirdByte \/ StreamSend
  \/ StreamLast \/ StreamRestorePorts
=============================================================================
