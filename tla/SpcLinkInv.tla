------------------------------ MODULE SpcLinkInv ------------------------------
(***************************************************************************)
(* Where each processor can be, and what is in the ports, at every point   *)
(* of the other's program: the phases of the exchange of validation bytes, *)
(* of an upload and of a streaming call.                                   *)
(***************************************************************************)
EXTENDS SpcLink

(* The instances in which no message is disturbed: streaming does not meet *)
(* spcAllocateSoundRegion, whose port 3 is not in the record of the ports, *)
(* nor a VBlank handler that delays the restoring of the ports.            *)
Undisturbed == MaxSounds = 0 \/ (Regions = {} /\ ~NmiHandler)

-----------------------------------------------------------------------------
(* On whose behalf the shared subroutines run, and what their callers have *)
(* prepared: the queue is empty when spcLoad or spcAllocateSoundRegion go  *)
(* on, and an upload starts at its first word.                             *)
Purpose ==
  /\ Regions = {} => caller # "spcAllocateSoundRegion"
  /\ pc \in RegionLabel =>
       caller = "spcAllocateSoundRegion" /\ fifo = <<>>
  /\ pc \in UploadLabel =>
       /\ caller \in {"spcLoad", "spcLoadEffect"}
       /\ caller = "spcLoad" => fifo = <<>>
  /\ \/ pc = "ld_sync"
     \/ pc \in QueueLabel /\ caller = "spcLoad"
     => pos = 0 /\ (caller = "spcLoad" => source = 0)

-----------------------------------------------------------------------------
(* A message: not in the ports, sent, taken by the SPC700, executed.       *)

Quiet ==
  \/ spcPc \in SproLabel \union StreamingLabel
  \/ spcPc = "cm_ret" /\ comms_v = spcOut[1]   \* after a transfer
Idle == Quiet /\ comms_v = spc_v /\ spcOut[1] = spc_v
Sent == Quiet /\ comms_v = spcOut[1] /\ spcOut[1] # spc_v
Taken ==
  /\ spcPc \in {"cm_new", "cm_verify", "cm_exec"}
  /\ comms_v = spc_v /\ spcOut[1] # spc_v
Done == spcPc = "cm_ret" /\ comms_v = spc_v /\ spcOut[1] # spc_v

Filling == {"mq_p0", "mq_p2", "mq_p3", "mq_p1", "ss_p3", "ss_p0", "ss_p1",
            "ld_p0", "ld_p1"}
Between == {"idle", "mq_test", "mq_next", "ld_sync", "ss_sync", "st_begin"}
MessageLabel == Filling \union Between \union StreamLabel

(* Port 1 holds streamed data.                                             *)
Overwritten == {"st_vp", "st_pitch", "st_note", "st_n", "st_sync", "st_data",
                "st_third", "st_send", "st_last", "st_r0", "st_r1"}

(* The S-CPU fills the ports only while the SPC700 has nothing in hand.    *)
Handshake ==
  /\ pc \notin Overwritten => cpuOut[1] = spc_v
  /\ pc \in MessageLabel =>
       /\ Idle \/ Sent \/ Taken \/ Done
       /\ spc_pr[1] = spc_v
  /\ pc \in Filling => Idle

-----------------------------------------------------------------------------
(* An upload: the word in the ports is the next one or the last one taken. *)
(* `Taking' is its number among those the SPC700 stores.                   *)

Taking == IF block = <<>> THEN 1 ELSE pos
Odd == spc_v % 2 = 1
Received(n) == xfer = SubSeq(Stored, 1, n)
Registered(n) == directory = [i \in 1..n |-> ModuleSources[i].loop]
Agreed == loading = CMD_LOAD <=> caller = "spcLoad"
LoadId == IF caller = "spcLoad" THEN CMD_LOAD ELSE CMD_LOADE

Waiting(n) == spcPc = "tx_wait" /\ spcX = spcOut[1] /\ Received(n)
Fetching(n) ==
  \/ Waiting(n - 1) /\ spcX # spc_v /\ WordFromCpu = Stored[n]
  \/ spcPc = "tx_reply" /\ spcX = spc_v /\ spcOut[1] # spc_v /\ Received(n)

LoadSent ==
  \/ Sent
  \/ /\ spcPc \in {"cm_verify", "cm_exec"} /\ spcA = LoadId
     /\ comms_v = spc_v /\ spcOut[1] # spc_v
Starting ==
  \/ spcPc = "tx_start" /\ comms_v = spc_v /\ spcOut[1] # spc_v
  \/ Waiting(0) /\ spcX = spc_v
AtSources == spcPc = "tx_sources" /\ comms_v = 0 /\ spcOut[1] = 0
Asked == spcPc = "tx_which" /\ comms_v = spc_v /\ spcOut[1] # spc_v

LoadPhase ==
  /\ pc \in {"ld_p0", "ld_p1", "ld_ack"} =>
       pos = 0 /\ (caller = "spcLoad" => source = 0)
  /\ pc = "ld_p1" => cpuOut[0] = LoadId
  /\ pc = "ld_ack" =>
       /\ Odd /\ cpuOut[0] = LoadId
       /\ \/ LoadSent
          \/ Starting /\ Agreed /\ (caller = "spcLoad" => Registered(source))

SourcePhase ==
  /\ pc \in {"so_p0", "so_loop", "so_p1", "so_ack",
             "ed_p0", "ed_p1", "ed_ack"} => caller = "spcLoad" /\ Agreed
  /\ pc \in {"so_p0", "ed_p0", "ed_p1"} =>
       spc_v = 0 /\ AtSources /\ Registered(source)
  /\ pc \in {"so_loop", "so_p1", "so_ack"} =>
       cpuOut[0] = 1 /\ pos = 0 /\ source \in 1..Len(ModuleSources)
  /\ pc \in {"so_loop", "so_p1"} =>
       spc_v = 0 /\ AtSources /\ Registered(source - 1)
  /\ pc = "so_p1" => WordFromCpu = ModuleSources[source].loop
  /\ pc = "so_ack" =>
       /\ Odd /\ WordFromCpu = ModuleSources[source].loop
       /\ \/ (AtSources \/ Asked) /\ Registered(source - 1)
          \/ Starting /\ Registered(source)
  /\ pc \in {"ed_p1", "ed_ack"} => cpuOut[0] = 0
  /\ pc = "ed_ack" => spc_v # 0 /\ (AtSources \/ Asked \/ Done \/ Idle)

WordPhase ==
  /\ pc \in {"tx_data", "tx_p1", "tx_end", "tx_ack", "tx_endack"} =>
       Agreed /\ (caller = "spcLoad" => Registered(source))
  /\ pc = "tx_data" => Odd /\ Waiting(pos) /\ spcX = spc_v
  /\ pc \in {"tx_data", "tx_p1", "tx_ack"} => block # <<>>
  /\ pc \in {"tx_p1", "tx_end", "tx_ack", "tx_endack"} =>
       Taking \in 1..Len(Stored)
  /\ pc \in {"tx_p1", "tx_end"} =>
       /\ Odd /\ Waiting(Taking - 1) /\ spcX = spc_v
       /\ WordFromCpu = Stored[Taking]
  /\ pc = "tx_ack" =>
       Odd /\ (Fetching(Taking) \/ (Waiting(Taking) /\ spcX = spc_v))
  /\ pc \in {"tx_end", "tx_endack"} =>
       /\ pos = Len(block) /\ Taking = Len(Stored)
       /\ block = <<>> => caller = "spcLoad" /\ source \in 1..Len(ModuleSources)
  /\ pc = "tx_endack" =>
       /\ spc_v = 0
       /\ Fetching(Taking) \/ (IF caller = "spcLoad" THEN AtSources ELSE Idle)

-----------------------------------------------------------------------------
(* A streaming call: the group in the ports is the next one or the last.   *)

Left == 3 * stream_a - group
Ahead(x) ==
  spcPc = "sr_wait" /\ spcX = x + 1 /\ spcOut[0] = x /\ Left = tribytes
Behind(x) ==
  /\ spcPc \in {"sr_wait", "sr_copy"} /\ spcX = x /\ spcOut[0] < x
  /\ Left = tribytes + 1

StreamPhase ==
  /\ spc_pr[0] <= CMD_SSIZE
  /\ pc \notin StreamLabel \ {"st_begin"} =>
       /\ cpuOut[0] <= CMD_SSIZE
       /\ spcPc \in StreamingLabel => spcPc = "sr_exit"
  /\ spcPc = "sr_amount" => spcOut[0] = 128
  /\ spcPc \notin {"sr_amount", "sr_note", "sr_echo"} => spcOut[0] < 128
  /\ pc = "st_wait" =>
       /\ cpuOut[0] = SetBit7(spc_pr[0])
       /\ spcPc \in StreamingLabel =>
            spcPc \in {"sr_exit", "sr_ready", "sr_amount"}
  /\ pc \in {"st_p1", "st_vp", "st_pitch", "st_note", "st_n"} =>
       spcPc = "sr_amount" /\ cpuOut[0] >= 128
  /\ pc = "st_sync" =>
       /\ cpuOut[0] = digi_x /\ digi_x + tribytes <= 112
       /\ \/ /\ spcPc \in {"sr_amount", "sr_note", "sr_echo"}
             /\ spcOut[0] = 128 /\ tribytes = 3 * digi_x
             /\ spcPc # "sr_amount" => stream_a = digi_x
          \/ Ahead(digi_x) \/ Behind(digi_x)
  /\ pc \in {"st_data", "st_third", "st_send"} =>
       /\ digi_x >= 1 /\ digi_x + tribytes <= 113
       /\ cpuOut[0] = digi_x - 1 /\ Ahead(digi_x - 1)
  /\ pc = "st_last" =>
       /\ tribytes = 0 /\ cpuOut[0] = digi_x /\ digi_x <= 112
       /\ Behind(digi_x) \/ (spcPc = "sr_exit" /\ spcOut[0] = digi_x)
  /\ pc \in RestoreLabel => spcPc = "sr_exit" /\ spcOut[0] <= 112
  /\ MaxSounds = 0 => ~digi_active
  /\ ~NmiHandler => ~nmi

-----------------------------------------------------------------------------
(* The message in the ports, or in their record while streaming has them.  *)

SamePort(p) == cpuOut[p] = spc_pr[p]
Record ==
  /\ pc \in Between /\ (Sent \/ Taken) =>
       SamePort(0) /\ SamePort(2) /\ SamePort(3)
  /\ pc \in {"st_wait", "st_p1"} /\ (Sent \/ Taken) =>
       SamePort(2) /\ SamePort(3)
  /\ pc \in {"mq_p2", "mq_p3", "mq_p1", "st_r1", "st_r2", "st_r3"} => SamePort(0)
  /\ pc \in {"mq_p3", "mq_p1", "st_r3"} => SamePort(2)
  /\ pc = "mq_p1" => SamePort(3)

Restored == pc \notin StreamLabel \ {"st_begin"}
Held(p) == IF Restored THEN cpuOut[p] ELSE spc_pr[p]
Current == Arguments(Held(0), Held(2), Held(3))

(* A message is written to the ports, or in them and not yet executed.     *)
Outstanding ==
  \/ pc = "mq_p1"
  \/ pc \in MessageLabel /\ (Sent \/ Taken)

InHand ==
  /\ fifo \in Seq(Commands)
  /\ pc \in {"mq_p2", "mq_p3"} => cpuOut[0] = Head(fifo).id
  /\ pc = "mq_p3" => cpuOut[2] = Head(fifo).lo
  /\ pc \in {"ss_p0", "ss_p1"} => cpuOut[3] = size
  /\ pc = "ss_p1" => cpuOut[0] = CMD_SSIZE
  /\ Outstanding =>
       Held(0) \in {CMD_PLAY, CMD_STOP, CMD_MVOL, CMD_FADE, CMD_FX, CMD_SSIZE}
  /\ pc \in MessageLabel /\ Taken =>
       /\ Restored => spcPc # "cm_new"
       /\ spcPc # "cm_new" => Low7(spcA) = Held(0)
       /\ Restored /\ spcPc = "cm_verify" => spcA = cpuOut[0]

(* Every message asked for is executed, in the ports, queued, or waiting   *)
(* in spcAllocateSoundRegion for the queue to be sent.                     *)
InFlight == IF Outstanding THEN <<Current>> ELSE <<>>
AskedSize ==
  IF \/ pc \in RegionLabel
     \/ pc \in QueueLabel /\ caller = "spcAllocateSoundRegion"
    THEN <<[id |-> CMD_SSIZE, lo |-> 0, hi |-> size]>> ELSE <<>>
Order == accepted = executed \o InFlight \o fifo \o AskedSize

-----------------------------------------------------------------------------
(* Which effects the SPC700 has registered, seen from each point of an     *)
(* upload, and that every effect queued or in the ports is one of them.    *)

Loaded == IF caller = "spcLoad" THEN 0 ELSE spc_sfx_next + 1

Playable(c) == c.id = CMD_FX => c.hi \div 16 < spc_sfx_next

EffectsKnown ==
  /\ pc \notin UploadLabel \ {"ld_sync", "ld_p0", "ld_p1"} =>
       next_sample = spc_sfx_next
  /\ pc = "ld_ack" =>
       next_sample = IF LoadSent THEN spc_sfx_next ELSE Loaded
  /\ pc \in UploadLabel \ {"ld_sync", "ld_p0", "ld_p1", "ld_ack"} =>
       next_sample = Loaded
  /\ \A i \in 1..Len(fifo) : Playable(fifo[i])
  /\ Outstanding => Playable(Current)

-----------------------------------------------------------------------------
(* The two processors never lose step with each other: each of the phases  *)
(* above finds the other processor, and the ports, where it expects them.  *)
Phases ==
  /\ Purpose
  /\ Handshake
  /\ LoadPhase /\ SourcePhase /\ WordPhase
  /\ StreamPhase
  /\ Regions = {} => Record
  /\ InHand
  /\ EffectsKnown

(* And the messages asked for are always accounted for, in order:          *)
(* executed, in the ports or their record, queued.  ExecutedAsAccepted,    *)
(* UploadsIntact and the refinement of CommandQueue rest on it.            *)
InStep == Undisturbed => Phases /\ Order
=============================================================================
