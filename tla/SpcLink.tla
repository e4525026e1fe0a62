------------------------------- MODULE SpcLink -------------------------------
(***************************************************************************)
(* The two processors of the sound driver together: SnesMod on the S-CPU   *)
(* and SmSpc on the SPC700, which share nothing but the four ports.        *)
(***************************************************************************)
EXTENDS SnesMod, SmSpc

ASSUME CommandsAssumption ==
  \A c \in Commands :
    c = Arguments(c.id, c.lo, c.hi) /\ c.id \in {CMD_PLAY, CMD_STOP,
                                        CMD_MVOL, CMD_FADE, CMD_FX}

vars == <<portVars, cpuVars, spcVars>>

Init == CpuInit /\ SpcInit

Cpu ==
  /\ ApiCall \/ CpuStep
  /\ UNCHANGED <<spcOut, spcVars>>

Nmi ==
  /\ NmiBegin \/ NmiEnd
  /\ UNCHANGED <<spcOut, spcVars>>

(* The end of a streaming call: the S-CPU has yet to see the last reply    *)
(* and to restore the ports.                                               *)
Restoring == {"st_last"} \union RestoreLabel

(* The timing the streaming protocol relies on: the S-CPU needs a few      *)
(* instructions to restore the ports and the SPC700 about 45 microseconds  *)
(* to resume, so it resumes after them -- unless the VBlank handler runs   *)
(* in between, for which nothing bounds the S-CPU's delay.                 *)
InTime == pc \in Restoring => nmi

Spc ==
  /\ \/ CommsStep
     \/ TransferStep
     \/ StreamingStep /\ (SpcAt("sr_exit") => InTime)
  /\ UNCHANGED <<cpuOut, cpuVars>>

Next == Cpu \/ Nmi \/ Spc

(* Both processors run.  A call in progress goes on whenever the VBlank    *)
(* handler, which returns, leaves it time, and the program calls           *)
(* spcProcess again and again, as sound.h asks of it.                      *)
Fairness ==
  /\ SF_vars(CpuStep /\ UNCHANGED <<spcOut, spcVars>>)
  /\ SF_vars(spcProcess /\ UNCHANGED <<spcOut, spcVars>>)
  /\ WF_vars(NmiEnd /\ UNCHANGED <<spcOut, spcVars>>)
  /\ WF_vars(Spc)

Spec == Init /\ [][Next]_vars /\ Fairness

-----------------------------------------------------------------------------
LinkTypeOK == PortsTypeOK /\ CpuTypeOK /\ SpcTypeOK

Prefix(s, t) == Len(s) <= Len(t) /\ s = SubSeq(t, 1, Len(s))

(* Every message is executed at most once, with the arguments of its call  *)
(* and in the order of the calls, whatever uploads and streamed sounds are *)
(* sent through the same ports in the meantime.                            *)
ExecutedAsAccepted == Prefix(executed, accepted)

(* Outside of a call, the record of the ports agrees with the ports as far *)
(* as they still matter: port 1, and, while the SPC700 has not taken the   *)
(* message in the ports, the message and the arguments it reads.           *)
PortsBuffered ==
  pc = "idle" =>
    /\ spc_pr[1] = spc_v /\ cpuOut[1] = spc_v
    /\ comms_v # spc_v =>
         /\ spc_pr[0] = cpuOut[0]
         /\ ReadsPort2(cpuOut[0]) => spc_pr[2] = cpuOut[2]
         /\ ReadsPort3(cpuOut[0]) => spc_pr[3] = cpuOut[3]

(* An effect is executed only while the SPC700 has it in memory: spcLoad,  *)
(* which makes all effects invalid, lets the queued ones be played first.  *)
EffectsResident ==
  spcPc = "cm_exec" /\ Low7(spcA) = CMD_FX => cpuOut[3] \div 16 < next_sample

(* The S-CPU's count of loaded effects, from which spcLoadEffect returns   *)
(* the index to pass to spcEffect, agrees with the SPC700's directory      *)
(* whenever no call is in progress.                                        *)
EffectIndexAgrees == pc = "idle" => spc_sfx_next = next_sample

(* The words the SPC700 stores of a transfer: those of the block, but of   *)
(* an empty sample one word all the same.  DoTransfer stores a word before *)
(* it looks at the zero that ends the transfer, and in the ports it finds  *)
(* the loop point with which the sample was announced.                     *)
Stored == IF block # <<>> THEN block ELSE <<ModuleSources[source].loop>>

(* When the SPC700 replies to the last word of a transfer it has received  *)
(* the module, sample or effect word for word, with nothing left over from *)
(* another transfer in an empty sample's place, and it has registered the  *)
(* loop points of the samples in order.                                    *)
UploadsIntact ==
  /\ spcPc = "tx_reply" /\ spcX = 0 => xfer = Stored
  /\ spcPc = "tx_reply" /\ caller = "spcLoad" =>
       directory = [i \in 1..source |-> ModuleSources[i].loop]

(* A module replaces the player's memory only after every message queued   *)
(* before spcLoad was executed.                                            *)
LoadAfterCommands ==
  spcPc = "cm_exec" /\ Low7(spcA) = CMD_LOAD => executed = accepted

(* The streaming region holds exactly the bytes of the sample so far, in   *)
(* order, under the sample's volume and pitch; at the end of a call the    *)
(* two processors agree on how many were sent.                             *)
StreamIntact ==
  /\ Prefix(stream_buf, Sound)
  /\ stream_buf # <<>> => stream_note = <<DigiVp, DigiPitch>>
  /\ pc \in RestoreLabel => Len(stream_buf) = digi_src /\ ~digi_init

(* "port status must be restored before the spc resumes": the SPC700 is    *)
(* not back in its main loop while the ports still hold streamed data.     *)
RestoredBeforeResume ==
  pc \in Restoring => spcPc \in StreamingLabel

(* No call waits for the SPC700 forever.                                   *)
CallsReturn == pc # "idle" ~> pc = "idle"

(* A streamed sound ends.                                                  *)
StreamDrains == digi_active ~> ~digi_active

-----------------------------------------------------------------------------
(* The driver implements the abstract queue: the messages pending are the  *)
(* ones asked for and not executed.                                        *)
Requests ==
  Commands \union {[id |-> CMD_SSIZE, lo |-> 0, hi |-> s] : s \in Regions}

Unexecuted == SubSeq(accepted, Len(executed) + 1, Len(accepted))

Queue == INSTANCE CommandQueue WITH
  Command <- Requests, pending <- Unexecuted, done <- executed

(* Every step of the two processors is a step of the abstract queue or     *)
(* leaves it alone: messages are neither lost, nor repeated, nor altered,  *)
(* nor reordered.                                                          *)
ImplementsQueue == Queue!Safe

(* Every message the program asked for is executed, given that spcProcess  *)
(* is called again and again.                                              *)
AllExecuted == Unexecuted # <<>> ~> Unexecuted = <<>>
=============================================================================
