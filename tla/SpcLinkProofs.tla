---------------------------- MODULE SpcLinkProofs ----------------------------
(***************************************************************************)
(* What holds of the sound driver for every sound bank, sample, set of     *)
(* messages and bound.                                                     *)
(***************************************************************************)
EXTENDS SpcLink, SequenceTheorems, TLAPS

(* The S-CPU sends a message only if there is one.                         *)
QueueFacts ==
  pc \in QueueLabel \ {"mq_p1"} => fifo # <<>>

(* A word that is sent is a word of the block, a sample one of the module. *)
TransferFacts ==
  /\ \/ pc \in {"ld_sync", "ld_p0", "ld_p1", "ld_ack", "tx_data", "tx_p1",
                "tx_ack"}
     \/ pc \in QueueLabel /\ caller = "spcLoad"
     => pos < Len(block)
  /\ pc \in {"so_loop", "so_p1", "so_ack"} => pos = 0
  /\ pc = "so_p0" => source < Len(ModuleSources)
  /\ pc = "so_loop" => source \in 1..Len(ModuleSources)

-----------------------------------------------------------------------------
(* Every value written to port 1 is a byte: spcProcessMessages toggles bit *)
(* 7 of spc_v, the loaders make it odd.                                    *)
LEMMA Validation == \A v \in Byte : Toggle(v) \in Byte /\ MakeOdd(v) \in Byte
<1>1. \A v \in Byte : Toggle(v) \in Byte
  BY SMT DEF Byte, Toggle
<1>2. \A v \in Byte : MakeOdd(v) \in Byte
  BY SMT DEF Byte, MakeOdd
<1>3. QED
  BY <1>1, <1>2

(* The port numbers and the ids the driver writes are ports and bytes.     *)
LEMMA Constants ==
  /\ 0 \in Port /\ 1 \in Port /\ 2 \in Port /\ 3 \in Port
  /\ 0 \in Byte /\ 1 \in Byte /\ 128 \in Byte
  /\ CMD_LOAD \in Byte /\ CMD_LOADE \in Byte /\ CMD_SSIZE \in Byte
  /\ DigiVp \in Byte /\ DigiPitch \in Byte
  BY SMT DEF Port, Byte, CMD_LOAD, CMD_LOADE, CMD_SSIZE, DigiVp, DigiPitch

(* A byte stored to a port leaves the four ports four bytes.               *)
LEMMA PortWrite ==
  \A f \in [Port -> Byte], p \in Port, b \in Byte :
    [f EXCEPT ![p] = b] \in [Port -> Byte]
  OBVIOUS

(* The low byte of a number is a byte.                                     *)
LEMMA Remainder == \A v \in Nat : v % 256 \in Byte
  BY SMT DEF Byte

(* A word is a number below 2^16.                                          *)
LEMMA WordRange ==
  /\ \A v \in Word : v \in Nat /\ v < 65536
  /\ \A v \in Nat : v < 65536 => v \in Word
<1> DEFINE top == 65535
<1>1. Word = 0..top
  BY SMT DEF Word, top
<1>2. top \in Int /\ \A v \in Nat : v < 65536 <=> v <= top
  BY SMT DEF top
<1> HIDE DEF top
<1>3. QED
  BY <1>1, <1>2, SMT

(* A word is two bytes.                                                    *)
LEMMA Halves == \A v \in Word : v % 256 \in Byte /\ v \div 256 \in Byte
<1> SUFFICES ASSUME NEW v \in Word
             PROVE  v % 256 \in Byte /\ v \div 256 \in Byte
  OBVIOUS
<1>1. v \in Nat /\ v < 65536
  BY WordRange
<1>2. v \div 256 \in Int /\ 256 * (v \div 256) <= v
        /\ v < 256 * (v \div 256) + 256
  BY <1>1, SMT
<1>3. v \div 256 \in 0..255
  BY <1>1, <1>2, SMT
<1>4. QED
  BY <1>1, <1>3, Remainder DEF Byte

(* A 16-bit store to port 2 changes ports 2 and 3, a byte each.            *)
LEMMA WordWrite ==
  \A f \in [Port -> Byte], w \in Word :
    [f EXCEPT ![2] = w % 256, ![3] = w \div 256] \in [Port -> Byte]
  BY Halves, Constants

(* Port 0 with bit 7 set, the signal of a stream, is a byte.               *)
LEMMA HighBit == \A v \in Byte : SetBit7(v) \in Byte
  BY SMT DEF Byte, SetBit7

(* The message at the head of the queue is three bytes, and what is behind *)
(* it is a queue.                                                          *)
LEMMA FifoHead ==
  \A s \in Seq(Message) : s # <<>> =>
    /\ Head(s).id \in Byte /\ Head(s).lo \in Byte /\ Head(s).hi \in Byte
    /\ Tail(s) \in Seq(Message)
<1> SUFFICES ASSUME NEW s \in Seq(Message), s # <<>>
             PROVE  /\ Head(s).id \in Byte /\ Head(s).lo \in Byte
                    /\ Head(s).hi \in Byte
                    /\ Tail(s) \in Seq(Message)
  OBVIOUS
<1>1. Head(s) \in Message /\ Tail(s) \in Seq(Message)
  BY SMT
<1>2. QED
  BY <1>1 DEF Message

(* The words spcLoad and spcLoadEffect take from the sound bank are words, *)
(* and the module and the effect have one.                                 *)
LEMMA Bank ==
  /\ ModuleWords \in Seq(Word) /\ 0 < Len(ModuleWords)
  /\ EffectWords \in Seq(Word) /\ 0 < Len(EffectWords)
  /\ \A i \in 1..Len(ModuleSources) :
       /\ ModuleSources[i].loop \in Word
       /\ ModuleSources[i].data \in Seq(Word)
<1>1. \A s \in Seq(Word) : s # <<>> => 0 < Len(s)
  BY SMT
<1>2. ASSUME NEW i \in 1..Len(ModuleSources)
      PROVE  /\ ModuleSources[i].loop \in Word
             /\ ModuleSources[i].data \in Seq(Word)
  <2>1. ModuleSources[i] \in [loop : Word, data : Seq(Word)]
    BY SnesModAssumption, ElementOfSeq
  <2>2. QED
    BY <2>1
<1>3. QED
  BY <1>1, <1>2, SnesModAssumption

(* The sample spcPlaySound streams is bytes, nine to a block, and a call   *)
(* sends at most 28 blocks.                                                *)
LEMMA Chunks ==
  /\ digi_rates \in Nat \ {0} /\ INIT_DATACOPY \in Nat
  /\ digi_rates + INIT_DATACOPY <= 28
  /\ Len(Sound) \in Nat
  /\ \A i \in 1..Len(Sound) : Sound[i] \in Byte
  /\ Len(Sound) = 9 * (Len(Sound) \div 9)
  /\ Len(Sound) \div 9 \in Nat
<1>1. Sound \in Seq(Byte) /\ Len(Sound) % 9 = 0
  BY SnesModAssumption
<1>2. Len(Sound) \in Nat /\ \A i \in 1..Len(Sound) : Sound[i] \in Byte
  BY <1>1, SMT
<1>3. /\ digi_rates \in Nat \ {0} /\ INIT_DATACOPY \in Nat
      /\ digi_rates + INIT_DATACOPY <= 28
  BY SnesModAssumption
<1>4. \A n \in Nat : n % 9 = 0 => n = 9 * (n \div 9) /\ n \div 9 \in Nat
  BY SMT
<1>5. QED
  BY <1>1, <1>2, <1>3, <1>4

(* Two bytes of the sample make the word spcProcessStream stores.          *)
LEMMA TwoBytes == \A v, w \in Byte : v + 256 * w \in Word
<1>1. \A v, w \in Byte : v + 256 * w \in Nat /\ v + 256 * w < 65536
  BY SMT DEF Byte
<1>2. QED
  BY <1>1, WordRange, SMT

(* What is left of the sample: blocks of nine bytes, and groups of three   *)
(* of the call in progress.                                                *)
Groups ==
  IF pc \in {"st_sync", "st_data", "st_third"} THEN tribytes
  ELSE IF pc = "st_send" THEN tribytes - 1
  ELSE 0

StreamFacts ==
  /\ pc \in StreamLabel => digi_active /\ caller = "spcProcess"
  /\ digi_active => digi_src + 9 * digi_remain + 3 * Groups = Len(Sound)
  /\ pc \in {"st_wait", "st_p1", "st_vp", "st_pitch", "st_note", "st_n"} =>
       digi_remain # 0
  /\ pc \in {"st_sync", "st_data", "st_third", "st_send"} => tribytes # 0

(* What a step of the S-CPU keeps, the ports it writes included.           *)
CpuSide ==
  /\ cpuOut \in [Port -> Byte]
  /\ CpuTypeOK /\ QueueFacts /\ TransferFacts /\ StreamFacts

(* While a group of three bytes is sent, the pointer and the two counters  *)
(* of spcProcessStream add up to the length of the sample, so the three    *)
(* bytes are in it.                                                        *)
LEMMA InSample ==
  ASSUME CpuSide, pc \in {"st_sync", "st_data", "st_third", "st_send"}
  PROVE  /\ digi_src \in Nat /\ digi_remain \in Nat /\ tribytes \in 1..255
         /\ pc # "st_send" =>
              /\ digi_src + 9 * digi_remain + 3 * tribytes = Len(Sound)
              /\ digi_src + 3 <= Len(Sound)
         /\ pc = "st_send" =>
              digi_src + 9 * digi_remain + 3 * (tribytes - 1) = Len(Sound)
<1>1. digi_src \in Nat /\ digi_remain \in Nat /\ tribytes \in 1..255
  BY SMT DEF CpuSide, CpuTypeOK, StreamFacts, Byte
<1>2. digi_active
  BY DEF CpuSide, StreamFacts, StreamLabel
<1>3. digi_src + 9 * digi_remain + 3 * Groups = Len(Sound)
  BY <1>2 DEF CpuSide, StreamFacts
<1>4. CASE pc # "st_send"
  <2>1. Groups = tribytes
    BY <1>4 DEF Groups
  <2>2. QED
    BY <1>1, <1>3, <1>4, <2>1, SMT
<1>5. CASE pc = "st_send"
  <2>1. Groups = tribytes - 1
    BY <1>5 DEF Groups
  <2>2. QED
    BY <1>1, <1>3, <1>5, <2>1, SMT
<1>6. QED
  BY <1>4, <1>5

(* Sending a message, spcProcessMessages.                                  *)
LEMMA QueueStep ==
  ASSUME CpuSide,
         \/ MessageTest
         \/ MessagePort0
         \/ MessagePort2
         \/ MessagePort3
         \/ MessageDispatch
         \/ MessageRetry
         \/ MessageTimeout
  PROVE  CpuSide'
<1> USE DEF CpuSide, At, Goto, queueVars, loadVars, digiVars
<1>1. CASE MessageTest
  <2>1. cpuOut' \in [Port -> Byte]
    BY <1>1, Constants DEF MessageTest, CpuTypeOK
  <2>2. CpuTypeOK'
    BY <1>1, Constants
       DEF MessageTest, CpuTypeOK, CpuLabel, QueueLabel, UploadLabel,
           RegionLabel, StreamLabel, RestoreLabel
  <2>3. QueueFacts' /\ TransferFacts'
    BY <1>1, SMT
       DEF MessageTest, CpuTypeOK, QueueFacts, TransferFacts, QueueLabel
  <2>4. StreamFacts'
    BY <1>1, SMT
       DEF MessageTest, CpuTypeOK, StreamFacts, StreamLabel, RestoreLabel,
           Groups
  <2>5. QED
    BY <2>1, <2>2, <2>3, <2>4
<1>2. CASE MessagePort0
  <2>0. Head(fifo).id \in Byte /\ Tail(fifo) \in Seq(Message)
    BY <1>2, FifoHead, SMT
       DEF MessagePort0, MessageByte, CpuTypeOK, QueueFacts, QueueLabel
  <2>1. cpuOut' \in [Port -> Byte]
    BY <1>2, <2>0, PortWrite, Constants
       DEF MessagePort0, MessageByte, CpuTypeOK, CpuWrite
  <2>2. CpuTypeOK'
    BY <1>2, <2>0, PortWrite, Constants
       DEF MessagePort0, MessageByte, CpuTypeOK, CpuLabel, QueueLabel,
           UploadLabel, RegionLabel, StreamLabel, RestoreLabel
  <2>3. QueueFacts' /\ TransferFacts'
    BY <1>2, <2>0, SMT
       DEF MessagePort0, MessageByte, CpuTypeOK, QueueFacts, TransferFacts,
           QueueLabel
  <2>4. StreamFacts'
    BY <1>2, <2>0, SMT
       DEF MessagePort0, MessageByte, CpuTypeOK, StreamFacts, StreamLabel,
           RestoreLabel, Groups
  <2>5. QED
    BY <2>1, <2>2, <2>3, <2>4
<1>3. CASE MessagePort2
  <2>0. Head(fifo).lo \in Byte /\ Tail(fifo) \in Seq(Message)
    BY <1>3, FifoHead, SMT
       DEF MessagePort2, MessageByte, CpuTypeOK, QueueFacts, QueueLabel
  <2>1. cpuOut' \in [Port -> Byte]
    BY <1>3, <2>0, PortWrite, Constants
       DEF MessagePort2, MessageByte, CpuTypeOK, CpuWrite
  <2>2. CpuTypeOK'
    BY <1>3, <2>0, PortWrite, Constants
       DEF MessagePort2, MessageByte, CpuTypeOK, CpuLabel, QueueLabel,
           UploadLabel, RegionLabel, StreamLabel, RestoreLabel
  <2>3. QueueFacts' /\ TransferFacts'
    BY <1>3, <2>0, SMT
       DEF MessagePort2, MessageByte, CpuTypeOK, QueueFacts, TransferFacts,
           QueueLabel
  <2>4. StreamFacts'
    BY <1>3, <2>0, SMT
       DEF MessagePort2, MessageByte, CpuTypeOK, StreamFacts, StreamLabel,
           RestoreLabel, Groups
  <2>5. QED
    BY <2>1, <2>2, <2>3, <2>4
<1>4. CASE MessagePort3
  <2>0. Head(fifo).hi \in Byte /\ Tail(fifo) \in Seq(Message)
    BY <1>4, FifoHead, SMT
       DEF MessagePort3, MessageByte, CpuTypeOK, QueueFacts, QueueLabel
  <2>1. cpuOut' \in [Port -> Byte]
    BY <1>4, <2>0, PortWrite, Constants
       DEF MessagePort3, MessageByte, CpuTypeOK, CpuWrite
  <2>2. CpuTypeOK'
    BY <1>4, <2>0, PortWrite, Constants
       DEF MessagePort3, MessageByte, CpuTypeOK, CpuLabel, QueueLabel,
           UploadLabel, RegionLabel, StreamLabel, RestoreLabel
  <2>3. QueueFacts' /\ TransferFacts'
    BY <1>4, <2>0, SMT
       DEF MessagePort3, MessageByte, CpuTypeOK, QueueFacts, TransferFacts,
           QueueLabel
  <2>4. StreamFacts'
    BY <1>4, <2>0, SMT
       DEF MessagePort3, MessageByte, CpuTypeOK, StreamFacts, StreamLabel,
           RestoreLabel, Groups
  <2>5. QED
    BY <2>1, <2>2, <2>3, <2>4
<1>5. CASE MessageDispatch
  <2>1. cpuOut' \in [Port -> Byte]
    BY <1>5, PortWrite, Constants, Validation
       DEF MessageDispatch, MessageByte, AfterQueue, CpuTypeOK, CpuWrite
  <2>2. CpuTypeOK'
    BY <1>5, PortWrite, Constants, Validation
       DEF MessageDispatch, MessageByte, AfterQueue, CpuTypeOK, CpuLabel,
           QueueLabel, UploadLabel, RegionLabel, StreamLabel, RestoreLabel
  <2>3. QueueFacts' /\ TransferFacts'
    BY <1>5, SMT
       DEF MessageDispatch, MessageByte, AfterQueue, CpuTypeOK, QueueFacts,
           TransferFacts, QueueLabel
  <2>4. StreamFacts'
    BY <1>5, SMT
       DEF MessageDispatch, MessageByte, AfterQueue, CpuTypeOK, StreamFacts,
           StreamLabel, RestoreLabel, Groups
  <2>5. QED
    BY <2>1, <2>2, <2>3, <2>4
<1>6. CASE MessageRetry
  <2>1. cpuOut' \in [Port -> Byte]
    BY <1>6, Constants DEF MessageRetry, CpuTypeOK
  <2>2. CpuTypeOK'
    BY <1>6, Constants
       DEF MessageRetry, CpuTypeOK, CpuLabel, QueueLabel, UploadLabel,
           RegionLabel, StreamLabel, RestoreLabel
  <2>3. QueueFacts' /\ TransferFacts'
    BY <1>6, SMT
       DEF MessageRetry, CpuTypeOK, QueueFacts, TransferFacts, QueueLabel
  <2>4. StreamFacts'
    BY <1>6, SMT
       DEF MessageRetry, CpuTypeOK, StreamFacts, StreamLabel, RestoreLabel,
           Groups
  <2>5. QED
    BY <2>1, <2>2, <2>3, <2>4
<1>7. CASE MessageTimeout
  <2>1. cpuOut' \in [Port -> Byte]
    BY <1>7, Constants DEF MessageTimeout, CpuTypeOK
  <2>2. CpuTypeOK'
    BY <1>7, Constants
       DEF MessageTimeout, CpuTypeOK, CpuLabel, QueueLabel, UploadLabel,
           RegionLabel, StreamLabel, RestoreLabel
  <2>3. QueueFacts' /\ TransferFacts'
    BY <1>7, SMT
       DEF MessageTimeout, CpuTypeOK, QueueFacts, TransferFacts, QueueLabel
  <2>4. StreamFacts'
    BY <1>7, SMT
       DEF MessageTimeout, CpuTypeOK, StreamFacts, StreamLabel, RestoreLabel,
           Groups
  <2>5. QED
    BY <2>1, <2>2, <2>3, <2>4
<1>8. QED
  BY <1>1, <1>2, <1>3, <1>4, <1>5, <1>6, <1>7

(* An upload, spcLoad and spcLoadEffect, word by word.                     *)
LEMMA UploadStep ==
  ASSUME CpuSide,
         \/ LoadSync
         \/ LoadMessage
         \/ LoadDispatch
         \/ LoadAck
         \/ SourceBegin
         \/ SourceLoop
         \/ SourceDispatch
         \/ SourceAck
         \/ TransferWord
         \/ TransferAgain
         \/ TransferAck
         \/ TransferEnd
         \/ TransferEndAck
         \/ EndTransfers
         \/ EndDispatch
         \/ EndAck
  PROVE  CpuSide'
<1> USE DEF CpuSide, At, Goto, queueVars, loadVars, digiVars
<1>1. CASE LoadSync
  <2>1. cpuOut' \in [Port -> Byte]
    BY <1>1, Constants DEF LoadSync, CpuTypeOK
  <2>2. CpuTypeOK'
    BY <1>1, Constants
       DEF LoadSync, CpuTypeOK, CpuLabel, QueueLabel, UploadLabel,
           RegionLabel, StreamLabel, RestoreLabel
  <2>3. QueueFacts' /\ TransferFacts'
    BY <1>1, SMT
       DEF LoadSync, CpuTypeOK, QueueFacts, TransferFacts, QueueLabel
  <2>4. StreamFacts'
    BY <1>1, SMT
       DEF LoadSync, CpuTypeOK, StreamFacts, StreamLabel, RestoreLabel,
           Groups
  <2>5. QED
    BY <2>1, <2>2, <2>3, <2>4
<1>2. CASE LoadMessage
  <2>1. cpuOut' \in [Port -> Byte]
    BY <1>2, PortWrite, Constants DEF LoadMessage, CpuTypeOK, CpuWrite
  <2>2. CpuTypeOK'
    BY <1>2, Constants
       DEF LoadMessage, CpuTypeOK, CpuLabel, QueueLabel, UploadLabel,
           RegionLabel, StreamLabel, RestoreLabel
  <2>3. QueueFacts' /\ TransferFacts'
    BY <1>2, SMT
       DEF LoadMessage, CpuTypeOK, QueueFacts, TransferFacts, QueueLabel
  <2>4. StreamFacts'
    BY <1>2, SMT
       DEF LoadMessage, CpuTypeOK, StreamFacts, StreamLabel, RestoreLabel,
           Groups
  <2>5. QED
    BY <2>1, <2>2, <2>3, <2>4
<1>3. CASE LoadDispatch
  <2>1. cpuOut' \in [Port -> Byte]
    BY <1>3, PortWrite, Constants, Validation
       DEF LoadDispatch, CpuTypeOK, CpuWrite, Validate
  <2>2. CpuTypeOK'
    BY <1>3, Constants, Validation
       DEF LoadDispatch, CpuTypeOK, CpuLabel, QueueLabel, UploadLabel,
           RegionLabel, StreamLabel, RestoreLabel, Validate
  <2>3. QueueFacts' /\ TransferFacts'
    BY <1>3, SMT
       DEF LoadDispatch, CpuTypeOK, QueueFacts, TransferFacts, QueueLabel
  <2>4. StreamFacts'
    BY <1>3, SMT
       DEF LoadDispatch, CpuTypeOK, StreamFacts, StreamLabel, RestoreLabel,
           Groups
  <2>5. QED
    BY <2>1, <2>2, <2>3, <2>4
<1>4. CASE LoadAck
  <2>1. cpuOut' \in [Port -> Byte]
    BY <1>4, Constants DEF LoadAck, CpuTypeOK
  <2>2. CpuTypeOK'
    BY <1>4, Constants
       DEF LoadAck, CpuTypeOK, CpuLabel, QueueLabel, UploadLabel,
           RegionLabel, StreamLabel, RestoreLabel
  <2>3. QueueFacts' /\ TransferFacts'
    BY <1>4, SMT DEF LoadAck, CpuTypeOK, QueueFacts, TransferFacts, QueueLabel
  <2>4. StreamFacts'
    BY <1>4, SMT
       DEF LoadAck, CpuTypeOK, StreamFacts, StreamLabel, RestoreLabel, Groups
  <2>5. QED
    BY <2>1, <2>2, <2>3, <2>4
<1>5. CASE SourceBegin
  <2>0. source + 1 \in 1..Len(ModuleSources) /\ source \in Nat
    BY <1>5, Bank, SMT DEF SourceBegin, CpuTypeOK, TransferFacts
  <2>1. cpuOut' \in [Port -> Byte]
    BY <1>5, <2>0, Bank, PortWrite, Constants
       DEF SourceBegin, CpuTypeOK, CpuWrite
  <2>2. CpuTypeOK'
    BY <1>5, <2>0, Bank, Constants
       DEF SourceBegin, CpuTypeOK, CpuLabel, QueueLabel, UploadLabel,
           RegionLabel, StreamLabel, RestoreLabel
  <2>3. QueueFacts' /\ TransferFacts'
    BY <1>5, <2>0, Bank, SMT
       DEF SourceBegin, CpuTypeOK, QueueFacts, TransferFacts, QueueLabel
  <2>4. StreamFacts'
    BY <1>5, <2>0, Bank, SMT
       DEF SourceBegin, CpuTypeOK, StreamFacts, StreamLabel, RestoreLabel,
           Groups
  <2>5. QED
    BY <2>1, <2>2, <2>3, <2>4
<1>6. CASE SourceLoop
  <2>1. cpuOut' \in [Port -> Byte]
    <3>1. ModuleSources[source].loop \in Word
      BY <1>6, Bank, SMT DEF SourceLoop, TransferFacts
    <3>2. QED
      BY <1>6, <3>1, WordWrite, ZenonT(40) DEF SourceLoop, CpuWriteWord
  <2>2. CpuTypeOK'
    BY <1>6, Constants
       DEF SourceLoop, CpuTypeOK, CpuLabel, QueueLabel, UploadLabel,
           RegionLabel, StreamLabel, RestoreLabel
  <2>3. QueueFacts' /\ TransferFacts'
    BY <1>6, SMT
       DEF SourceLoop, CpuTypeOK, QueueFacts, TransferFacts, QueueLabel
  <2>4. StreamFacts'
    BY <1>6, SMT
       DEF SourceLoop, CpuTypeOK, StreamFacts, StreamLabel, RestoreLabel,
           Groups
  <2>5. QED
    BY <2>1, <2>2, <2>3, <2>4
<1>7. CASE SourceDispatch
  <2>1. cpuOut' \in [Port -> Byte]
    BY <1>7, PortWrite, Constants, Validation
       DEF SourceDispatch, CpuTypeOK, CpuWrite, Validate
  <2>2. CpuTypeOK'
    BY <1>7, Constants, Validation
       DEF SourceDispatch, CpuTypeOK, CpuLabel, QueueLabel, UploadLabel,
           RegionLabel, StreamLabel, RestoreLabel, Validate
  <2>3. QueueFacts' /\ TransferFacts'
    BY <1>7, SMT
       DEF SourceDispatch, CpuTypeOK, QueueFacts, TransferFacts, QueueLabel
  <2>4. StreamFacts'
    BY <1>7, SMT
       DEF SourceDispatch, CpuTypeOK, StreamFacts, StreamLabel, RestoreLabel,
           Groups
  <2>5. QED
    BY <2>1, <2>2, <2>3, <2>4
<1>8. CASE SourceAck
  <2>1. cpuOut' \in [Port -> Byte]
    BY <1>8, Constants DEF SourceAck, CpuTypeOK
  <2>2. CpuTypeOK'
    BY <1>8, Constants
       DEF SourceAck, CpuTypeOK, CpuLabel, QueueLabel, UploadLabel,
           RegionLabel, StreamLabel, RestoreLabel
  <2>3. QueueFacts' /\ TransferFacts'
    <3>1. block # <<>> => 0 < Len(block)
      BY SMT DEF CpuTypeOK
    <3>2. QED
      BY <1>8, <3>1, SMT
         DEF SourceAck, CpuTypeOK, QueueFacts, TransferFacts, QueueLabel
  <2>4. StreamFacts'
    BY <1>8, SMT
       DEF SourceAck, CpuTypeOK, StreamFacts, StreamLabel, RestoreLabel,
           Groups
  <2>5. QED
    BY <2>1, <2>2, <2>3, <2>4
<1>9. CASE TransferWord
  <2>1. cpuOut' \in [Port -> Byte]
    <3>1. block[pos + 1] \in Word
      BY <1>9, SMT DEF TransferWord, TransferFacts, CpuTypeOK
    <3>2. QED
      BY <1>9, <3>1, WordWrite, ZenonT(40) DEF TransferWord, CpuWriteWord
  <2>2. CpuTypeOK'
    BY <1>9, Constants
       DEF TransferWord, CpuTypeOK, CpuLabel, QueueLabel, UploadLabel,
           RegionLabel, StreamLabel, RestoreLabel
  <2>3. QueueFacts' /\ TransferFacts'
    BY <1>9, SMT
       DEF TransferWord, CpuTypeOK, QueueFacts, TransferFacts, QueueLabel
  <2>4. StreamFacts'
    BY <1>9, SMT
       DEF TransferWord, CpuTypeOK, StreamFacts, StreamLabel, RestoreLabel,
           Groups
  <2>5. QED
    BY <2>1, <2>2, <2>3, <2>4
<1>10. CASE TransferAgain
  <2>1. cpuOut' \in [Port -> Byte]
    BY <1>10, PortWrite, Constants, Validation
       DEF TransferAgain, CpuTypeOK, CpuWrite, Validate
  <2>2. CpuTypeOK'
    BY <1>10, Constants, Validation
       DEF TransferAgain, CpuTypeOK, CpuLabel, QueueLabel, UploadLabel,
           RegionLabel, StreamLabel, RestoreLabel, Validate
  <2>3. QueueFacts' /\ TransferFacts'
    BY <1>10, SMT
       DEF TransferAgain, CpuTypeOK, QueueFacts, TransferFacts, QueueLabel
  <2>4. StreamFacts'
    BY <1>10, SMT
       DEF TransferAgain, CpuTypeOK, StreamFacts, StreamLabel, RestoreLabel,
           Groups
  <2>5. QED
    BY <2>1, <2>2, <2>3, <2>4
<1>11. CASE TransferAck
  <2>1. cpuOut' \in [Port -> Byte]
    BY <1>11, Constants DEF TransferAck, CpuTypeOK
  <2>2. CpuTypeOK'
    BY <1>11, Constants
       DEF TransferAck, CpuTypeOK, CpuLabel, QueueLabel, UploadLabel,
           RegionLabel, StreamLabel, RestoreLabel
  <2>3. QueueFacts' /\ TransferFacts'
    BY <1>11, SMT
       DEF TransferAck, CpuTypeOK, QueueFacts, TransferFacts, QueueLabel
  <2>4. StreamFacts'
    BY <1>11, SMT
       DEF TransferAck, CpuTypeOK, StreamFacts, StreamLabel, RestoreLabel,
           Groups
  <2>5. QED
    BY <2>1, <2>2, <2>3, <2>4
<1>12. CASE TransferEnd
  <2>1. cpuOut' \in [Port -> Byte]
    BY <1>12, PortWrite, Constants
       DEF TransferEnd, CpuTypeOK, CpuWrite, Validate
  <2>2. CpuTypeOK'
    BY <1>12, Constants
       DEF TransferEnd, CpuTypeOK, CpuLabel, QueueLabel, UploadLabel,
           RegionLabel, StreamLabel, RestoreLabel, Validate
  <2>3. QueueFacts' /\ TransferFacts'
    BY <1>12, SMT
       DEF TransferEnd, CpuTypeOK, QueueFacts, TransferFacts, QueueLabel
  <2>4. StreamFacts'
    BY <1>12, SMT
       DEF TransferEnd, CpuTypeOK, StreamFacts, StreamLabel, RestoreLabel,
           Groups
  <2>5. QED
    BY <2>1, <2>2, <2>3, <2>4
<1>13. CASE TransferEndAck
  <2>1. cpuOut' \in [Port -> Byte]
    BY <1>13, PortWrite, Constants DEF TransferEndAck, CpuTypeOK
  <2>2. CpuTypeOK'
    BY <1>13, PortWrite, Constants
       DEF TransferEndAck, CpuTypeOK, CpuLabel, QueueLabel, UploadLabel,
           RegionLabel, StreamLabel, RestoreLabel
  <2>3. QueueFacts' /\ TransferFacts'
    BY <1>13, SMT
       DEF TransferEndAck, CpuTypeOK, QueueFacts, TransferFacts, QueueLabel
  <2>4. StreamFacts'
    BY <1>13, SMT
       DEF TransferEndAck, CpuTypeOK, StreamFacts, StreamLabel, RestoreLabel,
           Groups
  <2>5. QED
    BY <2>1, <2>2, <2>3, <2>4
<1>14. CASE EndTransfers
  <2>1. cpuOut' \in [Port -> Byte]
    BY <1>14, PortWrite, Constants DEF EndTransfers, CpuTypeOK, CpuWrite
  <2>2. CpuTypeOK'
    BY <1>14, Constants
       DEF EndTransfers, CpuTypeOK, CpuLabel, QueueLabel, UploadLabel,
           RegionLabel, StreamLabel, RestoreLabel
  <2>3. QueueFacts' /\ TransferFacts'
    BY <1>14, SMT
       DEF EndTransfers, CpuTypeOK, QueueFacts, TransferFacts, QueueLabel
  <2>4. StreamFacts'
    BY <1>14, SMT
       DEF EndTransfers, CpuTypeOK, StreamFacts, StreamLabel, RestoreLabel,
           Groups
  <2>5. QED
    BY <2>1, <2>2, <2>3, <2>4
<1>15. CASE EndDispatch
  <2>1. cpuOut' \in [Port -> Byte]
    BY <1>15, PortWrite, Constants, Validation
       DEF EndDispatch, CpuTypeOK, CpuWrite, Validate
  <2>2. CpuTypeOK'
    BY <1>15, Constants, Validation
       DEF EndDispatch, CpuTypeOK, CpuLabel, QueueLabel, UploadLabel,
           RegionLabel, StreamLabel, RestoreLabel, Validate
  <2>3. QueueFacts' /\ TransferFacts'
    BY <1>15, SMT
       DEF EndDispatch, CpuTypeOK, QueueFacts, TransferFacts, QueueLabel
  <2>4. StreamFacts'
    BY <1>15, SMT
       DEF EndDispatch, CpuTypeOK, StreamFacts, StreamLabel, RestoreLabel,
           Groups
  <2>5. QED
    BY <2>1, <2>2, <2>3, <2>4
<1>16. CASE EndAck
  <2>1. cpuOut' \in [Port -> Byte]
    BY <1>16, PortWrite, Constants DEF EndAck, CpuTypeOK
  <2>2. CpuTypeOK'
    BY <1>16, PortWrite, Constants
       DEF EndAck, CpuTypeOK, CpuLabel, QueueLabel, UploadLabel, RegionLabel,
           StreamLabel, RestoreLabel
  <2>3. QueueFacts' /\ TransferFacts'
    BY <1>16, SMT DEF EndAck, CpuTypeOK, QueueFacts, TransferFacts, QueueLabel
  <2>4. StreamFacts'
    BY <1>16, SMT
       DEF EndAck, CpuTypeOK, StreamFacts, StreamLabel, RestoreLabel, Groups
  <2>5. QED
    BY <2>1, <2>2, <2>3, <2>4
<1>17. QED
  BY <1>1, <1>2, <1>3, <1>4, <1>5, <1>6, <1>7, <1>8, <1>9, <1>10, <1>11,
     <1>12, <1>13, <1>14, <1>15, <1>16

(* The message of spcAllocateSoundRegion.                                  *)
LEMMA RegionStep ==
  ASSUME CpuSide,
         \/ RegionSync
         \/ RegionSize
         \/ RegionMessage
         \/ RegionDispatch
  PROVE  CpuSide'
<1> USE DEF CpuSide, At, Goto, queueVars, loadVars, digiVars
<1>1. CASE RegionSync
  <2>1. cpuOut' \in [Port -> Byte]
    BY <1>1, Constants DEF RegionSync, CpuTypeOK
  <2>2. CpuTypeOK'
    BY <1>1, Constants
       DEF RegionSync, CpuTypeOK, CpuLabel, QueueLabel, UploadLabel,
           RegionLabel, StreamLabel, RestoreLabel
  <2>3. QueueFacts' /\ TransferFacts'
    BY <1>1, SMT
       DEF RegionSync, CpuTypeOK, QueueFacts, TransferFacts, QueueLabel
  <2>4. StreamFacts'
    BY <1>1, SMT
       DEF RegionSync, CpuTypeOK, StreamFacts, StreamLabel, RestoreLabel,
           Groups
  <2>5. QED
    BY <2>1, <2>2, <2>3, <2>4
<1>2. CASE RegionSize
  <2>1. cpuOut' \in [Port -> Byte]
    BY <1>2, PortWrite, Constants DEF RegionSize, CpuTypeOK, CpuWrite
  <2>2. CpuTypeOK'
    BY <1>2, Constants
       DEF RegionSize, CpuTypeOK, CpuLabel, QueueLabel, UploadLabel,
           RegionLabel, StreamLabel, RestoreLabel
  <2>3. QueueFacts' /\ TransferFacts'
    BY <1>2, SMT
       DEF RegionSize, CpuTypeOK, QueueFacts, TransferFacts, QueueLabel
  <2>4. StreamFacts'
    BY <1>2, SMT
       DEF RegionSize, CpuTypeOK, StreamFacts, StreamLabel, RestoreLabel,
           Groups
  <2>5. QED
    BY <2>1, <2>2, <2>3, <2>4
<1>3. CASE RegionMessage
  <2>1. cpuOut' \in [Port -> Byte]
    BY <1>3, PortWrite, Constants DEF RegionMessage, CpuTypeOK, CpuWrite
  <2>2. CpuTypeOK'
    BY <1>3, PortWrite, Constants
       DEF RegionMessage, CpuTypeOK, CpuLabel, QueueLabel, UploadLabel,
           RegionLabel, StreamLabel, RestoreLabel
  <2>3. QueueFacts' /\ TransferFacts'
    BY <1>3, SMT
       DEF RegionMessage, CpuTypeOK, QueueFacts, TransferFacts, QueueLabel
  <2>4. StreamFacts'
    BY <1>3, SMT
       DEF RegionMessage, CpuTypeOK, StreamFacts, StreamLabel, RestoreLabel,
           Groups
  <2>5. QED
    BY <2>1, <2>2, <2>3, <2>4
<1>4. CASE RegionDispatch
  <2>1. cpuOut' \in [Port -> Byte]
    BY <1>4, PortWrite, Constants, Validation
       DEF RegionDispatch, CpuTypeOK, CpuWrite, Validate
  <2>2. CpuTypeOK'
    BY <1>4, PortWrite, Constants, Validation
       DEF RegionDispatch, CpuTypeOK, CpuLabel, QueueLabel, UploadLabel,
           RegionLabel, StreamLabel, RestoreLabel, Validate
  <2>3. QueueFacts' /\ TransferFacts'
    BY <1>4, SMT
       DEF RegionDispatch, CpuTypeOK, QueueFacts, TransferFacts, QueueLabel
  <2>4. StreamFacts'
    BY <1>4, SMT
       DEF RegionDispatch, CpuTypeOK, StreamFacts, StreamLabel, RestoreLabel,
           Groups
  <2>5. QED
    BY <2>1, <2>2, <2>3, <2>4
<1>5. QED
  BY <1>1, <1>2, <1>3, <1>4

(* Streaming, spcProcessStream, with its counters of blocks and groups.    *)
LEMMA StreamStep ==
  ASSUME CpuSide,
         \/ StreamFinished
         \/ StreamSignal
         \/ StreamWait
         \/ StreamNoNote
         \/ StreamVolume
         \/ StreamPitch
         \/ StreamNote
         \/ StreamAmount
         \/ StreamSync
         \/ StreamTwoBytes
         \/ StreamThirdByte
         \/ StreamSend
         \/ StreamLast
         \/ StreamRestorePorts
  PROVE  CpuSide'
<1> USE DEF CpuSide, At, Goto, queueVars, loadVars, digiVars
<1>1. CASE StreamFinished
  <2>1. cpuOut' \in [Port -> Byte]
    BY <1>1, Constants
       DEF StreamFinished, MessagesOrReturn, AfterQueue, CpuTypeOK
  <2>2. CpuTypeOK'
    BY <1>1, Constants
       DEF StreamFinished, MessagesOrReturn, AfterQueue, CpuTypeOK, CpuLabel,
           QueueLabel, UploadLabel, RegionLabel, StreamLabel, RestoreLabel
  <2>3. QueueFacts' /\ TransferFacts'
    BY <1>1, SMT
       DEF StreamFinished, MessagesOrReturn, AfterQueue, CpuTypeOK,
           QueueFacts, TransferFacts, StreamFacts, QueueLabel, StreamLabel,
           RestoreLabel
  <2>4. StreamFacts'
    BY <1>1, SMT
       DEF StreamFinished, MessagesOrReturn, AfterQueue, CpuTypeOK,
           StreamFacts, StreamLabel, RestoreLabel, Groups
  <2>5. QED
    BY <2>1, <2>2, <2>3, <2>4
<1>2. CASE StreamSignal
  <2>1. cpuOut' \in [Port -> Byte]
    BY <1>2, PortWrite, Constants, HighBit
       DEF StreamSignal, CpuTypeOK, CpuWrite
  <2>2. CpuTypeOK'
    BY <1>2, Constants
       DEF StreamSignal, CpuTypeOK, CpuLabel, QueueLabel, UploadLabel,
           RegionLabel, StreamLabel, RestoreLabel
  <2>3. QueueFacts' /\ TransferFacts'
    BY <1>2, SMT
       DEF StreamSignal, CpuTypeOK, QueueFacts, TransferFacts, QueueLabel
  <2>4. StreamFacts'
    BY <1>2, SMT
       DEF StreamSignal, CpuTypeOK, StreamFacts, StreamLabel, RestoreLabel,
           Groups
  <2>5. QED
    BY <2>1, <2>2, <2>3, <2>4
<1>3. CASE StreamWait
  <2>1. cpuOut' \in [Port -> Byte]
    BY <1>3, Constants DEF StreamWait, CpuTypeOK
  <2>2. CpuTypeOK'
    BY <1>3, Constants
       DEF StreamWait, CpuTypeOK, CpuLabel, QueueLabel, UploadLabel,
           RegionLabel, StreamLabel, RestoreLabel
  <2>3. QueueFacts' /\ TransferFacts'
    BY <1>3, SMT
       DEF StreamWait, CpuTypeOK, QueueFacts, TransferFacts, QueueLabel
  <2>4. StreamFacts'
    BY <1>3, SMT
       DEF StreamWait, CpuTypeOK, StreamFacts, StreamLabel, RestoreLabel,
           Groups
  <2>5. QED
    BY <2>1, <2>2, <2>3, <2>4
<1>4. CASE StreamNoNote
  <2>1. cpuOut' \in [Port -> Byte]
    BY <1>4, PortWrite, Constants DEF StreamNoNote, CpuTypeOK, CpuWrite
  <2>2. CpuTypeOK'
    BY <1>4, Constants
       DEF StreamNoNote, CpuTypeOK, CpuLabel, QueueLabel, UploadLabel,
           RegionLabel, StreamLabel, RestoreLabel
  <2>3. QueueFacts' /\ TransferFacts'
    BY <1>4, SMT
       DEF StreamNoNote, CpuTypeOK, QueueFacts, TransferFacts, QueueLabel
  <2>4. StreamFacts'
    BY <1>4, SMT
       DEF StreamNoNote, CpuTypeOK, StreamFacts, StreamLabel, RestoreLabel,
           Groups
  <2>5. QED
    BY <2>1, <2>2, <2>3, <2>4
<1>5. CASE StreamVolume
  <2>1. cpuOut' \in [Port -> Byte]
    BY <1>5, PortWrite, Constants DEF StreamVolume, CpuTypeOK, CpuWrite
  <2>2. CpuTypeOK'
    BY <1>5, Constants
       DEF StreamVolume, CpuTypeOK, CpuLabel, QueueLabel, UploadLabel,
           RegionLabel, StreamLabel, RestoreLabel
  <2>3. QueueFacts' /\ TransferFacts'
    BY <1>5, SMT
       DEF StreamVolume, CpuTypeOK, QueueFacts, TransferFacts, QueueLabel
  <2>4. StreamFacts'
    BY <1>5, SMT
       DEF StreamVolume, CpuTypeOK, StreamFacts, StreamLabel, RestoreLabel,
           Groups
  <2>5. QED
    BY <2>1, <2>2, <2>3, <2>4
<1>6. CASE StreamPitch
  <2>1. cpuOut' \in [Port -> Byte]
    BY <1>6, PortWrite, Constants DEF StreamPitch, CpuTypeOK, CpuWrite
  <2>2. CpuTypeOK'
    BY <1>6, Constants
       DEF StreamPitch, CpuTypeOK, CpuLabel, QueueLabel, UploadLabel,
           RegionLabel, StreamLabel, RestoreLabel
  <2>3. QueueFacts' /\ TransferFacts'
    BY <1>6, SMT
       DEF StreamPitch, CpuTypeOK, QueueFacts, TransferFacts, QueueLabel
  <2>4. StreamFacts'
    BY <1>6, SMT
       DEF StreamPitch, CpuTypeOK, StreamFacts, StreamLabel, RestoreLabel,
           Groups
  <2>5. QED
    BY <2>1, <2>2, <2>3, <2>4
<1>7. CASE StreamNote
  <2>1. cpuOut' \in [Port -> Byte]
    BY <1>7, PortWrite, Constants DEF StreamNote, CpuTypeOK, CpuWrite
  <2>2. CpuTypeOK'
    BY <1>7, Constants
       DEF StreamNote, CpuTypeOK, CpuLabel, QueueLabel, UploadLabel,
           RegionLabel, StreamLabel, RestoreLabel
  <2>3. QueueFacts' /\ TransferFacts'
    BY <1>7, SMT
       DEF StreamNote, CpuTypeOK, QueueFacts, TransferFacts, QueueLabel
  <2>4. StreamFacts'
    BY <1>7, SMT
       DEF StreamNote, CpuTypeOK, StreamFacts, StreamLabel, RestoreLabel,
           Groups
  <2>5. QED
    BY <2>1, <2>2, <2>3, <2>4
<1>8. CASE StreamAmount
  <2>0. /\ CopyAmount \in 1..28 /\ CopyAmount <= digi_remain
        /\ (3 * CopyAmount) % 256 = 3 * CopyAmount
    BY <1>8, Chunks, SMTT(30)
       DEF StreamAmount, CopyAmount, CpuTypeOK, StreamFacts
  <2>a. CopyAmount \in Byte /\ (3 * CopyAmount) % 256 \in Byte
         /\ digi_remain - CopyAmount \in Nat
    BY <2>0, SMT DEF Byte, CpuTypeOK
  <2>1. cpuOut' \in [Port -> Byte]
    BY <1>8, <2>0, <2>a, PortWrite, Constants
       DEF StreamAmount, CpuTypeOK, CpuWrite
  <2>2. CpuTypeOK'
    BY <1>8, <2>0, <2>a, Constants
       DEF StreamAmount, CpuTypeOK, CpuLabel, QueueLabel, UploadLabel,
           RegionLabel, StreamLabel, RestoreLabel
  <2>3. QueueFacts' /\ TransferFacts'
    BY <1>8, <2>0, <2>a, SMT
       DEF StreamAmount, CpuTypeOK, QueueFacts, TransferFacts, QueueLabel
  <2>4. StreamFacts'
    <3>1. /\ digi_src \in Nat /\ digi_remain \in Nat
          /\ digi_src + 9 * digi_remain = Len(Sound)
      BY <1>8, SMT
         DEF StreamAmount, CpuTypeOK, StreamFacts, StreamLabel, Groups
    <3>2. tribytes' = 3 * CopyAmount /\ tribytes' # 0 /\ Groups' = tribytes'
      BY <1>8, <2>0, SMT DEF StreamAmount, Groups
    <3>3. digi_src' + 9 * digi_remain' + 3 * Groups' = Len(Sound)
      BY <1>8, <2>0, <3>1, <3>2, SMT DEF StreamAmount
    <3>4. QED
      BY <1>8, <3>2, <3>3 DEF StreamAmount, StreamFacts, StreamLabel
  <2>5. QED
    BY <2>1, <2>2, <2>3, <2>4
<1>9. CASE StreamSync
  <2>0. (digi_x + 1) % 256 \in Byte
    BY Remainder, SMT DEF CpuTypeOK, Byte
  <2>1. cpuOut' \in [Port -> Byte]
    BY <1>9, <2>0, Constants DEF StreamSync, CpuTypeOK
  <2>2. CpuTypeOK'
    BY <1>9, <2>0, Constants
       DEF StreamSync, CpuTypeOK, CpuLabel, QueueLabel, UploadLabel,
           RegionLabel, StreamLabel, RestoreLabel
  <2>3. QueueFacts' /\ TransferFacts'
    BY <1>9, <2>0, SMT
       DEF StreamSync, CpuTypeOK, QueueFacts, TransferFacts, QueueLabel
  <2>4. StreamFacts'
    BY <1>9, <2>0, SMT
       DEF StreamSync, CpuTypeOK, StreamFacts, StreamLabel, RestoreLabel,
           Groups
  <2>5. QED
    BY <2>1, <2>2, <2>3, <2>4
<1>10. CASE StreamTwoBytes
  <2>1. cpuOut' \in [Port -> Byte]
    <3>1. digi_src + 1 \in 1..Len(Sound) /\ digi_src + 2 \in 1..Len(Sound)
      <4>1. digi_src \in Nat /\ digi_src + 3 <= Len(Sound)
        BY <1>10, InSample DEF StreamTwoBytes
      <4>2. QED
        BY <4>1, Chunks, SMT
    <3>2. Sound[digi_src + 1] + 256 * Sound[digi_src + 2] \in Word
      BY <3>1, Chunks, TwoBytes
    <3>3. QED
      BY <1>10, <3>2, WordWrite, ZenonT(40) DEF StreamTwoBytes, CpuWriteWord
  <2>2. CpuTypeOK'
    BY <1>10, Constants
       DEF StreamTwoBytes, CpuTypeOK, CpuLabel, QueueLabel, UploadLabel,
           RegionLabel, StreamLabel, RestoreLabel
  <2>3. QueueFacts' /\ TransferFacts'
    BY <1>10, SMT
       DEF StreamTwoBytes, CpuTypeOK, QueueFacts, TransferFacts, QueueLabel
  <2>4. StreamFacts'
    BY <1>10, SMT
       DEF StreamTwoBytes, CpuTypeOK, StreamFacts, StreamLabel, RestoreLabel,
           Groups
  <2>5. QED
    BY <2>1, <2>2, <2>3, <2>4
<1>11. CASE StreamThirdByte
  <2>0. Sound[digi_src + 3] \in Byte /\ tribytes \in Int
    <3>1. /\ digi_src \in Nat /\ digi_src + 3 <= Len(Sound)
          /\ tribytes \in 1..255
      BY <1>11, InSample DEF StreamThirdByte
    <3>2. digi_src + 3 \in 1..Len(Sound)
      BY <3>1, Chunks, SMT
    <3>3. QED
      BY <3>1, <3>2, Chunks, SMT
  <2>1. cpuOut' \in [Port -> Byte]
    BY <1>11, <2>0, PortWrite, Constants
       DEF StreamThirdByte, CpuTypeOK, CpuWrite
  <2>2. CpuTypeOK'
    BY <1>11, <2>0, Constants
       DEF StreamThirdByte, CpuTypeOK, CpuLabel, QueueLabel, UploadLabel,
           RegionLabel, StreamLabel, RestoreLabel
  <2>3. QueueFacts' /\ TransferFacts'
    BY <1>11, <2>0, SMT
       DEF StreamThirdByte, CpuTypeOK, QueueFacts, TransferFacts, QueueLabel
  <2>4. StreamFacts'
    <3>1. /\ digi_src \in Nat /\ digi_remain \in Nat /\ tribytes \in 1..255
          /\ digi_src + 9 * digi_remain + 3 * tribytes = Len(Sound)
      BY <1>11, InSample DEF StreamThirdByte
    <3>2. Groups' = tribytes - 1
      BY <1>11, SMT DEF StreamThirdByte, Groups
    <3>3. digi_src' + 9 * digi_remain' + 3 * Groups' = Len(Sound)
      BY <1>11, <3>1, <3>2, SMT DEF StreamThirdByte
    <3>4. QED
      BY <1>11, <3>1, <3>3
         DEF StreamThirdByte, StreamFacts, StreamLabel, RestoreLabel
  <2>5. QED
    BY <2>1, <2>2, <2>3, <2>4
<1>12. CASE StreamSend
  <2>0. /\ tribytes \in 1..255
        /\ (tribytes + 255) % 256 = tribytes - 1
    <3>1. tribytes \in 1..255
      BY <1>12, InSample DEF StreamSend
    <3>2. QED
      BY <3>1, SMT
  <2>a. tribytes - 1 \in Byte
    BY <2>0, SMT DEF Byte
  <2>1. cpuOut' \in [Port -> Byte]
    BY <1>12, <2>0, <2>a, PortWrite, Constants
       DEF StreamSend, CpuTypeOK, CpuWrite
  <2>2. CpuTypeOK'
    BY <1>12, <2>0, <2>a, Constants
       DEF StreamSend, CpuTypeOK, CpuLabel, QueueLabel, UploadLabel,
           RegionLabel, StreamLabel, RestoreLabel
  <2>3. QueueFacts' /\ TransferFacts'
    BY <1>12, <2>0, <2>a, SMT
       DEF StreamSend, CpuTypeOK, QueueFacts, TransferFacts, QueueLabel
  <2>4. StreamFacts'
    <3>1. digi_src + 9 * digi_remain + 3 * (tribytes - 1) = Len(Sound)
      BY <1>12, InSample DEF StreamSend
    <3>2. Groups' = tribytes - 1
      BY <1>12, <2>0, SMT DEF StreamSend, Groups
    <3>3. QED
      BY <1>12, <2>0, <3>1, <3>2, SMT
         DEF StreamSend, StreamFacts, StreamLabel, RestoreLabel
  <2>5. QED
    BY <2>1, <2>2, <2>3, <2>4
<1>13. CASE StreamLast
  <2>1. cpuOut' \in [Port -> Byte]
    BY <1>13, Constants DEF StreamLast, CpuTypeOK
  <2>2. CpuTypeOK'
    BY <1>13, Constants
       DEF StreamLast, CpuTypeOK, CpuLabel, QueueLabel, UploadLabel,
           RegionLabel, StreamLabel, RestoreLabel
  <2>3. QueueFacts' /\ TransferFacts'
    BY <1>13, SMT
       DEF StreamLast, CpuTypeOK, QueueFacts, TransferFacts, QueueLabel
  <2>4. StreamFacts'
    BY <1>13, SMT
       DEF StreamLast, CpuTypeOK, StreamFacts, StreamLabel, RestoreLabel,
           Groups
  <2>5. QED
    BY <2>1, <2>2, <2>3, <2>4
<1>14. CASE StreamRestorePorts
  <2>1. cpuOut' \in [Port -> Byte]
    BY <1>14, PortWrite, Constants
       DEF StreamRestorePorts, StreamRestore, MessagesOrReturn, AfterQueue,
           CpuTypeOK, CpuWrite
  <2>2. CpuTypeOK'
    BY <1>14, Constants
       DEF StreamRestorePorts, StreamRestore, MessagesOrReturn, AfterQueue,
           CpuTypeOK, CpuLabel, QueueLabel, UploadLabel, RegionLabel,
           StreamLabel, RestoreLabel
  <2>3. QueueFacts' /\ TransferFacts'
    <3>1. CASE StreamRestore("st_r0", 0, "st_r1")
      BY <3>1, SMT
         DEF StreamRestore, CpuTypeOK, QueueFacts, TransferFacts, QueueLabel
    <3>2. CASE StreamRestore("st_r1", 1, "st_r2")
      BY <3>2, SMT
         DEF StreamRestore, CpuTypeOK, QueueFacts, TransferFacts, QueueLabel
    <3>3. CASE StreamRestore("st_r2", 2, "st_r3")
      BY <3>3, SMT
         DEF StreamRestore, CpuTypeOK, QueueFacts, TransferFacts, QueueLabel
    <3>4. CASE StreamRestore("st_r3", 3, MessagesOrReturn("spcProcess"))
      BY <3>4, SMT
         DEF StreamRestore, CpuTypeOK, QueueFacts, TransferFacts, QueueLabel,
             MessagesOrReturn, AfterQueue, StreamFacts, StreamLabel,
             RestoreLabel
    <3>5. QED
      BY <1>14, <3>1, <3>2, <3>3, <3>4 DEF StreamRestorePorts
  <2>4. StreamFacts'
    <3>1. CASE StreamRestore("st_r0", 0, "st_r1")
      BY <3>1, SMT
         DEF StreamRestore, CpuTypeOK, StreamFacts, StreamLabel,
             RestoreLabel, Groups
    <3>2. CASE StreamRestore("st_r1", 1, "st_r2")
      BY <3>2, SMT
         DEF StreamRestore, CpuTypeOK, StreamFacts, StreamLabel,
             RestoreLabel, Groups
    <3>3. CASE StreamRestore("st_r2", 2, "st_r3")
      BY <3>3, SMT
         DEF StreamRestore, CpuTypeOK, StreamFacts, StreamLabel,
             RestoreLabel, Groups
    <3>4. CASE StreamRestore("st_r3", 3, MessagesOrReturn("spcProcess"))
      BY <3>4, SMT
         DEF StreamRestore, CpuTypeOK, StreamFacts, StreamLabel,
             RestoreLabel, Groups, MessagesOrReturn, AfterQueue
    <3>5. QED
      BY <1>14, <3>1, <3>2, <3>3, <3>4 DEF StreamRestorePorts
  <2>5. QED
    BY <2>1, <2>2, <2>3, <2>4
<1>15. QED
  BY <1>1, <1>2, <1>3, <1>4, <1>5, <1>6, <1>7, <1>8, <1>9, <1>10, <1>11,
     <1>12, <1>13, <1>14

(* The entry of a call of the program.                                     *)
LEMMA CallStep ==
  ASSUME CpuSide, ApiCall
  PROVE  CpuSide'
<1> USE DEF CpuSide, At, Goto, queueVars, loadVars, digiVars
<1>1. CASE \E c \in Commands : QueueMessage(c)
  <2> PICK c \in Commands : QueueMessage(c)
    BY <1>1
  <2>0. c \in Message
    BY SnesModAssumption, Constants DEF Message
  <2>1. cpuOut' \in [Port -> Byte]
    BY <2>0, SMT DEF QueueMessage
  <2>2. CpuTypeOK'
    BY <2>0, Chunks, Bank, Constants, SMTT(30)
       DEF QueueMessage, CpuTypeOK, Caller, CpuLabel, QueueLabel,
           UploadLabel, RegionLabel, StreamLabel, RestoreLabel
  <2>3. QueueFacts' /\ TransferFacts'
    BY <2>0, Chunks, Bank, Constants, SMTT(30)
       DEF QueueMessage, CpuTypeOK, QueueFacts, TransferFacts, QueueLabel
  <2>4. StreamFacts'
    BY <2>0, Chunks, Bank, Constants, SMTT(30)
       DEF QueueMessage, CpuTypeOK, StreamFacts, StreamLabel, RestoreLabel,
           Groups
  <2>5. QED
    BY <2>1, <2>2, <2>3, <2>4
<1>2. CASE spcProcess
  <2>1. cpuOut' \in [Port -> Byte]
    BY <1>2, SMT DEF spcProcess
  <2>2. CpuTypeOK'
    BY <1>2, Chunks, Bank, Constants, SMTT(30)
       DEF spcProcess, CpuTypeOK, Caller, CpuLabel, QueueLabel, UploadLabel,
           RegionLabel, StreamLabel, RestoreLabel
  <2>3. QueueFacts' /\ TransferFacts'
    BY <1>2, Chunks, Bank, Constants, SMTT(30)
       DEF spcProcess, CpuTypeOK, QueueFacts, TransferFacts, QueueLabel
  <2>4. StreamFacts'
    BY <1>2, Chunks, Bank, Constants, SMTT(30)
       DEF spcProcess, CpuTypeOK, StreamFacts, StreamLabel, RestoreLabel,
           Groups
  <2>5. QED
    BY <2>1, <2>2, <2>3, <2>4
<1>3. CASE spcLoad
  <2>1. cpuOut' \in [Port -> Byte]
    BY <1>3, SMT DEF spcLoad, MessagesOrReturn, AfterQueue
  <2>2. CpuTypeOK'
    <3>1. pc' \in CpuLabel
      BY <1>3
         DEF spcLoad, MessagesOrReturn, AfterQueue, CpuLabel, QueueLabel,
             UploadLabel, RegionLabel, StreamLabel, RestoreLabel
    <3>2. QED
      BY <1>3, <3>1, Bank, SMT DEF spcLoad, CpuTypeOK, Caller
  <2>3. QueueFacts' /\ TransferFacts'
    BY <1>3, Chunks, Bank, Constants, SMTT(30)
       DEF spcLoad, MessagesOrReturn, AfterQueue, CpuTypeOK, QueueFacts,
           TransferFacts, QueueLabel
  <2>4. StreamFacts'
    BY <1>3, Chunks, Bank, Constants, SMTT(30)
       DEF spcLoad, MessagesOrReturn, AfterQueue, CpuTypeOK, StreamFacts,
           StreamLabel, RestoreLabel, Groups
  <2>5. QED
    BY <2>1, <2>2, <2>3, <2>4
<1>4. CASE spcLoadEffect
  <2>1. cpuOut' \in [Port -> Byte]
    BY <1>4, SMT DEF spcLoadEffect
  <2>2. CpuTypeOK'
    BY <1>4, Chunks, Bank, Constants, SMTT(30)
       DEF spcLoadEffect, CpuTypeOK, Caller, CpuLabel, QueueLabel,
           UploadLabel, RegionLabel, StreamLabel, RestoreLabel
  <2>3. QueueFacts' /\ TransferFacts'
    BY <1>4, Chunks, Bank, Constants, SMTT(30)
       DEF spcLoadEffect, CpuTypeOK, QueueFacts, TransferFacts, QueueLabel
  <2>4. StreamFacts'
    BY <1>4, Chunks, Bank, Constants, SMTT(30)
       DEF spcLoadEffect, CpuTypeOK, StreamFacts, StreamLabel, RestoreLabel,
           Groups
  <2>5. QED
    BY <2>1, <2>2, <2>3, <2>4
<1>5. CASE \E s \in Regions : spcAllocateSoundRegion(s)
  <2> PICK s \in Regions : spcAllocateSoundRegion(s)
    BY <1>5
  <2>0. /\ s \in Byte
        /\ [id |-> CMD_SSIZE, lo |-> 0, hi |-> s] \in Message
    BY SnesModAssumption, Constants DEF Message
  <2>1. cpuOut' \in [Port -> Byte]
    BY <2>0, SMT DEF spcAllocateSoundRegion, MessagesOrReturn, AfterQueue
  <2>2. CpuTypeOK'
    BY <2>0, Chunks, Bank, Constants, SMTT(30)
       DEF spcAllocateSoundRegion, MessagesOrReturn, AfterQueue, CpuTypeOK,
           Caller, CpuLabel, QueueLabel, UploadLabel, RegionLabel,
           StreamLabel, RestoreLabel
  <2>3. QueueFacts' /\ TransferFacts'
    BY <2>0, Chunks, Bank, Constants, SMTT(30)
       DEF spcAllocateSoundRegion, MessagesOrReturn, AfterQueue, CpuTypeOK,
           QueueFacts, TransferFacts, QueueLabel
  <2>4. StreamFacts'
    BY <2>0, Chunks, Bank, Constants, SMTT(30)
       DEF spcAllocateSoundRegion, MessagesOrReturn, AfterQueue, CpuTypeOK,
           StreamFacts, StreamLabel, RestoreLabel, Groups
  <2>5. QED
    BY <2>1, <2>2, <2>3, <2>4
<1>6. CASE spcPlaySound
  <2>1. cpuOut' \in [Port -> Byte]
    BY <1>6, SMT DEF spcPlaySound
  <2>2. CpuTypeOK'
    BY <1>6, Chunks, Bank, Constants, SMTT(30)
       DEF spcPlaySound, CpuTypeOK, Caller, CpuLabel, QueueLabel,
           UploadLabel, RegionLabel, StreamLabel, RestoreLabel
  <2>3. QueueFacts' /\ TransferFacts'
    BY <1>6, Chunks, Bank, Constants, SMTT(30)
       DEF spcPlaySound, CpuTypeOK, QueueFacts, TransferFacts, QueueLabel
  <2>4. StreamFacts'
    BY <1>6, Chunks, Bank, Constants, SMTT(30)
       DEF spcPlaySound, CpuTypeOK, StreamFacts, StreamLabel, RestoreLabel,
           Groups
  <2>5. QED
    BY <2>1, <2>2, <2>3, <2>4
<1>7. QED
  BY <1>1, <1>2, <1>3, <1>4, <1>5, <1>6 DEF ApiCall

(* A step that leaves the variables of the S-CPU alone, except for its time*)
(* in the VBlank handler.                                                  *)
LEMMA CpuUnchanged ==
  ASSUME CpuSide, UNCHANGED <<cpuOut, pc, caller, fifo, spc_v, spc_pr,
           spc_sfx_next, size, block, pos, source, digi_active, digi_init,
           digi_remain, digi_src, digi_x, tribytes, accepted, uploads, sounds>>,
         nmi' \in BOOLEAN
  PROVE  CpuSide'
  BY DEF CpuSide, CpuTypeOK, QueueFacts, TransferFacts, StreamFacts, Groups

-----------------------------------------------------------------------------
(* What a step of the SPC700 keeps.                                        *)
SpcSide == spcOut \in [Port -> Byte] /\ SpcTypeOK

(* The counters and shifts of the SPC700 stay bytes.                       *)
LEMMA Bounded ==
  /\ \A v \in Byte : (v + 255) % 256 \in Byte /\ (v + 1) % 256 \in Byte
  /\ \A v \in Byte : (2 * v) % 256 \in Byte
  /\ \A g \in 0..2 : (g + 1) % 3 \in 0..2
  BY SMT DEF Byte

(* What the SPC700 records of a message it executes has the type of a      *)
(* message.                                                                *)
LEMMA LogEntry ==
  ASSUME NEW id \in Byte, NEW lo \in Byte, NEW hi \in Byte
  PROVE  Arguments(Low7(id), lo, hi) \in [id : Byte, lo : Byte, hi : Byte]
<1>1. Low7(id) \in Byte
  BY SMT DEF Byte, Low7
<1>2. QED
  BY <1>1, Constants DEF Arguments

(* The main loop of the SPC700 and ProcessComms.                           *)
LEMMA CommsStepTypes ==
  ASSUME SpcSide, cpuOut \in [Port -> Byte], CommsStep
  PROVE  SpcSide'
<1> USE DEF SpcSide, SpcAt, SpcGoto, transferVars, streamVars
<1>1. CASE SPROC
  <2>1. spcOut' \in [Port -> Byte]
    BY <1>1, PortWrite, Constants, Bounded DEF SPROC, SpcTypeOK, SpcWrite
  <2>2. SpcTypeOK'
    BY <1>1, Constants, Bounded
       DEF SPROC, SpcTypeOK, SpcLabel, SproLabel, CommsLabel, TransferLabel,
           StreamingLabel
  <2>3. QED
    BY <2>1, <2>2
<1>2. CASE OtherRoutine
  <2>1. spcOut' \in [Port -> Byte]
    BY <1>2, Constants, Bounded DEF OtherRoutine, SpcTypeOK
  <2>2. SpcTypeOK'
    BY <1>2, Constants, Bounded
       DEF OtherRoutine, NextStage, NextRoutine, Routine, SpcTypeOK,
           SpcLabel, SproLabel, CommsLabel, TransferLabel, StreamingLabel
  <2>3. QED
    BY <2>1, <2>2
<1>3. CASE NoMessage
  <2>1. spcOut' \in [Port -> Byte]
    BY <1>3, Constants, Bounded DEF NoMessage, SpcTypeOK
  <2>2. SpcTypeOK'
    BY <1>3, Constants, Bounded
       DEF NoMessage, NextStage, NextRoutine, Routine, SpcTypeOK, SpcLabel,
           SproLabel, CommsLabel, TransferLabel, StreamingLabel
  <2>3. QED
    BY <2>1, <2>2
<1>4. CASE NewMessage
  <2>1. spcOut' \in [Port -> Byte]
    BY <1>4, Constants, Bounded DEF NewMessage, SpcTypeOK
  <2>2. SpcTypeOK'
    BY <1>4, Constants, Bounded
       DEF NewMessage, SpcTypeOK, SpcLabel, SproLabel, CommsLabel,
           TransferLabel, StreamingLabel
  <2>3. QED
    BY <2>1, <2>2
<1>5. CASE VerifyMessage
  <2>1. spcOut' \in [Port -> Byte]
    BY <1>5, Constants, Bounded DEF VerifyMessage, SpcTypeOK
  <2>2. SpcTypeOK'
    BY <1>5, Constants, Bounded
       DEF VerifyMessage, SpcTypeOK, SpcLabel, SproLabel, CommsLabel,
           TransferLabel, StreamingLabel
  <2>3. QED
    BY <2>1, <2>2
<1>6. CASE ExecuteCommand
  <2>0. Arguments(Low7(spcA), cpuOut[2], cpuOut[3])
          \in [id : Byte, lo : Byte, hi : Byte]
    BY LogEntry, Constants DEF SpcTypeOK
  <2>1. spcOut' \in [Port -> Byte]
    BY <1>6, Constants, Bounded DEF ExecuteCommand, SpcTypeOK
  <2>2. SpcTypeOK'
    BY <1>6, <2>0, Constants, Bounded
       DEF ExecuteCommand, SpcTypeOK, SpcLabel, SproLabel, CommsLabel,
           TransferLabel, StreamingLabel
  <2>3. QED
    BY <2>1, <2>2
<1>7. CASE CommandRet
  <2>1. spcOut' \in [Port -> Byte]
    BY <1>7, PortWrite, Constants, Bounded DEF CommandRet, SpcTypeOK, SpcWrite
  <2>2. SpcTypeOK'
    BY <1>7, Constants, Bounded
       DEF CommandRet, NextStage, NextRoutine, Routine, SpcTypeOK, SpcLabel,
           SproLabel, CommsLabel, TransferLabel, StreamingLabel
  <2>3. QED
    BY <2>1, <2>2
<1>8. QED
  BY <1>1, <1>2, <1>3, <1>4, <1>5, <1>6, <1>7 DEF CommsStep

(* The transfers of the SPC700, CMD_LOAD and CMD_LOADE.                    *)
LEMMA TransferStepTypes ==
  ASSUME SpcSide, cpuOut \in [Port -> Byte], TransferStep
  PROVE  SpcSide'
<1> USE DEF SpcSide, SpcAt, SpcGoto, transferVars, streamVars
<1>1. CASE BeginLoad
  <2>1. spcOut' \in [Port -> Byte]
    BY <1>1, Constants, Bounded DEF BeginLoad, SpcTypeOK
  <2>2. SpcTypeOK'
    <3>1. next_sample' \in Nat /\ directory' \in Seq(Word)
      <4>1. <<>> \in Seq(Word) /\ next_sample + 1 \in Nat /\ 0 \in Nat
        BY SMT DEF SpcTypeOK
      <4>2. CASE loading' = CMD_LOAD
        BY <1>1, <4>2, <4>1, Zenon DEF BeginLoad
      <4>3. CASE loading' # CMD_LOAD
        BY <1>1, <4>3, <4>1, Zenon DEF BeginLoad, SpcTypeOK
      <4>4. QED
        BY <4>2, <4>3
    <3>2. QED
      BY <1>1, <3>1
         DEF BeginLoad, SpcTypeOK, SpcLabel, SproLabel, CommsLabel,
             TransferLabel, StreamingLabel
  <2>3. QED
    BY <2>1, <2>2
<1>2. CASE StartTransfer
  <2>1. spcOut' \in [Port -> Byte]
    BY <1>2, PortWrite, Constants, Bounded
       DEF StartTransfer, SpcTypeOK, SpcWrite
  <2>2. SpcTypeOK'
    BY <1>2, Constants, Bounded
       DEF StartTransfer, SpcTypeOK, SpcLabel, SproLabel, CommsLabel,
           TransferLabel, StreamingLabel
  <2>3. QED
    BY <2>1, <2>2
<1>3. CASE DoTransfer
  <2>0. WordFromCpu \in Word
    BY TwoBytes, Constants DEF WordFromCpu
  <2>1. spcOut' \in [Port -> Byte]
    BY <1>3, Constants, Bounded DEF DoTransfer, SpcTypeOK
  <2>2. SpcTypeOK'
    BY <1>3, <2>0, Constants, Bounded
       DEF DoTransfer, SpcTypeOK, SpcLabel, SproLabel, CommsLabel,
           TransferLabel, StreamingLabel
  <2>3. QED
    BY <2>1, <2>2
<1>4. CASE TransferReply
  <2>1. spcOut' \in [Port -> Byte]
    BY <1>4, PortWrite, Constants, Bounded
       DEF TransferReply, SpcTypeOK, SpcWrite
  <2>2. SpcTypeOK'
    BY <1>4, Constants, Bounded
       DEF TransferReply, SpcTypeOK, SpcLabel, SproLabel, CommsLabel,
           TransferLabel, StreamingLabel
  <2>3. QED
    BY <2>1, <2>2
<1>5. CASE WaitForSource
  <2>1. spcOut' \in [Port -> Byte]
    BY <1>5, Constants, Bounded DEF WaitForSource, SpcTypeOK
  <2>2. SpcTypeOK'
    BY <1>5, Constants, Bounded
       DEF WaitForSource, SpcTypeOK, SpcLabel, SproLabel, CommsLabel,
           TransferLabel, StreamingLabel
  <2>3. QED
    BY <2>1, <2>2
<1>6. CASE NextSource
  <2>0. WordFromCpu \in Word
    BY TwoBytes, Constants DEF WordFromCpu
  <2>1. spcOut' \in [Port -> Byte]
    BY <1>6, Constants, Bounded DEF NextSource, SpcTypeOK
  <2>2. SpcTypeOK'
    BY <1>6, <2>0, Constants, Bounded
       DEF NextSource, SpcTypeOK, SpcLabel, SproLabel, CommsLabel,
           TransferLabel, StreamingLabel
  <2>3. QED
    BY <2>1, <2>2
<1>7. CASE EndOfSources
  <2>1. spcOut' \in [Port -> Byte]
    BY <1>7, Constants, Bounded DEF EndOfSources, SpcTypeOK
  <2>2. SpcTypeOK'
    BY <1>7, Constants, Bounded
       DEF EndOfSources, SpcTypeOK, SpcLabel, SproLabel, CommsLabel,
           TransferLabel, StreamingLabel
  <2>3. QED
    BY <2>1, <2>2
<1>8. QED
  BY <1>1, <1>2, <1>3, <1>4, <1>5, <1>6, <1>7 DEF TransferStep

(* Streaming_Run, the part of the SPC700 that takes the groups of three.   *)
LEMMA StreamingStepTypes ==
  ASSUME SpcSide, cpuOut \in [Port -> Byte], StreamingStep
  PROVE  SpcSide'
<1> USE DEF SpcSide, SpcAt, SpcGoto, transferVars, streamVars
<1>1. CASE StreamingReady
  <2>1. spcOut' \in [Port -> Byte]
    BY <1>1, PortWrite, Constants, Bounded
       DEF StreamingReady, SpcTypeOK, SpcWrite
  <2>2. SpcTypeOK'
    BY <1>1, Constants, Bounded
       DEF StreamingReady, SpcTypeOK, SpcLabel, SproLabel, CommsLabel,
           TransferLabel, StreamingLabel
  <2>3. QED
    BY <2>1, <2>2
<1>2. CASE StreamingAmount
  <2>1. spcOut' \in [Port -> Byte]
    BY <1>2, Constants, Bounded DEF StreamingAmount, SpcTypeOK
  <2>2. SpcTypeOK'
    BY <1>2, Constants, Bounded
       DEF StreamingAmount, SpcTypeOK, SpcLabel, SproLabel, CommsLabel,
           TransferLabel, StreamingLabel
  <2>3. QED
    BY <2>1, <2>2
<1>3. CASE StreamingNote
  <2>1. spcOut' \in [Port -> Byte]
    BY <1>3, Constants, Bounded DEF StreamingNote, SpcTypeOK
  <2>2. SpcTypeOK'
    <3>1. cpuOut[2] \in Byte /\ cpuOut[3] \in Byte
      BY Constants
    <3>2. /\ stream_note' \in Byte \X Byte /\ stream_buf' \in Seq(Byte)
          /\ stream_initial' \in BOOLEAN
      <4>1. /\ <<>> \in Seq(Byte) /\ TRUE \in BOOLEAN
            /\ <<cpuOut[2], cpuOut[3]>> \in Byte \X Byte
        BY <3>1, SMT
      <4>2. CASE cpuOut[1] # 0
        BY <1>3, <3>1, <4>1, <4>2, Zenon DEF StreamingNote
      <4>3. CASE cpuOut[1] = 0
        BY <1>3, <4>3, Zenon DEF StreamingNote, SpcTypeOK
      <4>4. QED
        BY <4>2, <4>3
    <3>3. QED
      BY <1>3, <3>2
         DEF StreamingNote, SpcTypeOK, SpcLabel, SproLabel, CommsLabel,
             TransferLabel, StreamingLabel
  <2>3. QED
    BY <2>1, <2>2
<1>4. CASE StreamingEcho
  <2>1. spcOut' \in [Port -> Byte]
    BY <1>4, PortWrite, Constants, Bounded
       DEF StreamingEcho, SpcTypeOK, SpcWrite
  <2>2. SpcTypeOK'
    BY <1>4, Constants, Bounded
       DEF StreamingEcho, SpcTypeOK, SpcLabel, SproLabel, CommsLabel,
           TransferLabel, StreamingLabel
  <2>3. QED
    BY <2>1, <2>2
<1>5. CASE StreamingWait
  <2>1. spcOut' \in [Port -> Byte]
    BY <1>5, Constants, Bounded DEF StreamingWait, SpcTypeOK
  <2>2. SpcTypeOK'
    BY <1>5, Constants, Bounded
       DEF StreamingWait, SpcTypeOK, SpcLabel, SproLabel, CommsLabel,
           TransferLabel, StreamingLabel
  <2>3. QED
    BY <2>1, <2>2
<1>6. CASE StreamingCopy
  <2>1. spcOut' \in [Port -> Byte]
    BY <1>6, PortWrite, Constants, Bounded
       DEF StreamingCopy, SpcTypeOK, SpcWrite
  <2>2. SpcTypeOK'
    BY <1>6, Constants, Bounded
       DEF StreamingCopy, SpcTypeOK, SpcLabel, SproLabel, CommsLabel,
           TransferLabel, StreamingLabel
  <2>3. QED
    BY <2>1, <2>2
<1>7. CASE StreamingExit
  <2>1. spcOut' \in [Port -> Byte]
    BY <1>7, Constants, Bounded DEF StreamingExit, SpcTypeOK
  <2>2. SpcTypeOK'
    BY <1>7, Constants, Bounded
       DEF StreamingExit, SpcTypeOK, SpcLabel, SproLabel, CommsLabel,
           TransferLabel, StreamingLabel
  <2>3. QED
    BY <2>1, <2>2
<1>8. QED
  BY <1>1, <1>2, <1>3, <1>4, <1>5, <1>6, <1>7 DEF StreamingStep

(* A step that leaves the variables of the SPC700 alone.                   *)
LEMMA SpcUnchanged ==
  ASSUME SpcSide, UNCHANGED <<spcOut, spcVars>>
  PROVE  SpcSide'
  BY DEF SpcSide, SpcTypeOK, spcVars

(* The inductive invariant: the types are inductive only with the facts    *)
(* that bound what the S-CPU reads, since an element beyond a sequence has *)
(* no type.                                                                *)
LinkInv == LinkTypeOK /\ QueueFacts /\ TransferFacts /\ StreamFacts

(* Both processors start, after spcBoot, with the facts above.             *)
LEMMA InitLinkInv == Init => LinkInv
<1> SUFFICES ASSUME Init PROVE LinkInv
  OBVIOUS
<1> USE DEF Init, CpuInit, SpcInit
<1>1. cpuOut \in [Port -> Byte] /\ spcOut \in [Port -> Byte]
  BY SMT DEF Port, Byte
<1>2. CpuTypeOK
  BY Constants, SMT DEF CpuTypeOK, CpuLabel, Caller
<1>3. SpcTypeOK
  BY Constants, SMT DEF SpcTypeOK, SpcLabel, SproLabel, Routine
<1>4. QueueFacts /\ TransferFacts /\ StreamFacts
  BY
     DEF QueueFacts, TransferFacts, StreamFacts, QueueLabel, StreamLabel,
         RestoreLabel
<1>5. QED
  BY <1>1, <1>2, <1>3, <1>4 DEF LinkInv, LinkTypeOK, PortsTypeOK

(* Every step of the S-CPU, of the VBlank handler and of the SPC700 keeps  *)
(* them.                                                                   *)
LEMMA NextLinkInv == LinkInv /\ [Next]_vars => LinkInv'
<1> SUFFICES ASSUME CpuSide, SpcSide, [Next]_vars
             PROVE  CpuSide' /\ SpcSide'
  BY DEF LinkInv, LinkTypeOK, PortsTypeOK, CpuSide, SpcSide
<1>1. CASE Cpu
  <2>1. SpcSide'
    BY <1>1, SpcUnchanged DEF Cpu
  <2>2. CASE ApiCall
    BY <2>1, <2>2, CallStep
  <2>3. CASE CpuStep
    BY <2>1, <2>3, QueueStep, UploadStep, RegionStep, StreamStep DEF CpuStep
  <2>4. QED
    BY <1>1, <2>2, <2>3 DEF Cpu
<1>2. CASE Nmi
  <2>1. SpcSide'
    BY <1>2, SpcUnchanged DEF Nmi
  <2>2. CpuSide'
    BY <1>2, CpuUnchanged
       DEF Nmi, NmiBegin, NmiEnd, queueVars, loadVars, digiVars
  <2>3. QED
    BY <2>1, <2>2
<1>3. CASE Spc
  <2>1. CpuSide'
    BY <1>3, CpuUnchanged DEF Spc, cpuVars, CpuSide, CpuTypeOK
  <2>2. SpcSide'
    BY <1>3, CommsStepTypes, TransferStepTypes, StreamingStepTypes
       DEF Spc, CpuSide
  <2>3. QED
    BY <2>1, <2>2
<1>4. CASE UNCHANGED vars
  BY <1>4, CpuUnchanged, SpcUnchanged
     DEF vars, portVars, cpuVars, CpuSide, CpuTypeOK
<1>5. QED
  BY <1>1, <1>2, <1>3, <1>4 DEF Next

(* Every variable of both processors keeps its type: ports, validation     *)
(* bytes and counters are bytes, addresses are words, and what the SPC700  *)
(* has received is made of words, bytes and messages.                      *)
THEOREM LinkTypes == Spec => []LinkTypeOK
<1>1. LinkInv => LinkTypeOK
  BY DEF LinkInv
<1>2. QED
  BY <1>1, InitLinkInv, NextLinkInv, PTL DEF Spec

(* The S-CPU never reads beyond what it was given: it dequeues only from a *)
(* queue that is not empty, the word it uploads is one of the module,      *)
(* effect or sample in hand (source is the number of a sample of the       *)
(* module), and the bytes it streams lie within the sound, whose end it    *)
(* reaches exactly with its last group.                                    *)
THEOREM ReadsInside == Spec => [](QueueFacts /\ TransferFacts /\ StreamFacts)
<1>1. LinkInv => QueueFacts /\ TransferFacts /\ StreamFacts
  BY DEF LinkInv
<1>2. QED
  BY <1>1, InitLinkInv, NextLinkInv, PTL DEF Spec
=============================================================================
