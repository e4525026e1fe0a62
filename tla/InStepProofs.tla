----------------------------- MODULE InStepProofs -----------------------------
(***************************************************************************)
(* The two processors never lose step with each other, whatever the sound  *)
(* bank, the messages and the bounds: InStep is an invariant.              *)
(***************************************************************************)
EXTENDS SpcLinkInv, SpcLinkProofs

(* A streaming call is in progress only where nothing disturbs it.         *)
Calm == pc \in StreamLabel => Regions = {} /\ ~nmi

(* A step that neither asks for a message nor moves one.                   *)
Unmoved ==
  /\ Outstanding' <=> Outstanding
  /\ Outstanding => Current' = Current
  /\ AskedSize' = AskedSize

-----------------------------------------------------------------------------
(* A new validation byte is never the one the SPC700 has replied to, and   *)
(* the ones the loaders send are odd, hence not the zero that ends a       *)
(* transfer.                                                               *)
LEMMA Toggling ==
  \A v \in Byte :
    /\ Toggle(v) \in Byte /\ Toggle(v) # v
    /\ v % 2 = 1 => Toggle(v) % 2 = 1
    /\ MakeOdd(Toggle(v)) \in Byte /\ MakeOdd(Toggle(v)) # v
    /\ MakeOdd(Toggle(v)) % 2 = 1
  BY SMT DEF Byte, Toggle, MakeOdd

(* The S-CPU is in the streaming routine only if there is a sound to       *)
(* stream, so in an undisturbed instance no VBlank handler delays it.      *)
LEMMA StreamsCalmly == ASSUME LinkInv, Phases, Undisturbed PROVE Calm
  BY DEF LinkInv, Phases, Undisturbed, Calm, StreamFacts, StreamPhase

(* What the SPC700 is to store of a transfer is decided when it begins.    *)
LEMMA StoredKept ==
  UNCHANGED <<block, source, pos>> => Stored' = Stored /\ Taking' = Taking
  BY DEF Stored, Taking

(* They are words, and those of the block unless it is empty.              *)
LEMMA StoredWords ==
  ASSUME LinkInv, block # <<>> \/ source \in 1..Len(ModuleSources)
  PROVE  Stored \in Seq(Word) /\ 1 <= Len(Stored)
<1>1. block \in Seq(Word)
  BY DEF LinkInv, LinkTypeOK, CpuTypeOK
<1>2. CASE block # <<>>
  BY <1>1, <1>2 DEF Stored
<1>3. CASE block = <<>>
  <2>1. ModuleSources[source].loop \in Word
    BY <1>3, Bank
  <2>2. QED
    BY <1>3, <2>1 DEF Stored
<1>4. QED
  BY <1>2, <1>3

(* The message at the head of the queue is one of the program's, and what  *)
(* the SPC700 reads of it is all of it.                                    *)
LEMMA HeadCommand ==
  \A s \in Seq(Commands) : s # <<>> =>
    /\ Tail(s) \in Seq(Commands)
    /\ Head(s) = Arguments(Head(s).id, Head(s).lo, Head(s).hi)
    /\ Head(s).id \in {CMD_PLAY, CMD_STOP, CMD_MVOL, CMD_FADE, CMD_FX}
    /\ Head(s).id \in Byte /\ Head(s).id <= CMD_SSIZE
    /\ Head(s).lo \in Byte /\ Head(s).hi \in Byte
    /\ Head(s) = s[1] /\ 1 \in 1..Len(s)
    /\ \A i \in 1..Len(Tail(s)) : Tail(s)[i] = s[i + 1] /\ i + 1 \in 1..Len(s)
<1> SUFFICES ASSUME NEW s \in Seq(Commands), s # <<>>
             PROVE  /\ Tail(s) \in Seq(Commands)
                    /\ Head(s) = Arguments(Head(s).id, Head(s).lo, Head(s).hi)
                    /\ Head(s).id \in {CMD_PLAY, CMD_STOP, CMD_MVOL, CMD_FADE,
                                       CMD_FX}
                    /\ Head(s).id \in Byte /\ Head(s).id <= CMD_SSIZE
                    /\ Head(s).lo \in Byte /\ Head(s).hi \in Byte
                    /\ Head(s) = s[1] /\ 1 \in 1..Len(s)
                    /\ \A i \in 1..Len(Tail(s)) :
                         Tail(s)[i] = s[i + 1] /\ i + 1 \in 1..Len(s)
  OBVIOUS
<1>1. /\ Tail(s) \in Seq(Commands) /\ Head(s) \in Commands
      /\ Head(s) = s[1] /\ 1 \in 1..Len(s)
      /\ \A i \in 1..Len(Tail(s)) :
           Tail(s)[i] = s[i + 1] /\ i + 1 \in 1..Len(s)
  BY SMT
<1>2. /\ Head(s) = Arguments(Head(s).id, Head(s).lo, Head(s).hi)
      /\ Head(s).id \in {CMD_PLAY, CMD_STOP, CMD_MVOL, CMD_FADE, CMD_FX}
  BY <1>1, CommandsAssumption
<1>3. Head(s).id \in Byte /\ Head(s).lo \in Byte /\ Head(s).hi \in Byte
  BY <1>1, SnesModAssumption DEF Message
<1>4. Head(s).id <= CMD_SSIZE
  BY <1>2, SMT
     DEF CMD_PLAY, CMD_STOP, CMD_MVOL, CMD_FADE, CMD_FX, CMD_SSIZE
<1>5. QED
  BY <1>1, <1>2, <1>3, <1>4

(* A queue one message longer holds that message and the ones before.      *)
LEMMA Queued ==
  \A s \in Seq(Commands), c \in Commands :
    /\ Append(s, c) \in Seq(Commands)
    /\ \A i \in 1..Len(Append(s, c)) :
         \/ i \in 1..Len(s) /\ Append(s, c)[i] = s[i]
         \/ Append(s, c)[i] = c
  BY SMT

(* The effect a queued message plays is a number.                          *)
LEMMA EffectIndex ==
  \A s \in Seq(Message) : \A i \in 1..Len(s) : s[i].hi \div 16 \in Int
<1>1. \A v \in Byte : v \div 16 \in Int
  BY SMT DEF Byte
<1>2. ASSUME NEW s \in Seq(Message), NEW i \in 1..Len(s)
      PROVE  s[i].hi \in Byte
  <2>1. s[i] \in Message
    BY <1>2, ElementOfSeq
  <2>2. QED
    BY <2>1 DEF Message
<1>3. QED
  BY <1>1, <1>2

(* The ids of the two load messages have no streaming signal in them.      *)
LEMMA LoadIds == Low7(CMD_LOAD) = CMD_LOAD /\ Low7(CMD_LOADE) = CMD_LOADE
  BY SMT DEF Low7, CMD_LOAD, CMD_LOADE

(* A 16-bit store to ports 2 and 3 is the word the SPC700 finds there.     *)
LEMMA WordStored ==
  ASSUME cpuOut \in [Port -> Byte], NEW w \in Word, CpuWriteWord(w)
  PROVE  WordFromCpu' = w /\ cpuOut'[0] = cpuOut[0] /\ cpuOut'[1] = cpuOut[1]
<1>1. \A n \in Nat : n = (n % 256) + 256 * (n \div 256)
  BY SMT
<1>2. cpuOut'[2] = w % 256 /\ cpuOut'[3] = w \div 256
  BY Constants DEF CpuWriteWord
<1>3. WordFromCpu' = w
  BY <1>1, <1>2, WordRange, SMT DEF WordFromCpu
<1>4. QED
  BY <1>3, Constants DEF CpuWriteWord

(* Up to 28 blocks are sent in a call, three groups to a block, counted    *)
(* down in one byte; the counter in port 0 is at most 112 (four times 28), *)
(* so bit 7 of the port never becomes a streaming signal by counting.      *)
LEMMA Counters ==
  /\ \A n \in 1..28 : (3 * n) % 256 = 3 * n
  /\ \A n \in 0..127 : (n + 1) % 256 = n + 1
  /\ \A n \in 1..255 : (n + 255) % 256 = n - 1
<1>1. \A n \in 1..28 : (3 * n) % 256 = 3 * n
  BY SMT
<1>2. \A n \in 0..127 : (n + 1) % 256 = n + 1
  BY SMT
<1>3. \A n \in 1..255 : (n + 255) % 256 = n - 1
  BY SMT
<1>4. QED
  BY <1>1, <1>2, <1>3

(* Every call that streams copies at least one block and at most 28.       *)
LEMMA Amount ==
  ASSUME digi_remain \in Nat, digi_remain # 0
  PROVE  CopyAmount \in 1..28
  BY Chunks, SMT DEF CopyAmount

(* What is left of a sequence is the sequence from its second element.     *)
LEMMA TailElements ==
  ASSUME NEW S, NEW s \in Seq(S), s # <<>>, NEW i \in 1..Len(Tail(s))
  PROVE  i + 1 \in 1..Len(s) /\ Tail(s)[i] = s[i + 1]
  OBVIOUS

(* The numbers the streaming protocol compares and counts.                 *)
LEMMA StreamNumbers ==
  ASSUME LinkTypeOK
  PROVE  /\ cpuOut[0] \in 0..255 /\ spcOut[0] \in 0..255
         /\ spc_pr[0] \in 0..255 /\ SetBit7(spc_pr[0]) >= 128
         /\ digi_x \in 0..255 /\ tribytes \in 0..255
         /\ spcX \in 0..255 /\ stream_a \in 0..255 /\ group \in 0..2
         /\ Left \in Int
<1>1. /\ cpuOut[0] \in Byte /\ spcOut[0] \in Byte /\ spc_pr[0] \in Byte
      /\ digi_x \in Byte /\ tribytes \in Byte
      /\ spcX \in Byte /\ stream_a \in Byte /\ group \in 0..2
  BY Constants DEF LinkTypeOK, PortsTypeOK, CpuTypeOK, SpcTypeOK
<1>2. QED
  BY <1>1, SMT DEF Byte, SetBit7, Left

(* asl SPC_PORT0 shifts the streaming signal out of the port: what the     *)
(* SPC700 leaves in its latch is not taken for its reply.                  *)
LEMMA Shifted ==
  ASSUME LinkTypeOK, StreamPhase, spcPc = "sproc"
  PROVE  (2 * cpuOut[0]) % 256 < 128 /\ (cpuOut[0] >= 128 => pc = "st_wait")
<1>1. /\ pc # "st_wait" => cpuOut[0] <= CMD_SSIZE
      /\ pc = "st_wait" => cpuOut[0] = SetBit7(spc_pr[0])
      /\ spc_pr[0] <= CMD_SSIZE
  BY DEF StreamPhase, StreamLabel, RestoreLabel, StreamingLabel, Ahead, Behind
<1>2. \A n \in 0..255 : n <= 10 =>
        /\ (2 * n) % 256 < 128 /\ SetBit7(n) = n + 128
        /\ (2 * (n + 128)) % 256 < 128
  BY SMT DEF SetBit7
<1>3. QED
  BY <1>1, <1>2, StreamNumbers, SMT DEF CMD_SSIZE

(* While the S-CPU waits for the reply to a group, StreamPhase only asks   *)
(* where the SPC700 is with that group.                                    *)
LEMMA GroupPhase ==
  ASSUME StreamPhase, pc \in {"st_sync", "st_last"},
         UNCHANGED <<cpuOut, cpuVars>>,
         spcPc' \in {"sr_wait", "sr_copy", "sr_exit"}, spcOut'[0] < 128,
         pc = "st_sync" => Ahead(digi_x)' \/ Behind(digi_x)',
         \/ pc = "st_sync"
         \/ Behind(digi_x)'
         \/ spcPc' = "sr_exit" /\ spcOut'[0] = digi_x
  PROVE  StreamPhase'
  BY SMTT(240)
     DEF StreamPhase, StreamLabel, RestoreLabel, StreamingLabel, cpuVars

(* Before a group is signalled, it is the one the SPC700 waits for.         *)
LEMMA SendNumbers ==
  ASSUME LinkTypeOK, StreamPhase, StreamFacts, pc = "st_send"
  PROVE  /\ tribytes \in 1..255 /\ digi_x \in 1..113
         /\ digi_x + tribytes <= 113 /\ Ahead(digi_x - 1)
<1>1. /\ digi_x >= 1 /\ digi_x + tribytes <= 113 /\ Ahead(digi_x - 1)
      /\ tribytes # 0
  BY DEF StreamPhase, StreamFacts
<1>2. digi_x \in 0..255 /\ tribytes \in 0..255
  BY StreamNumbers
<1>3. QED
  BY <1>1, <1>2, SMT

(* When the SPC700 sees the counter it waits for, or copies a group, the   *)
(* S-CPU has just sent that group and waits for the reply.                 *)
LEMMA GroupSent ==
  ASSUME LinkTypeOK, StreamPhase, StreamFacts,
         spcPc = "sr_copy" \/ (spcPc = "sr_wait" /\ spcX = cpuOut[0])
  PROVE  /\ pc \in {"st_sync", "st_last"} /\ Behind(digi_x)
         /\ digi_x \in 0..112 /\ tribytes \in 0..255
         /\ pc = "st_last" <=> tribytes = 0
<1>1. pc \in StreamLabel \ {"st_begin"}
  BY DEF StreamPhase, StreamingLabel
<1>2. pc \notin {"st_wait", "st_p1", "st_vp", "st_pitch", "st_note", "st_n"}
  BY DEF StreamPhase, StreamingLabel
<1>3. pc \notin RestoreLabel
  BY DEF StreamPhase
<1>4. ASSUME pc \in {"st_data", "st_third", "st_send"} PROVE FALSE
  <2>1. cpuOut[0] = digi_x - 1 /\ Ahead(digi_x - 1)
    BY <1>4 DEF StreamPhase
  <2>2. QED
    BY <2>1, StreamNumbers, SMT DEF Ahead
<1>5. ASSUME pc = "st_sync"
      PROVE  Behind(digi_x) /\ digi_x \in 0..112 /\ tribytes # 0
  <2>1. cpuOut[0] = digi_x /\ digi_x + tribytes <= 112
    BY <1>5 DEF StreamPhase
  <2>2. Ahead(digi_x) \/ Behind(digi_x)
    BY <1>5 DEF StreamPhase
  <2>3. ~Ahead(digi_x)
    BY <2>1, StreamNumbers, SMT DEF Ahead
  <2>4. digi_x \in 0..112
    <3>1. digi_x \in 0..255 /\ tribytes \in 0..255
      BY StreamNumbers
    <3>2. QED
      BY <2>1, <3>1, SMT
  <2>5. tribytes # 0
    BY <1>5 DEF StreamFacts
  <2>6. QED
    BY <2>2, <2>3, <2>4, <2>5
<1>6. ASSUME pc = "st_last"
      PROVE  Behind(digi_x) /\ digi_x \in 0..112 /\ tribytes = 0
  <2>1. tribytes = 0 /\ digi_x <= 112 /\ Behind(digi_x)
    BY <1>6 DEF StreamPhase
  <2>2. QED
    BY <2>1, StreamNumbers, SMT
<1>7. pc \in {"st_sync", "st_last"}
  BY <1>1, <1>2, <1>3, <1>4 DEF StreamLabel
<1>8. QED
  BY <1>5, <1>6, <1>7, StreamNumbers

(* With the third group of the last block the SPC700 leaves Streaming_Run, *)
(* with any other it waits for the next one.                               *)
LEMMA GroupCopied ==
  ASSUME LinkTypeOK, StreamingCopy, Behind(digi_x), UNCHANGED cpuVars,
         digi_x \in 0..112
  PROVE  /\ spcOut'[0] = digi_x
         /\ IF tribytes = 0 THEN spcPc' = "sr_exit" ELSE Ahead(digi_x)'
<1>1. /\ tribytes \in 0..255 /\ stream_a \in 0..255 /\ group \in 0..2
      /\ spcX = digi_x /\ 3 * stream_a - group = tribytes + 1
  BY StreamNumbers DEF Behind, Left
<1>2. (spcX + 1) % 256 = digi_x + 1
  BY <1>1, Counters, SMT
<1>3. spcOut'[0] = digi_x /\ tribytes' = tribytes /\ digi_x' = digi_x
  BY <1>1, SMT DEF StreamingCopy, SpcWrite, LinkTypeOK, PortsTypeOK, Port,
                   cpuVars
<1>4. CASE group = 2
  <2>1. stream_a \in 1..255 /\ (tribytes = 0 <=> stream_a = 1)
    BY <1>1, <1>4, SMT
  <2>2. (stream_a + 255) % 256 = stream_a - 1
    BY <2>1, Counters
  <2>3. /\ stream_a' = stream_a - 1 /\ group' = 0
        /\ spcPc' = IF stream_a = 1 THEN "sr_exit" ELSE "sr_wait"
        /\ spcX' = IF stream_a = 1 THEN spcX ELSE digi_x + 1
    BY <1>2, <1>4, <2>2, SMT DEF StreamingCopy, SpcGoto
  <2>4. 3 * stream_a' - group' = tribytes'
    BY <1>1, <1>3, <1>4, <2>1, <2>3, SMT
  <2>5. QED
    BY <1>3, <2>1, <2>3, <2>4 DEF Ahead, Left
<1>5. CASE group # 2
  <2>1. (group + 1) % 3 = group + 1 /\ tribytes # 0
    BY <1>1, <1>5, SMT
  <2>2. /\ stream_a' = stream_a /\ group' = group + 1
        /\ spcPc' = "sr_wait" /\ spcX' = digi_x + 1
    BY <1>2, <1>5, <2>1 DEF StreamingCopy, SpcGoto
  <2>3. 3 * stream_a' - group' = tribytes'
    BY <1>1, <1>3, <2>2, SMT
  <2>4. QED
    BY <1>3, <2>1, <2>2, <2>3 DEF Ahead, Left
<1>6. QED
  BY <1>3, <1>4, <1>5

(* The steps of Streaming_Run keep the count of the groups in step with    *)
(* the S-CPU's.                                                            *)
LEMMA StreamingCounts ==
  ASSUME LinkTypeOK, StreamPhase, StreamFacts, Calm,
         UNCHANGED <<cpuOut, cpuVars>>,
         \/ StreamingReady \/ StreamingAmount \/ StreamingNote
         \/ StreamingEcho \/ StreamingWait \/ StreamingCopy
         \/ StreamingExit /\ InTime
  PROVE  StreamPhase'
<1>1. CASE StreamingWait
  <2>1. /\ spcPc = "sr_wait" /\ spcX = cpuOut[0] /\ spcPc' = "sr_copy"
        /\ UNCHANGED <<spcOut, spcX, stream_a, group>>
    BY <1>1 DEF StreamingWait, SpcAt, SpcGoto, streamVars
  <2>2. /\ pc \in {"st_sync", "st_last"} /\ Behind(digi_x)
        /\ digi_x \in 0..112
    BY <2>1, GroupSent
  <2>3. Behind(digi_x)'
    BY <2>1, <2>2 DEF Behind, Left, cpuVars
  <2>4. spcOut'[0] < 128
    BY <2>1, <2>2, StreamNumbers, SMT DEF Behind
  <2>5. QED
    BY <2>1, <2>2, <2>3, <2>4, GroupPhase
<1>2. CASE StreamingCopy
  <2>1. spcPc = "sr_copy"
    BY <1>2 DEF StreamingCopy, SpcAt
  <2>2. /\ pc \in {"st_sync", "st_last"} /\ Behind(digi_x)
        /\ digi_x \in 0..112 /\ tribytes \in 0..255
        /\ pc = "st_last" <=> tribytes = 0
    BY <2>1, GroupSent
  <2>3. /\ spcOut'[0] = digi_x
        /\ IF tribytes = 0 THEN spcPc' = "sr_exit" ELSE Ahead(digi_x)'
    BY <1>2, <2>2, GroupCopied
  <2>4. spcOut'[0] < 128
    BY <2>2, <2>3, SMT
  <2>5. spcPc' \in {"sr_wait", "sr_copy", "sr_exit"}
    BY <2>3 DEF Ahead
  <2>6. pc = "st_sync" => Ahead(digi_x)'
    BY <2>2, <2>3
  <2>7. pc = "st_sync" \/ (spcPc' = "sr_exit" /\ spcOut'[0] = digi_x)
    BY <2>2, <2>3
  <2>8. QED
    BY <2>2, <2>4, <2>5, <2>6, <2>7, GroupPhase
<1> USE StreamNumbers
    DEF StreamPhase, Ahead, Behind, Left, StreamLabel, RestoreLabel,
        StreamingLabel, cpuVars, SpcAt, SpcGoto, SpcWrite, Port, LinkTypeOK,
        PortsTypeOK
<1>3. CASE StreamingReady
  BY <1>3, SMT DEF StreamingReady
<1>4. CASE StreamingAmount
  BY <1>4, SMT DEF StreamingAmount
<1>5. CASE StreamingNote
  BY <1>5, SMT DEF StreamingNote
<1>6. CASE StreamingEcho
  BY <1>6, SMT DEF StreamingEcho
<1>7. CASE StreamingExit /\ InTime
  BY <1>7, SMT DEF StreamingExit, InTime, Restoring, Calm
<1>8. QED
  BY <1>1, <1>2, <1>3, <1>4, <1>5, <1>6, <1>7

(* The S-CPU counts on to the group the SPC700 already waits for.          *)
LEMMA NextGroup ==
  ASSUME LinkTypeOK, Ahead(digi_x), digi_x + tribytes <= 112,
         cpuOut[0] = digi_x, digi_x \in 0..112, digi_x' = digi_x + 1,
         UNCHANGED <<cpuOut, spcOut, tribytes, spcPc, spcX, stream_a, group>>
  PROVE  /\ digi_x' >= 1 /\ digi_x' + tribytes' <= 113
         /\ cpuOut'[0] = digi_x' - 1 /\ Ahead(digi_x - 1)'
<1>1. tribytes \in 0..255
  BY StreamNumbers
<1>2. digi_x' >= 1 /\ digi_x' + tribytes' <= 113 /\ digi_x' - 1 = digi_x
  BY <1>1, SMT
<1>3. cpuOut'[0] = digi_x' - 1 /\ Ahead(digi_x - 1)'
  BY <1>2 DEF Ahead, Left
<1>4. QED
  BY <1>2, <1>3

(* What the S-CPU knows of the SPC700 once it has seen its reply: it is    *)
(* ready for the amount, it waits for the next group, or it has finished.  *)
LEMMA Replied ==
  ASSUME LinkTypeOK, StreamPhase
  PROVE  /\ pc = "st_wait" /\ spcOut[0] >= 128 =>
              spcPc = "sr_amount" /\ cpuOut[0] >= 128
         /\ pc = "st_sync" /\ digi_x = spcOut[0] =>
              /\ Ahead(digi_x) /\ cpuOut[0] = digi_x
              /\ digi_x \in 0..112 /\ digi_x + tribytes <= 112
              /\ (digi_x + 1) % 256 = digi_x + 1
         /\ pc = "st_last" /\ digi_x = spcOut[0] =>
              spcPc = "sr_exit" /\ spcOut[0] <= 112
<1>1. ASSUME pc = "st_wait", spcOut[0] >= 128
      PROVE  spcPc = "sr_amount" /\ cpuOut[0] >= 128
  <2>1. cpuOut[0] = SetBit7(spc_pr[0]) /\ cpuOut[0] >= 128
    BY <1>1, StreamNumbers DEF StreamPhase
  <2>2. spcPc \in {"sr_amount", "sr_note", "sr_echo"}
    BY <1>1, StreamNumbers, SMT DEF StreamPhase
  <2>3. QED
    BY <1>1, <2>1, <2>2 DEF StreamPhase, StreamingLabel
<1>2. ASSUME pc = "st_sync", digi_x = spcOut[0]
      PROVE  /\ Ahead(digi_x) /\ cpuOut[0] = digi_x
             /\ digi_x \in 0..112 /\ digi_x + tribytes <= 112
             /\ (digi_x + 1) % 256 = digi_x + 1
  <2>1. cpuOut[0] = digi_x /\ digi_x + tribytes <= 112
    BY <1>2 DEF StreamPhase
  <2>2. digi_x \in 0..112
    BY <2>1, StreamNumbers, SMTT(240)
  <2>3. (digi_x + 1) % 256 = digi_x + 1
    BY <2>2, Counters, SMT
  <2>4. ~ Behind(digi_x)
    BY <1>2, <2>2, SMT DEF Behind
  <2>5. Ahead(digi_x)
    BY <1>2, <2>2, <2>4, SMT DEF StreamPhase
  <2>6. QED
    BY <2>1, <2>2, <2>3, <2>5
<1>3. ASSUME pc = "st_last", digi_x = spcOut[0]
      PROVE  spcPc = "sr_exit" /\ spcOut[0] <= 112
  BY <1>3, StreamNumbers, SMT DEF StreamPhase, Behind
<1>4. QED
  BY <1>1, <1>2, <1>3

(* The message byte the SPC700 finds in port 0, without the streaming      *)
(* signal, is the one the S-CPU has recorded.                              *)
LEMMA MessageSignalled ==
  ASSUME StreamPhase, InHand, Outstanding,
         pc \in StreamLabel => pc \in {"st_begin", "st_wait"}
  PROVE  Low7(cpuOut[0]) = Held(0) /\ (Restored => cpuOut[0] = Held(0))
<1>1. Held(0) \in {3, 4, 5, 6, 8, 10}
  BY DEF InHand, CMD_PLAY, CMD_STOP, CMD_MVOL, CMD_FADE, CMD_FX, CMD_SSIZE
<1>2. \A n \in {3, 4, 5, 6, 8, 10} : Low7(n) = n /\ Low7(SetBit7(n)) = n
  BY SMT DEF Low7, SetBit7
<1>3. CASE pc = "st_wait"
  BY <1>1, <1>2, <1>3 DEF StreamPhase, Held, Restored, StreamLabel
<1>4. CASE pc # "st_wait"
  BY <1>1, <1>2, <1>4 DEF Held, Restored
<1>5. QED
  BY <1>3, <1>4

-----------------------------------------------------------------------------
(* The vocabulary every leaf below may use: program points, ports and the  *)
(* grouping of the variables.                                              *)
USE DEF QueueLabel, UploadLabel, RegionLabel, RestoreLabel, StreamLabel,
        SproLabel, CommsLabel, TransferLabel, StreamingLabel,
        Filling, Between, MessageLabel, Overwritten,
        Port, At, Goto, SpcReady, CpuWrite, SpcAt, SpcGoto, SpcWrite,
        NextStage,
        portVars, cpuVars, spcVars, queueVars, loadVars, digiVars,
        transferVars, streamVars,
        CMD_LOAD, CMD_LOADE, CMD_PLAY, CMD_STOP, CMD_MVOL, CMD_FADE, CMD_FX,
        CMD_SSIZE

(* The messages, spcProcessMessages.                                       *)
LEMMA QueuePhases ==
  ASSUME LinkInv, LinkInv', Phases, Undisturbed, Calm,
         UNCHANGED <<spcOut, spcVars>>,
         \/ MessageTest
         \/ MessagePort0
         \/ MessagePort2
         \/ MessageDispatch
         \/ MessageRetry
         \/ MessageTimeout
  PROVE  Phases' /\ Unmoved
<1> USE DEF LinkInv, LinkTypeOK, PortsTypeOK, CpuTypeOK, SpcTypeOK,
            QueueFacts, StreamFacts,
            Phases, Unmoved, Purpose,
            Handshake, Quiet, Idle, Sent, Taken, Done,
            LoadPhase, SourcePhase, WordPhase, StreamPhase, Ahead, Behind,
            Left, Record, SamePort, InHand, Outstanding, Held, Restored,
            Current, AskedSize, EffectsKnown, Playable, Loaded
<1>1. CASE MessageTest
  BY <1>1, SMTT(240) DEF MessageTest
<1>2. CASE MessagePort0
  <2>1. Head(fifo).id \in Byte /\ Head(fifo).id <= CMD_SSIZE
    BY <1>2, HeadCommand, SMT DEF MessagePort0, MessageByte
  <2>2. QED
    BY <1>2, <2>1, SMTT(240) DEF MessagePort0, MessageByte
<1>3. CASE MessagePort2
  BY <1>3, SMTT(240) DEF MessagePort2, MessageByte
<1>4. CASE MessageDispatch
  BY <1>4, Toggling, SMTT(240) DEF MessageDispatch, MessageByte, AfterQueue
<1>5. CASE MessageRetry
  BY <1>5, SMTT(240) DEF MessageRetry
<1>6. CASE MessageTimeout
  BY <1>6, SMTT(240) DEF MessageTimeout
<1>7. QED
  BY <1>1, <1>2, <1>3, <1>4, <1>5, <1>6, ZenonT(60)

(* The uploads, up to the first word of the module, effect or sample.      *)
LEMMA UploadPhases ==
  ASSUME LinkInv, LinkInv', Phases, Undisturbed, Calm,
         UNCHANGED <<spcOut, spcVars>>,
         \/ LoadSync \/ LoadMessage \/ LoadDispatch \/ LoadAck
         \/ SourceBegin \/ SourceLoop \/ SourceDispatch \/ SourceAck
         \/ TransferWord \/ TransferAgain \/ TransferAck
         \/ TransferEnd \/ TransferEndAck
         \/ EndTransfers \/ EndDispatch \/ EndAck
  PROVE  Phases' /\ Unmoved
<1> USE DEF LinkInv, LinkTypeOK, PortsTypeOK, CpuTypeOK, SpcTypeOK,
            QueueFacts, TransferFacts, StreamFacts, Validate,
            Phases, Unmoved, Purpose,
            Handshake, Quiet, Idle, Sent, Taken, Done,
            LoadPhase, SourcePhase, WordPhase, StreamPhase, Ahead, Behind,
            Left, Odd, Received, Registered, Agreed, LoadId, Waiting,
            Fetching, LoadSent, Starting, AtSources, Asked,
            Record, SamePort, InHand, Outstanding, Held, Restored,
            Current, AskedSize, EffectsKnown, Playable, Loaded, Stored, Taking
<1>1. CASE LoadSync
  BY <1>1, Toggling, SMTT(240) DEF LoadSync
<1>2. CASE LoadMessage
  BY <1>2, Toggling, SMTT(240) DEF LoadMessage
<1>3. CASE LoadDispatch
  BY <1>3, Toggling, SMTT(240) DEF LoadDispatch
<1>4. CASE LoadAck
  BY <1>4, Toggling, SMTT(240) DEF LoadAck
<1>5. CASE SourceBegin
  <2>1. source' - 1 = source /\ source' \in 1..Len(ModuleSources)
    BY <1>5, SMT DEF SourceBegin
  <2>2. directory' = [i \in 1..source' - 1 |-> ModuleSources[i].loop]
    BY <1>5, <2>1 DEF SourceBegin
  <2>3. QED
    BY <1>5, <2>1, <2>2, SMTT(240) DEF SourceBegin
<1>6. CASE SourceLoop
  <2>1. /\ WordFromCpu' = ModuleSources[source].loop
        /\ cpuOut'[0] = cpuOut[0] /\ cpuOut'[1] = cpuOut[1]
    BY <1>6, Bank, WordStored, SMTT(60) DEF SourceLoop
  <2>2. QED
    BY <1>6, <2>1, SMTT(240) DEF SourceLoop
<1>7. CASE SourceDispatch
  BY <1>7, Toggling, SMTT(240) DEF SourceDispatch, WordFromCpu
<1>8. CASE SourceAck
  <2>1. /\ pc = "so_ack" /\ spcOut[1] = spc_v
        /\ Waiting(0) /\ spcX = spc_v /\ Odd /\ pos = 0
        /\ caller = "spcLoad" /\ Agreed /\ Registered(source)
        /\ source \in 1..Len(ModuleSources)
        /\ WordFromCpu = ModuleSources[source].loop
        /\ UNCHANGED <<cpuOut, spcOut, spcVars, spc_v, block, pos, source,
                       caller>>
    BY <1>8, SMTT(240) DEF SourceAck
  <2>2. CASE block = <<>>
    <3>1. /\ Len(Stored) = 1 /\ Stored[1] = WordFromCpu /\ Taking = 1
          /\ Len(block) = 0
      BY <2>1, <2>2 DEF Stored, Taking
    <3>2. pc' = "tx_end"
      BY <1>8, <2>2 DEF SourceAck, Goto
    <3>3. Stored' = Stored /\ Taking' = Taking
      BY <2>1, StoredKept
    <3>4. WordPhase'
      <4> HIDE DEF Stored, Taking
      <4>1. /\ Agreed' /\ Registered(source)' /\ Odd'
            /\ WordFromCpu' = WordFromCpu
        BY <2>1 DEF WordFromCpu
      <4>2. /\ Taking' = 1 /\ Len(Stored') = 1 /\ Stored'[Taking'] = WordFromCpu'
            /\ Taking' \in 1..Len(Stored')
        BY ONLY <3>1, <3>3, <4>1
      <4>3. Waiting(Taking - 1)' /\ spcX' = spc_v'
        BY <2>1, <3>3, <4>2
      <4>4. pos' = Len(block') /\ caller' = "spcLoad"
            /\ source' \in 1..Len(ModuleSources)
        BY <2>1, <3>1
      <4> HIDE DEF Agreed, Registered, Odd, Waiting, Fetching
      <4> QED
        BY <3>2, <4>1, <4>2, <4>3, <4>4 DEF WordPhase
    <3>5. QED
      <4> HIDE DEF WordPhase, Stored, Taking
      <4> QED
        BY <1>8, <2>1, <3>2, <3>4, SMTT(240) DEF SourceAck
  <2>3. CASE block # <<>>
    <3>1. pc' = "tx_data"
      BY <1>8, <2>3 DEF SourceAck, Goto
    <3>2. QED
      BY <1>8, <2>1, <2>3, <3>1, SMTT(240) DEF SourceAck
  <2>4. QED
    BY <2>2, <2>3, ZenonT(60)
<1>9. CASE TransferWord
  <2>1. block[pos + 1] \in Word
    BY <1>9, SMT DEF TransferWord
  <2>2. /\ WordFromCpu' = block[pos + 1]
        /\ cpuOut'[0] = cpuOut[0] /\ cpuOut'[1] = cpuOut[1]
    BY <1>9, <2>1, WordStored DEF TransferWord
  <2>3. QED
    BY <1>9, <2>2, SMTT(240) DEF TransferWord
<1>10. CASE TransferAgain
  BY <1>10, Toggling, SMTT(240) DEF TransferAgain, WordFromCpu
<1>11. CASE TransferAck
  BY <1>11, Toggling, SMTT(240) DEF TransferAck
<1>12. CASE TransferEnd
  BY <1>12, Toggling, SMTT(240) DEF TransferEnd, WordFromCpu
<1>13. CASE TransferEndAck
  <2>1. /\ spc_v = 0 /\ spcOut[1] = 0 /\ Agreed
        /\ caller \in {"spcLoad", "spcLoadEffect"}
        /\ IF caller = "spcLoad" THEN AtSources ELSE Idle
        /\ next_sample = Loaded
    BY <1>13, SMTT(240) DEF TransferEndAck
  <2>2. CASE caller = "spcLoadEffect"
    <3>1. \A i \in 1..Len(fifo) : fifo[i].hi \div 16 \in Int
      BY EffectIndex
    <3>2. QED
      BY <1>13, <2>1, <2>2, <3>1, SMTT(240) DEF TransferEndAck
  <2>3. CASE caller = "spcLoad"
    BY <1>13, <2>1, <2>3, SMTT(240) DEF TransferEndAck
  <2>4. QED
    BY <2>1, <2>2, <2>3
<1>14. CASE EndTransfers
  BY <1>14, Toggling, SMTT(240) DEF EndTransfers
<1>15. CASE EndDispatch
  BY <1>15, Toggling, SMTT(240) DEF EndDispatch
<1>16. CASE EndAck
  BY <1>16, Toggling, SMTT(240) DEF EndAck
<1>17. QED
  BY <1>1, <1>2, <1>3, <1>4, <1>5, <1>6, <1>7, <1>8, <1>9, <1>10, <1>11,
     <1>12, <1>13, <1>14, <1>15, <1>16, ZenonT(60)

(* spcAllocateSoundRegion writes the ports once the SPC700 is ready.       *)
LEMMA RegionPhases ==
  ASSUME LinkInv, LinkInv', Phases, Undisturbed, Calm,
         UNCHANGED <<spcOut, spcVars>>,
         \/ RegionSync \/ RegionSize \/ RegionMessage
  PROVE  Phases' /\ Unmoved
<1> USE DEF LinkInv, LinkTypeOK, PortsTypeOK, CpuTypeOK, SpcTypeOK,
            QueueFacts, TransferFacts, StreamFacts, Validate,
            Phases, Unmoved, Purpose,
            Handshake, Quiet, Idle, Sent, Taken, Done,
            LoadPhase, SourcePhase, WordPhase, StreamPhase, Ahead, Behind,
            Left, Odd, Received, Registered, Agreed, LoadId, Waiting,
            Fetching, LoadSent, Starting, AtSources, Asked,
            Record, SamePort, InHand, Outstanding, Held, Restored,
            Current, AskedSize, EffectsKnown, Playable, Loaded
<1>1. CASE RegionSync
  BY <1>1, SMTT(240) DEF RegionSync
<1>2. CASE RegionSize
  BY <1>2, SMTT(240) DEF RegionSize
<1>3. CASE RegionMessage
  BY <1>3, SMTT(240) DEF RegionMessage
<1>4. QED
  BY <1>1, <1>2, <1>3, ZenonT(60)

(* The calls that ask for no message.                                      *)
LEMMA CallPhases ==
  ASSUME LinkInv, LinkInv', Phases, Undisturbed, Calm,
         UNCHANGED <<spcOut, spcVars>>,
         \/ spcProcess \/ spcLoad \/ spcLoadEffect \/ spcPlaySound
  PROVE  Phases' /\ Unmoved
<1> USE DEF LinkInv, LinkTypeOK, PortsTypeOK, CpuTypeOK, SpcTypeOK,
            QueueFacts, TransferFacts, StreamFacts, Validate,
            Phases, Unmoved, Purpose,
            Handshake, Quiet, Idle, Sent, Taken, Done,
            LoadPhase, SourcePhase, WordPhase, StreamPhase, Ahead, Behind,
            Left, Odd, Received, Registered, Agreed, LoadId, Waiting,
            Fetching, LoadSent, Starting, AtSources, Asked,
            Record, SamePort, InHand, Outstanding, Held, Restored,
            Current, AskedSize, EffectsKnown, Playable, Loaded
<1>1. CASE spcProcess
  BY <1>1, SMTT(240) DEF spcProcess
<1>2. CASE spcLoad
  BY <1>2, SMTT(240) DEF spcLoad, MessagesOrReturn, AfterQueue
<1>3. CASE spcLoadEffect
  BY <1>3, SMTT(240) DEF spcLoadEffect
<1>4. CASE spcPlaySound
  BY <1>4, SMTT(240) DEF spcPlaySound
<1>5. QED
  BY <1>1, <1>2, <1>3, <1>4, ZenonT(60)

(* The first two bytes of a group go to ports 2 and 3 and touch no other.  *)
LEMMA TwoBytesOut ==
  ASSUME PortsTypeOK, StreamTwoBytes, UNCHANGED <<spcOut, spcVars>>
  PROVE  /\ pc = "st_data" /\ pc' = "st_third"
         /\ cpuOut'[0] = cpuOut[0] /\ cpuOut'[1] = cpuOut[1]
         /\ UNCHANGED <<digi_x, tribytes, digi_active, nmi, spc_pr, spcOut,
                        spcVars>>
  BY DEF StreamTwoBytes, CpuWriteWord, At, Goto, PortsTypeOK, Port, digiVars

(* spcProcessStream.                                                       *)
LEMMA StreamPhases ==
  ASSUME LinkInv, LinkInv', Phases, Undisturbed, Calm,
         UNCHANGED <<spcOut, spcVars>>,
         \/ StreamFinished \/ StreamSignal \/ StreamWait \/ StreamNoNote
         \/ StreamVolume \/ StreamPitch \/ StreamNote \/ StreamAmount
         \/ StreamSync \/ StreamTwoBytes \/ StreamThirdByte \/ StreamSend
         \/ StreamLast \/ StreamRestorePorts
  PROVE  Phases' /\ Unmoved
<1> USE DEF LinkInv, LinkTypeOK, PortsTypeOK, CpuTypeOK, SpcTypeOK,
            QueueFacts, TransferFacts, StreamFacts, Validate,
            Phases, Unmoved, Purpose,
            Handshake, Quiet, Idle, Sent, Taken, Done,
            LoadPhase, SourcePhase, WordPhase, StreamPhase, Ahead, Behind,
            Left, Odd, Received, Registered, Agreed, LoadId, Waiting,
            Fetching, LoadSent, Starting, AtSources, Asked,
            Record, SamePort, InHand, Outstanding, Held, Restored,
            Current, AskedSize, EffectsKnown, Playable, Loaded
<1>1. CASE StreamFinished
  <2>1. pc' \in {"idle", "mq_test"} /\ caller = "spcProcess"
    BY <1>1 DEF StreamFinished, MessagesOrReturn, AfterQueue
  <2>2. QED
    BY <1>1, <2>1, SMTT(240) DEF StreamFinished
<1>2. CASE StreamSignal
  <2>1. Regions = {}
    BY <1>2 DEF StreamSignal, Calm
  <2>2. spc_pr[0] <= CMD_SSIZE /\ spc_pr[0] \in Byte
    BY <1>2 DEF StreamSignal
  <2>3. Outstanding => SamePort(0) /\ SamePort(2) /\ SamePort(3)
    BY <1>2, <2>1 DEF StreamSignal
  <2>4. QED
    BY <1>2, <2>1, <2>2, <2>3, SMTT(240) DEF StreamSignal, SetBit7
<1>3. CASE StreamWait
  <2>1. spcPc = "sr_amount" /\ cpuOut[0] >= 128
    BY <1>3, Replied DEF StreamWait
  <2>2. QED
    BY <1>3, <2>1, SMTT(240) DEF StreamWait
<1>4. CASE StreamNoNote
  BY <1>4, SMTT(240) DEF StreamNoNote
<1>5. CASE StreamVolume
  BY <1>5, SMTT(240) DEF StreamVolume
<1>6. CASE StreamPitch
  BY <1>6, SMTT(240) DEF StreamPitch
<1>7. CASE StreamNote
  BY <1>7, SMTT(240) DEF StreamNote
<1>8. CASE StreamAmount
  <2>1. CopyAmount \in 1..28
    BY <1>8, Amount DEF StreamAmount
  <2>2. (3 * CopyAmount) % 256 = 3 * CopyAmount
    BY <2>1, Counters, ZenonT(60)
  <2>3. spcPc = "sr_amount" /\ spcOut[0] = 128
    BY <1>8 DEF StreamAmount
  <2>4. QED
    BY <1>8, <2>1, <2>2, <2>3, SMTT(240) DEF StreamAmount
<1>9. CASE StreamSync
  <2>1. /\ Ahead(digi_x) /\ cpuOut[0] = digi_x
        /\ digi_x \in 0..112 /\ digi_x + tribytes <= 112
        /\ (digi_x + 1) % 256 = digi_x + 1
    BY <1>9, Replied DEF StreamSync
  <2>2. /\ pc' = "st_data" /\ digi_x' = digi_x + 1
        /\ UNCHANGED <<cpuOut, tribytes, spcOut, spcPc, spcX, stream_a, group>>
    BY <1>9, <2>1 DEF StreamSync
  <2>3. /\ digi_x' >= 1 /\ digi_x' + tribytes' <= 113
        /\ cpuOut'[0] = digi_x' - 1 /\ Ahead(digi_x - 1)'
    BY <2>1, <2>2, NextGroup
  <2>4. StreamPhase'
    BY <1>9, <2>2, <2>3, SMTT(240) DEF StreamSync
  <2>5. QED
    <3> HIDE DEF StreamPhase
    <3> QED
      BY <1>9, <2>4, SMTT(240) DEF StreamSync
<1>10. CASE StreamTwoBytes
  <2>1. /\ pc = "st_data" /\ pc' = "st_third"
        /\ cpuOut'[0] = cpuOut[0] /\ cpuOut'[1] = cpuOut[1]
        /\ UNCHANGED <<digi_x, tribytes, digi_active, nmi, spc_pr, spcOut,
                       spcVars>>
    BY <1>10, TwoBytesOut
  <2>2. StreamPhase'
    BY <2>1, SMTT(60)
  <2>3. QED
    <3> HIDE DEF StreamPhase
    <3> QED
      BY <1>10, <2>1, <2>2, SMTT(240) DEF StreamTwoBytes, CpuWriteWord
<1>11. CASE StreamThirdByte
  BY <1>11, SMTT(240) DEF StreamThirdByte
<1>12. CASE StreamSend
  <2>1. tribytes \in 1..255 /\ digi_x \in 1..113
          /\ digi_x + tribytes <= 113 /\ Ahead(digi_x - 1)
    BY <1>12, SendNumbers DEF StreamSend
  <2>2. (tribytes + 255) % 256 = tribytes - 1
    BY <2>1, Counters, ZenonT(60)
  <2>3. Left \in Int
    BY StreamNumbers
  <2>4. QED
    BY <1>12, <2>1, <2>2, <2>3, SMTT(240) DEF StreamSend
<1>13. CASE StreamLast
  <2>1. spcPc = "sr_exit" /\ spcOut[0] <= 112
    BY <1>13, Replied DEF StreamLast
  <2>2. QED
    BY <1>13, <2>1, SMTT(240) DEF StreamLast
<1>14. CASE StreamRestorePorts
  <2>1. Regions = {}
    BY <1>14, SMTT(240) DEF StreamRestorePorts, StreamRestore, Calm
  <2>2. CASE StreamRestore("st_r0", 0, "st_r1")
    BY <2>1, <2>2, SMTT(240) DEF StreamRestore
  <2>3. CASE StreamRestore("st_r1", 1, "st_r2")
    BY <2>1, <2>3, SMTT(240) DEF StreamRestore
  <2>4. CASE StreamRestore("st_r2", 2, "st_r3")
    BY <2>1, <2>4, SMTT(240) DEF StreamRestore
  <2>5. CASE StreamRestore("st_r3", 3, MessagesOrReturn("spcProcess"))
    <3>1. pc' \in {"idle", "mq_test"} /\ caller = "spcProcess"
      BY <2>5 DEF StreamRestore, MessagesOrReturn, AfterQueue
    <3>2. QED
      BY <2>1, <2>5, <3>1, SMTT(240) DEF StreamRestore
  <2>6. QED
    BY <1>14, <2>2, <2>3, <2>4, <2>5, ZenonT(60) DEF StreamRestorePorts
<1>15. QED
  BY <1>1, <1>2, <1>3, <1>4, <1>5, <1>6, <1>7, <1>8, <1>9, <1>10, <1>11,
     <1>12, <1>13, <1>14, ZenonT(60)

(* The main loop of the SPC700 and ProcessComms.                           *)
LEMMA CommsPhases ==
  ASSUME LinkInv, LinkInv', Phases, Undisturbed, Calm,
         UNCHANGED <<cpuOut, cpuVars>>,
         \/ SPROC \/ OtherRoutine \/ NoMessage \/ NewMessage \/ VerifyMessage
         \/ CommandRet
  PROVE  Phases' /\ Unmoved
<1> USE StoredKept
<1> USE DEF LinkInv, LinkTypeOK, PortsTypeOK, CpuTypeOK, SpcTypeOK,
            QueueFacts, TransferFacts, StreamFacts, Validate,
            Phases, Unmoved, Purpose,
            Handshake, Quiet, Idle, Sent, Taken, Done,
            LoadPhase, SourcePhase, WordPhase, StreamPhase, Ahead, Behind,
            Left, Odd, Received, Registered, Agreed, LoadId, Waiting,
            Fetching, LoadSent, Starting, AtSources, Asked,
            Record, SamePort, InHand, Outstanding, Held, Restored,
            Current, AskedSize, EffectsKnown, Playable, Loaded
<1>1. CASE SPROC
  BY <1>1, Shifted, SMTT(240) DEF SPROC
<1>2. CASE OtherRoutine
  BY <1>2, SMTT(240) DEF OtherRoutine
<1>3. CASE NoMessage
  BY <1>3, SMTT(240) DEF NoMessage
<1>4. CASE NewMessage
  <2>1. spcPc \in {"run", "cm_new"}
    BY <1>4 DEF NewMessage
  <2>2. /\ pc \notin Overwritten
        /\ pc \in StreamLabel => pc \in {"st_begin", "st_wait"}
    BY <2>1, SMTT(240)
  <2>3. spcPc = "run" => Sent
    BY <1>4, <2>1, <2>2, SMTT(240) DEF NewMessage, CpuLabel
  <2>4. \/ pc = "ld_ack" /\ Sent
        \/ pc \in MessageLabel /\ (Sent \/ Taken)
    BY <1>4, <2>1, <2>2, <2>3, SMTT(240) DEF NewMessage, CpuLabel
  <2>5. CASE pc = "ld_ack" /\ Sent
    BY <1>4, <2>5, SMTT(240) DEF NewMessage
  <2>6. CASE pc \in MessageLabel /\ (Sent \/ Taken)
    <3>1. pc \in StreamLabel => Record /\ pc \in {"st_begin", "st_wait"}
      BY <2>2 DEF Calm
    <3>2. cpuOut[1] = spc_v
      BY <2>2
    <3>3. Low7(cpuOut[0]) = Held(0) /\ (Restored => cpuOut[0] = Held(0))
      BY <2>2, <2>6, MessageSignalled
    <3>4. Purpose' /\ Handshake' /\ LoadPhase' /\ SourcePhase' /\ WordPhase'
      BY <1>4, <2>1, <2>2, <2>6, <3>1, <3>2, SMTT(240) DEF NewMessage
    <3>5. StreamPhase'
      BY <1>4, <2>1, <2>2, <2>6, <3>1, <3>2, SMTT(240) DEF NewMessage
    <3>6. (Regions = {} => Record)' /\ InHand'
      BY <1>4, <2>1, <2>2, <2>6, <3>1, <3>2, <3>3, SMTT(240) DEF NewMessage
    <3>7. EffectsKnown' /\ Unmoved
      BY <1>4, <2>1, <2>2, <2>6, <3>1, <3>2, SMTT(240) DEF NewMessage
    <3>8. QED
      BY <3>4, <3>5, <3>6, <3>7, SMTT(60)
  <2>7. QED
    BY <2>4, <2>5, <2>6, ZenonT(60)
<1>5. CASE VerifyMessage
  BY <1>5, SMTT(240) DEF VerifyMessage
<1>6. CASE CommandRet
  BY <1>6, SMTT(240) DEF CommandRet
<1>7. QED
  BY <1>1, <1>2, <1>3, <1>4, <1>5, <1>6, ZenonT(60)

(* The uploads as the SPC700 receives them.                                *)
LEMMA TransferPhases ==
  ASSUME LinkInv, LinkInv', Phases, Undisturbed, Calm,
         UNCHANGED <<cpuOut, cpuVars>>,
         \/ BeginLoad \/ StartTransfer \/ DoTransfer \/ TransferReply
         \/ WaitForSource \/ NextSource \/ EndOfSources
  PROVE  Phases' /\ Unmoved
<1> USE StoredKept
<1> USE DEF LinkInv, LinkTypeOK, PortsTypeOK, CpuTypeOK, SpcTypeOK,
            QueueFacts, TransferFacts, StreamFacts, Validate,
            Phases, Unmoved, Purpose,
            Handshake, Quiet, Idle, Sent, Taken, Done,
            LoadPhase, SourcePhase, WordPhase, StreamPhase, Ahead, Behind,
            Left, Odd, Received, Registered, Agreed, LoadId, Waiting,
            Fetching, LoadSent, Starting, AtSources, Asked,
            Record, SamePort, InHand, Outstanding, Held, Restored,
            Current, AskedSize, EffectsKnown, Playable, Loaded
<1>1. CASE BeginLoad
  <2>1. pc = "ld_ack" /\ spcA = LoadId /\ Low7(spcA) = LoadId
    <3>1. spcPc = "cm_exec" /\ Low7(spcA) \in {CMD_LOAD, CMD_LOADE}
      BY <1>1 DEF BeginLoad
    <3>2. pc \notin MessageLabel
      BY <3>1, SMTT(240)
    <3>3. pc = "ld_ack" /\ spcA = LoadId
      BY <3>1, <3>2, SMTT(240) DEF CpuLabel
    <3>4. QED
      BY <3>3, LoadIds
  <2>2. LoadSent /\ next_sample = spc_sfx_next
    BY <1>1, <2>1, SMTT(240) DEF BeginLoad
  <2>3. QED
    BY <1>1, <2>1, <2>2, SMTT(240) DEF BeginLoad
<1>2. CASE StartTransfer
  <2>1. pc \in {"ld_ack", "so_ack"}
    <3>1. spcPc = "tx_start"
      BY <1>2 DEF StartTransfer
    <3>2. pc \notin MessageLabel
      BY <3>1, SMTT(60)
    <3>3. QED
      BY <3>1, <3>2, SMTT(60) DEF CpuLabel
  <2>2. block # <<>> \/ source \in 1..Len(ModuleSources)
    <3>1. pc = "ld_ack" => pos < Len(block) /\ pos \in Nat
      OBVIOUS
    <3>2. block = <<>> => Len(block) = 0
      OBVIOUS
    <3>3. QED
      BY <2>1, <3>1, <3>2, SMT
  <2>3. SubSeq(Stored, 1, 0) = <<>>
    BY <2>2, StoredWords
  <2>4. /\ Starting' /\ ~LoadSent'
        /\ UNCHANGED <<pc, caller, cpuOut, spc_v, source, directory, loading,
                       next_sample, block, pos>>
    <3>1. comms_v = spc_v /\ spcPc = "tx_start"
      BY <1>2, <2>1, SMTT(60) DEF StartTransfer
    <3>2. /\ spcPc' = "tx_wait" /\ spcX' = spc_v /\ xfer' = <<>>
          /\ spcOut'[1] = spc_v
      BY <1>2, <3>1 DEF StartTransfer
    <3>3. Stored' = Stored
      BY StoredKept
    <3>4. QED
      BY <1>2, <2>3, <3>1, <3>2, <3>3 DEF StartTransfer
  <2>5. Agreed /\ (caller = "spcLoad" => Registered(source))
    BY <1>2, <2>1, SMTT(60) DEF StartTransfer
  <2>6. LoadPhase' /\ SourcePhase' /\ WordPhase'
    <3>1. /\ Agreed' /\ (caller = "spcLoad" => Registered(source))'
          /\ Odd' = Odd /\ WordFromCpu' = WordFromCpu
      BY <2>4, <2>5 DEF WordFromCpu
    <3>2. pc' = pc /\ source' = source /\ pos' = pos /\ cpuOut' = cpuOut
          /\ caller' = caller
      OBVIOUS
    <3> HIDE DEF Starting, LoadSent, Agreed, Registered, Odd
    <3>3. LoadPhase'
      BY ONLY LoadPhase, <2>1, <2>4, <3>1, <3>2 DEF LoadPhase, LoadId
    <3>4. SourcePhase'
      BY ONLY SourcePhase, <2>1, <2>4, <3>1, <3>2 DEF SourcePhase
    <3>5. WordPhase'
      BY ONLY <2>1, <3>2 DEF WordPhase
    <3>6. QED
      BY <3>3, <3>4, <3>5
  <2>7. QED
    <3> HIDE DEF LoadPhase, SourcePhase, WordPhase, Starting, LoadSent
    <3>1. Purpose' /\ Handshake'
      BY <1>2, <2>1, <2>4, SMTT(60) DEF StartTransfer
    <3>2. StreamPhase'
      BY <1>2, <2>1, SMTT(60) DEF StartTransfer
    <3>3. (Regions = {} => Record)'
      BY <1>2, <2>1, <2>4, SMTT(60) DEF StartTransfer
    <3>4. InHand'
      BY <1>2, <2>1, <2>4, SMTT(60) DEF StartTransfer
    <3>5. EffectsKnown'
      BY <1>2, <2>1, <2>4, SMTT(60) DEF StartTransfer, LoadSent
    <3>6. Unmoved
      BY <1>2, <2>1, <2>4, SMTT(60) DEF StartTransfer
    <3> QED
      BY <2>6, <3>1, <3>2, <3>3, <3>4, <3>5, <3>6 DEF Phases
<1>3. CASE DoTransfer
  BY <1>3, SMTT(240) DEF DoTransfer
<1>4. CASE TransferReply
  BY <1>4, SMTT(240) DEF TransferReply
<1>5. CASE WaitForSource
  BY <1>5, SMTT(240) DEF WaitForSource, CpuLabel, WordFromCpu
<1>6. CASE NextSource
  BY <1>6, SMTT(240) DEF NextSource, CpuLabel, WordFromCpu
<1>7. CASE EndOfSources
  BY <1>7, SMTT(240) DEF EndOfSources
<1>8. QED
  BY <1>1, <1>2, <1>3, <1>4, <1>5, <1>6, <1>7, ZenonT(60)

(* Streaming_Run.                                                          *)
LEMMA StreamingPhases ==
  ASSUME LinkInv, LinkInv', Phases, Undisturbed, Calm,
         UNCHANGED <<cpuOut, cpuVars>>,
         \/ StreamingReady \/ StreamingAmount \/ StreamingNote
         \/ StreamingEcho \/ StreamingWait \/ StreamingCopy
         \/ StreamingExit /\ InTime
  PROVE  Phases' /\ Unmoved
<1> USE StoredKept
<1> USE DEF LinkInv, LinkTypeOK, PortsTypeOK, CpuTypeOK, SpcTypeOK,
            QueueFacts, TransferFacts, StreamFacts, Validate,
            Phases, Unmoved, Purpose,
            Handshake, Quiet, Idle, Sent, Taken, Done,
            LoadPhase, SourcePhase, WordPhase, StreamPhase, Ahead, Behind,
            Left, Odd, Received, Registered, Agreed, LoadId, Waiting,
            Fetching, LoadSent, Starting, AtSources, Asked,
            Record, SamePort, InHand, Outstanding, Held, Restored,
            Current, AskedSize, EffectsKnown, Playable, Loaded
<1>1. CASE StreamingReady
  BY <1>1, SMTT(240) DEF StreamingReady
<1>2. CASE StreamingAmount
  <2>1. StreamPhase'
    BY <1>2, StreamingCounts DEF cpuVars
  <2>2. QED
    <3> HIDE DEF StreamPhase
    <3> QED
      BY <1>2, <2>1, SMTT(240) DEF StreamingAmount
<1>3. CASE StreamingNote
  BY <1>3, SMTT(240) DEF StreamingNote
<1>4. CASE StreamingEcho
  <2>1. StreamPhase'
    BY <1>4, StreamingCounts DEF cpuVars
  <2>2. QED
    <3> HIDE DEF StreamPhase
    <3> QED
      BY <1>4, <2>1, SMTT(240) DEF StreamingEcho
<1>5. CASE StreamingWait
  <2>1. StreamPhase'
    BY <1>5, StreamingCounts DEF cpuVars
  <2>2. QED
    <3> HIDE DEF StreamPhase
    <3> QED
      BY <1>5, <2>1, SMTT(240) DEF StreamingWait
<1>6. CASE StreamingCopy
  <2>1. StreamPhase'
    BY <1>6, StreamingCounts DEF cpuVars
  <2>2. QED
    <3> HIDE DEF StreamPhase
    <3> QED
      BY <1>6, <2>1, SMTT(240) DEF StreamingCopy
<1>7. CASE StreamingExit /\ InTime
  <2>1. StreamPhase'
    BY <1>7, StreamingCounts DEF cpuVars
  <2>2. pc \notin RestoreLabel
    BY <1>7, SMTT(240) DEF InTime, Restoring, Calm
  <2>3. QED
    <3> HIDE DEF StreamPhase
    <3> QED
      BY <1>7, <2>1, <2>2, SMTT(240) DEF StreamingExit
<1>8. QED
  BY <1>1, <1>2, <1>3, <1>4, <1>5, <1>6, <1>7, ZenonT(60)

(* The message about to be executed is the one that is outstanding.        *)
LEMMA ExecutesCurrent ==
  ASSUME LinkInv, Phases, Undisturbed, Calm,
         spcPc = "cm_exec", Low7(spcA) \notin {CMD_LOAD, CMD_LOADE}
  PROVE  /\ pc \in MessageLabel /\ Taken /\ Outstanding
         /\ Arguments(Low7(spcA), cpuOut[2], cpuOut[3]) = Current
<1> USE DEF LinkInv, LinkTypeOK, PortsTypeOK, CpuTypeOK, SpcTypeOK,
            Phases, Purpose,
            Handshake, Quiet, Idle, Sent, Taken, Done,
            LoadPhase, SourcePhase, WordPhase, StreamPhase, Ahead, Behind,
            LoadId, Waiting, Fetching, LoadSent, Starting, AtSources, Asked
<1>1. spcPc = "cm_exec" /\ Low7(spcA) \notin {CMD_LOAD, CMD_LOADE}
  OBVIOUS
<1>2. pc \notin UploadLabel \ {"ld_sync", "ld_p0", "ld_p1", "ld_ack"}
  BY <1>1, SMTT(240)
<1>3. pc # "ld_ack"
  BY <1>1, LoadIds, SMTT(240)
<1>4. pc \notin {"ld_p0", "ld_p1"} /\ pc \notin Overwritten
  BY <1>1, SMTT(240)
<1>5. pc \in MessageLabel
  BY <1>2, <1>3, <1>4, SMT DEF CpuLabel
<1>6. Taken /\ Outstanding
  BY <1>1, <1>5, SMTT(240) DEF Outstanding
<1>7. Low7(spcA) = Held(0)
  BY <1>1, <1>5, <1>6 DEF InHand
<1>8. cpuOut[2] = Held(2) /\ cpuOut[3] = Held(3)
  <2>1. CASE Restored
    BY <2>1 DEF Held
  <2>2. CASE ~Restored
    <3>1. pc = "st_wait"
      BY <1>1, <1>4, <2>2, SMT DEF Restored
    <3>2. QED
      BY <1>6, <2>2, <3>1 DEF Held, Calm, Record, SamePort
  <2>3. QED
    BY <2>1, <2>2
<1>9. QED
  BY <1>5, <1>6, <1>7, <1>8 DEF Current

(* The steps that ask for a message, send it or execute it.                *)
LEMMA MovingPhases ==
  ASSUME LinkInv, LinkInv', Phases, Undisturbed, Calm,
         \/ /\ \/ MessagePort3 \/ RegionDispatch
               \/ \E c \in Commands : QueueMessage(c)
               \/ \E s \in Regions : spcAllocateSoundRegion(s)
            /\ UNCHANGED <<spcOut, spcVars>>
         \/ ExecuteCommand /\ UNCHANGED <<cpuOut, cpuVars>>
  PROVE  Phases'
<1> USE DEF LinkInv, LinkTypeOK, PortsTypeOK, CpuTypeOK, SpcTypeOK,
            QueueFacts, TransferFacts, StreamFacts, Validate,
            Phases, Unmoved, Purpose,
            Handshake, Quiet, Idle, Sent, Taken, Done,
            LoadPhase, SourcePhase, WordPhase, StreamPhase, Ahead, Behind,
            Left, Odd, Received, Registered, Agreed, LoadId, Waiting,
            Fetching, LoadSent, Starting, AtSources, Asked,
            Record, SamePort, InHand, Outstanding, Held, Restored,
            Current, AskedSize, EffectsKnown, Playable, Loaded
<1>1. CASE MessagePort3 /\ UNCHANGED <<spcOut, spcVars>>
  <2>1. /\ Tail(fifo) \in Seq(Commands)
        /\ Head(fifo) = Arguments(Head(fifo).id, Head(fifo).lo, Head(fifo).hi)
        /\ Head(fifo).id \in {CMD_PLAY, CMD_STOP, CMD_MVOL, CMD_FADE, CMD_FX}
        /\ Head(fifo) = fifo[1] /\ 1 \in 1..Len(fifo)
        /\ \A i \in 1..Len(Tail(fifo)) :
             Tail(fifo)[i] = fifo[i + 1] /\ i + 1 \in 1..Len(fifo)
    BY <1>1, HeadCommand DEF MessagePort3, MessageByte
  <2>2. /\ Purpose' /\ Handshake' /\ LoadPhase' /\ SourcePhase' /\ WordPhase'
        /\ StreamPhase' /\ (Regions = {} => Record)'
    BY <1>1, SMTT(240) DEF MessagePort3, MessageByte
  <2>3. pc' = "mq_p1" /\ Current' = Head(fifo) /\ Held(0)' = Head(fifo).id
    BY <1>1, <2>1, SMTT(240) DEF MessagePort3, MessageByte
  <2>4. InHand'
    BY <1>1, <2>1, <2>2, <2>3, SMTT(240) DEF MessagePort3, MessageByte
  <2>5. EffectsKnown'
    <3>1. \A i \in 1..Len(fifo) : Playable(fifo[i])
      OBVIOUS
    <3>2. /\ fifo' = Tail(fifo) /\ next_sample' = next_sample
          /\ UNCHANGED spc_sfx_next
          /\ pc = "mq_p3"
      BY <1>1 DEF MessagePort3, MessageByte
    <3>3. Playable(Head(fifo))
      BY <2>1, <3>1
    <3>4. \A i \in 1..Len(Tail(fifo)) : Playable(Tail(fifo)[i])
      <4>1. fifo \in Seq(Message) /\ fifo # <<>>
        BY <3>2
      <4>2. \A i \in 1..Len(Tail(fifo)) :
              i + 1 \in 1..Len(fifo) /\ Tail(fifo)[i] = fifo[i + 1]
        BY <4>1, TailElements
      <4> HIDE DEF Playable
      <4>3. QED
        BY <3>1, <4>2
    <3>5. next_sample = spc_sfx_next
      BY <3>2
    <3>6. QED
      <4> HIDE DEF Current, Outstanding
      <4> QED
        BY <2>3, <3>2, <3>3, <3>4, <3>5
  <2>6. QED
    BY <2>2, <2>4, <2>5
<1>2. CASE RegionDispatch /\ UNCHANGED <<spcOut, spcVars>>
  <2>1. /\ Purpose' /\ Handshake' /\ LoadPhase' /\ SourcePhase' /\ WordPhase'
        /\ StreamPhase' /\ (Regions = {} => Record)' /\ InHand'
    BY <1>2, Toggling, SMTT(240) DEF RegionDispatch
  <2>2. Current.id' = CMD_SSIZE /\ fifo' = <<>> /\ pc' = "idle"
    BY <1>2, SMTT(240) DEF RegionDispatch, Arguments
  <2>3. EffectsKnown'
    BY <1>2, <2>2, SMTT(240) DEF RegionDispatch
  <2>4. QED
    BY <2>1, <2>3
<1>3. CASE /\ \E c \in Commands : QueueMessage(c)
           /\ UNCHANGED <<spcOut, spcVars>>
  <2> PICK c \in Commands : QueueMessage(c)
    BY <1>3
  <2>1. /\ Append(fifo, c) \in Seq(Commands)
        /\ \A i \in 1..Len(Append(fifo, c)) :
             \/ i \in 1..Len(fifo) /\ Append(fifo, c)[i] = fifo[i]
             \/ Append(fifo, c)[i] = c
    BY Queued
  <2>2. /\ Purpose' /\ Handshake' /\ LoadPhase' /\ SourcePhase' /\ WordPhase'
        /\ StreamPhase' /\ (Regions = {} => Record)' /\ InHand'
    BY <1>3, <2>1, SMTT(240) DEF QueueMessage
  <2>3. ASSUME NEW i \in 1..Len(Append(fifo, c))
        PROVE  Playable(Append(fifo, c)[i])
    <3>1. Playable(c)
      BY DEF QueueMessage
    <3>2. \A j \in 1..Len(fifo) : Playable(fifo[j])
      BY ZenonT(60)
    <3> HIDE DEF Playable
    <3>3. QED
      BY <2>1, <2>3, <3>1, <3>2
  <2>4. EffectsKnown'
    BY <1>3, <2>3, SMTT(240) DEF QueueMessage
  <2>5. QED
    BY <2>2, <2>4
<1>4. CASE /\ \E s \in Regions : spcAllocateSoundRegion(s)
           /\ UNCHANGED <<spcOut, spcVars>>
  <2> PICK s \in Regions : spcAllocateSoundRegion(s)
    BY <1>4
  <2>1. pc = "idle" /\ pc' \in {"mq_test", "ss_sync"}
        /\ (pc' = "ss_sync" => fifo = <<>>)
        /\ caller' = "spcAllocateSoundRegion" /\ Regions # {}
    BY DEF spcAllocateSoundRegion, MessagesOrReturn, AfterQueue
  <2>2. QED
    BY <1>4, <2>1, SMTT(240) DEF spcAllocateSoundRegion
<1>5. CASE ExecuteCommand /\ UNCHANGED <<cpuOut, cpuVars>>
  <2>1. pc \in MessageLabel /\ Taken
    BY <1>5, ExecutesCurrent DEF ExecuteCommand
  <2>2. QED
    BY <1>5, <2>1, SMTT(240) DEF ExecuteCommand
<1>6. QED
  BY <1>1, <1>2, <1>3, <1>4, <1>5, ZenonT(60)

-----------------------------------------------------------------------------
(***************************************************************************)
(* What follows from the two processors staying in step: messages are      *)
(* executed in the order of the calls, uploads arrive word for word, and   *)
(* the driver implements CommandQueue.                                     *)
(***************************************************************************)

(* The steps that ask for a message, send it or execute it.                *)
Moves ==
  \/ /\ \/ MessagePort3 \/ RegionDispatch
        \/ \E c \in Commands : QueueMessage(c)
        \/ \E s \in Regions : spcAllocateSoundRegion(s)
     /\ UNCHANGED <<spcOut, spcVars>>
  \/ ExecuteCommand /\ UNCHANGED <<cpuOut, cpuVars>>

-----------------------------------------------------------------------------
(* The VBlank handler, and a step that changes nothing.                    *)
LEMMA HandlerPhases ==
  ASSUME LinkInv, Phases, Nmi \/ UNCHANGED vars
  PROVE  Phases' /\ Unmoved /\ UNCHANGED <<accepted, executed, fifo>>
<1>1. UNCHANGED <<cpuOut, spcOut, pc, caller, spc_v, spc_pr, size, queueVars,
                  loadVars, digiVars, spcVars>>
  BY DEF Nmi, NmiBegin, NmiEnd, vars, portVars, cpuVars, queueVars, loadVars,
         digiVars
<1>2. ~NmiHandler => nmi' = nmi \/ ~nmi'
  BY DEF Nmi, NmiBegin, NmiEnd, vars, cpuVars
<1>3. UNCHANGED <<cpuOut, spcOut, pc, caller, fifo, spc_v, spc_pr,
                  spc_sfx_next, size, block, pos, source, digi_active,
                  digi_init, digi_remain, digi_src, digi_x, tribytes,
                  accepted, uploads, sounds, spcPc, stage, comms_v, spcA,
                  spcX, loading, xfer, directory, next_sample, stream_a,
                  group, stream_initial, stream_buf, stream_note, executed>>
  BY <1>1 DEF queueVars, loadVars, digiVars, spcVars
<1>4. Purpose' /\ Handshake' /\ SourcePhase' /\ LoadPhase' /\ WordPhase'
  BY <1>3, StoredKept
     DEF Phases, Purpose, Handshake, LoadPhase, SourcePhase, WordPhase,
         Quiet, Idle, Sent, Taken, Done, Odd, Received, Registered, Agreed,
         LoadId, Waiting, Fetching, LoadSent, Starting, AtSources, Asked,
         WordFromCpu
<1>5. StreamPhase'
  BY <1>2, <1>3 DEF Phases, StreamPhase, Ahead, Behind, Left
<1>6. (Regions = {} => Record)' /\ InHand' /\ EffectsKnown' /\ Unmoved
  BY <1>3
     DEF Phases, Record, SamePort, InHand, Outstanding, Held, Restored,
         Current, AskedSize, EffectsKnown, Playable, Loaded, Unmoved,
         Quiet, Idle, Sent, Taken, Done, LoadSent, LoadId
<1>7. QED
  BY <1>3, <1>4, <1>5, <1>6 DEF Phases

(* A step is one of those that move a message, or it leaves the messages   *)
(* asked for, queued and executed alone; both processors stay in step.     *)
LEMMA NextPhases ==
  ASSUME LinkInv, LinkInv', Phases, Undisturbed, [Next]_vars
  PROVE  /\ Phases'
         /\ Moves \/ (Unmoved /\ UNCHANGED <<accepted, executed, fifo>>)
<1>1. Calm
  BY StreamsCalmly
<1>2. CASE Nmi \/ UNCHANGED vars
  BY <1>2, HandlerPhases
<1>3. CASE Moves
  BY <1>1, <1>3, MovingPhases DEF Moves
<1>4. CASE ApiCall /\ UNCHANGED <<spcOut, spcVars>> /\ ~Moves
  <2>1. spcProcess \/ spcLoad \/ spcLoadEffect \/ spcPlaySound
    BY <1>4 DEF ApiCall, Moves
  <2>2. Phases' /\ Unmoved
    BY <1>1, <1>4, <2>1, CallPhases
  <2>3. UNCHANGED <<accepted, executed, fifo>>
    BY <1>4, <2>1
       DEF spcProcess, spcLoad, spcLoadEffect, spcPlaySound, queueVars,
           spcVars
  <2>4. QED
    BY <2>2, <2>3
<1>5. CASE CpuStep /\ UNCHANGED <<spcOut, spcVars>> /\ ~Moves
  <2>1. CASE \/ MessageTest \/ MessagePort0 \/ MessagePort2 \/ MessageDispatch
             \/ MessageRetry \/ MessageTimeout
    <3>1. Phases' /\ Unmoved
      BY <1>1, <1>5, <2>1, QueuePhases
    <3>2. UNCHANGED <<accepted, executed, fifo>>
      BY <1>5, <2>1
         DEF MessageTest, MessagePort0, MessagePort2, MessageDispatch,
             MessageRetry, MessageTimeout, queueVars, spcVars
    <3>3. QED
      BY <3>1, <3>2
  <2>2. CASE \/ LoadSync \/ LoadMessage \/ LoadDispatch \/ LoadAck
             \/ SourceBegin \/ SourceLoop \/ SourceDispatch \/ SourceAck
             \/ TransferWord \/ TransferAgain \/ TransferAck
             \/ TransferEnd \/ TransferEndAck
             \/ EndTransfers \/ EndDispatch \/ EndAck
    <3>1. Phases' /\ Unmoved
      BY <1>1, <1>5, <2>2, UploadPhases
    <3>2. UNCHANGED <<accepted, executed, fifo>>
      BY <1>5, <2>2
         DEF LoadSync, LoadMessage, LoadDispatch, LoadAck, SourceBegin,
             SourceLoop, SourceDispatch, SourceAck, TransferWord,
             TransferAgain, TransferAck, TransferEnd, TransferEndAck,
             EndTransfers, EndDispatch, EndAck, queueVars, spcVars
    <3>3. QED
      BY <3>1, <3>2
  <2>3. CASE RegionSync \/ RegionSize \/ RegionMessage
    <3>1. Phases' /\ Unmoved
      BY <1>1, <1>5, <2>3, RegionPhases
    <3>2. UNCHANGED <<accepted, executed, fifo>>
      BY <1>5, <2>3
         DEF RegionSync, RegionSize, RegionMessage, queueVars, spcVars
    <3>3. QED
      BY <3>1, <3>2
  <2>4. CASE \/ StreamFinished \/ StreamSignal \/ StreamWait \/ StreamNoNote
             \/ StreamVolume \/ StreamPitch \/ StreamNote \/ StreamAmount
             \/ StreamSync \/ StreamTwoBytes \/ StreamThirdByte \/ StreamSend
             \/ StreamLast \/ StreamRestorePorts
    <3>1. Phases' /\ Unmoved
      BY <1>1, <1>5, <2>4, StreamPhases
    <3>2. UNCHANGED <<accepted, executed, fifo>>
      BY <1>5, <2>4
         DEF StreamFinished, StreamSignal, StreamWait, StreamNoNote,
             StreamVolume, StreamPitch, StreamNote, StreamAmount, StreamSync,
             StreamTwoBytes, StreamThirdByte, StreamSend, StreamLast,
             StreamRestorePorts, StreamRestore, queueVars, spcVars
    <3>3. QED
      BY <3>1, <3>2
  <2>5. QED
    BY <1>5, <2>1, <2>2, <2>3, <2>4 DEF CpuStep, Moves
<1>6. CASE Spc /\ ~Moves
  <2>1. CASE \/ SPROC \/ OtherRoutine \/ NoMessage \/ NewMessage
             \/ VerifyMessage \/ CommandRet
    <3>1. Phases' /\ Unmoved
      BY <1>1, <1>6, <2>1, CommsPhases DEF Spc
    <3>2. UNCHANGED <<accepted, executed, fifo>>
      BY <1>6, <2>1
         DEF Spc, SPROC, OtherRoutine, NoMessage, NewMessage, VerifyMessage,
             CommandRet, cpuVars
    <3>3. QED
      BY <3>1, <3>2
  <2>2. CASE TransferStep
    <3>1. Phases' /\ Unmoved
      BY <1>1, <1>6, <2>2, TransferPhases DEF Spc, TransferStep
    <3>2. UNCHANGED <<accepted, executed, fifo>>
      BY <1>6, <2>2
         DEF Spc, TransferStep, BeginLoad, StartTransfer, DoTransfer,
             TransferReply, WaitForSource, NextSource, EndOfSources, cpuVars
    <3>3. QED
      BY <3>1, <3>2
  <2>3. CASE StreamingStep /\ (SpcAt("sr_exit") => InTime)
    <3>1. \/ StreamingReady \/ StreamingAmount \/ StreamingNote
          \/ StreamingEcho \/ StreamingWait \/ StreamingCopy
          \/ StreamingExit /\ InTime
      BY <2>3 DEF StreamingStep, StreamingExit
    <3>2. Phases' /\ Unmoved
      BY <1>1, <1>6, <3>1, StreamingPhases DEF Spc
    <3>3. UNCHANGED <<accepted, executed, fifo>>
      BY <1>6, <3>1
         DEF Spc, StreamingReady, StreamingAmount, StreamingNote,
             StreamingEcho, StreamingWait, StreamingCopy, StreamingExit,
             cpuVars
    <3>4. QED
      BY <3>2, <3>3
  <2>4. QED
    BY <1>6, <2>1, <2>2, <2>3 DEF Spc, CommsStep, Moves
<1>7. QED
  BY <1>2, <1>3, <1>4, <1>5, <1>6 DEF Next, Cpu
-----------------------------------------------------------------------------
(* Taking the first element of a sequence away from its place leaves the   *)
(* concatenation it is part of what it was.                                *)
LEMMA Concatenations ==
  ASSUME NEW S, NEW e \in Seq(S), NEW f \in Seq(S), NEW x \in S
  PROVE  /\ e \o <<>> = e /\ <<>> \o e = e
         /\ Append(e, x) = e \o <<x>>
         /\ (e \o f) \o <<x>> = e \o Append(f, x)
         /\ f # <<>> => (e \o <<Head(f)>>) \o Tail(f) = e \o f
<1>1. e \o <<>> = e /\ <<>> \o e = e
  BY ConcatEmptySeq
<1>2. \A s \in Seq(S) : Append(s, x) = s \o <<x>>
  BY SMT
<1>3. <<x>> \in Seq(S)
  BY SMT
<1>4. (e \o f) \o <<x>> = e \o Append(f, x)
  <2>1. (e \o f) \o <<x>> = e \o (f \o <<x>>)
    BY <1>3, ConcatAssociative
  <2>2. QED
    BY <1>2, <2>1
<1>5. ASSUME f # <<>>
      PROVE  (e \o <<Head(f)>>) \o Tail(f) = e \o f
  <2>1. Head(f) \in S /\ Tail(f) \in Seq(S)
    BY <1>5, HeadTailProperties
  <2>2. <<Head(f)>> \in Seq(S)
    BY <2>1, SMT
  <2>3. f = <<Head(f)>> \o Tail(f)
    BY <1>5, SMT
  <2>4. (e \o <<Head(f)>>) \o Tail(f) = e \o (<<Head(f)>> \o Tail(f))
    BY <2>1, <2>2, ConcatAssociative
  <2>5. QED
    BY <2>3, <2>4
<1>6. QED
  BY <1>1, <1>2, <1>4, <1>5

(* The messages of the queue, in the ports and about to be asked for are   *)
(* messages.                                                               *)
LEMMA MessagesInFlight ==
  ASSUME LinkInv
  PROVE  /\ executed \in Seq(Message) /\ fifo \in Seq(Message)
         /\ accepted \in Seq(Message)
         /\ Current \in Message /\ InFlight \in Seq(Message)
         /\ AskedSize \in Seq(Message)
<1>1. /\ executed \in Seq(Message) /\ fifo \in Seq(Message)
      /\ accepted \in Seq(Message) /\ size \in Byte
  BY DEF LinkInv, LinkTypeOK, CpuTypeOK, SpcTypeOK, Message
<1>2. Held(0) \in Byte /\ Held(2) \in Byte /\ Held(3) \in Byte
  BY Constants DEF LinkInv, LinkTypeOK, PortsTypeOK, CpuTypeOK, Held
<1>3. Current \in Message
  BY <1>2, Constants DEF Current, Arguments, Message
<1>4. [id |-> CMD_SSIZE, lo |-> 0, hi |-> size] \in Message
  BY <1>1, Constants DEF Message
<1>5. \A x \in Message : <<x>> \in Seq(Message)
  BY SMT
<1>6. <<>> \in Seq(Message)
  BY SMT
<1>7. InFlight \in Seq(Message) /\ AskedSize \in Seq(Message)
  BY <1>3, <1>4, <1>5, <1>6 DEF InFlight, AskedSize
<1>8. QED
  BY <1>1, <1>3, <1>7

(* What a step that moves a message does to the messages asked for,        *)
(* executed and on their way.                                              *)
Asks(c) ==
  /\ c \in Requests /\ c \in Message
  /\ accepted' = Append(accepted, c) /\ executed' = executed
  /\ InFlight' \o fifo' \o AskedSize'
       = Append(InFlight \o fifo \o AskedSize, c)

Executes ==
  /\ Outstanding
  /\ accepted' = accepted /\ executed' = Append(executed, Current)
  /\ InFlight' = <<>> /\ fifo' = fifo /\ AskedSize' = AskedSize

Passes ==
  /\ accepted' = accepted /\ executed' = executed
  /\ InFlight' \o fifo' \o AskedSize' = InFlight \o fifo \o AskedSize

(* Writing the last byte of the arguments takes the message off the queue. *)
LEMMA SendsMessage ==
  ASSUME LinkInv, LinkInv', Phases, Phases', MessagePort3,
         UNCHANGED <<spcOut, spcVars>>
  PROVE  Passes
<1>1. fifo # <<>> /\ fifo \in Seq(Commands)
  BY DEF LinkInv, QueueFacts, QueueLabel, MessagePort3, MessageByte, At,
         Phases, InHand
<1>2. Head(fifo) = Arguments(Head(fifo).id, Head(fifo).lo, Head(fifo).hi)
  BY <1>1, HeadCommand
<1>3. ~Outstanding /\ Outstanding'
  BY DEF MessagePort3, MessageByte, At, Goto, Outstanding, Phases, Handshake,
         Filling, Idle, Sent, Taken, Quiet
<1>4. Current' = Head(fifo)
  <2>1. /\ pc' = "mq_p1" /\ cpuOut'[0] = cpuOut[0] /\ cpuOut'[2] = cpuOut[2]
        /\ cpuOut'[3] = Head(fifo).hi
    BY Constants
       DEF LinkInv, LinkTypeOK, PortsTypeOK, MessagePort3, MessageByte,
           CpuWrite, Goto
  <2>2. cpuOut[0] = Head(fifo).id /\ cpuOut[2] = Head(fifo).lo
    BY DEF MessagePort3, MessageByte, At, Phases, InHand
  <2>3. Restored'
    BY <2>1 DEF Restored, StreamLabel, RestoreLabel
  <2>4. QED
    BY <1>2, <2>1, <2>2, <2>3 DEF Current, Held
<1>5. InFlight = <<>> /\ InFlight' = <<Head(fifo)>> /\ fifo' = Tail(fifo)
  BY <1>3, <1>4 DEF InFlight, MessagePort3
<1>6. AskedSize' = AskedSize
  BY DEF MessagePort3, MessageByte, At, Goto, AskedSize, QueueLabel,
         RegionLabel
<1>7. <<Head(fifo)>> \o Tail(fifo) = <<>> \o fifo
  BY <1>1, MessagesInFlight, SMT
<1>8. accepted' = accepted /\ executed' = executed
  BY DEF MessagePort3, spcVars
<1>9. QED
  BY <1>5, <1>6, <1>7, <1>8 DEF Passes

(* spcAllocateSoundRegion sends its message when the queue is empty.       *)
LEMMA SendsRegion ==
  ASSUME LinkInv, LinkInv', Phases, Phases', RegionDispatch,
         UNCHANGED <<spcOut, spcVars>>
  PROVE  Passes
<1>1. /\ pc = "ss_p1" /\ pc' = "idle" /\ fifo = <<>> /\ fifo' = fifo
      /\ cpuOut[0] = CMD_SSIZE /\ cpuOut[3] = size
  BY DEF RegionDispatch, At, Goto, queueVars, Phases, Purpose, RegionLabel,
         InHand
<1>2. ~Outstanding /\ InFlight = <<>>
  BY <1>1 DEF Outstanding, InFlight, Phases, Handshake, Filling, Idle, Sent,
         Taken, Quiet
<1>3. AskedSize = <<[id |-> CMD_SSIZE, lo |-> 0, hi |-> size]>>
  BY <1>1 DEF AskedSize, RegionLabel
<1>4. AskedSize' = <<>>
  BY <1>1 DEF AskedSize, RegionLabel, QueueLabel
<1>5. Outstanding'
  <2>1. Idle /\ spc_v \in Byte /\ spc_v' = Toggle(spc_v)
        /\ UNCHANGED <<spcOut, spcPc, comms_v>>
    BY <1>1
       DEF Phases, Handshake, Filling, RegionDispatch, Validate, spcVars,
           LinkInv, LinkTypeOK, CpuTypeOK
  <2>2. spc_v' # spc_v
    BY <2>1, Toggling
  <2>3. Sent'
    BY <2>1, <2>2 DEF Idle, Sent, Quiet
  <2>4. QED
    BY <1>1, <2>3 DEF Outstanding, MessageLabel, Between
<1>6. Current' = [id |-> CMD_SSIZE, lo |-> 0, hi |-> size]
  <2>1. cpuOut'[0] = CMD_SSIZE /\ cpuOut'[3] = size
    BY <1>1, Constants
       DEF RegionDispatch, Validate, CpuWrite, LinkInv, LinkTypeOK,
           PortsTypeOK
  <2>2. Held(0)' = CMD_SSIZE /\ Held(3)' = size
    BY <1>1, <2>1 DEF Held, Restored, StreamLabel, RestoreLabel
  <2>3. ~ReadsPort2(CMD_SSIZE) /\ ReadsPort3(CMD_SSIZE)
    BY SMT DEF ReadsPort2, ReadsPort3, CMD_SSIZE, CMD_FADE, CMD_FX
  <2>4. QED
    BY <2>2, <2>3 DEF Current, Arguments
<1>7. accepted' = accepted /\ executed' = executed
  BY DEF RegionDispatch, queueVars, spcVars
<1>8. InFlight' = AskedSize
  BY <1>3, <1>5, <1>6 DEF InFlight
<1>9. \A s \in Seq(Message) : s \o <<>> \o <<>> = <<>> \o <<>> \o s
  BY ConcatEmptySeq, SMT
<1>10. QED
  BY <1>1, <1>2, <1>4, <1>7, <1>8, <1>9, MessagesInFlight DEF Passes

(* A message is queued behind the others; none is then asked for by        *)
(* spcAllocateSoundRegion, which has not been called.                      *)
LEMMA AsksMessage ==
  ASSUME LinkInv, LinkInv', Phases, Phases', NEW c \in Commands,
         QueueMessage(c), UNCHANGED <<spcOut, spcVars>>
  PROVE  Asks(c)
<1>1. c \in Message /\ c \in Requests
  BY SnesModAssumption DEF Requests
<1>2. /\ pc = "idle" /\ pc' = pc /\ fifo' = Append(fifo, c)
      /\ accepted' = Append(accepted, c) /\ executed' = executed
      /\ UNCHANGED <<cpuOut, spcOut, spc_v, spc_pr, spcPc, comms_v>>
  BY DEF QueueMessage, At, spcVars
<1>3. AskedSize = <<>> /\ AskedSize' = <<>>
  BY <1>2 DEF AskedSize, RegionLabel, QueueLabel
<1>4. InFlight' = InFlight
  BY <1>2
     DEF InFlight, Outstanding, Current, Held, Restored, Sent, Taken, Quiet
<1>5. /\ InFlight \o fifo \in Seq(Message)
      /\ InFlight \o Append(fifo, c) \in Seq(Message)
      /\ (InFlight \o fifo) \o <<c>> = InFlight \o Append(fifo, c)
  <2>1. Append(fifo, c) \in Seq(Message)
    BY <1>1, MessagesInFlight, SMT
  <2>2. QED
    <3>1. InFlight \in Seq(Message) /\ fifo \in Seq(Message)
      BY MessagesInFlight
    <3>2. InFlight \o fifo \in Seq(Message)
      BY <3>1, ConcatProperties
    <3>3. InFlight \o Append(fifo, c) \in Seq(Message)
      BY <2>1, <3>1, ConcatProperties
    <3>4. (InFlight \o fifo) \o <<c>> = InFlight \o Append(fifo, c)
      BY <1>1, <3>1, Concatenations
    <3>5. QED
      BY <3>2, <3>3, <3>4
<1>6. \A s \in Seq(Message) : s \o <<>> = s /\ Append(s, c) = s \o <<c>>
  BY <1>1, Concatenations
<1>7. QED
  BY <1>1, <1>2, <1>3, <1>4, <1>5, <1>6 DEF Asks

(* A call of spcAllocateSoundRegion comes after the messages queued.       *)
LEMMA AsksRegion ==
  ASSUME LinkInv, LinkInv', Phases, Phases', NEW s \in Regions,
         spcAllocateSoundRegion(s), UNCHANGED <<spcOut, spcVars>>
  PROVE  Asks([id |-> CMD_SSIZE, lo |-> 0, hi |-> s])
<1> DEFINE c == [id |-> CMD_SSIZE, lo |-> 0, hi |-> s]
<1>1. c \in Message /\ c \in Requests
  BY SnesModAssumption, Constants DEF Requests, Message
<1>2. /\ pc = "idle" /\ pc' \in {"mq_test", "ss_sync"} /\ fifo' = fifo
      /\ caller' = "spcAllocateSoundRegion" /\ size' = s
      /\ accepted' = Append(accepted, c) /\ executed' = executed
      /\ UNCHANGED <<cpuOut, spcOut, spc_v, spc_pr, spcPc, comms_v>>
  BY DEF spcAllocateSoundRegion, At, Goto, MessagesOrReturn, AfterQueue,
         spcVars
<1>3. AskedSize = <<>> /\ AskedSize' = <<c>>
  BY <1>2 DEF AskedSize, RegionLabel, QueueLabel
<1>4. InFlight' = InFlight
  <2>1. Outstanding' <=> Outstanding
    BY <1>2 DEF Outstanding, Sent, Taken, Quiet, MessageLabel, Between
  <2>2. Current' = Current
    BY <1>2 DEF Current, Held, Restored, StreamLabel, RestoreLabel
  <2>3. QED
    BY <2>1, <2>2 DEF InFlight
<1>5. InFlight \o fifo \in Seq(Message)
  BY MessagesInFlight, ConcatProperties
<1>6. \A t \in Seq(Message) : t \o <<c>> = Append(t \o <<>>, c)
  <2> HIDE DEF c
  <2> QED
    BY <1>1, Concatenations
<1>7. QED
  BY <1>1, <1>2, <1>3, <1>4, <1>5, <1>6 DEF Asks

(* The SPC700 executes the message that is outstanding.                    *)
LEMMA ExecutesMessage ==
  ASSUME LinkInv, LinkInv', Phases, Phases', Undisturbed, ExecuteCommand,
         UNCHANGED <<cpuOut, cpuVars>>
  PROVE  Executes
<1>1. /\ pc \in MessageLabel /\ Taken /\ Outstanding
      /\ Arguments(Low7(spcA), cpuOut[2], cpuOut[3]) = Current
  BY StreamsCalmly, ExecutesCurrent DEF ExecuteCommand, SpcAt
<1>2. /\ spcPc' = "cm_ret" /\ executed' = Append(executed, Current)
      /\ UNCHANGED <<spcOut, comms_v, spc_v, pc, accepted, fifo, caller, size>>
  BY <1>1 DEF ExecuteCommand, SpcGoto, cpuVars
<1>3. pc # "mq_p1"
  BY <1>1 DEF Phases, Handshake, Filling, Idle, Taken, Quiet
<1>4. ~Outstanding'
  BY <1>1, <1>2, <1>3
     DEF Outstanding, Sent, Taken, Quiet, SproLabel, StreamingLabel
<1>5. InFlight' = <<>> /\ AskedSize' = AskedSize
  BY <1>2, <1>4 DEF InFlight, AskedSize
<1>6. QED
  BY <1>1, <1>2, <1>5 DEF Executes

(* Every step asks for one message, executes one, or leaves the messages   *)
(* asked for and not executed as they are.                                 *)
LEMMA NextMessages ==
  ASSUME LinkInv, LinkInv', Phases, Undisturbed, [Next]_vars
  PROVE  Phases' /\ ((\E c \in Requests : Asks(c)) \/ Executes \/ Passes)
<1>1. Phases' /\ (Moves \/ (Unmoved /\ UNCHANGED <<accepted, executed, fifo>>))
  BY NextPhases
<1>2. CASE Unmoved /\ UNCHANGED <<accepted, executed, fifo>>
  BY <1>1, <1>2 DEF Unmoved, InFlight, Passes
<1>3. CASE MessagePort3 /\ UNCHANGED <<spcOut, spcVars>>
  BY <1>1, <1>3, SendsMessage
<1>4. CASE RegionDispatch /\ UNCHANGED <<spcOut, spcVars>>
  BY <1>1, <1>4, SendsRegion
<1>5. CASE /\ \E c \in Commands : QueueMessage(c)
           /\ UNCHANGED <<spcOut, spcVars>>
  <2>1. PICK c \in Commands : QueueMessage(c)
    BY <1>5
  <2>2. Asks(c)
    BY <1>1, <1>5, <2>1, AsksMessage
  <2>3. QED
    BY <1>1, <2>2 DEF Asks
<1>6. CASE /\ \E s \in Regions : spcAllocateSoundRegion(s)
           /\ UNCHANGED <<spcOut, spcVars>>
  <2>1. PICK s \in Regions : spcAllocateSoundRegion(s)
    BY <1>6
  <2>2. Asks([id |-> CMD_SSIZE, lo |-> 0, hi |-> s])
    BY <1>1, <1>6, <2>1, AsksRegion
  <2>3. QED
    BY <1>1, <2>2 DEF Asks
<1>7. CASE ExecuteCommand /\ UNCHANGED <<cpuOut, cpuVars>>
  BY <1>1, <1>7, ExecutesMessage
<1>8. QED
  BY <1>1, <1>2, <1>3, <1>4, <1>5, <1>6, <1>7 DEF Moves

-----------------------------------------------------------------------------
(* The messages on their way, in the order in which they will be executed. *)
OnTheWay == InFlight \o fifo \o AskedSize

(* Order, with what is executed first separated from the rest.             *)
LEMMA OrderSplit ==
  LinkInv => /\ OnTheWay \in Seq(Message)
             /\ Order <=> accepted = executed \o OnTheWay
<1> SUFFICES ASSUME LinkInv
             PROVE  /\ OnTheWay \in Seq(Message)
                    /\ Order <=> accepted = executed \o OnTheWay
  OBVIOUS
<1>0. /\ executed \in Seq(Message) /\ fifo \in Seq(Message)
      /\ InFlight \in Seq(Message) /\ AskedSize \in Seq(Message)
  BY MessagesInFlight
<1>1. InFlight \o fifo \in Seq(Message)
  BY MessagesInFlight, ConcatProperties
<1>2. OnTheWay \in Seq(Message)
  BY <1>1, MessagesInFlight, ConcatProperties DEF OnTheWay
<1>3. (executed \o InFlight) \o fifo = executed \o (InFlight \o fifo)
  BY <1>0, ConcatAssociative
<1>4. (executed \o (InFlight \o fifo)) \o AskedSize = executed \o OnTheWay
  <2>1. \A t \in Seq(Message) :
          (executed \o t) \o AskedSize = executed \o (t \o AskedSize)
    BY <1>0, ConcatAssociative, SMTT(60)
  <2>2. QED
    BY <1>1, <2>1 DEF OnTheWay
<1>5. QED
  BY <1>2, <1>3, <1>4 DEF Order

(* What is executed next is the message that is outstanding.               *)
LEMMA NextExecuted ==
  ASSUME LinkInv, LinkInv', Executes
  PROVE  OnTheWay = <<Current>> \o OnTheWay'
<1>1. OnTheWay = (<<Current>> \o fifo) \o AskedSize
  BY DEF Executes, OnTheWay, InFlight
<1>2. <<Current>> \in Seq(Message)
  BY MessagesInFlight, SMT
<1>3. (<<Current>> \o fifo) \o AskedSize = <<Current>> \o (fifo \o AskedSize)
  BY <1>2, MessagesInFlight, ConcatAssociative
<1>4. OnTheWay' = (<<>> \o fifo) \o AskedSize
  BY DEF Executes, OnTheWay
<1>5. <<>> \o fifo = fifo
  BY MessagesInFlight, ConcatEmptySeq
<1>6. QED
  BY <1>1, <1>3, <1>4, <1>5

(* Every message asked for is accounted for after each step.               *)
LEMMA NextOrder ==
  ASSUME LinkInv, LinkInv', Order,
         (\E c \in Requests : Asks(c)) \/ Executes \/ Passes
  PROVE  Order'
<1>1. accepted = executed \o OnTheWay /\ OnTheWay \in Seq(Message)
  BY OrderSplit
<1>2. /\ (OnTheWay \in Seq(Message))'
      /\ (Order <=> accepted = executed \o OnTheWay)'
  BY OrderSplit, PTL
<1>3. CASE Passes
  BY <1>1, <1>2, <1>3 DEF Passes, OnTheWay
<1>4. ASSUME NEW c \in Requests, Asks(c)
      PROVE  Order'
  <2>1. /\ OnTheWay' = Append(OnTheWay, c) /\ c \in Message
        /\ accepted' = Append(accepted, c) /\ executed' = executed
    BY <1>4 DEF Asks, OnTheWay
  <2>2. /\ executed \o Append(OnTheWay, c) = (executed \o OnTheWay) \o <<c>>
        /\ Append(accepted, c) = accepted \o <<c>>
    BY <1>1, <2>1, MessagesInFlight, Concatenations
  <2>3. QED
    BY <1>1, <1>2, <2>1, <2>2
<1>5. CASE Executes
  <2>1. /\ accepted' = accepted /\ executed' = Append(executed, Current)
        /\ Current \in Message /\ executed \in Seq(Message)
    BY <1>5, MessagesInFlight DEF Executes
  <2>2. executed' = executed \o <<Current>>
    BY <2>1, Concatenations
  <2>3. <<Current>> \in Seq(Message)
    BY <2>1, SMT
  <2>4. executed' \o OnTheWay' = executed \o (<<Current>> \o OnTheWay')
    BY <1>2, <2>1, <2>2, <2>3, ConcatAssociative
  <2>5. QED
    BY <1>1, <1>2, <1>5, <2>1, <2>4, NextExecuted
<1>6. QED
  BY <1>3, <1>4, <1>5

-----------------------------------------------------------------------------
(* The inductive invariant: the facts that bound what is read, and the     *)
(* phases of the exchange.                                                 *)
StepInv == LinkInv /\ InStep

(* After spcBoot nothing is outstanding and the SPC700 is in its main loop.*)
LEMMA InitStepInv == Init => StepInv
<1> SUFFICES ASSUME Init PROVE StepInv
  OBVIOUS
<1>1. LinkInv
  BY InitLinkInv
<1>2. /\ pc = "idle" /\ caller = "spcProcess" /\ fifo = <<>>
      /\ cpuOut[0] = 0 /\ cpuOut[1] = 0
      /\ spc_v = 0 /\ spc_pr[0] = 0 /\ spc_pr[1] = 0 /\ spcOut[0] = 0
      /\ spcOut[1] = 0 /\ spcPc = "run" /\ comms_v = 0 /\ ~digi_active
      /\ nmi = FALSE /\ spc_sfx_next = 0 /\ next_sample = 0
      /\ accepted = <<>> /\ executed = <<>>
  BY Constants DEF Init, CpuInit, SpcInit
<1>3. Idle /\ ~Sent /\ ~Taken
  BY <1>2
     DEF Idle, Sent, Taken, Quiet, SproLabel
<1>4. ~Outstanding
  BY <1>2, <1>3 DEF Outstanding
<1>5. Purpose /\ Handshake /\ LoadPhase /\ SourcePhase /\ WordPhase
  BY <1>2, <1>3
     DEF Purpose, Handshake, LoadPhase, SourcePhase, WordPhase, RegionLabel,
         UploadLabel, QueueLabel, Filling
<1>6. StreamPhase
  BY <1>2, SMT
     DEF StreamPhase, StreamLabel, RestoreLabel, StreamingLabel, CMD_SSIZE
<1>7. Record /\ InHand
  BY <1>2, <1>3, <1>4, SMT DEF Record, InHand
<1>8. EffectsKnown
  BY <1>2, <1>4, SMT DEF EffectsKnown, UploadLabel
<1>9. Order
  <2>1. InFlight = <<>> /\ AskedSize = <<>>
    BY <1>2, <1>4 DEF InFlight, AskedSize, RegionLabel, QueueLabel
  <2>2. <<>> \o <<>> = <<>> /\ <<>> \in Seq(Message)
    BY SMT
  <2>3. QED
    BY <1>2, <2>1, <2>2 DEF Order
<1>10. QED
  BY <1>1, <1>5, <1>6, <1>7, <1>8, <1>9 DEF StepInv, InStep, Phases

(* Every step of either processor keeps them.                              *)
LEMMA NextStepInv == StepInv /\ [Next]_vars => StepInv'
<1> SUFFICES ASSUME StepInv, [Next]_vars PROVE StepInv'
  OBVIOUS
<1>1. LinkInv /\ LinkInv'
  BY NextLinkInv DEF StepInv
<1>2. CASE Undisturbed
  <2>1. Phases /\ Order
    BY <1>2 DEF StepInv, InStep
  <2>2. Phases' /\ Order'
    BY <1>1, <1>2, <2>1, NextMessages, NextOrder
  <2>3. QED
    BY <1>1, <2>2 DEF StepInv, InStep
<1>3. CASE ~Undisturbed
  BY <1>1, <1>3 DEF StepInv, InStep, Undisturbed
<1>4. QED
  BY <1>2, <1>3

(* The two processors never lose step: whenever one of them is at a point  *)
(* of its program, the other one and the ports are where that point        *)
(* expects them, and every message asked for is executed, in the ports or  *)
(* queued, in the order of the calls.                                      *)
THEOREM StaysInStep == Spec => []InStep
<1>1. StepInv => InStep
  BY DEF StepInv
<1>2. QED
  BY <1>1, InitStepInv, NextStepInv, PTL DEF Spec

-----------------------------------------------------------------------------
(* In an undisturbed instance the messages asked for are the ones executed *)
(* followed by the ones on their way.                                      *)
LEMMA InStepFacts ==
  ASSUME StepInv, Undisturbed
  PROVE  /\ LinkInv /\ Phases /\ Calm
         /\ executed \in Seq(Message) /\ OnTheWay \in Seq(Message)
         /\ accepted = executed \o OnTheWay
         /\ Unexecuted = OnTheWay
<1>1. LinkInv /\ Phases /\ Calm /\ Order
  BY StreamsCalmly DEF StepInv, InStep
<1>2. executed \in Seq(Message) /\ OnTheWay \in Seq(Message)
  BY <1>1, MessagesInFlight, OrderSplit
<1>3. accepted = executed \o OnTheWay
  BY <1>1, OrderSplit
<1>4. /\ Len(executed) \in Nat /\ Len(OnTheWay) \in Nat
      /\ accepted \in Seq(Message)
      /\ Len(accepted) = Len(executed) + Len(OnTheWay)
  BY <1>2, <1>3, ConcatProperties
<1>5. CASE OnTheWay = <<>>
  <2>1. Len(executed) + 1 \in Int /\ Len(accepted) \in Int
        /\ Len(accepted) < Len(executed) + 1
    BY <1>4, <1>5, SMT
  <2>2. Unexecuted = <<>>
    BY <2>1, SubSeqEmpty DEF Unexecuted
  <2>3. QED
    BY <1>1, <1>2, <1>3, <1>5, <2>2
<1>6. CASE OnTheWay # <<>>
  <2>1. Len(OnTheWay) > 0
    BY <1>2, <1>6, SMT
  <2>2. /\ Len(executed) + 1
             \in Len(executed) + 1..Len(executed) + Len(OnTheWay)
        /\ Len(accepted) \in Len(executed) + 1..Len(executed) + Len(OnTheWay)
        /\ Len(executed) + 1 - Len(executed) = 1
        /\ Len(accepted) - Len(executed) = Len(OnTheWay)
    BY <1>4, <2>1, SMT
  <2>3. Unexecuted = SubSeq(OnTheWay, 1, Len(OnTheWay))
    BY <1>2, <1>3, <2>2, SubSeqOfConcat2 DEF Unexecuted
  <2>4. QED
    BY <1>1, <1>2, <1>3, <2>3, SubSeqFull
<1>7. QED
  BY <1>5, <1>6

(* What was executed is a prefix of what was asked for: every message is   *)
(* executed at most once, as it was given and in the order of the calls.   *)
THEOREM ExecutesInOrder ==
  ASSUME Undisturbed PROVE Spec => []ExecutedAsAccepted
<1>1. StepInv => ExecutedAsAccepted
  <2> SUFFICES ASSUME StepInv PROVE ExecutedAsAccepted
    OBVIOUS
  <2>1. /\ executed \in Seq(Message) /\ OnTheWay \in Seq(Message)
        /\ accepted = executed \o OnTheWay
    BY InStepFacts
  <2>2. /\ Len(executed) \in Nat
        /\ Len(executed) <= Len(accepted)
    <3>1. Len(accepted) = Len(executed) + Len(OnTheWay)
      BY <2>1, ConcatProperties
    <3>2. Len(executed) \in Nat /\ Len(OnTheWay) \in Nat
      BY <2>1
    <3>3. QED
      BY <3>1, <3>2, SMT
  <2>3. executed = SubSeq(accepted, 1, Len(executed))
    <3>1. CASE executed = <<>>
      <4>1. Len(executed) = 0
        BY <3>1, SMT
      <4>2. QED
        BY <3>1, <4>1, SubSeqEmpty
    <3>2. CASE executed # <<>>
      <4>1. 1 \in 1..Len(executed) /\ Len(executed) \in 1..Len(executed)
        BY <2>1, <3>2, SMT
      <4>2. SubSeq(accepted, 1, Len(executed))
              = SubSeq(executed, 1, Len(executed))
        BY <2>1, <4>1, SubSeqOfConcat1
      <4>3. QED
        BY <2>1, <4>2, SubSeqFull
    <3>3. QED
      BY <3>1, <3>2
  <2>4. QED
    BY <2>2, <2>3 DEF ExecutedAsAccepted, Prefix
<1>2. QED
  BY <1>1, InitStepInv, NextStepInv, PTL DEF Spec

(* The SPC700 is about to reply to a word: the S-CPU waits for it.         *)
LEMMA Replying ==
  ASSUME LinkInv, Phases, spcPc = "tx_reply"
  PROVE  /\ pc \in {"tx_ack", "tx_endack"} /\ Fetching(Taking)
         /\ caller = "spcLoad" => Registered(source)
         /\ pc = "tx_endack" =>
              /\ Taking = Len(Stored)
              /\ block # <<>> \/ source \in 1..Len(ModuleSources)
         /\ pc = "tx_ack" => Odd
<1> USE DEF LinkInv, LinkTypeOK, CpuTypeOK, SpcTypeOK, Phases, Handshake,
            Quiet, Idle, Sent, Taken, Done, LoadPhase, SourcePhase, WordPhase,
            StreamPhase, Ahead, Behind, Waiting, LoadSent, Starting,
            AtSources, Asked, SproLabel, StreamingLabel, MessageLabel,
            Filling, Between, StreamLabel, RestoreLabel
<1>1. pc \notin MessageLabel /\ pc \notin {"ld_p0", "ld_p1"}
  BY SMTT(240)
<1>2. pc \in {"tx_ack", "tx_endack"}
  BY <1>1, SMTT(240)
     DEF CpuLabel, QueueLabel, UploadLabel, RegionLabel
<1>3. Fetching(Taking)
  BY <1>2, SMTT(240)
<1>4. QED
  BY <1>2, <1>3, SMTT(240)

(* The SPC700 receives every module, sample and effect word for word, and  *)
(* registers the loop point of every sample before its words.              *)
THEOREM UploadsArrive ==
  ASSUME Undisturbed PROVE Spec => []UploadsIntact
<1>1. StepInv => UploadsIntact
  <2> SUFFICES ASSUME StepInv, spcPc = "tx_reply"
               PROVE  /\ spcX = 0 => xfer = Stored
                      /\ caller = "spcLoad" =>
                           directory = [i \in 1..source |->
                                          ModuleSources[i].loop]
    BY DEF UploadsIntact
  <2>1. LinkInv /\ Phases
    BY InStepFacts
  <2>2. /\ pc \in {"tx_ack", "tx_endack"} /\ Fetching(Taking)
        /\ caller = "spcLoad" => Registered(source)
        /\ pc = "tx_endack" =>
             /\ Taking = Len(Stored)
             /\ block # <<>> \/ source \in 1..Len(ModuleSources)
        /\ pc = "tx_ack" => Odd
    BY <2>1, Replying
  <2>3. spcX = spc_v /\ xfer = SubSeq(Stored, 1, Taking)
    BY <2>2 DEF Fetching, Waiting, Received
  <2>4. ASSUME spcX = 0 PROVE xfer = Stored
    <3>1. pc = "tx_endack"
      BY <2>2, <2>3, <2>4, SMT DEF Odd
    <3>2. Stored \in Seq(Word)
      BY <2>1, <2>2, <3>1, StoredWords
    <3>3. QED
      BY <2>2, <2>3, <3>1, <3>2, SubSeqFull
  <2>5. QED
    BY <2>2, <2>4 DEF Registered
<1>2. QED
  BY <1>1, InitStepInv, NextStepInv, PTL DEF Spec

(* A module is loaded over the player only after every message asked for   *)
(* was executed: spcLoad flushes the queue and waits for the last one.     *)
THEOREM LoadsAfterCommands ==
  ASSUME Undisturbed PROVE Spec => []LoadAfterCommands
<1>1. StepInv => LoadAfterCommands
  <2> SUFFICES ASSUME StepInv, spcPc = "cm_exec", Low7(spcA) = CMD_LOAD
               PROVE  executed = accepted
    BY DEF LoadAfterCommands
  <2>1. /\ LinkInv /\ Phases
        /\ executed \in Seq(Message) /\ accepted = executed \o OnTheWay
    BY InStepFacts
  <2>2. pc \notin MessageLabel
    <3>1. ASSUME pc \in MessageLabel PROVE FALSE
      <4>1. Taken /\ Outstanding
        BY <2>1, <3>1
           DEF Phases, Handshake, Idle, Sent, Taken, Done, Quiet, SproLabel,
               StreamingLabel, Outstanding
      <4>2. Low7(spcA) = Held(0)
        BY <2>1, <3>1, <4>1 DEF Phases, InHand
      <4>3. Held(0) \in {3, 4, 5, 6, 8, 10}
        BY <2>1, <4>1
           DEF Phases, InHand, CMD_PLAY, CMD_STOP, CMD_MVOL, CMD_FADE, CMD_FX,
               CMD_SSIZE
      <4>4. QED
        BY <4>2, <4>3, SMT DEF CMD_LOAD
    <3>2. QED
      BY <3>1
  <2>3. pc = "ld_ack" /\ spcA = LoadId
    <3> USE DEF LinkInv, LinkTypeOK, CpuTypeOK, Phases, Handshake, Quiet, Idle,
                Sent, Taken, Done, LoadPhase, SourcePhase, WordPhase,
                StreamPhase, Ahead, Behind, Waiting, Fetching, LoadSent,
                Starting, AtSources, Asked, SproLabel, StreamingLabel,
                MessageLabel, Filling, Between, StreamLabel, RestoreLabel
    <3>1. pc \notin UploadLabel \ {"ld_sync", "ld_p0", "ld_p1", "ld_ack"}
      BY <2>1, SMTT(240) DEF UploadLabel
    <3>2. pc = "ld_ack"
      BY <2>1, <2>2, <3>1, SMTT(240)
         DEF CpuLabel, QueueLabel, UploadLabel, RegionLabel
    <3>3. QED
      BY <2>1, <3>2, SMTT(240)
  <2>4. caller = "spcLoad"
    BY <2>3, LoadIds, SMT DEF LoadId, CMD_LOAD, CMD_LOADE
  <2>5. fifo = <<>>
    BY <2>1, <2>3, <2>4 DEF Phases, Purpose, UploadLabel
  <2>6. InFlight = <<>> /\ AskedSize = <<>>
    BY <2>2, <2>3
       DEF InFlight, Outstanding, AskedSize, RegionLabel, QueueLabel
  <2>7. <<>> \in Seq(Message)
    BY SMT
  <2>8. OnTheWay = <<>>
    BY <2>5, <2>6, <2>7, ConcatEmptySeq DEF OnTheWay
  <2>9. QED
    BY <2>1, <2>8, ConcatEmptySeq
<1>2. QED
  BY <1>1, InitStepInv, NextStepInv, PTL DEF Spec

(* An effect is played only while the SPC700 has it in memory: the ones    *)
(* queued before spcLoad are played before it forgets them.                *)
THEOREM PlaysResidentEffects ==
  ASSUME Undisturbed PROVE Spec => []EffectsResident
<1>1. StepInv => EffectsResident
  <2> SUFFICES ASSUME StepInv, spcPc = "cm_exec", Low7(spcA) = CMD_FX
               PROVE  cpuOut[3] \div 16 < next_sample
    BY DEF EffectsResident
  <2>1. LinkInv /\ Phases /\ Calm
    BY InStepFacts
  <2>2. Low7(spcA) \notin {CMD_LOAD, CMD_LOADE}
    BY SMT DEF CMD_LOAD, CMD_LOADE, CMD_FX
  <2>3. /\ pc \in MessageLabel /\ Outstanding
        /\ Arguments(Low7(spcA), cpuOut[2], cpuOut[3]) = Current
    BY <2>1, <2>2, ExecutesCurrent
  <2>4. ReadsPort3(CMD_FX)
    BY DEF ReadsPort3
  <2>5. Current.id = CMD_FX /\ Current.hi = cpuOut[3]
    BY <2>3, <2>4 DEF Arguments
  <2>6. Current.hi \div 16 < spc_sfx_next
    BY <2>1, <2>3, <2>5 DEF Phases, EffectsKnown, Playable
  <2>7. next_sample = spc_sfx_next
    BY <2>1, <2>3
       DEF Phases, EffectsKnown, MessageLabel, Filling, Between, StreamLabel,
           RestoreLabel, UploadLabel
  <2>8. QED
    BY <2>5, <2>6, <2>7
<1>2. QED
  BY <1>1, InitStepInv, NextStepInv, PTL DEF Spec

(* Whenever no call is in progress, spcLoadEffect would return the index   *)
(* at which the SPC700 will register the effect.                           *)
THEOREM CountsEffectsAlike ==
  ASSUME Undisturbed PROVE Spec => []EffectIndexAgrees
<1>1. StepInv => EffectIndexAgrees
  BY InStepFacts DEF EffectIndexAgrees, Phases, EffectsKnown, UploadLabel
<1>2. QED
  BY <1>1, InitStepInv, NextStepInv, PTL DEF Spec

(* Between calls the record from which streaming restores the ports agrees *)
(* with them, if spcAllocateSoundRegion, which does not record port 3, is  *)
(* never called.                                                           *)
THEOREM RecordsPorts ==
  ASSUME Undisturbed, Regions = {} PROVE Spec => []PortsBuffered
<1>1. StepInv => PortsBuffered
  <2> SUFFICES ASSUME StepInv, pc = "idle"
               PROVE  /\ spc_pr[1] = spc_v /\ cpuOut[1] = spc_v
                      /\ comms_v # spc_v =>
                           SamePort(0) /\ SamePort(2) /\ SamePort(3)
    BY DEF PortsBuffered, SamePort
  <2>1. Phases
    BY InStepFacts
  <2>2. /\ spc_pr[1] = spc_v /\ cpuOut[1] = spc_v
        /\ Idle \/ Sent \/ Taken \/ Done
    BY <2>1 DEF Phases, Handshake, MessageLabel, Between, Overwritten
  <2>3. comms_v # spc_v => Sent
    BY <2>2 DEF Idle, Taken, Done
  <2>4. QED
    BY <2>1, <2>2, <2>3 DEF Phases, Record, Between
<1>2. QED
  BY <1>1, InitStepInv, NextStepInv, PTL DEF Spec

-----------------------------------------------------------------------------
(* What the abstract queue calls pending.                                  *)
LEMMA Pending ==
  Undisturbed /\ StepInv => Unexecuted = OnTheWay /\ LinkInv
  BY InStepFacts

(* A step as the abstract queue sees it.                                   *)
LEMMA QueueStepMaps ==
  ASSUME StepInv, StepInv', Undisturbed, [Next]_vars
  PROVE  [Queue!Next]_(Queue!vars)
<1>1. /\ LinkInv /\ Phases
      /\ executed \in Seq(Message) /\ OnTheWay \in Seq(Message)
      /\ Unexecuted = OnTheWay
  BY InStepFacts
<1>2. (Unexecuted = OnTheWay /\ LinkInv)'
  <2>1. Undisturbed'
    BY DEF Undisturbed
  <2>2. QED
    BY <2>1, Pending, PTL
<1>3. (\E c \in Requests : Asks(c)) \/ Executes \/ Passes
  BY <1>1, <1>2, NextMessages
<1>4. CASE Passes
  BY <1>1, <1>2, <1>4 DEF Passes, OnTheWay, Queue!vars
<1>5. ASSUME NEW c \in Requests, Asks(c)
      PROVE  Queue!Submit(c)
  BY <1>1, <1>2, <1>5 DEF Asks, OnTheWay, Queue!Submit
<1>6. CASE Executes
  <2>1. OnTheWay = <<Current>> \o OnTheWay'
    BY <1>1, <1>2, <1>6, NextExecuted
  <2>2. Current \in Message
    BY <1>1, MessagesInFlight
  <2>3. (OnTheWay \in Seq(Message))'
    BY <1>2, OrderSplit, PTL
  <2>4. /\ OnTheWay # <<>> /\ Head(OnTheWay) = Current
        /\ Tail(OnTheWay) = OnTheWay'
    BY <2>1, <2>2, <2>3, SMT
  <2>5. executed' = Append(executed, Current)
    BY <1>6 DEF Executes
  <2>6. QED
    BY <1>1, <1>2, <2>4, <2>5 DEF Queue!Execute, Queue!Next
<1>7. QED
  BY <1>3, <1>4, <1>5, <1>6 DEF Queue!Next

(* The driver implements the abstract queue of messages: every step asks   *)
(* for one, executes the oldest one not yet executed, or leaves them as    *)
(* they are.                                                               *)
THEOREM LinkImplementsQueue ==
  ASSUME Undisturbed PROVE Spec => ImplementsQueue
<1>1. Init => Queue!Init
  <2> SUFFICES ASSUME Init PROVE Unexecuted = <<>> /\ executed = <<>>
    BY DEF Queue!Init
  <2>1. executed = <<>> /\ accepted = <<>>
    BY DEF Init, CpuInit, SpcInit
  <2>2. Unexecuted = SubSeq(<<>>, 1, 0)
    BY <2>1, SMT DEF Unexecuted
  <2>3. QED
    BY <2>1, <2>2, SubSeqEmpty
<1>2. StepInv /\ StepInv' /\ [Next]_vars => [Queue!Next]_(Queue!vars)
  BY QueueStepMaps
<1>3. QED
  BY <1>1, <1>2, InitStepInv, NextStepInv, PTL
     DEF Spec, ImplementsQueue, Queue!Safe

-----------------------------------------------------------------------------
(***************************************************************************)
(* What the streaming calls leave in the SPC700's memory: the bytes of the *)
(* sample, in order and without a gap, under its volume and pitch.         *)
(***************************************************************************)

(* The S-CPU has sent the number of blocks and waits for the SPC700, or    *)
(* sends the next group of three bytes.                                    *)
Sending == {"st_sync", "st_data", "st_third", "st_send", "st_last"}

(* The first n bytes of the sound are in the region, under its note.       *)
Noted == stream_note = <<DigiVp, DigiPitch>>
Copied(n) == stream_buf = SubSeq(Sound, 1, n) /\ Noted

(* The ports hold the note of a new sound, or the group of three bytes     *)
(* that the pointer into the sample has just passed.                       *)
NoteInPorts == cpuOut[1] = 1 /\ cpuOut[2] = DigiVp /\ cpuOut[3] = DigiPitch
GroupInPorts ==
  /\ digi_src >= 3 /\ Copied(digi_src - 3)
  /\ cpuOut[2] = Sound[digi_src - 2]
  /\ cpuOut[3] = Sound[digi_src - 1]
  /\ cpuOut[1] = Sound[digi_src]

(* Where the bytes of the sample are at each point of a streaming call:    *)
(* up to digi_src they are in the region, but for a group that the SPC700  *)
(* has not copied yet, which is in the ports.                              *)
StreamData ==
  /\ Prefix(stream_buf, Sound) /\ (stream_buf # <<>> => Noted)
  /\ digi_active /\ digi_init => digi_src = 0
  /\ digi_active /\ ~digi_init /\ pc \notin Sending =>
       digi_src > 0 /\ Copied(digi_src)
  /\ pc \in Sending \union RestoreLabel => ~digi_init
  /\ pc \in {"st_vp", "st_pitch", "st_note"} => digi_init
  /\ pc \in {"st_pitch", "st_note"} => cpuOut[2] = DigiVp
  /\ pc = "st_note" => cpuOut[3] = DigiPitch
  /\ pc = "st_n" => IF digi_init THEN NoteInPorts ELSE cpuOut[1] = 0
  /\ pc = "st_sync" =>
       /\ spcPc \in {"sr_amount", "sr_note"} =>
            IF digi_src = 0 THEN NoteInPorts
            ELSE cpuOut[1] = 0 /\ Copied(digi_src)
       /\ spcPc = "sr_echo" \/ Ahead(digi_x) => Copied(digi_src)
       /\ Behind(digi_x) => GroupInPorts
  /\ pc \in {"st_data", "st_third"} => Copied(digi_src)
  /\ pc = "st_third" =>
       cpuOut[2] = Sound[digi_src + 1] /\ cpuOut[3] = Sound[digi_src + 2]
  /\ pc = "st_send" => GroupInPorts
  /\ pc = "st_last" =>
       IF Behind(digi_x) THEN GroupInPorts
       ELSE digi_src > 0 /\ Copied(digi_src)

-----------------------------------------------------------------------------
(* A step outside of spcProcessStream that leaves the sound alone.         *)
LEMMA ElsewhereKeeps ==
  ASSUME StreamData,
         pc \notin StreamLabel, pc' \notin StreamLabel \ {"st_begin"},
         UNCHANGED <<digi_active, digi_init, digi_src, stream_buf, stream_note>>
  PROVE  StreamData'
  BY DEF StreamData, Sending, StreamLabel, RestoreLabel, Prefix, Noted, Copied

(* A step of the SPC700 that leaves the region alone, while no blocks are  *)
(* on their way.                                                           *)
LEMMA OutsideKeeps ==
  ASSUME StreamData, pc \notin Sending,
         UNCHANGED <<cpuOut, cpuVars, stream_buf, stream_note>>
  PROVE  StreamData'
  BY DEF StreamData, Sending, Prefix, Noted, Copied, NoteInPorts, cpuVars

(* The sample is a sequence of bytes.                                      *)
LEMMA SoundBytes == Sound \in Seq(Byte) /\ Len(Sound) \in Nat
<1>1. Sound \in Seq(Byte)
  BY SnesModAssumption
<1>2. QED
  BY <1>1

(* Three bytes more of the sample.                                         *)
LEMMA ThreeBytes ==
  ASSUME NEW n \in Nat, n >= 3, n <= Len(Sound)
  PROVE  SubSeq(Sound, 1, n - 3) \o <<Sound[n - 2], Sound[n - 1], Sound[n]>>
           = SubSeq(Sound, 1, n)
<1>1. Sound \in Seq(Byte) /\ Len(Sound) \in Nat
  BY SoundBytes
<1>2. /\ 1 \in 1..Len(Sound) + 1 /\ n - 3 \in 1 - 1..Len(Sound)
      /\ n \in n - 3..Len(Sound) /\ n - 3 + 1 = n - 2
  BY <1>1, SMT
<1>3. SubSeq(Sound, 1, n - 3) \o SubSeq(Sound, n - 2, n) = SubSeq(Sound, 1, n)
  BY <1>1, <1>2, ConcatAdjacentSubSeq
<1>4. SubSeq(Sound, n - 2, n) = <<Sound[n - 2], Sound[n - 1], Sound[n]>>
  <2> DEFINE s == SubSeq(Sound, n - 2, n)
             t == <<Sound[n - 2], Sound[n - 1], Sound[n]>>
  <2>1. /\ Sound[n - 2] \in Byte /\ Sound[n - 1] \in Byte
        /\ Sound[n] \in Byte
    BY <1>1, SMT
  <2>2. t \in Seq(Byte) /\ Len(t) = 3
    BY <2>1, SMT
  <2>3. /\ n - 2 \in Int /\ n \in Int /\ n - 2 <= n
        /\ n - (n - 2) + 1 = 3
    BY SMT
  <2>4. \A i \in n - 2..n : Sound[i] \in Byte
    BY <1>1, SMT
  <2>5. s \in Seq(Byte) /\ Len(s) = 3
    BY <2>3, <2>4, SubSeqProperties
  <2>6. \A i \in 1..3 : s[i] = Sound[n - 2 + i - 1]
    BY <2>3, <2>4, SubSeqProperties
  <2>7. s[1] = Sound[n - 2] /\ s[2] = Sound[n - 1] /\ s[3] = Sound[n]
    <3> HIDE DEF s
    <3> QED
      BY <2>6, SMT
  <2>8. \A i \in 1..3 : s[i] = t[i]
    <3> HIDE DEF s
    <3> QED
      BY <2>7, SMT
  <2>9. QED
    BY <2>2, <2>5, <2>8, SeqEqual
<1>5. QED
  BY <1>3, <1>4

(* What is copied of the sample is a prefix of it.                         *)
LEMMA CopiedPrefix ==
  ASSUME NEW n \in Nat, n <= Len(Sound), NEW s, s = SubSeq(Sound, 1, n)
  PROVE  Prefix(s, Sound) /\ Len(s) = n
<1>1. Sound \in Seq(Byte) /\ Len(Sound) \in Nat
  BY SoundBytes
<1>2. Len(s) = n
  BY <1>1, SMT
<1>3. QED
  BY <1>2 DEF Prefix

(* Before the first group nothing is.                                      *)
LEMMA NothingCopied == Prefix(<<>>, Sound) /\ SubSeq(Sound, 1, 0) = <<>>
<1>1. SubSeq(Sound, 1, 0) = <<>>
  BY SubSeqEmpty
<1>2. Len(<<>>) = 0 /\ 0 <= Len(Sound)
  BY SoundBytes, SMT
<1>3. QED
  BY <1>1, <1>2 DEF Prefix

(* A word of two bytes of the sample, and the ports it is stored to.       *)
LEMMA TwoBytesStored ==
  ASSUME cpuOut \in [Port -> Byte], NEW a \in Byte, NEW b \in Byte,
         CpuWriteWord(a + 256 * b)
  PROVE  cpuOut'[2] = a /\ cpuOut'[3] = b
<1>1. cpuOut'[2] = (a + 256 * b) % 256 /\ cpuOut'[3] = (a + 256 * b) \div 256
  BY Constants DEF CpuWriteWord
<1>2. (a + 256 * b) % 256 = a /\ (a + 256 * b) \div 256 = b
  BY SMTT(60) DEF Byte
<1>3. QED
  BY <1>1, <1>2

-----------------------------------------------------------------------------
(* The calls and the steps of spcProcessStream up to the number of blocks. *)
LEMMA NoteData ==
  ASSUME LinkInv, StreamPhase, StreamData, UNCHANGED <<spcOut, spcVars>>,
         \/ spcPlaySound \/ StreamFinished \/ StreamSignal \/ StreamWait
         \/ StreamNoNote \/ StreamVolume \/ StreamPitch \/ StreamNote
         \/ StreamAmount
  PROVE  StreamData'
<1> USE DEF StreamData, Sending, StreamLabel, RestoreLabel, Prefix, Noted,
            Copied, NoteInPorts, At, Goto, CpuWrite, spcVars, streamVars,
            digiVars, queueVars, loadVars
<1>1. cpuOut \in [Port -> Byte] /\ digi_init \in BOOLEAN
  BY ZenonT(60) DEF LinkInv, LinkTypeOK, PortsTypeOK, CpuTypeOK
<1>2. CASE spcPlaySound
  BY <1>2 DEF spcPlaySound
<1>3. CASE StreamFinished
  BY <1>3 DEF StreamFinished, MessagesOrReturn, AfterQueue
<1>4. CASE StreamSignal
  BY <1>4 DEF StreamSignal
<1>5. CASE StreamWait
  BY <1>5 DEF StreamWait
<1>6. CASE StreamNoNote
  BY <1>1, <1>6, Constants DEF StreamNoNote
<1>7. CASE StreamVolume
  BY <1>1, <1>7, Constants DEF StreamVolume
<1>8. CASE StreamPitch
  BY <1>1, <1>8, Constants DEF StreamPitch
<1>9. CASE StreamNote
  BY <1>1, <1>9, Constants DEF StreamNote
<1>10. CASE StreamAmount
  <2>1. spcPc = "sr_amount" /\ pc = "st_n" /\ pc' = "st_sync" /\ spcPc' = spcPc
    BY <1>10 DEF StreamAmount, StreamPhase
  <2>2. /\ cpuOut'[1] = cpuOut[1] /\ cpuOut'[2] = cpuOut[2]
        /\ cpuOut'[3] = cpuOut[3]
    BY <1>1, <1>10, Constants DEF StreamAmount
  <2>3. digi_active
    BY <2>1 DEF LinkInv, StreamFacts
  <2>4. ~Ahead(digi_x)' /\ ~Behind(digi_x)'
    BY <2>1 DEF Ahead, Behind
  <2>5. QED
    BY <1>10, <2>1, <2>2, <2>3, <2>4 DEF StreamAmount
<1>11. QED
  BY <1>2, <1>3, <1>4, <1>5, <1>6, <1>7, <1>8, <1>9, <1>10, SMTT(60)

(* The steps of spcProcessStream that send the groups of three bytes.      *)
LEMMA GroupData ==
  ASSUME LinkInv, StreamPhase, StreamPhase', StreamData,
         UNCHANGED <<spcOut, spcVars>>,
         \/ StreamSync \/ StreamTwoBytes \/ StreamThirdByte \/ StreamSend
         \/ StreamLast \/ StreamRestorePorts
  PROVE  StreamData'
<1>1. /\ cpuOut \in [Port -> Byte] /\ digi_init \in BOOLEAN
      /\ digi_src \in Nat /\ digi_x \in Byte /\ LinkTypeOK
      /\ Sound \in Seq(Byte)
      /\ pc \in StreamLabel => digi_active
  BY SnesModAssumption
     DEF LinkInv, LinkTypeOK, PortsTypeOK, CpuTypeOK, StreamFacts
<1>2. UNCHANGED <<spcPc, spcX, spcOut, stream_a, group, stream_buf,
                  stream_note>>
  BY DEF spcVars
<1> USE DEF At, Goto, CpuWrite, digiVars, queueVars, loadVars
<1>3. CASE StreamSync
  <2>1. pc = "st_sync" /\ pc' = "st_data" /\ Ahead(digi_x)
    BY <1>1, <1>3, Replied DEF StreamSync
  <2>2. /\ Copied(digi_src) /\ ~digi_init
        /\ UNCHANGED <<cpuOut, digi_src, digi_init>>
    BY <1>3, <2>1 DEF StreamSync, StreamData, Sending
  <2>3. QED
    BY <1>2, <2>1, <2>2
       DEF StreamData, Sending, RestoreLabel, Copied, Noted, Prefix
<1>4. CASE StreamTwoBytes
  <2>1. /\ pc = "st_data" /\ pc' = "st_third"
        /\ CpuWriteWord(Sound[digi_src + 1] + 256 * Sound[digi_src + 2])
        /\ UNCHANGED <<digi_src, digi_init>>
    BY <1>4 DEF StreamTwoBytes
  <2>2. digi_src + 3 <= Len(Sound)
    BY <2>1, InSample DEF LinkInv, LinkTypeOK, PortsTypeOK, CpuSide
  <2>3. Sound[digi_src + 1] \in Byte /\ Sound[digi_src + 2] \in Byte
    BY <1>1, <2>2, SMT
  <2>4. cpuOut'[2] = Sound[digi_src + 1] /\ cpuOut'[3] = Sound[digi_src + 2]
    BY <1>1, <2>1, <2>3, TwoBytesStored
  <2>5. QED
    BY <1>2, <2>1, <2>4
       DEF StreamData, Sending, RestoreLabel, Copied, Noted, Prefix
<1>5. CASE StreamThirdByte
  <2>1. /\ pc = "st_third" /\ pc' = "st_send" /\ digi_src' = digi_src + 3
        /\ cpuOut'[1] = Sound[digi_src + 3] /\ cpuOut'[2] = cpuOut[2]
        /\ cpuOut'[3] = cpuOut[3] /\ digi_init' = digi_init
        /\ digi_active' = digi_active
    BY <1>1, <1>5, Constants DEF StreamThirdByte
  <2>2. /\ digi_src' >= 3 /\ digi_src' - 3 = digi_src
        /\ digi_src' - 2 = digi_src + 1 /\ digi_src' - 1 = digi_src + 2
    BY <1>1, <2>1, SMT
  <2>3. /\ Copied(digi_src) /\ ~digi_init
        /\ cpuOut[2] = Sound[digi_src + 1] /\ cpuOut[3] = Sound[digi_src + 2]
    BY <2>1 DEF StreamData, Sending
  <2>4. GroupInPorts'
    BY <1>2, <2>1, <2>2, <2>3 DEF GroupInPorts, Copied, Noted
  <2>5. QED
    BY <1>2, <2>1, <2>3, <2>4
       DEF StreamData, Sending, RestoreLabel, Copied, Noted, Prefix
<1>6. CASE StreamSend
  <2>1. /\ pc = "st_send" /\ pc' \in {"st_last", "st_sync"}
        /\ cpuOut'[1] = cpuOut[1] /\ cpuOut'[2] = cpuOut[2]
        /\ cpuOut'[3] = cpuOut[3]
        /\ UNCHANGED <<digi_init, digi_active, digi_src, digi_x>>
    BY <1>1, <1>6, Constants DEF StreamSend
  <2>2. Ahead(digi_x - 1)
    BY <2>1 DEF StreamPhase
  <2>3. spcPc' = "sr_wait" /\ spcX' = digi_x'
    BY <1>1, <1>2, <2>1, <2>2, SMT DEF Ahead, Byte
  <2>4. ~Ahead(digi_x)'
    BY <1>1, <2>1, <2>3, SMT DEF Ahead, Byte
  <2>5. pc' = "st_last" => Behind(digi_x)'
    BY <2>3 DEF StreamPhase
  <2>6. GroupInPorts' /\ ~digi_init
    BY <1>2, <2>1 DEF StreamData, GroupInPorts, Copied, Noted, Sending
  <2>7. QED
    BY <1>2, <2>1, <2>3, <2>4, <2>5, <2>6
       DEF StreamData, Sending, RestoreLabel, Copied, Noted, Prefix
<1>7. CASE StreamLast
  <2>1. /\ pc = "st_last" /\ pc' = "st_r0" /\ spcPc = "sr_exit"
        /\ UNCHANGED <<digi_init, digi_active, digi_src>>
    BY <1>1, <1>7, Replied DEF StreamLast
  <2>2. digi_src > 0 /\ Copied(digi_src) /\ ~digi_init
    BY <2>1, SMTT(60) DEF StreamData, Behind, Sending
  <2>3. QED
    BY <1>2, <2>1, <2>2, ZenonT(60)
       DEF StreamData, Sending, RestoreLabel, Copied, Noted, Prefix
<1>8. CASE StreamRestorePorts
  <2>1. /\ pc \in RestoreLabel
        /\ pc' \in {"st_r1", "st_r2", "st_r3", "idle", "mq_test"}
        /\ UNCHANGED <<digi_init, digi_active, digi_src>>
    BY <1>8
       DEF StreamRestorePorts, StreamRestore, RestoreLabel, MessagesOrReturn,
           AfterQueue
  <2>2. QED
    BY <1>1, <1>2, <2>1, ZenonT(60)
       DEF StreamData, Sending, StreamLabel, RestoreLabel, Copied, Noted, Prefix
<1>9. QED
  BY <1>3, <1>4, <1>5, <1>6, <1>7, <1>8

(* Streaming_Run takes the note and the groups of three from the ports.    *)
LEMMA RegionData ==
  ASSUME LinkInv, StreamPhase, StreamPhase', StreamData, Calm,
         UNCHANGED <<cpuOut, cpuVars>>,
         \/ StreamingReady \/ StreamingAmount \/ StreamingNote
         \/ StreamingEcho \/ StreamingWait \/ StreamingCopy
         \/ StreamingExit /\ InTime
  PROVE  StreamData'
<1>1. /\ LinkTypeOK /\ StreamFacts /\ digi_x \in Nat /\ digi_src \in Nat
  <2>1. /\ LinkTypeOK /\ StreamFacts /\ digi_x \in Byte /\ digi_src \in Nat
    BY DEF LinkInv, LinkTypeOK, CpuTypeOK
  <2>2. QED
    BY <2>1, SMT DEF Byte
<1>2. UNCHANGED <<cpuOut, pc, digi_active, digi_init, digi_src, digi_x>>
  BY DEF cpuVars
<1> USE DEF SpcAt, SpcGoto, streamVars
<1>3. CASE StreamingReady
  <2>1. spcPc = "sr_ready" /\ UNCHANGED <<stream_buf, stream_note>>
    BY <1>3 DEF StreamingReady
  <2>2. pc \notin Sending
    BY <2>1
       DEF Sending, StreamPhase, StreamLabel, StreamingLabel, Ahead, Behind
  <2>3. QED
    BY <2>1, <2>2, OutsideKeeps
<1>4. CASE StreamingAmount
  <2>1. /\ spcPc = "sr_amount" /\ spcPc' = "sr_note" /\ cpuOut[0] < 128
        /\ UNCHANGED <<stream_buf, stream_note>>
    BY <1>4 DEF StreamingAmount
  <2>2. CASE pc \notin Sending
    BY <2>1, <2>2, OutsideKeeps
  <2>3. CASE pc \in Sending
    <3>1. pc = "st_sync"
      BY <2>1, <2>3 DEF Sending, StreamPhase, Ahead, Behind
    <3>2. ~Ahead(digi_x)' /\ ~Behind(digi_x)'
      BY <2>1 DEF Ahead, Behind
    <3>3. QED
      BY <1>2, <2>1, <3>1, <3>2
         DEF StreamData, Sending, RestoreLabel, Copied, Noted, Prefix,
             NoteInPorts
  <2>4. QED
    BY <2>2, <2>3
<1>5. CASE StreamingNote
  <2>1. spcPc = "sr_note" /\ spcPc' = "sr_echo"
    BY <1>5 DEF StreamingNote
  <2>2. pc = "st_sync"
    BY <2>1 DEF StreamPhase, StreamLabel, StreamingLabel, RestoreLabel, Ahead,
                Behind
  <2>3. ~Ahead(digi_x)' /\ ~Behind(digi_x)'
    BY <2>1 DEF Ahead, Behind
  <2>4. /\ Copied(digi_src)'
        /\ Prefix(stream_buf, Sound)' /\ (stream_buf # <<>> => Noted)'
    <3>1. CASE digi_src = 0
      <4>1. stream_buf' = <<>> /\ stream_note' = <<DigiVp, DigiPitch>>
        BY <1>5, <2>1, <2>2, <3>1
           DEF StreamingNote, StreamData, NoteInPorts
      <4>2. SubSeq(Sound, 1, 0) = <<>>
        BY NothingCopied
      <4>3. Prefix(<<>>, Sound)
        BY NothingCopied
      <4>4. QED
        BY <1>2, <3>1, <4>1, <4>2, <4>3 DEF Copied, Noted, Prefix
    <3>2. CASE digi_src # 0
      <4>1. cpuOut[1] = 0 /\ Copied(digi_src)
        BY <2>1, <2>2, <3>2 DEF StreamData
      <4>2. UNCHANGED <<stream_buf, stream_note>>
        BY <1>5, <4>1 DEF StreamingNote
      <4>3. QED
        BY <1>2, <4>1, <4>2 DEF Copied, Noted, Prefix, StreamData
    <3>3. QED
      BY <3>1, <3>2
  <2>5. ~digi_init
    BY <2>2 DEF StreamData, Sending
  <2>6. QED
    BY <1>2, <2>1, <2>2, <2>3, <2>4, <2>5
       DEF StreamData, Sending, RestoreLabel
<1>6. CASE StreamingEcho
  <2>1. /\ spcPc = "sr_echo" /\ spcPc' = "sr_wait"
        /\ spcX' = (cpuOut[0] + 1) % 256
        /\ UNCHANGED <<stream_buf, stream_note>>
    BY <1>6 DEF StreamingEcho
  <2>2. pc = "st_sync"
    BY <2>1 DEF StreamPhase, StreamLabel, StreamingLabel, RestoreLabel, Ahead,
                Behind
  <2>3. cpuOut[0] = digi_x /\ digi_x \in 0..112
    <3>1. cpuOut[0] = digi_x /\ digi_x + tribytes <= 112
      BY <2>2 DEF StreamPhase
    <3>2. digi_x \in 0..255 /\ tribytes \in 0..255
      BY <1>1, StreamNumbers
    <3>3. QED
      BY <3>1, <3>2, SMT
  <2>4. spcX' = digi_x + 1
    BY <2>1, <2>3, Counters
  <2>5. ~Behind(digi_x)'
    BY <1>1, <1>2, <2>4, SMT DEF Behind
  <2>6. QED
    BY <1>2, <2>1, <2>2, <2>5
       DEF StreamData, Sending, RestoreLabel, Copied, Noted, Prefix
<1>7. CASE StreamingWait
  <2>1. /\ spcPc = "sr_wait" /\ spcX = cpuOut[0] /\ spcPc' = "sr_copy"
        /\ UNCHANGED <<stream_buf, stream_note, spcX, spcOut, stream_a, group>>
    BY <1>7 DEF StreamingWait
  <2>2. pc \in {"st_sync", "st_last"} /\ Behind(digi_x)
    BY <1>1, <2>1, GroupSent
  <2>3. GroupInPorts
    BY <2>2 DEF StreamData
  <2>4. GroupInPorts'
    BY <1>2, <2>1, <2>3 DEF GroupInPorts, Copied, Noted
  <2>5. Behind(digi_x)' /\ ~Ahead(digi_x)'
    BY <2>1, <2>2 DEF Behind, Ahead, Left, cpuVars
  <2>6. QED
    BY <1>2, <2>1, <2>2, <2>4, <2>5
       DEF StreamData, Sending, RestoreLabel, Copied, Noted, Prefix
<1>8. CASE StreamingCopy
  <2>1. /\ spcPc = "sr_copy" /\ stream_note' = stream_note
        /\ stream_buf' = stream_buf \o <<cpuOut[2], cpuOut[3], cpuOut[1]>>
    BY <1>8 DEF StreamingCopy
  <2>2. /\ pc \in {"st_sync", "st_last"} /\ Behind(digi_x)
        /\ digi_x \in 0..112 /\ tribytes \in 0..255
        /\ pc = "st_last" <=> tribytes = 0
    BY <1>1, <2>1, GroupSent
  <2>3. GroupInPorts /\ ~digi_init
    BY <2>2 DEF StreamData, Sending
  <2>4. digi_src >= 3 /\ digi_src <= Len(Sound)
    <3>1. digi_src >= 3
      BY <2>3 DEF GroupInPorts
    <3>2. /\ digi_src + 9 * digi_remain + 3 * Groups = Len(Sound)
          /\ digi_remain \in Nat /\ Groups \in Nat
      BY <2>2
         DEF LinkInv, StreamFacts, StreamLabel, LinkTypeOK, CpuTypeOK, Groups
    <3>3. QED
      BY <1>1, <3>1, <3>2, SoundBytes, SMT
  <2>5. stream_buf' = SubSeq(Sound, 1, digi_src)
    BY <1>1, <2>1, <2>3, <2>4, ThreeBytes DEF GroupInPorts, Copied
  <2>6. Copied(digi_src)' /\ Prefix(stream_buf, Sound)' /\ Noted'
    <3>1. \A s : s = SubSeq(Sound, 1, digi_src) => Prefix(s, Sound)
      BY <1>1, <2>4, CopiedPrefix
    <3>2. Prefix(stream_buf', Sound)
      BY <2>5, <3>1
    <3>3. Noted'
      BY <2>1, <2>3 DEF GroupInPorts, Copied, Noted
    <3>4. QED
      BY <1>2, <2>5, <3>2, <3>3 DEF Copied, Prefix
  <2>7. /\ spcOut'[0] = digi_x
        /\ IF tribytes = 0 THEN spcPc' = "sr_exit" ELSE Ahead(digi_x)'
    BY <1>1, <1>8, <2>2, GroupCopied
  <2>8. /\ spcPc' \notin {"sr_amount", "sr_note", "sr_echo"}
        /\ ~Behind(digi_x)'
    BY <1>1, <1>2, <2>7, SMT DEF Ahead, Behind
  <2>9. QED
    BY <1>1, <1>2, <2>2, <2>3, <2>4, <2>6, <2>8
       DEF StreamData, Sending, RestoreLabel
<1>9. CASE StreamingExit /\ InTime
  <2>1. spcPc = "sr_exit" /\ UNCHANGED <<stream_buf, stream_note>>
    BY <1>9 DEF StreamingExit
  <2>2. pc \notin Sending
    BY <1>9, <2>1
       DEF Sending, StreamPhase, Ahead, Behind, InTime, Restoring, Calm,
           StreamLabel
  <2>3. QED
    BY <2>1, <2>2, OutsideKeeps
<1>10. QED
  BY <1>3, <1>4, <1>5, <1>6, <1>7, <1>8, <1>9

-----------------------------------------------------------------------------
(* The steps of the S-CPU elsewhere: messages, uploads, other calls.       *)
LEMMA ElsewhereData ==
  ASSUME StreamData, UNCHANGED <<spcOut, spcVars>>, ApiCall \/ CpuStep,
         ~(\/ spcPlaySound \/ StreamFinished \/ StreamSignal \/ StreamWait
           \/ StreamNoNote \/ StreamVolume \/ StreamPitch \/ StreamNote
           \/ StreamAmount \/ StreamSync \/ StreamTwoBytes
           \/ StreamThirdByte \/ StreamSend \/ StreamLast
           \/ StreamRestorePorts)
  PROVE  StreamData'
<1> USE DEF At, Goto, queueVars, loadVars, digiVars, AfterQueue,
            MessagesOrReturn, StreamLabel, RestoreLabel
<1>1. UNCHANGED <<stream_buf, stream_note>>
  BY DEF spcVars
<1>2. CASE ApiCall
  <2>1. \/ (\E c \in Commands : QueueMessage(c))
        \/ (\E s \in Regions : spcAllocateSoundRegion(s))
        \/ spcProcess \/ spcLoad \/ spcLoadEffect
    BY <1>2 DEF ApiCall
  <2>2. /\ pc \notin StreamLabel /\ pc' \notin StreamLabel \ {"st_begin"}
        /\ UNCHANGED <<digi_active, digi_init, digi_src>>
    BY <2>1
       DEF QueueMessage, spcAllocateSoundRegion, spcProcess, spcLoad,
           spcLoadEffect
  <2>3. QED
    BY <1>1, <2>2, ElsewhereKeeps
<1>3. CASE CpuStep
  <2>1. \/ MessageTest \/ MessagePort0 \/ MessagePort2 \/ MessagePort3
        \/ MessageDispatch \/ MessageRetry \/ MessageTimeout
        \/ LoadSync \/ LoadMessage \/ LoadDispatch \/ LoadAck
        \/ SourceBegin \/ SourceLoop \/ SourceDispatch \/ SourceAck
        \/ TransferWord \/ TransferAgain \/ TransferAck
        \/ TransferEnd \/ TransferEndAck
        \/ EndTransfers \/ EndDispatch \/ EndAck
        \/ RegionSync \/ RegionSize \/ RegionMessage \/ RegionDispatch
    BY <1>3 DEF CpuStep
  <2>2. /\ pc \notin StreamLabel /\ pc' \notin StreamLabel \ {"st_begin"}
        /\ UNCHANGED <<digi_active, digi_init, digi_src>>
    BY <2>1
       DEF MessageTest, MessagePort0, MessagePort2, MessagePort3,
           MessageDispatch, MessageRetry, MessageTimeout, MessageByte,
           LoadSync, LoadMessage, LoadDispatch, LoadAck, SourceBegin,
           SourceLoop, SourceDispatch, SourceAck, TransferWord,
           TransferAgain, TransferAck, TransferEnd, TransferEndAck,
           EndTransfers, EndDispatch, EndAck, RegionSync, RegionSize,
           RegionMessage, RegionDispatch
  <2>3. QED
    BY <1>1, <2>2, ElsewhereKeeps
<1>4. QED
  BY <1>2, <1>3

(* Every step keeps the bytes of the sample where they belong.             *)
LEMMA NextStreamData ==
  ASSUME LinkInv, Phases, Phases', Undisturbed, StreamData, [Next]_vars
  PROVE  StreamData'
<1>1. Calm /\ StreamPhase /\ StreamPhase'
  BY StreamsCalmly DEF Phases
<1>2. CASE (ApiCall \/ CpuStep) /\ UNCHANGED <<spcOut, spcVars>>
  BY <1>1, <1>2, NoteData, GroupData, ElsewhereData
<1>3. CASE Nmi \/ UNCHANGED vars
  BY <1>3
     DEF Nmi, NmiBegin, NmiEnd, vars, portVars, cpuVars, spcVars, digiVars,
         StreamData, Prefix, Noted, Copied, NoteInPorts, GroupInPorts, Ahead,
         Behind, Left
<1>4. CASE Spc
  <2>1. CASE CommsStep \/ TransferStep
    <3>1. UNCHANGED <<cpuOut, cpuVars, stream_buf, stream_note>>
      BY <1>4, <2>1
         DEF Spc, CommsStep, TransferStep, SPROC, OtherRoutine, NoMessage,
             NewMessage, VerifyMessage, ExecuteCommand, CommandRet,
             BeginLoad, StartTransfer, DoTransfer, TransferReply,
             WaitForSource, NextSource, EndOfSources, streamVars
    <3>2. spcPc \notin StreamingLabel
      BY <2>1
         DEF CommsStep, TransferStep, SPROC, OtherRoutine, NoMessage,
             NewMessage, VerifyMessage, ExecuteCommand, CommandRet,
             BeginLoad, StartTransfer, DoTransfer, TransferReply,
             WaitForSource, NextSource, EndOfSources, SpcAt, StreamingLabel
    <3>3. pc \notin Sending
      BY <1>1, <3>2
         DEF StreamPhase, Sending, StreamingLabel, Ahead, Behind
    <3>4. QED
      BY <3>1, <3>3, OutsideKeeps
  <2>2. CASE StreamingStep /\ (SpcAt("sr_exit") => InTime)
    <3>1. \/ StreamingReady \/ StreamingAmount \/ StreamingNote
          \/ StreamingEcho \/ StreamingWait \/ StreamingCopy
          \/ StreamingExit /\ InTime
      BY <2>2 DEF StreamingStep, StreamingExit
    <3>2. QED
      BY <1>1, <1>4, <3>1, RegionData DEF Spc
  <2>3. QED
    BY <1>4, <2>1, <2>2 DEF Spc
<1>5. QED
  BY <1>2, <1>3, <1>4 DEF Next, Cpu

(* At the start nothing was streamed.                                      *)
LEMMA InitStreamData == Init => StreamData
<1> SUFFICES ASSUME Init PROVE StreamData
  OBVIOUS
<1>1. stream_buf = <<>> /\ ~digi_active /\ pc = "idle"
  BY DEF Init, CpuInit, SpcInit
<1>2. QED
  BY <1>1, NothingCopied DEF StreamData, Sending, RestoreLabel

(* The streaming region holds exactly the bytes of the sample so far, in   *)
(* order, under the sample's volume and pitch, and at the end of a call    *)
(* the two processors agree on how many were sent -- for every sample.     *)
THEOREM StreamsIntact ==
  ASSUME Undisturbed PROVE Spec => []StreamIntact
<1> DEFINE Inv == StepInv /\ StreamData
<1>1. Init => Inv
  BY InitStepInv, InitStreamData
<1>2. Inv /\ [Next]_vars => Inv'
  <2> SUFFICES ASSUME StepInv, StreamData, [Next]_vars
               PROVE  StepInv' /\ StreamData'
    OBVIOUS
  <2>1. LinkInv /\ Phases /\ StepInv'
    BY NextStepInv, InStepFacts
  <2>2. Phases'
    BY <2>1, NextPhases, NextLinkInv
  <2>3. QED
    BY <2>1, <2>2, NextStreamData
<1>3. Inv => StreamIntact
  <2> SUFFICES ASSUME StepInv, StreamData PROVE StreamIntact
    OBVIOUS
  <2>1. /\ Prefix(stream_buf, Sound)
        /\ stream_buf # <<>> => stream_note = <<DigiVp, DigiPitch>>
    BY DEF StreamData, Noted
  <2>2. ASSUME pc \in RestoreLabel
        PROVE  Len(stream_buf) = digi_src /\ ~digi_init
    <3>1. ~digi_init /\ digi_active /\ LinkInv
      BY <2>2, InStepFacts
         DEF StreamData, LinkInv, StreamFacts, StreamLabel
    <3>2. stream_buf = SubSeq(Sound, 1, digi_src)
      BY <2>2, <3>1 DEF StreamData, Sending, RestoreLabel, Copied
    <3>3. /\ digi_src + 9 * digi_remain + 3 * Groups = Len(Sound)
          /\ digi_src \in Nat /\ digi_remain \in Nat /\ Groups = 0
      BY <2>2, <3>1
         DEF LinkInv, LinkTypeOK, CpuTypeOK, StreamFacts, Groups, RestoreLabel
    <3>4. digi_src <= Len(Sound)
      BY <3>3, SoundBytes, SMT
    <3>5. QED
      BY <3>1, <3>2, <3>3, <3>4, CopiedPrefix
  <2>3. QED
    BY <2>1, <2>2 DEF StreamIntact
<1>4. QED
  BY <1>1, <1>2, <1>3, PTL DEF Spec
=============================================================================
