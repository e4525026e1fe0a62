----------------------------- MODULE CommandFifo -----------------------------
(***************************************************************************)
(* The message queue of snesmodwla.asm as it is stored: a ring of bytes    *)
(* with 8-bit read and write positions, filled by QueueMessage and emptied *)
(* by the loop of spcProcess, which the program calls itself or from an    *)
(* interrupt handler.  Also the S-CPU's stack, on which the entry points   *)
(* have to leave what they found: they return by RTL, their subroutines    *)
(* by RTS.  The exchange with the SPC700 is that of SnesMod: a message     *)
(* taken from the ring is appended to `sent' in one step.                  *)
(***************************************************************************)
EXTENDS Integers, Sequences

CONSTANTS
  RingSize,      \* bytes in spc_fifo (256 in the code)
  Commands,      \* what the program may queue: [id, lo, hi]
  VCounts,       \* values the scanline counter may show
  Consumers,     \* who may call spcProcess: the program or a handler
  FlushQueued,   \* whether spcFlush is called with messages waiting
  MaxCommands    \* bound: messages queued in a run

Byte == 0..255
Consumer == {"program", "irq", "nmi"}

ASSUME CommandFifoAssumption ==
  /\ RingSize \in Nat /\ RingSize >= 4
  /\ Commands \subseteq [id : Byte, lo : Byte, hi : Byte]
  /\ VCounts \subseteq Byte
  /\ Consumers \subseteq Consumer
  /\ FlushQueued \in BOOLEAN
  /\ MaxCommands \in Nat

VARIABLES
  consumer,                  \* who calls spcProcess in this program
  spc_fifo, spc_fread, spc_fwrite,
  spc1,                      \* the two bytes of the scratch word
  irqOff,                    \* the S-CPU's interrupt disable flag
  pc,                        \* the program
  call,                      \* the message its call queues
  args,                      \* the halves of spc1 still to be stored
  x,                         \* register x
  stack,                     \* bytes pushed since the program made its call
  inHandler,                 \* the handler runs spcProcess
  accepted,                  \* history: messages queued, as asked for
  sent                       \* history: messages given to the SPC700

vars == <<consumer, spc_fifo, spc_fread, spc_fwrite, spc1, irqOff, pc, call,
          args, x, stack, inHandler, accepted, sent>>

ringVars == <<spc_fifo, spc_fread, spc_fwrite>>
historyVars == <<accepted, sent>>

Index == 0..(RingSize - 1)
(* Faulty: a 16-bit index into the ring.                                   *)
FaultyAdvance(i, n) == (i + n) % 65536

Advance(i, n) == (i + n) % RingSize

Label == {"idle", "arg", "put0", "put1", "put2", "publish",
          "cli", "pm_test", "fl_test", "xf_test", "xpm_test", "loaded",
          "lost"}

CMD_PLAY == 3
CMD_MVOL == 5
CMD_FADE == 6
CMD_FX   == 8

(* A return address by JSL (three bytes) and by JSR (two), and the         *)
(* registers pushed by PHP, PHB and PHX (16 bits).                         *)
StackByte == {"L", "S", "P", "B", "X"}
Entered == <<"L", "L", "L", "P", "B">>   \* JSL, PHP, PHB
JSR == <<"S", "S">>
PHX == <<"X", "X">>

FifoTypeOK ==
  /\ consumer \in Consumers
  /\ spc_fifo \in [Index -> Byte]
  /\ spc_fread \in Index /\ spc_fwrite \in Index
  /\ spc1 \in [{"lo", "hi"} -> Byte]
  /\ irqOff \in BOOLEAN
  /\ pc \in Label
  /\ call \in [id : Byte, lo : Byte, hi : Byte]
  /\ args \in Seq({"lo", "hi"})
  /\ x \in Index
  /\ stack \in Seq(StackByte)
  /\ inHandler \in BOOLEAN
  /\ accepted \in Seq([id : Byte, lo : Byte, hi : Byte])
  /\ sent \in Seq([id : Byte, lo : Byte, hi : Byte])

Init ==
  /\ consumer \in Consumers
  /\ spc_fifo = [i \in Index |-> 0]
  /\ spc_fread = 0 /\ spc_fwrite = 0
  /\ spc1 = [b \in {"lo", "hi"} |-> 0]
  /\ irqOff = FALSE
  /\ pc = "idle"
  /\ call = [id |-> 0, lo |-> 0, hi |-> 0]
  /\ args = <<>>
  /\ x = 0
  /\ stack = <<>>
  /\ inHandler = FALSE
  /\ accepted = <<>> /\ sent = <<>>

At(label) == pc = label /\ ~inHandler
Empty == spc_fread = spc_fwrite

(* The three bytes of the message at position i.                           *)
MessageAt(i) ==
  [id |-> spc_fifo[i],
   lo |-> spc_fifo[Advance(i, 1)],
   hi |-> spc_fifo[Advance(i, 2)]]

(* How many messages the ring holds without its positions meeting.  The    *)
(* code does not check: it is the program that must not queue more.        *)
Capacity == (RingSize - 1) \div 3
Waiting == Len(accepted) - Len(sent)

-----------------------------------------------------------------------------
(* The halves of spc1 an entry point stores, in its order.                 *)
Stores(id) ==
  CASE id = CMD_FADE -> <<"hi", "lo">>
    [] id = CMD_FX -> <<"lo", "hi">>
    [] id \in {CMD_PLAY, CMD_MVOL} -> <<"hi">>
    [] OTHER -> <<>>

(* The entry points that queue a message: PHP and PHB, the arguments to    *)
(* spc1, then QueueMessage.                                                *)
Enqueue(c) ==
  /\ At("idle")
  /\ Len(accepted) < MaxCommands
  /\ Waiting < Capacity
  /\ accepted' = Append(accepted, c)
  /\ call' = c
  /\ stack' = stack \o Entered
  /\ args' = Stores(c.id)
  /\ pc' = "arg"
  /\ UNCHANGED <<consumer, ringVars, spc1, irqOff, x, inHandler, sent>>

StoreArgument ==
  /\ At("arg")
  /\ args # <<>>
  /\ spc1' = [spc1 EXCEPT ![Head(args)] = call[Head(args)]]
  /\ args' = Tail(args)
  /\ UNCHANGED <<consumer, ringVars, irqOff, pc, call, x, stack, inHandler,
                 historyVars>>

(* Faulty: the write position is moved before the bytes are stored.        *)
FaultyDisableIrq ==
  /\ At("arg")
  /\ args = <<>>
  /\ irqOff' = TRUE
  /\ x' = spc_fwrite
  /\ spc_fwrite' = Advance(spc_fwrite, 3)
  /\ pc' = "put0"
  /\ UNCHANGED <<consumer, spc_fifo, spc_fread, spc1, call, args, stack,
                 inHandler, historyVars>>

(* QueueMessage *)
DisableIrq ==
  /\ At("arg")
  /\ args = <<>>
  /\ irqOff' = TRUE
  /\ x' = spc_fwrite
  /\ pc' = "put0"
  /\ UNCHANGED <<consumer, ringVars, spc1, call, args, stack, inHandler,
                 historyVars>>

Put(label, b, next) ==
  /\ At(label)
  /\ spc_fifo' = [spc_fifo EXCEPT ![x] = b]
  /\ x' = Advance(x, 1)
  /\ pc' = next
  /\ UNCHANGED <<consumer, spc_fread, spc_fwrite, spc1, irqOff, call, args,
                 stack, inHandler, historyVars>>

(* Faulty: the halves of spc1 are exchanged.                               *)
FaultyPutMessage ==
  \/ Put("put0", call.id, "put1")
  \/ Put("put1", spc1["hi"], "put2")
  \/ Put("put2", spc1["lo"], "publish")

PutMessage ==
  \/ Put("put0", call.id, "put1")
  \/ Put("put1", spc1["lo"], "put2")
  \/ Put("put2", spc1["hi"], "publish")

Publish ==
  /\ At("publish")
  /\ spc_fwrite' = x
  /\ pc' = "cli"
  /\ UNCHANGED <<consumer, spc_fifo, spc_fread, spc1, irqOff, call, args, x, stack,
                 inHandler, historyVars>>

(* Instructions that pull bytes from the stack and go on at `next': they   *)
(* get there if, and only if, they find what was pushed for them.          *)
Pull(bytes, next) ==
  LET below == Len(stack) - Len(bytes)
  IN  IF below >= 0 /\ SubSeq(stack, below + 1, Len(stack)) = bytes
        THEN pc' = next /\ stack' = SubSeq(stack, 1, below)
        ELSE pc' = "lost" /\ stack' = <<>>

ReturnToProgram == Pull(Entered, "idle")     \* PLB, PLP, RTL

EnableIrq ==
  /\ At("cli")
  /\ irqOff' = FALSE
  /\ ReturnToProgram
  /\ UNCHANGED <<consumer, ringVars, spc1, call, args, x, inHandler, historyVars>>

-----------------------------------------------------------------------------
(* The program calls spcProcess, spcFlush and spcLoad.                     *)
Enter(pushed, label) ==
  /\ At("idle")
  /\ consumer = "program"
  /\ stack' = stack \o pushed
  /\ pc' = label
  /\ UNCHANGED <<consumer, ringVars, spc1, irqOff, call, args, x, inHandler,
                 historyVars>>

spcProcess == Enter(Entered, "pm_test")
spcFlush == (FlushQueued \/ Empty) /\ Enter(Entered, "fl_test")
(* Of spcLoad only the flush: PHX, JSR xspcFlush, PLX.                     *)
spcLoad == Enter(Entered \o PHX \o JSR, "xf_test")

(* The loop of spcFlush: JSR spcProcessMessages while messages wait.       *)
FlushTest ==
  /\ At("fl_test")
  /\ IF Empty
       THEN ReturnToProgram
       ELSE stack' = stack \o JSR /\ pc' = "pm_test"
  /\ UNCHANGED <<consumer, ringVars, spc1, irqOff, call, args, x, inHandler,
                 historyVars>>

(* The loop of xspcFlush: JSR xspcProcessMessages while messages wait, and *)
(* an RTS to spcLoad.                                                      *)
LoadFlushTest ==
  /\ At("xf_test")
  /\ IF Empty
       THEN Pull(JSR, "loaded")
       ELSE stack' = stack \o JSR /\ pc' = "xpm_test"
  /\ UNCHANGED <<consumer, ringVars, spc1, irqOff, call, args, x, inHandler,
                 historyVars>>

(* @xexit2, reached when the ring is empty or the time is over: RTS.       *)
LoadFlushExit ==
  /\ At("xpm_test")
  /\ Pull(JSR, "xf_test")
  /\ UNCHANGED <<consumer, ringVars, spc1, irqOff, call, args, x, inHandler,
                 historyVars>>

(* PLX; the upload, which leaves stack and ring alone; PLB, PLP and RTL.   *)
LoadReturn ==
  /\ At("loaded")
  /\ Pull(Entered \o PHX, "idle")
  /\ UNCHANGED <<consumer, ringVars, spc1, irqOff, call, args, x, inHandler,
                 historyVars>>

(* The body of the loop when the SPC700 is ready: the message at the read  *)
(* position goes to the ports.                                             *)
SendMessage ==
  /\ sent' = Append(sent, MessageAt(spc_fread))
  /\ spc_fread' = Advance(spc_fread, 3)
  /\ UNCHANGED <<spc_fifo, spc_fwrite>>

LoadFlushSend ==
  /\ At("xpm_test")
  /\ ~Empty
  /\ SendMessage
  /\ UNCHANGED <<consumer, spc1, irqOff, pc, call, args, x, stack, inHandler,
                 accepted>>

(* @xnext: the scanline counter is compared with spc1 and stored there.    *)
LoadFlushWait ==
  /\ At("xpm_test")
  /\ ~Empty
  /\ \E v \in VCounts : spc1' = [spc1 EXCEPT !["lo"] = v]
  /\ UNCHANGED <<consumer, ringVars, irqOff, pc, call, args, x, stack, inHandler,
                 historyVars>>

ProcessSend ==
  /\ At("pm_test")
  /\ ~Empty
  /\ SendMessage
  /\ UNCHANGED <<consumer, spc1, irqOff, pc, call, args, x, stack, inHandler,
                 accepted>>

ProcessWait ==
  /\ At("pm_test")
  /\ ~Empty
  /\ \E v \in VCounts : spc1' = [spc1 EXCEPT !["lo"] = v]
  /\ UNCHANGED <<consumer, ringVars, irqOff, pc, call, args, x, stack, inHandler,
                 historyVars>>

(* @exit2, reached when the ring is empty or the time is over.             *)
ProcessExit ==
  /\ At("pm_test")
  /\ ReturnToProgram
  /\ UNCHANGED <<consumer, ringVars, spc1, irqOff, call, args, x, inHandler,
                 historyVars>>

-----------------------------------------------------------------------------
(* An interrupt whose handler calls spcProcess.  SEI holds off an IRQ; the *)
(* VBlank NMI, the one the library installs handlers for, it does not.     *)
HandlerBegin ==
  /\ \/ consumer = "irq" /\ ~irqOff
     \/ consumer = "nmi"
  /\ ~inHandler
  /\ inHandler' = TRUE
  /\ UNCHANGED <<consumer, ringVars, spc1, irqOff, pc, call, args, x, stack,
                 historyVars>>

HandlerSend ==
  /\ inHandler
  /\ ~Empty
  /\ SendMessage
  /\ UNCHANGED <<consumer, spc1, irqOff, pc, call, args, x, stack, inHandler,
                 accepted>>

HandlerWait ==
  /\ inHandler
  /\ ~Empty
  /\ \E v \in VCounts : spc1' = [spc1 EXCEPT !["lo"] = v]
  /\ UNCHANGED <<consumer, ringVars, irqOff, pc, call, args, x, stack, inHandler,
                 historyVars>>

HandlerEnd ==
  /\ inHandler
  /\ inHandler' = FALSE
  /\ UNCHANGED <<consumer, ringVars, spc1, irqOff, pc, call, args, x, stack,
                 historyVars>>

Next ==
  \/ \E c \in Commands : Enqueue(c)
  \/ StoreArgument \/ DisableIrq \/ PutMessage \/ Publish
  \/ EnableIrq
  \/ spcProcess \/ spcFlush \/ spcLoad
  \/ FlushTest
  \/ LoadFlushTest \/ LoadFlushSend \/ LoadFlushWait \/ LoadFlushExit
  \/ LoadReturn
  \/ ProcessSend \/ ProcessWait \/ ProcessExit
  \/ HandlerBegin \/ HandlerSend \/ HandlerWait \/ HandlerEnd

Spec == Init /\ [][Next]_vars

-----------------------------------------------------------------------------
(* A function that is entered returns to its caller.                       *)
ReturnsToCaller == pc # "lost"

(* Messages asked for whose last byte is published.                        *)
Published ==
  IF pc \in {"arg", "put0", "put1", "put2", "publish"}
    THEN SubSeq(accepted, 1, Len(accepted) - 1)
    ELSE accepted

Ids(s) == [i \in DOMAIN s |-> s[i].id]

(* What the ring holds between its positions, three bytes at a time.       *)
RingLength == (spc_fwrite - spc_fread + RingSize) % RingSize
Ring ==
  [i \in 1..(RingLength \div 3) |-> MessageAt(Advance(spc_fread, 3 * (i - 1)))]

(* Sent and waiting messages are, in order, the ones published: whoever    *)
(* empties the ring, and at whatever instant of QueueMessage he does, finds*)
(* whole messages in it, none twice and none missing.                      *)
RingHoldsQueue ==
  /\ RingLength % 3 = 0
  /\ Ids(sent) \o Ids(Ring) = Ids(Published)

(* The bytes of a message that the SPC700 reads.                           *)
Reads(m) ==
  LET read == {Stores(m.id)[i] : i \in DOMAIN Stores(m.id)}
  IN  [m EXCEPT !.lo = IF "lo" \in read THEN m.lo ELSE 0,
                !.hi = IF "hi" \in read THEN m.hi ELSE 0]

(* A message reaches the SPC700 with the arguments of its call.            *)
ArgumentsKept ==
  \A i \in DOMAIN sent : Reads(sent[i]) = Reads(accepted[i])

(* ... which holds as long as no handler calls spcProcess.                 *)
ProgramArgumentsKept == consumer = "program" => ArgumentsKept
=============================================================================
