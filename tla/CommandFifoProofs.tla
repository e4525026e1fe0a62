-------------------------- MODULE CommandFifoProofs --------------------------
(***************************************************************************)
(* The ring of snesmodwla.asm holds the queue, for a ring of any size, any *)
(* commands and any caller of spcProcess.                                  *)
(***************************************************************************)
EXTENDS CommandFifo, SequenceTheorems, TLAPS

(* The messages in the ring and in the histories.                          *)
Message == [id : Byte, lo : Byte, hi : Byte]

-----------------------------------------------------------------------------
(* Positions of the ring.                                                  *)

(* A remainder by m of a number below m, and of one below 2 * m.           *)
LEMMA ModBelow ==
  ASSUME NEW m \in Nat \ {0}, NEW a \in 0..(m - 1)
  PROVE  a % m = a
  OBVIOUS

(* ... and of one from m on, below 2 * m.                                   *)
LEMMA ModOnce ==
  ASSUME NEW m \in Nat \ {0}, NEW a \in Nat, m <= a, a < m + m
  PROVE  a % m = a - m
  OBVIOUS

(* The ring has room for a message and a free byte.                        *)
LEMMA Size == RingSize \in Nat /\ RingSize >= 4
  BY CommandFifoAssumption

(* A position moved by at most one turn wraps at most once.                *)
LEMMA AdvanceValue ==
  ASSUME NEW i \in Index, NEW n \in 0..(RingSize - 1)
  PROVE  /\ Advance(i, n) =
              IF i + n < RingSize THEN i + n ELSE i + n - RingSize
         /\ Advance(i, n) \in Index
<1>1. /\ i \in Nat /\ i < RingSize /\ n \in Nat /\ n < RingSize
      /\ RingSize \in Nat \ {0}
  BY Size DEF Index
<1>2. CASE i + n < RingSize
  <2>1. (i + n) % RingSize = i + n
    BY <1>1, <1>2, ModBelow
  <2>2. QED
    BY <1>1, <1>2, <2>1 DEF Advance, Index
<1>3. CASE ~(i + n < RingSize)
  <2>1. /\ i + n \in Nat /\ RingSize <= i + n
        /\ i + n < RingSize + RingSize
    BY <1>1, <1>3
  <2>2. (i + n) % RingSize = (i + n) - RingSize
    BY <1>1, <2>1, ModOnce
  <2>3. QED
    BY <1>1, <1>3, <2>2 DEF Advance, Index
<1>4. QED
  BY <1>2, <1>3

(* Two moves of together less than a turn are one.                         *)
LEMMA AdvanceTwice ==
  ASSUME NEW i \in Index, NEW m \in Nat, NEW n \in Nat, m + n < RingSize
  PROVE  Advance(Advance(i, m), n) = Advance(i, m + n)
<1>1. /\ m \in 0..(RingSize - 1) /\ n \in 0..(RingSize - 1)
      /\ m + n \in 0..(RingSize - 1)
      /\ i \in Nat /\ i < RingSize /\ RingSize \in Nat
  BY Size DEF Index
<1>2. /\ Advance(i, m) =
           IF i + m < RingSize THEN i + m ELSE i + m - RingSize
      /\ Advance(i, m) \in Index
  BY <1>1, AdvanceValue
<1>3. Advance(Advance(i, m), n) =
        IF Advance(i, m) + n < RingSize THEN Advance(i, m) + n
                                        ELSE Advance(i, m) + n - RingSize
  BY <1>1, <1>2, AdvanceValue
<1>4. Advance(i, m + n) =
        IF i + (m + n) < RingSize THEN i + (m + n)
                                  ELSE i + (m + n) - RingSize
  BY <1>1, AdvanceValue
<1>5. QED
  BY <1>1, <1>2, <1>3, <1>4

(* Positions less than a turn apart are different ones.                    *)
LEMMA AdvanceDiffers ==
  ASSUME NEW i \in Index, NEW m \in 0..(RingSize - 1),
         NEW n \in 0..(RingSize - 1), m # n
  PROVE  Advance(i, m) # Advance(i, n)
<1>1. i \in Nat /\ i < RingSize /\ RingSize \in Nat
  BY Size DEF Index
<1>2. /\ Advance(i, m) =
           IF i + m < RingSize THEN i + m ELSE i + m - RingSize
      /\ Advance(i, n) =
           IF i + n < RingSize THEN i + n ELSE i + n - RingSize
  BY AdvanceValue
<1>3. QED
  BY <1>1, <1>2

(* The distance between a position and the one n bytes further is n.       *)
LEMMA AdvanceDistance ==
  ASSUME NEW i \in Index, NEW n \in 0..(RingSize - 1)
  PROVE  (Advance(i, n) - i + RingSize) % RingSize = n
<1>1. CASE i + n < RingSize
  <2>1. Advance(i, n) - i + RingSize = n + RingSize
    BY <1>1, AdvanceValue, CommandFifoAssumption DEF Index
  <2>2. /\ n + RingSize \in Nat /\ RingSize <= n + RingSize
        /\ n + RingSize < RingSize + RingSize /\ RingSize \in Nat \ {0}
        /\ (n + RingSize) - RingSize = n
    BY Size
  <2>3. QED
    BY <2>1, <2>2, ModOnce
<1>2. CASE ~(i + n < RingSize)
  <2>1. Advance(i, n) - i + RingSize = n
    BY <1>2, AdvanceValue, CommandFifoAssumption DEF Index
  <2>2. QED
    BY <2>1, ModBelow, CommandFifoAssumption
<1>3. QED
  BY <1>1, <1>2

(* Three bytes for each of the messages that fit leave one byte free.      *)
LEMMA CapacityFits == Capacity \in Nat /\ 3 * Capacity < RingSize
  BY CommandFifoAssumption DEF Capacity

-----------------------------------------------------------------------------
(* The message at a position is a message.                                 *)
LEMMA MessageAtType ==
  ASSUME FifoTypeOK, NEW i \in Index
  PROVE  MessageAt(i) \in Message
<1>1. Advance(i, 1) \in Index /\ Advance(i, 2) \in Index
  BY AdvanceValue, CommandFifoAssumption
<1>2. QED
  BY <1>1 DEF MessageAt, Message, FifoTypeOK

(* An entry point stores each half of spc1 at most once.                   *)
LEMMA StoresType ==
  ASSUME NEW id PROVE Stores(id) \in Seq({"lo", "hi"})
<1>1. /\ <<"hi", "lo">> \in Seq({"lo", "hi"})
      /\ <<"lo", "hi">> \in Seq({"lo", "hi"})
      /\ <<"hi">> \in Seq({"lo", "hi"}) /\ <<>> \in Seq({"lo", "hi"})
  OBVIOUS
<1>2. Stores(id) \in {<<"hi", "lo">>, <<"lo", "hi">>, <<"hi">>, <<>>}
  BY DEF Stores
<1>3. QED
  BY <1>1, <1>2

(* The initial state has the types of FifoTypeOK.                          *)
LEMMA InitFifoTypeOK == Init => FifoTypeOK
<1>1. 0 \in Index
  BY Size DEF Index
<1>2. 0 \in Byte
  BY DEF Byte
<1>3. \A S : <<>> \in Seq(S)
  OBVIOUS
<1>4. SUFFICES ASSUME Init PROVE FifoTypeOK
  OBVIOUS
<1>5. /\ consumer \in Consumers /\ pc \in Label
      /\ spc_fread \in Index /\ spc_fwrite \in Index /\ x \in Index
      /\ irqOff \in BOOLEAN /\ inHandler \in BOOLEAN
  BY <1>1, <1>4 DEF Init, Label
<1>6. /\ spc_fifo \in [Index -> Byte]
      /\ spc1 \in [{"lo", "hi"} -> Byte]
      /\ call \in [id : Byte, lo : Byte, hi : Byte]
  BY <1>2, <1>4 DEF Init
<1>7. /\ args \in Seq({"lo", "hi"}) /\ stack \in Seq(StackByte)
      /\ accepted \in Seq([id : Byte, lo : Byte, hi : Byte])
      /\ sent \in Seq([id : Byte, lo : Byte, hi : Byte])
  BY <1>3, <1>4, Zenon DEF Init
<1>8. QED
  BY <1>5, <1>6, <1>7 DEF FifoTypeOK

(* Every step preserves the types of FifoTypeOK.                           *)
LEMMA NextFifoTypeOK == FifoTypeOK /\ [Next]_vars => FifoTypeOK'
<1> SUFFICES ASSUME FifoTypeOK, [Next]_vars PROVE FifoTypeOK'
  OBVIOUS
<1> USE DEF FifoTypeOK, ringVars, historyVars, At
<1>1. /\ Entered \in Seq(StackByte)
      /\ PHX \in Seq(StackByte) /\ JSR \in Seq(StackByte)
  BY DEF Entered, PHX, JSR, StackByte
<1>2. /\ Entered \o PHX \in Seq(StackByte)
      /\ Entered \o PHX \o JSR \in Seq(StackByte)
  BY <1>1
<1>3. ASSUME NEW pushed \in Seq(StackByte)
       PROVE  stack \o pushed \in Seq(StackByte)
  BY <1>3
<1>4. ASSUME NEW bytes \in Seq(StackByte), NEW next \in Label, Pull(bytes, next)
      PROVE  pc' \in Label /\ stack' \in Seq(StackByte)
  <2>. DEFINE below == Len(stack) - Len(bytes)
  <2>1. below \in Int /\ below <= Len(stack) /\ "lost" \in Label
    BY DEF Label
  <2>2. below >= 0 => SubSeq(stack, 1, below) \in Seq(StackByte)
    BY <2>1
  <2>3. <<>> \in Seq(StackByte)
    OBVIOUS
  <2>4. \/ below >= 0 /\ pc' = next /\ stack' = SubSeq(stack, 1, below)
        \/ pc' = "lost" /\ stack' = <<>>
    BY <1>4 DEF Pull
  <2>. QED
    BY <2>1, <2>2, <2>3, <2>4
<1>5. ReturnToProgram => pc' \in Label /\ stack' \in Seq(StackByte)
  BY <1>1, <1>4 DEF ReturnToProgram, Label
<1>6. ASSUME SendMessage
      PROVE  /\ sent' \in Seq(Message) /\ spc_fread' \in Index
             /\ UNCHANGED <<spc_fifo, spc_fwrite>>
  BY <1>6, MessageAtType, AdvanceValue, CommandFifoAssumption
     DEF SendMessage, Message
<1>7. ASSUME NEW v \in VCounts, spc1' = [spc1 EXCEPT !["lo"] = v]
      PROVE  spc1' \in [{"lo", "hi"} -> Byte]
  BY <1>7, CommandFifoAssumption
<1>8. CASE \E c \in Commands : Enqueue(c)
  <2>1. PICK c \in Commands : Enqueue(c)
    BY <1>8
  <2>2. c \in [id : Byte, lo : Byte, hi : Byte]
    BY CommandFifoAssumption
  <2>3. Stores(c.id) \in Seq({"lo", "hi"})
    BY StoresType
  <2>4. QED
    BY <1>1, <1>3, <2>1, <2>2, <2>3 DEF Enqueue, Label
<1>9. CASE StoreArgument
  BY <1>9 DEF StoreArgument
<1>10. CASE DisableIrq
  BY <1>10 DEF DisableIrq, Label
<1>11. CASE PutMessage
  <2>1. Advance(x, 1) \in Index
    BY AdvanceValue, CommandFifoAssumption
  <2>2. call.id \in Byte /\ spc1["lo"] \in Byte /\ spc1["hi"] \in Byte
    OBVIOUS
  <2>3. QED
    BY <1>11, <2>1, <2>2 DEF PutMessage, Put, Label
<1>12. CASE Publish
  BY <1>12 DEF Publish, Label
<1>13. CASE EnableIrq
  BY <1>5, <1>13 DEF EnableIrq
<1>14. CASE spcProcess \/ spcFlush \/ spcLoad
  BY <1>1, <1>14, <1>2, <1>3 DEF spcProcess, spcFlush, spcLoad, Enter, Label
<1>15. CASE FlushTest
  BY <1>1, <1>3, <1>5, <1>15 DEF FlushTest, Label
<1>16. CASE ProcessExit
  BY <1>5, <1>16 DEF ProcessExit
<1>17. CASE LoadFlushTest
  BY <1>1, <1>4, <1>3, <1>17 DEF LoadFlushTest, Label
<1>18. CASE LoadFlushExit
  BY <1>1, <1>4, <1>18 DEF LoadFlushExit, Label
<1>19. CASE LoadReturn
  BY <1>4, <1>2, <1>19 DEF LoadReturn, Label
<1>20. CASE LoadFlushSend \/ ProcessSend \/ HandlerSend
  BY <1>6, <1>20 DEF LoadFlushSend, ProcessSend, HandlerSend, Message
<1>21. CASE LoadFlushWait \/ ProcessWait \/ HandlerWait
  BY <1>7, <1>21 DEF LoadFlushWait, ProcessWait, HandlerWait
<1>22. CASE HandlerBegin \/ HandlerEnd
  BY <1>22 DEF HandlerBegin, HandlerEnd
<1>23. CASE UNCHANGED vars
  BY <1>23 DEF vars
<1>24. QED
  BY <1>8, <1>9, <1>10, <1>11, <1>12, <1>13, <1>14, <1>15, <1>16, <1>20, <1>21,
     <1>22, <1>23, <1>17, <1>18, <1>19 DEF Next

(* The ring's positions stay inside of it, and its bytes are bytes.        *)
THEOREM FifoTypes == Spec => []FifoTypeOK
  BY InitFifoTypeOK, NextFifoTypeOK, PTL DEF Spec

-----------------------------------------------------------------------------
(* The ring and the histories.  Between its two positions the ring holds   *)
(* `Count' messages; the one the program is in the middle of queueing is   *)
(* accepted, but not among them.                                           *)
Putting == {"put0", "put1", "put2", "publish"}
Writing == Putting \union {"arg"}
Count ==
  (Len(accepted) - Len(sent)) - (IF pc \in Writing THEN 1 ELSE 0)

(* The n-th byte from the read position, and the k-th message.             *)
Position(n) == Advance(spc_fread, n)
Held(k) == MessageAt(Position(3 * (k - 1)))

(* How many bytes QueueMessage has stored, and the halves of the scratch   *)
(* word that are arguments of message c.                                   *)
Placed ==
  CASE pc = "put1" -> 1 [] pc = "put2" -> 2 [] pc = "publish" -> 3
    [] OTHER -> 0
Halves(c) == {Stores(c.id)[i] : i \in DOMAIN Stores(c.id)}

(* Message m is the one asked for by c, with the arguments it reads when   *)
(* no handler can write over the scratch word.                             *)
AsAsked(m, c) == m.id = c.id /\ (consumer = "program" => Reads(m) = Reads(c))

(* The messages sent, and the ones in the ring, are those asked for.       *)
RingInv ==
  /\ Count \in Nat /\ Waiting <= Capacity
  /\ spc_fwrite = Position(3 * Count)
  /\ \A i \in 1..Len(sent) : AsAsked(sent[i], accepted[i])
  /\ \A k \in 1..Count : AsAsked(Held(k), accepted[Len(sent) + k])

(* The bytes behind them are the ones QueueMessage has stored so far.      *)
WriteInv ==
  /\ pc \in Writing => call = accepted[Len(accepted)]
  /\ pc \in Putting => x = Position(3 * Count + Placed)
  /\ Placed >= 1 => spc_fifo[Position(3 * Count)] = call.id
  /\ consumer = "program" =>
       /\ ~inHandler
       /\ pc = "arg" => \A b \in Halves(call) :
            spc1[b] = call[b] \/ b \in {args[i] : i \in DOMAIN args}
       /\ pc \in {"put0", "put1", "put2"} =>
            \A b \in Halves(call) : spc1[b] = call[b]
       /\ Placed >= 2 /\ "lo" \in Halves(call) =>
            spc_fifo[Position(3 * Count + 1)] = call.lo
       /\ Placed >= 3 /\ "hi" \in Halves(call) =>
            spc_fifo[Position(3 * Count + 2)] = call.hi

(* What waits and what is being queued fits into the ring.                 *)
LEMMA Fits ==
  ASSUME FifoTypeOK, RingInv
  PROVE  /\ Count \in Nat /\ Len(sent) \in Nat /\ Len(accepted) \in Nat
         /\ Len(sent) + Count <= Len(accepted)
         /\ 3 * Count < RingSize /\ RingSize \in Nat
         /\ pc \in Writing => /\ 3 * Count + 3 < RingSize
                              /\ Len(accepted) = Len(sent) + Count + 1
<1>1. /\ Len(sent) \in Nat /\ Len(accepted) \in Nat
      /\ Count \in Nat /\ Waiting <= Capacity
  BY DEF FifoTypeOK, RingInv
<1>2. QED
  BY <1>1, CapacityFits, Size DEF Waiting, Count

(* The bytes of a message that starts n bytes from the read position.      *)
LEMMA MessageBytes ==
  ASSUME spc_fread \in Index, NEW n \in Nat, n + 2 < RingSize
  PROVE  MessageAt(Position(n)) =
           [id |-> spc_fifo[Position(n)], lo |-> spc_fifo[Position(n + 1)],
            hi |-> spc_fifo[Position(n + 2)]]
<1>1. /\ Advance(Advance(spc_fread, n), 1) = Advance(spc_fread, n + 1)
      /\ Advance(Advance(spc_fread, n), 2) = Advance(spc_fread, n + 2)
  BY AdvanceTwice, Size
<1>2. QED
  BY <1>1 DEF MessageAt, Position

(* Messages are equal when their parts are.                                *)
LEMMA SameMessage ==
  ASSUME NEW m \in Message, NEW r \in Message,
         m.id = r.id, m.lo = r.lo, m.hi = r.hi
  PROVE  m = r
  BY SMT DEF Message

(* The parts of what is read of a message.                                 *)
LEMMA ReadsParts ==
  ASSUME NEW m \in Message
  PROVE  /\ Reads(m) \in Message /\ Reads(m).id = m.id
         /\ Reads(m).lo = IF "lo" \in Halves(m) THEN m.lo ELSE 0
         /\ Reads(m).hi = IF "hi" \in Halves(m) THEN m.hi ELSE 0
<1> DEFINE v == IF "lo" \in Halves(m) THEN m.lo ELSE 0
           w == IF "hi" \in Halves(m) THEN m.hi ELSE 0
<1>1. Reads(m) = [m EXCEPT !.lo = v, !.hi = w]
  BY DEF Reads, Halves
<1>2. 0 \in Byte
  BY DEF Byte
<1>3. v \in Byte /\ w \in Byte
  BY <1>2 DEF Message
<1> HIDE DEF v, w
<1>4. Reads(m) \in Message
  BY <1>1, <1>3, Zenon DEF Message
<1>5. Reads(m).id = m.id /\ Reads(m).lo = v /\ Reads(m).hi = w
  BY <1>1, SMT DEF Message
<1>6. QED
  BY <1>4, <1>5 DEF v, w

(* The arguments a message reads are the halves its entry point stores.    *)
LEMMA ReadsAlike ==
  ASSUME NEW m \in Message, NEW c \in Message, m.id = c.id,
         \A b \in Halves(c) : m[b] = c[b]
  PROVE  Reads(m) = Reads(c)
<1>1. Halves(m) = Halves(c)
  BY DEF Halves
<1>2. /\ Reads(m) \in Message /\ Reads(c) \in Message
      /\ Reads(m).id = Reads(c).id
      /\ Reads(m).lo = Reads(c).lo /\ Reads(m).hi = Reads(c).hi
  BY <1>1, ReadsParts
<1>3. QED
  BY <1>2, SameMessage

(* A step that leaves the ring and the histories alone, and neither begins *)
(* nor ends a message.                                                     *)
LEMMA RingKept ==
  ASSUME RingInv, UNCHANGED <<consumer, ringVars, historyVars>>,
         pc' \in Writing <=> pc \in Writing
  PROVE  RingInv' /\ Count' = Count
<1>1. Count' = Count /\ Waiting' = Waiting
  BY DEF Count, Waiting, historyVars
<1>2. \A k : Held(k)' = Held(k)
  BY DEF Held, MessageAt, Position, ringVars
<1>3. QED
  BY <1>1, <1>2 DEF RingInv, AsAsked, Position, ringVars, historyVars

(* A message taken from the ring is the next one asked for; the others move*)
(* up.                                                                     *)
LEMMA RingSends ==
  ASSUME FifoTypeOK, RingInv, ~Empty, SendMessage, pc' = pc,
         UNCHANGED <<consumer, accepted>>
  PROVE  /\ RingInv'
         /\ \A n \in Nat : n < RingSize /\ n >= 3 * Count =>
              Position(n) = Advance(spc_fread', n - 3)
         /\ Count' = Count - 1 /\ Count >= 1
<1>1. /\ sent' = Append(sent, MessageAt(spc_fread))
      /\ spc_fread' = Position(3)
      /\ UNCHANGED <<spc_fifo, spc_fwrite>>
  BY DEF SendMessage, Position
<1>2. spc_fread \in Index /\ sent \in Seq(Message)
  BY DEF FifoTypeOK, Message
<1>3. Position(0) = spc_fread
  BY <1>2, AdvanceValue, Size DEF Position, Index
<1>4. Count >= 1
  BY <1>3, Fits DEF RingInv, Empty
<1>5. /\ Len(sent') = Len(sent) + 1
      /\ sent'[Len(sent) + 1] = MessageAt(spc_fread)
      /\ \A i \in 1..Len(sent) : sent'[i] = sent[i]
  BY <1>1, <1>2, MessageAtType
<1>6. Count' = Count - 1 /\ Waiting' = Waiting - 1
  BY <1>5, Fits DEF Count, Waiting
<1>7. \A n \in Nat : n + 3 < RingSize =>
        Advance(spc_fread', n) = Advance(spc_fread, n + 3)
  BY <1>1, <1>2, AdvanceTwice, Size DEF Position
<1>8. ASSUME NEW k \in 1..(Count - 1)
      PROVE  Held(k)' = Held(k + 1)
  <2> DEFINE n == 3 * (k - 1)
  <2>1. n \in Nat /\ n + 3 < RingSize /\ 3 * ((k + 1) - 1) = n + 3
    BY <1>4, Fits
  <2>2. Held(k) = MessageAt(Position(n))
    BY DEF Held
  <2> HIDE DEF n
  <2>3. Advance(spc_fread', n) = Advance(spc_fread, n + 3)
    BY <1>7, <2>1
  <2>4. Held(k + 1) = MessageAt(Position(n + 3))
    BY <2>1 DEF Held
  <2>5. Held(k)' = MessageAt(Position(n))'
    BY DEF Held, n
  <2>6. QED
    BY <1>1, <2>3, <2>4, <2>5 DEF MessageAt, Position
<1>9. Held(1) = MessageAt(spc_fread)
  BY <1>3 DEF Held
<1>10. spc_fwrite' = Advance(spc_fread', 3 * Count')
  <2>1. 3 * Count' \in Nat /\ 3 * Count' + 3 = 3 * Count
    BY <1>4, <1>6, Fits
  <2>2. spc_fwrite' = Advance(spc_fread, 3 * Count)
    BY <1>1 DEF RingInv, Position
  <2>3. QED
    BY <1>7, <2>1, <2>2, Fits
<1>11. ASSUME NEW i \in 1..Len(sent')
       PROVE  AsAsked(sent[i], accepted[i])'
  <2>1. CASE i \in 1..Len(sent)
    BY <1>5, <2>1 DEF RingInv, AsAsked
  <2>2. CASE i = Len(sent) + 1
    <3>1. AsAsked(Held(1), accepted[Len(sent) + 1])
      BY <1>4, Fits DEF RingInv
    <3>2. QED
      BY <1>5, <1>9, <2>2, <3>1 DEF AsAsked
  <2>3. QED
    BY <1>5, <2>1, <2>2, Fits
<1>12. ASSUME NEW k \in 1..Count'
       PROVE  AsAsked(Held(k), accepted[Len(sent) + k])'
  <2>1. k \in 1..(Count - 1) /\ k + 1 \in 1..Count
        /\ Len(sent') + k = Len(sent) + (k + 1)
    BY <1>4, <1>5, <1>6, Fits
  <2>2. AsAsked(Held(k + 1), accepted[Len(sent) + (k + 1)])
    BY <2>1 DEF RingInv
  <2>3. QED
    BY <1>8, <2>1, <2>2 DEF AsAsked
<1>13. RingInv'
  <2>1. Count' \in Nat /\ Waiting' <= Capacity
    BY <1>4, <1>6, Fits, CapacityFits DEF RingInv, Waiting
  <2>2. QED
    BY <1>10, <1>11, <1>12, <2>1 DEF RingInv, Position
<1>14. ASSUME NEW n \in Nat, n < RingSize, n >= 3 * Count
       PROVE  Position(n) = Advance(spc_fread', n - 3)
  <2>1. n - 3 \in Nat /\ (n - 3) + 3 = n
    BY <1>4, <1>14, Fits
  <2>2. QED
    BY <1>7, <1>14, <2>1 DEF Position
<1>15. QED
  BY <1>4, <1>6, <1>13, <1>14

(* A byte stored behind the messages of the ring leaves them alone, and    *)
(* the bytes behind them but itself.                                       *)
LEMMA Stored ==
  ASSUME FifoTypeOK, RingInv, NEW j \in 0..2, NEW b, pc \in Writing,
         pc' \in Writing, x = Position(3 * Count + j),
         spc_fifo' = [spc_fifo EXCEPT ![x] = b], x' = Advance(x, 1),
         UNCHANGED <<consumer, spc_fread, spc_fwrite, historyVars>>
  PROVE  /\ RingInv' /\ Count' = Count
         /\ x' = Position(3 * Count + (j + 1))
         /\ spc_fifo'[Position(3 * Count + j)] = b
         /\ \A i \in 0..2 : i # j =>
              spc_fifo'[Position(3 * Count + i)] =
                spc_fifo[Position(3 * Count + i)]
<1>1. spc_fread \in Index /\ spc_fifo \in [Index -> Byte]
  BY DEF FifoTypeOK
<1>2. /\ Count \in Nat /\ 3 * Count + 3 < RingSize /\ RingSize \in Nat
      /\ 3 * Count + j \in 0..(RingSize - 1)
  BY Fits
<1>3. ASSUME NEW n \in Nat, n < RingSize, n # 3 * Count + j
      PROVE  spc_fifo'[Position(n)] = spc_fifo[Position(n)]
  <2>1. n \in 0..(RingSize - 1)
    BY <1>2, <1>3
  <2>2. Position(n) # x /\ Position(n) \in Index
    BY <1>1, <1>2, <1>3, <2>1, AdvanceDiffers, AdvanceValue DEF Position
  <2>3. QED
    BY <1>1, <2>2
<1>4. spc_fifo'[Position(3 * Count + j)] = b
  <2>1. x \in Index
    BY <1>1, <1>2, AdvanceValue DEF Position
  <2>2. QED
    BY <1>1, <2>1
<1>5. x' = Position(3 * Count + (j + 1))
  <2>1. Advance(Position(3 * Count + j), 1) = Position((3 * Count + j) + 1)
    BY <1>1, <1>2, AdvanceTwice DEF Position
  <2>2. (3 * Count + j) + 1 = 3 * Count + (j + 1)
    BY <1>2
  <2>3. QED
    BY <2>1, <2>2
<1>6. ASSUME NEW k \in 1..Count
      PROVE  Held(k)' = Held(k)
  <2> DEFINE n == 3 * (k - 1)
  <2>1. n \in Nat /\ n + 2 < RingSize /\ n + 2 < 3 * Count + j
        /\ n + 1 \in Nat /\ n + 2 \in Nat
    BY <1>2
  <2>2. Held(k) = MessageAt(Position(n)) /\ Held(k)' = MessageAt(Position(n))'
    BY DEF Held
  <2> HIDE DEF n
  <2>3. /\ Advance(Advance(spc_fread, n), 1) = Advance(spc_fread, n + 1)
        /\ Advance(Advance(spc_fread, n), 2) = Advance(spc_fread, n + 2)
    BY <1>1, <1>2, <2>1, AdvanceTwice
  <2>4. /\ spc_fifo'[Advance(spc_fread, n)] = spc_fifo[Advance(spc_fread, n)]
        /\ spc_fifo'[Advance(spc_fread, n + 1)] =
             spc_fifo[Advance(spc_fread, n + 1)]
        /\ spc_fifo'[Advance(spc_fread, n + 2)] =
             spc_fifo[Advance(spc_fread, n + 2)]
    BY <1>2, <1>3, <2>1 DEF Position
  <2>5. QED
    BY <2>2, <2>3, <2>4 DEF MessageAt, Position
<1>7. Count' = Count /\ Waiting' = Waiting
  BY DEF Count, Waiting, historyVars
<1>8. RingInv'
  BY <1>6, <1>7 DEF RingInv, AsAsked, Position, historyVars
<1>9. ASSUME NEW i \in 0..2, i # j
      PROVE  spc_fifo'[Position(3 * Count + i)] =
               spc_fifo[Position(3 * Count + i)]
  BY <1>2, <1>3, <1>9
<1>10. QED
  BY <1>4, <1>5, <1>7, <1>8, <1>9

(* QueueMessage's three stores.                                            *)
LEMMA PutKeeps ==
  ASSUME FifoTypeOK, RingInv, WriteInv, PutMessage
  PROVE  RingInv' /\ WriteInv'
<1>1. ASSUME NEW label \in Putting, NEW next \in Putting, NEW b,
             NEW j \in 0..2, Placed = j, Placed' = j + 1,
             Put(label, b, next)
      PROVE  /\ RingInv' /\ Count' = Count
             /\ x' = Position(3 * Count + (j + 1))
             /\ spc_fifo'[Position(3 * Count + j)] = b
             /\ \A i \in 0..2 : i # j =>
                  spc_fifo'[Position(3 * Count + i)] =
                    spc_fifo[Position(3 * Count + i)]
             /\ pc = label /\ pc' = next /\ ~inHandler
             /\ UNCHANGED <<consumer, spc_fread, spc1, call, inHandler,
                            accepted>>
  <2>1. /\ pc = label /\ pc' = next /\ ~inHandler /\ x' = Advance(x, 1)
        /\ spc_fifo' = [spc_fifo EXCEPT ![x] = b]
        /\ UNCHANGED <<consumer, spc_fread, spc_fwrite, spc1, call, inHandler,
                       accepted, historyVars>>
    BY <1>1 DEF Put, At, historyVars
  <2>2. x = Position(3 * Count + j) /\ pc \in Writing /\ pc' \in Writing
    BY <1>1, <2>1 DEF WriteInv, Writing
  <2>3. QED
    BY <2>1, <2>2, Stored
<1>2. CASE Put("put0", call.id, "put1")
  <2>1. Placed = 0 /\ Placed' = 0 + 1 /\ Count \in Nat
    BY <1>2 DEF Put, At, Placed, RingInv
  <2>2. /\ RingInv' /\ Count' = Count /\ x' = Position(3 * Count + (0 + 1))
        /\ spc_fifo'[Position(3 * Count + 0)] = call.id
        /\ pc = "put0" /\ pc' = "put1"
        /\ UNCHANGED <<consumer, spc_fread, spc1, call, inHandler, accepted>>
    BY <1>1, <1>2, <2>1 DEF Putting
  <2>3. QED
    BY <2>1, <2>2 DEF WriteInv, Writing, Putting, Position
<1>3. CASE Put("put1", spc1["lo"], "put2")
  <2>1. Placed = 1 /\ Placed' = 1 + 1
    BY <1>3 DEF Put, At, Placed
  <2>2. /\ RingInv' /\ Count' = Count /\ x' = Position(3 * Count + (1 + 1))
        /\ spc_fifo'[Position(3 * Count + 1)] = spc1["lo"]
        /\ spc_fifo'[Position(3 * Count + 0)] =
             spc_fifo[Position(3 * Count + 0)]
        /\ pc = "put1" /\ pc' = "put2"
        /\ UNCHANGED <<consumer, spc_fread, spc1, call, inHandler, accepted>>
    BY <1>1, <1>3, <2>1 DEF Putting
  <2>3. Count \in Nat
    BY DEF RingInv
  <2>4. QED
    BY <2>1, <2>2, <2>3 DEF WriteInv, Writing, Putting, Position, Halves
<1>4. CASE Put("put2", spc1["hi"], "publish")
  <2>1. Placed = 2 /\ Placed' = 2 + 1
    BY <1>4 DEF Put, At, Placed
  <2>2. /\ RingInv' /\ Count' = Count /\ x' = Position(3 * Count + (2 + 1))
        /\ spc_fifo'[Position(3 * Count + 2)] = spc1["hi"]
        /\ spc_fifo'[Position(3 * Count + 0)] =
             spc_fifo[Position(3 * Count + 0)]
        /\ spc_fifo'[Position(3 * Count + 1)] =
             spc_fifo[Position(3 * Count + 1)]
        /\ pc = "put2" /\ pc' = "publish"
        /\ UNCHANGED <<consumer, spc_fread, spc1, call, inHandler, accepted>>
    BY <1>1, <1>4, <2>1 DEF Putting
  <2>3. Count \in Nat
    BY DEF RingInv
  <2>4. QED
    BY <2>1, <2>2, <2>3 DEF WriteInv, Writing, Putting, Position, Halves
<1>5. QED
  BY <1>2, <1>3, <1>4 DEF PutMessage

(* The write position is moved behind the message: it is in the ring.      *)
LEMMA PublishKeeps ==
  ASSUME FifoTypeOK, RingInv, WriteInv, Publish
  PROVE  RingInv' /\ WriteInv'
<1>1. /\ pc = "publish" /\ pc' = "cli" /\ spc_fwrite' = x /\ ~inHandler
      /\ UNCHANGED <<consumer, spc_fifo, spc_fread, accepted, sent, inHandler>>
  BY DEF Publish, At, historyVars
<1>2. /\ Count \in Nat /\ 3 * Count + 3 < RingSize
      /\ Len(accepted) = Len(sent) + Count + 1 /\ RingSize \in Nat
      /\ Len(sent) \in Nat
  BY <1>1, Fits DEF Writing, Putting
<1>3. Count' = Count + 1 /\ Waiting' = Waiting
  BY <1>1, <1>2 DEF Count, Waiting, Writing, Putting
<1>4. Placed = 3 /\ Placed' = 0
  BY <1>1 DEF Placed
<1>5. x = Position(3 * Count') /\ 3 * Count + Placed = 3 * Count'
  <2>1. 3 * Count + Placed = 3 * Count'
    BY <1>2, <1>3, <1>4
  <2>2. QED
    BY <1>1, <2>1 DEF WriteInv, Putting
<1>6. \A k : Held(k)' = Held(k)
  BY <1>1 DEF Held, MessageAt, Position
<1>7. AsAsked(Held(Count + 1), accepted[Len(sent) + (Count + 1)])
  <2> DEFINE m == Held(Count + 1)
             n == 3 * Count
  <2>1. /\ n \in Nat /\ n + 2 < RingSize /\ spc_fread \in Index
        /\ 3 * ((Count + 1) - 1) = n
    BY <1>2 DEF FifoTypeOK
  <2>2. m = [id |-> spc_fifo[Position(n)], lo |-> spc_fifo[Position(n + 1)],
             hi |-> spc_fifo[Position(n + 2)]]
    <3>1. m = MessageAt(Position(n))
      BY <2>1 DEF Held
    <3> HIDE DEF m, n
    <3>2. QED
      BY <2>1, <3>1, MessageBytes
  <2>3. m \in Message /\ call \in Message
    <3>1. n \in 0..(RingSize - 1)
      BY <2>1, <1>2
    <3>2. Position(n) \in Index /\ m = MessageAt(Position(n))
      BY <2>1, <3>1, AdvanceValue DEF Position, Held
    <3>3. QED
      BY <3>2, MessageAtType DEF FifoTypeOK, Message
  <2>4. m.id = call.id
    BY <1>4, <2>2 DEF WriteInv
  <2>5. ASSUME consumer = "program", NEW b \in Halves(call)
        PROVE  m[b] = call[b]
    <3>1. b \in {"lo", "hi"}
      BY StoresType DEF Halves
    <3>2. /\ b = "lo" => spc_fifo[Position(n + 1)] = call.lo
          /\ b = "hi" => spc_fifo[Position(n + 2)] = call.hi
      BY <1>4, <2>5 DEF WriteInv
    <3> HIDE DEF m, n
    <3>3. QED
      BY <2>2, <3>1, <3>2
  <2>6. accepted[Len(sent) + (Count + 1)] = call
    BY <1>1, <1>2 DEF WriteInv, Writing, Putting
  <2> HIDE DEF m, n
  <2>7. consumer = "program" => Reads(m) = Reads(call)
    BY <2>3, <2>4, <2>5, ReadsAlike
  <2>8. QED
    BY <2>4, <2>6, <2>7 DEF AsAsked, m
<1>8. ASSUME NEW k \in 1..Count'
      PROVE  AsAsked(Held(k), accepted[Len(sent) + k])'
  <2>1. AsAsked(Held(k), accepted[Len(sent) + k])
    <3>1. CASE k \in 1..Count
      BY <3>1 DEF RingInv
    <3>2. CASE k = Count + 1
      BY <1>7, <3>2
    <3>3. QED
      BY <1>2, <1>3, <3>1, <3>2
  <2>2. QED
    BY <1>1, <1>6, <2>1 DEF AsAsked
<1>9. RingInv'
  <2>1. Count' \in Nat /\ Waiting' <= Capacity
    BY <1>2, <1>3 DEF RingInv
  <2>2. \A i \in 1..Len(sent) : AsAsked(sent[i], accepted[i])'
    BY <1>1 DEF RingInv, AsAsked
  <2>3. QED
    BY <1>1, <1>5, <1>8, <2>1, <2>2 DEF RingInv, Position
<1>10. WriteInv'
  BY <1>1, <1>4 DEF WriteInv, Writing, Putting
<1>11. QED
  BY <1>9, <1>10

(* A new message: the ring is as it was, all arguments are still to store. *)
LEMMA EnqueueKeeps ==
  ASSUME FifoTypeOK, RingInv, WriteInv, NEW c \in Commands, Enqueue(c)
  PROVE  RingInv' /\ WriteInv'
<1>1. /\ pc = "idle" /\ pc' = "arg" /\ ~inHandler
      /\ accepted' = Append(accepted, c) /\ call' = c /\ Waiting < Capacity
      /\ args' = Stores(c.id)
      /\ UNCHANGED <<consumer, spc_fifo, spc_fread, spc_fwrite, sent,
                     inHandler>>
  BY DEF Enqueue, At, ringVars
<1>2. c \in Message /\ accepted \in Seq(Message)
  BY CommandFifoAssumption DEF FifoTypeOK, Message
<1>3. /\ Len(accepted') = Len(accepted) + 1
      /\ accepted'[Len(accepted')] = c
      /\ \A i \in 1..Len(accepted) : accepted'[i] = accepted[i]
  BY <1>1, <1>2
<1>4. /\ Count' = Count /\ Waiting' = Waiting + 1
      /\ Waiting \in Int /\ Capacity \in Nat
  BY <1>1, <1>3, Fits, CapacityFits
     DEF Count, Waiting, Writing, Putting
<1>5. \A k : Held(k)' = Held(k)
  BY <1>1 DEF Held, MessageAt, Position
<1>6. ASSUME NEW i \in 1..Len(sent)
      PROVE  AsAsked(sent[i], accepted[i])'
  <2>1. i \in 1..Len(accepted) /\ AsAsked(sent[i], accepted[i])
    BY Fits DEF RingInv
  <2>2. QED
    BY <1>1, <1>3, <2>1 DEF AsAsked
<1>7. ASSUME NEW k \in 1..Count
      PROVE  AsAsked(Held(k), accepted[Len(sent) + k])'
  <2>1. /\ Len(sent) + k \in 1..Len(accepted)
        /\ AsAsked(Held(k), accepted[Len(sent) + k])
    BY Fits DEF RingInv
  <2>2. accepted'[Len(sent') + k] = accepted[Len(sent) + k]
    BY <1>1, <1>3, <2>1
  <2>3. QED
    BY <1>1, <1>5, <2>1, <2>2 DEF AsAsked
<1>8. RingInv'
  <2>1. Count' \in Nat /\ Waiting' <= Capacity
    BY <1>1, <1>4, Fits
  <2>2. spc_fwrite' = Position(3 * Count)'
    BY <1>1, <1>4 DEF RingInv, Position
  <2>3. QED
    BY <1>1, <1>4, <1>6, <1>7, <2>1, <2>2 DEF RingInv
<1>9. Placed' = 0
  BY <1>1 DEF Placed
<1>10. WriteInv'
  <2>1. ASSUME NEW b \in Halves(call)'
        PROVE  b \in {args[i] : i \in DOMAIN args}'
    BY <1>1, <2>1 DEF Halves
  <2>2. QED
    BY <1>1, <1>3, <1>9, <2>1 DEF WriteInv, Writing, Putting
<1>11. QED
  BY <1>8, <1>10

(* The arguments go to the scratch word one by one.                        *)
LEMMA StoreKeeps ==
  ASSUME FifoTypeOK, RingInv, WriteInv, StoreArgument
  PROVE  RingInv' /\ WriteInv'
<1>1. /\ pc = "arg" /\ pc' = "arg" /\ ~inHandler /\ args # <<>>
      /\ spc1' = [spc1 EXCEPT ![Head(args)] = call[Head(args)]]
      /\ args' = Tail(args)
      /\ UNCHANGED <<consumer, ringVars, historyVars, call, inHandler>>
  BY DEF StoreArgument, At
<1>2. RingInv'
  BY <1>1, RingKept
<1>3. args \in Seq({"lo", "hi"}) /\ spc1 \in [{"lo", "hi"} -> Byte]
  BY DEF FifoTypeOK
<1>4. ASSUME NEW b \in Halves(call), consumer = "program"
      PROVE  \/ spc1'[b] = call[b]
             \/ b \in {args'[i] : i \in DOMAIN args'}
  <2>1. CASE spc1[b] = call[b]
    <3>1. b \in {"lo", "hi"}
      BY StoresType DEF Halves
    <3>2. QED
      BY <1>1, <1>3, <2>1, <3>1
  <2>2. CASE b \in {args[i] : i \in DOMAIN args}
    <3>1. PICK i \in 1..Len(args) : b = args[i]
      BY <1>3, <2>2
    <3>2. CASE i = 1
      <4>1. b = Head(args) /\ b \in {"lo", "hi"}
        BY <1>1, <1>3, <3>1, <3>2
      <4>2. QED
        BY <1>1, <1>3, <4>1
    <3>3. CASE i # 1
      <4>1. /\ i - 1 \in 1..Len(Tail(args)) /\ Tail(args)[i - 1] = args[i]
            /\ DOMAIN Tail(args) = 1..Len(Tail(args))
        BY <1>1, <1>3, <3>3
      <4>2. QED
        BY <1>1, <3>1, <4>1
    <3>4. QED
      BY <3>2, <3>3
  <2>3. QED
    BY <1>1, <1>4, <2>1, <2>2 DEF WriteInv
<1>5. Placed' = 0
  BY <1>1 DEF Placed
<1>6. WriteInv'
  BY <1>1, <1>4, <1>5 DEF WriteInv, Writing, Putting, Halves, historyVars
<1>7. QED
  BY <1>2, <1>6

(* QueueMessage begins once every argument is stored.                      *)
LEMMA DisableKeeps ==
  ASSUME FifoTypeOK, RingInv, WriteInv, DisableIrq
  PROVE  RingInv' /\ WriteInv'
<1>1. /\ pc = "arg" /\ pc' = "put0" /\ ~inHandler /\ args = <<>>
      /\ x' = spc_fwrite
      /\ UNCHANGED <<consumer, ringVars, historyVars, spc1, call, inHandler>>
  BY DEF DisableIrq, At
<1>2. RingInv' /\ Count' = Count /\ Count \in Nat
  BY <1>1, RingKept DEF Writing, Putting, RingInv
<1>3. Placed' = 0
  BY <1>1 DEF Placed
<1>4. x' = Position(3 * Count + 0)
  BY <1>1, <1>2 DEF RingInv
<1>5. {args[i] : i \in DOMAIN args} = {}
  BY <1>1
<1>6. WriteInv'
  BY <1>1, <1>2, <1>3, <1>4, <1>5
     DEF WriteInv, Writing, Putting, Halves, Position, ringVars, historyVars
<1>7. QED
  BY <1>2, <1>6

(* A step outside of the entry points that queue leaves the ring alone, or *)
(* takes a message from it.                                                *)
LEMMA ElsewhereKeeps ==
  ASSUME FifoTypeOK, RingInv, WriteInv,
         UNCHANGED <<consumer, accepted>>, pc' \notin Writing,
         \/ pc \notin Writing /\ UNCHANGED <<ringVars, sent>>
         \/ pc' = pc /\ ~Empty /\ SendMessage,
         inHandler' = inHandler \/ consumer # "program"
  PROVE  RingInv' /\ WriteInv'
<1>1. RingInv'
  BY RingKept, RingSends DEF historyVars
<1>2. Placed' = 0
  BY DEF Placed, Writing, Putting
<1>3. consumer' = "program" => ~inHandler'
  BY DEF WriteInv
<1>4. QED
  BY <1>1, <1>2, <1>3 DEF WriteInv, Writing, Putting

(* A handler that runs while the program queues a message may take others  *)
(* from the ring and may write over the scratch word, but the bytes of the *)
(* message that are stored stay behind those of the others.                *)
LEMMA HandlerKeeps ==
  ASSUME FifoTypeOK, RingInv, WriteInv, pc \in Writing, pc' = pc,
         UNCHANGED <<consumer, accepted, call, x>>, consumer # "program",
         \/ UNCHANGED <<ringVars, sent>>
         \/ ~Empty /\ SendMessage
  PROVE  RingInv' /\ WriteInv'
<1>1. Placed' = Placed /\ Placed \in 0..3
  BY DEF Placed
<1>2. CASE UNCHANGED <<ringVars, sent>>
  <2>1. RingInv' /\ Count' = Count
    BY <1>2, RingKept DEF historyVars
  <2>2. QED
    BY <1>1, <1>2, <2>1 DEF WriteInv, Position, ringVars
<1>3. CASE ~Empty /\ SendMessage
  <2>1. /\ RingInv' /\ Count' = Count - 1 /\ Count >= 1
        /\ \A n \in Nat : n < RingSize /\ n >= 3 * Count =>
              Position(n) = Advance(spc_fread', n - 3)
    BY <1>3, RingSends
  <2>2. 3 * Count + 3 < RingSize /\ Count \in Nat /\ RingSize \in Nat
    BY Fits
  <2>3. ASSUME NEW i \in 0..3
        PROVE  Position(3 * Count + i) = Advance(spc_fread', 3 * Count' + i)
    <3>1. /\ 3 * Count + i \in Nat /\ 3 * Count + i < RingSize
          /\ 3 * Count + i >= 3 * Count
          /\ (3 * Count + i) - 3 = 3 * Count' + i
      BY <2>1, <2>2
    <3>2. QED
      BY <2>1, <3>1
  <2>4. 3 * Count + 0 = 3 * Count /\ 3 * Count' + 0 = 3 * Count'
    BY <2>1, <2>2
  <2>5. /\ pc \in Putting => x = Advance(spc_fread', 3 * Count' + Placed)
        /\ Placed >= 1 =>
             spc_fifo[Advance(spc_fread', 3 * Count')] = call.id
    BY <1>1, <2>3, <2>4 DEF WriteInv
  <2>6. spc_fifo' = spc_fifo
    BY <1>3 DEF SendMessage
  <2>7. QED
    BY <1>1, <2>1, <2>5, <2>6 DEF WriteInv, Position
<1>4. QED
  BY <1>2, <1>3

(* The ring is empty at first.                                             *)
LEMMA InitRing == Init => RingInv /\ WriteInv
<1> SUFFICES ASSUME Init PROVE RingInv /\ WriteInv
  OBVIOUS
<1>1. /\ pc = "idle" /\ Len(accepted) = 0 /\ Len(sent) = 0
      /\ spc_fread = 0 /\ spc_fwrite = 0 /\ ~inHandler
  BY DEF Init
<1>2. Count = 0 /\ Waiting = 0 /\ Placed = 0
  <2>1. pc \notin Writing
    BY <1>1 DEF Writing, Putting
  <2>2. Placed = 0
    BY <1>1 DEF Placed
  <2>3. /\ Count = (Len(accepted) - Len(sent)) - 0
        /\ Waiting = Len(accepted) - Len(sent)
    BY <2>1 DEF Count, Waiting
  <2>4. QED
    BY <1>1, <2>2, <2>3
<1>3. Position(3 * Count) = 0
  <2>1. 0 \in Index /\ 0 \in 0..(RingSize - 1) /\ 3 * Count = 0
    BY <1>2, Size DEF Index
  <2>2. QED
    BY <1>1, <2>1, AdvanceValue, Size DEF Position
<1>4. QED
  BY <1>1, <1>2, <1>3, CapacityFits DEF RingInv, WriteInv, Writing, Putting

(* Every step keeps the ring and the histories in agreement.               *)
LEMMA NextRing ==
  FifoTypeOK /\ RingInv /\ WriteInv /\ [Next]_vars => RingInv' /\ WriteInv'
<1> SUFFICES ASSUME FifoTypeOK, RingInv, WriteInv, [Next]_vars
             PROVE  RingInv' /\ WriteInv'
  OBVIOUS
<1>1. \A label \in {"idle", "lost", "cli", "pm_test", "fl_test", "xf_test",
                   "xpm_test", "loaded"} :
        label \notin Writing
  BY DEF Writing, Putting
<1>2. ASSUME NEW bytes, NEW next, next \notin Writing, Pull(bytes, next)
      PROVE  pc' \notin Writing
  BY <1>1, <1>2 DEF Pull
<1>3. ReturnToProgram => pc' \notin Writing
  BY <1>1, <1>2 DEF ReturnToProgram
<1>4. CASE \E c \in Commands : Enqueue(c)
  BY <1>4, EnqueueKeeps
<1>5. CASE StoreArgument
  BY <1>5, StoreKeeps
<1>6. CASE DisableIrq
  BY <1>6, DisableKeeps
<1>7. CASE PutMessage
  BY <1>7, PutKeeps
<1>8. CASE Publish
  BY <1>8, PublishKeeps
<1>9. CASE EnableIrq
  <2>1. pc \notin Writing
    BY <1>1, <1>9 DEF EnableIrq, At
  <2>2. QED
    BY <1>3, <1>9, <2>1, ElsewhereKeeps DEF EnableIrq, historyVars
<1>10. CASE spcProcess \/ spcFlush \/ spcLoad
  <2>1. pc \notin Writing /\ pc' \notin Writing
    BY <1>1, <1>10 DEF spcProcess, spcFlush, spcLoad, Enter, At
  <2>2. QED
    BY <1>10, <2>1, ElsewhereKeeps
       DEF spcProcess, spcFlush, spcLoad, Enter, historyVars
<1>11. CASE \/ FlushTest \/ ProcessExit
           \/ LoadFlushTest \/ LoadFlushExit \/ LoadReturn
  <2>1. pc \notin Writing
    BY <1>1, <1>11
       DEF FlushTest, LoadFlushTest, LoadFlushExit, LoadReturn, ProcessExit, At
  <2>2. pc' \notin Writing
    <3>1. CASE FlushTest \/ ProcessExit
      BY <1>1, <1>3, <3>1 DEF FlushTest, ProcessExit
    <3>2. CASE LoadFlushTest
      BY <1>1, <1>2, <3>2 DEF LoadFlushTest
    <3>3. CASE LoadFlushExit \/ LoadReturn
      BY <1>1, <1>2, <3>3 DEF LoadFlushExit, LoadReturn
    <3>. QED
      BY <1>11, <3>1, <3>2, <3>3
  <2>3. QED
    BY <1>11, <2>1, <2>2, ElsewhereKeeps
       DEF FlushTest, LoadFlushTest, LoadFlushExit, LoadReturn, ProcessExit,
           historyVars
<1>12. CASE LoadFlushSend \/ ProcessSend
  <2>1. pc \notin Writing /\ pc' = pc
    BY <1>1, <1>12 DEF LoadFlushSend, ProcessSend, At
  <2>2. QED
    BY <1>12, <2>1, ElsewhereKeeps DEF LoadFlushSend, ProcessSend
<1>13. CASE LoadFlushWait \/ ProcessWait
  <2>1. pc \notin Writing /\ pc' = pc
    BY <1>1, <1>13 DEF LoadFlushWait, ProcessWait, At
  <2>2. QED
    BY <1>13, <2>1, ElsewhereKeeps DEF LoadFlushWait, ProcessWait, historyVars
<1>14. CASE HandlerBegin \/ HandlerSend \/ HandlerWait \/ HandlerEnd
  <2>1. consumer # "program"
    BY <1>14 DEF HandlerBegin, HandlerSend, HandlerWait, HandlerEnd, WriteInv
  <2>2. /\ pc' = pc /\ UNCHANGED <<consumer, accepted, call, x>>
        /\ \/ UNCHANGED <<ringVars, sent>>
           \/ ~Empty /\ SendMessage
    BY <1>14
       DEF HandlerBegin, HandlerSend, HandlerWait, HandlerEnd, historyVars
  <2>3. CASE pc \in Writing
    BY <2>1, <2>2, <2>3, HandlerKeeps
  <2>4. CASE pc \notin Writing
    BY <2>1, <2>2, <2>4, ElsewhereKeeps
  <2>5. QED
    BY <2>3, <2>4
<1>15. CASE UNCHANGED vars
  <2>1. /\ Count' = Count /\ Placed' = Placed
        /\ UNCHANGED <<consumer, ringVars, historyVars, pc, x, call, spc1,
                       args, inHandler>>
    BY <1>15 DEF vars, Count, Placed, ringVars, historyVars
  <2>2. RingInv'
    BY <2>1, RingKept
  <2>3. QED
    BY <2>1, <2>2 DEF WriteInv, Position, Halves, ringVars, historyVars
<1>16. QED
  BY <1>4, <1>5, <1>6, <1>7, <1>8, <1>9, <1>10, <1>11, <1>12, <1>13, <1>14,
     <1>15 DEF Next

-----------------------------------------------------------------------------
(* The messages of the ring, as a sequence.                                *)
LEMMA RingIsHeld ==
  ASSUME FifoTypeOK, RingInv
  PROVE  /\ RingLength = 3 * Count /\ RingLength % 3 = 0
         /\ Ring = [k \in 1..Count |-> Held(k)]
<1>1. /\ Count \in Nat /\ 3 * Count \in 0..(RingSize - 1)
      /\ spc_fread \in Index
  BY Fits DEF FifoTypeOK
<1>2. RingLength = 3 * Count
  BY <1>1, AdvanceDistance DEF RingLength, RingInv, Position
<1>3. (3 * Count) % 3 = 0 /\ (3 * Count) \div 3 = Count
  BY <1>1
<1>4. QED
  BY <1>2, <1>3 DEF Ring, Held, Position

(* The ids of the messages sent and of those in the ring are, in order, the*)
(* ids asked for: no message is taken twice, out of order or half written. *)
LEMMA QueueInRing ==
  ASSUME FifoTypeOK, RingInv PROVE RingHoldsQueue
<1> DEFINE n == Len(sent)
           m == Len(sent) + Count
<1>1. /\ n \in Nat /\ Count \in Nat /\ m \in Nat /\ m <= Len(accepted)
      /\ sent \in Seq(Message) /\ accepted \in Seq(Message)
  BY Fits DEF FifoTypeOK, Message
<1>2. Published = SubSeq(accepted, 1, m)
  <2>1. CASE pc \in Writing
    <3>1. Len(accepted) - 1 = m
      BY <1>1, <2>1, Fits
    <3>2. QED
      BY <2>1, <3>1 DEF Published, Writing, Putting
  <2>2. CASE pc \notin Writing
    <3>1. Len(accepted) = m
      BY <1>1, <2>2 DEF Count
    <3>2. SubSeq(accepted, 1, Len(accepted)) = accepted
      BY <1>1, SubSeqFull
    <3>3. QED
      BY <2>2, <3>1, <3>2 DEF Published, Writing, Putting
  <2>3. QED
    BY <2>1, <2>2
<1>3. /\ Len(Published) = m /\ Published \in Seq(Message)
      /\ \A i \in 1..m : Published[i] = accepted[i]
  BY <1>1, <1>2, SubSeqProperties
<1>4. /\ Ids(Published) = [i \in 1..m |-> accepted[i].id]
      /\ Ids(sent) = [i \in 1..n |-> accepted[i].id]
      /\ Ids(Ring) = [k \in 1..Count |-> accepted[n + k].id]
  <2>1. DOMAIN Published = 1..m /\ DOMAIN sent = 1..n
    BY <1>1, <1>3
  <2>2. /\ \A i \in 1..m : Published[i].id = accepted[i].id
        /\ \A i \in 1..n : sent[i].id = accepted[i].id
        /\ \A k \in 1..Count : Held(k).id = accepted[n + k].id
    BY <1>3 DEF RingInv, AsAsked
  <2>3. Ring = [k \in 1..Count |-> Held(k)]
    BY RingIsHeld
  <2> HIDE DEF n, m
  <2>4. Ids(Ring) = [k \in 1..Count |-> Held(k).id]
    BY <2>3 DEF Ids
  <2>5. QED
    BY <2>1, <2>2, <2>4 DEF Ids
<1>5. /\ Ids(sent) \in Seq(Byte) /\ Len(Ids(sent)) = n
      /\ Ids(Ring) \in Seq(Byte) /\ Len(Ids(Ring)) = Count
      /\ Ids(Published) \in Seq(Byte) /\ Len(Ids(Published)) = m
  <2>1. \A i \in 1..Len(accepted) : accepted[i] \in Message
    BY <1>1, ElementOfSeq
  <2>2. \A i \in 1..Len(accepted) : accepted[i].id \in Byte
    BY <2>1 DEF Message
  <2>3. /\ \A i \in 1..n : i \in 1..Len(accepted)
        /\ \A i \in 1..m : i \in 1..Len(accepted)
        /\ \A k \in 1..Count : n + k \in 1..Len(accepted)
    BY <1>1
  <2> HIDE DEF n, m
  <2>4. Ids(sent) \in Seq(Byte) /\ Len(Ids(sent)) = n
    BY <1>1, <1>4, <2>2, <2>3
  <2>5. Ids(Ring) \in Seq(Byte) /\ Len(Ids(Ring)) = Count
    BY <1>1, <1>4, <2>2, <2>3
  <2>6. Ids(Published) \in Seq(Byte) /\ Len(Ids(Published)) = m
    BY <1>1, <1>4, <2>2, <2>3
  <2>7. QED
    BY <2>4, <2>5, <2>6
<1>6. Ids(sent) \o Ids(Ring) = Ids(Published)
  <2>1. /\ Ids(sent) \o Ids(Ring) \in Seq(Byte)
        /\ Len(Ids(sent) \o Ids(Ring)) = m
        /\ \A i \in 1..m : (Ids(sent) \o Ids(Ring))[i] =
             IF i <= n THEN Ids(sent)[i] ELSE Ids(Ring)[i - n]
    <3>1. n + Count = m
      BY <1>1
    <3> HIDE DEF n, m
    <3>2. QED
      BY <1>1, <1>5, <3>1, ConcatProperties
  <2>2. ASSUME NEW i \in 1..m
        PROVE  (Ids(sent) \o Ids(Ring))[i] = Ids(Published)[i]
    <3>1. CASE i <= n
      BY <1>1, <1>4, <2>1, <3>1
    <3>2. CASE ~(i <= n)
      <4>1. i - n \in 1..Count /\ n + (i - n) = i
        BY <1>1, <3>2
      <4>2. Ids(Ring)[i - n] = accepted[i].id
        BY <1>4, <4>1
      <4>3. QED
        BY <1>4, <2>1, <3>2, <4>2
    <3>3. QED
      BY <3>1, <3>2
  <2> HIDE DEF n, m
  <2>3. QED
    BY <1>5, <2>1, <2>2, SeqEqual
<1>7. QED
  BY <1>6, RingIsHeld DEF RingHoldsQueue

(* Whoever calls spcProcess, and at whatever instant of QueueMessage a     *)
(* handler does, the messages sent and the ones in the ring are the        *)
(* messages asked for, in order and whole.                                 *)
THEOREM RingIsQueue == Spec => []RingHoldsQueue
<1>1. Init => FifoTypeOK /\ RingInv /\ WriteInv
  BY InitFifoTypeOK, InitRing
<1>2. /\ FifoTypeOK /\ RingInv /\ WriteInv /\ [Next]_vars
      => FifoTypeOK' /\ RingInv' /\ WriteInv'
  BY NextFifoTypeOK, NextRing
<1>3. FifoTypeOK /\ RingInv => RingHoldsQueue
  BY QueueInRing
<1>4. QED
  BY <1>1, <1>2, <1>3, PTL DEF Spec

(* A message reaches the SPC700 with the arguments of its call as long as  *)
(* only the program calls spcProcess.                                      *)
THEOREM ArgumentsReach == Spec => []ProgramArgumentsKept
<1>1. Init => FifoTypeOK /\ RingInv /\ WriteInv
  BY InitFifoTypeOK, InitRing
<1>2. /\ FifoTypeOK /\ RingInv /\ WriteInv /\ [Next]_vars
      => FifoTypeOK' /\ RingInv' /\ WriteInv'
  BY NextFifoTypeOK, NextRing
<1>3. FifoTypeOK /\ RingInv => ProgramArgumentsKept
  BY SMTT(60) DEF FifoTypeOK, RingInv, AsAsked, ProgramArgumentsKept, ArgumentsKept
<1>4. QED
  BY <1>1, <1>2, <1>3, PTL DEF Spec
=============================================================================
