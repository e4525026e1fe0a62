---------------------------- MODULE VBlankProofs ----------------------------
(* padsDown and padsUp invent no edge, for every set of pads, buttons and   *)
(* programs, and whatever else the program and the handler do.  What the    *)
(* copies by DMA do to the memories of the picture processor, for memories  *)
(* and buffers of every size, and the types of the variables.               *)
EXTENDS VBlank, SequenceTheorems, TLAPS

(* The words of a pad are those of the last two scans; after padsClear both *)
(* are empty.                                                               *)
PadsTrackScans ==
  /\ pads \in [Pads -> [keys : SUBSET Buttons, old : SUBSET Buttons]]
  /\ scans \in [Pads -> Seq(SUBSET Buttons)]
  /\ \A q \in Pads :
       /\ Len(scans[q]) = 3 /\ pads[q].keys = scans[q][3]
       /\ \/ pads[q].old = scans[q][2]
          \/ pads[q].keys = {} /\ pads[q].old = {}

(* What a poll has read so far: which function, of which pad, and in which  *)
(* order.                                                                   *)
Reading ==
  /\ loaded.fn \in {"padsDown", "padsUp"} /\ loaded.pad \in Pads
  /\ {"fn", "pad"} \subseteq DOMAIN loaded
  /\ "again" \in DOMAIN loaded => {"keys", "old"} \subseteq DOMAIN loaded
  /\ loaded.fn = "padsDown" => "again" \notin DOMAIN loaded

(* No scan has come since the poll began. *)
Current ==
  /\ "keys" \in DOMAIN loaded => loaded.keys = pads[loaded.pad].keys
  /\ "old" \in DOMAIN loaded => loaded.old = pads[loaded.pad].old
  /\ "again" \in DOMAIN loaded => loaded.again = pads[loaded.pad].keys

(* A scan has come, after which there is no other: every word is from after *)
(* it or from before, and pad_keys is read again after both others.         *)
Before(word) == \/ word = scans[loaded.pad][1]
                \/ scans[loaded.pad][2] = {} /\ word = {}

Overtaken ==
  /\ fresh /\ pads[loaded.pad].old = scans[loaded.pad][2]
  /\ "keys" \in DOMAIN loaded =>
       loaded.keys \in {scans[loaded.pad][2], scans[loaded.pad][3]}
  /\ "old" \in DOMAIN loaded =>
       loaded.old = scans[loaded.pad][2] \/ Before(loaded.old)
  /\ "again" \in DOMAIN loaded =>
       \/ loaded.again = scans[loaded.pad][3]
       \/ /\ loaded.again = scans[loaded.pad][2]
          /\ loaded.keys = scans[loaded.pad][2] /\ Before(loaded.old)

PollInv ==
  /\ PadsTrackScans
  /\ fresh \in BOOLEAN /\ then \in {"loop", "updated", "tiled"} \union Loaders
  /\ pc = "poll" => Reading /\ (Current \/ Overtaken)

-----------------------------------------------------------------------------
(* A scan moves the last three values of a pad up.                          *)
LEMMA Shift ==
  ASSUME NEW S, NEW s \in Seq(S), Len(s) = 3, NEW e \in S
  PROVE  /\ Append(Tail(s), e) \in Seq(S) /\ Len(Append(Tail(s), e)) = 3
         /\ Append(Tail(s), e)[1] = s[2] /\ Append(Tail(s), e)[2] = s[3]
         /\ Append(Tail(s), e)[3] = e
<1>. DEFINE u == Tail(s)
            t == Append(u, e)
<1>1. s # <<>>
  <2>1. \A q \in Seq(S) : q = <<>> => Len(q) = 0
    OBVIOUS
  <2>2. QED
    BY <2>1, 3 # 0, Zenon
<1>2. /\ u \in Seq(S) /\ Len(u) = Len(s) - 1
      /\ \A i \in 1 .. Len(u) : u[i] = s[i + 1]
  BY <1>1, HeadTailProperties, Zenon
<1>. HIDE DEF u
<1>3. Len(u) = 2 /\ u[1] = s[2] /\ u[2] = s[3]
  BY <1>2
<1>4. u \in Seq(S)
  BY <1>2
<1>5. t \in Seq(S)
  BY <1>4, AppendProperties
<1>6. Len(t) = Len(u) + 1
  BY <1>4, AppendProperties
<1>7. t[Len(u) + 1] = e
  BY <1>4, AppendProperties
<1>8. \A i \in 1 .. Len(u) : t[i] = u[i]
  BY <1>4, AppendProperties
<1>. HIDE DEF t
<1>9. Len(t) = 3 /\ t[1] = u[1] /\ t[2] = u[2] /\ t[3] = e
  BY <1>3, <1>6, <1>7, <1>8
<1>10. QED
  BY <1>3, <1>5, <1>9 DEF t, u

(* Steps that leave the pads alone and neither begin nor continue a poll.   *)
LEMMA Elsewhere ==
  ASSUME PollInv, UNCHANGED <<pads, scans>>, pc' # "poll", fresh' \in BOOLEAN,
         then' \in {"loop", "updated", "tiled"} \union Loaders
  PROVE  PollInv'
  BY DEF PollInv, PadsTrackScans

(* Before the first scan no button is down, and no poll runs.              *)
LEMMA InitPoll == Init => PollInv
<1>. SUFFICES ASSUME Init PROVE PollInv
  OBVIOUS
<1>1. PadsTrackScans
  BY DEF Init, PadsTrackScans
<1>2. QED
  BY <1>1 DEF Init, PollInv

(* padsDown or padsUp begins with nothing read.                             *)
LEMMA PollBegins == PollInv /\ padsCall => PollInv'
<1>. SUFFICES ASSUME PollInv, padsCall PROVE PollInv'
  OBVIOUS
<1>1. PICK p \in Pads, fn \in {"padsDown", "padsUp"} : loaded' = [fn |-> fn, pad |-> p]
  BY DEF padsCall
<1>2. Reading' /\ Current'
  BY <1>1 DEF Reading, Current
<1>3. QED
  BY <1>2 DEF PollInv, padsCall, PadsTrackScans, textVars, oamVars

(* The words read after a scan are those of the last two, and the ones read *)
(* before it are still there.                                               *)
LEMMA PollContinues == PollInv /\ LoadKeys => PollInv'
<1>. SUFFICES ASSUME PollInv, LoadKeys PROVE PollInv'
  OBVIOUS
<1>1. PICK v \in Operands[loaded.fn] \ DOMAIN loaded :
        (v = "again" => {"keys", "old"} \subseteq DOMAIN loaded) /\ Load(v)
  BY DEF LoadKeys
<1>2. /\ UNCHANGED <<pads, scans, pc, then, fresh>>
      /\ PadsTrackScans /\ Reading /\ (Current \/ Overtaken)
  BY DEF LoadKeys, PollInv, ctlVars
<1>3. v \in {"keys", "old", "again"} /\ (v = "again" => loaded.fn = "padsUp")
  BY <1>1, <1>2 DEF Operands, Reading
<1>4. /\ DOMAIN loaded' = DOMAIN loaded \union {v}
      /\ loaded'[v] = Word(v)
      /\ \A u \in DOMAIN loaded : loaded'[u] = loaded[u]
  BY <1>1 DEF Load
<1>5. Reading' /\ loaded'.pad = loaded.pad
  BY <1>1, <1>2, <1>3, <1>4 DEF Reading
<1>6. CASE Current
  <2>1. Current'
    BY <1>2, <1>3, <1>4, <1>5, <1>6 DEF Current, Word
  <2>2. QED
    BY <1>2, <1>5, <2>1 DEF PollInv, PadsTrackScans
<1>7. CASE Overtaken
  <2>1. pads[loaded.pad].keys = scans[loaded.pad][3]
    BY <1>2 DEF PadsTrackScans, Reading
  <2>2. ASSUME v = "keys" PROVE Overtaken'
    BY <1>1, <1>2, <1>4, <1>5, <1>7, <2>1, <2>2 DEF Overtaken, Before, Word, Reading
  <2>3. ASSUME v = "old" PROVE Overtaken'
    BY <1>1, <1>2, <1>4, <1>5, <1>7, <2>1, <2>3 DEF Overtaken, Before, Word, Reading
  <2>4. ASSUME v = "again" PROVE Overtaken'
    BY <1>1, <1>2, <1>4, <1>5, <1>7, <2>1, <2>4 DEF Overtaken, Before, Word, Reading
  <2>5. Overtaken'
    BY <1>3, <2>2, <2>3, <2>4
  <2>6. QED
    BY <1>2, <1>5, <2>5 DEF PollInv, PadsTrackScans
<1>8. QED
  BY <1>2, <1>6, <1>7

(* padsClear counts as a scan with no button down.                          *)
LEMMA ClearTracks == PollInv /\ padsClear => PollInv'
<1>. SUFFICES ASSUME PollInv, padsClear PROVE PollInv'
  OBVIOUS
<1>1. PICK p \in Pads :
        /\ pads' = [pads EXCEPT ![p] = [keys |-> {}, old |-> {}]]
        /\ scans' = [scans EXCEPT ![p] = Append(Tail(@), {})]
  BY DEF padsClear
<1>2. PadsTrackScans
  BY DEF PollInv
<1>3. scans[p] \in Seq(SUBSET Buttons) /\ Len(scans[p]) = 3
  BY <1>2 DEF PadsTrackScans
<1>4. PICK e \in SUBSET Buttons : e = {}
  OBVIOUS
<1>. DEFINE S == SUBSET Buttons
            s == scans[p]
            t == Append(Tail(s), e)
<1>5. /\ t \in Seq(SUBSET Buttons) /\ Len(t) = 3
      /\ t[1] = s[2] /\ t[2] = s[3] /\ t[3] = e
  <2>1. e \in S /\ s \in Seq(S) /\ Len(s) = 3
    BY <1>3, <1>4
  <2>. HIDE DEF S, s
  <2>2. /\ t \in Seq(S) /\ Len(t) = 3
        /\ t[1] = s[2] /\ t[2] = s[3] /\ t[3] = e
    BY <2>1, Shift
  <2>3. QED
    BY <2>2 DEF S
<1>. HIDE DEF t
<1>6. PadsTrackScans'
  <2>1. pads' \in [Pads -> [keys : SUBSET Buttons, old : SUBSET Buttons]]
    BY <1>1, <1>2 DEF PadsTrackScans
  <2>2. scans' \in [Pads -> Seq(SUBSET Buttons)]
    BY <1>1, <1>2, <1>4, <1>5 DEF PadsTrackScans, t
  <2>3. ASSUME NEW q \in Pads
        PROVE  /\ Len(scans'[q]) = 3 /\ pads'[q].keys = scans'[q][3]
               /\ \/ pads'[q].old = scans'[q][2]
                  \/ pads'[q].keys = {} /\ pads'[q].old = {}
    BY <1>1, <1>2, <1>4, <1>5 DEF PadsTrackScans, t
  <2>4. QED
    BY <2>1, <2>2, <2>3 DEF PadsTrackScans
<1>7. pc' = "loop" /\ fresh' = FALSE /\ then' = then
  BY DEF padsClear, Call
<1>8. QED
  BY <1>6, <1>7 DEF PollInv

(* scanPads keeps the words of the last two scans.                          *)
LEMMA ScanTracks ==
  ASSUME PadsTrackScans, scanPads
  PROVE  /\ PadsTrackScans'
         /\ \A q \in Pads : /\ pads'[q].old = pads[q].keys
                            /\ scans'[q][1] = scans[q][2] /\ scans'[q][2] = scans[q][3]
<1>1. PICK joy : /\ joy \in [Pads -> IF "pad" \in program
                                     THEN (SUBSET Buttons) \union {Device} ELSE {{}}]
                 /\ pads' = [p \in Pads |-> [keys |-> ReadJoy(joy[p]), old |-> pads[p].keys]]
                 /\ scans' = [p \in Pads |-> Append(Tail(scans[p]), ReadJoy(joy[p]))]
  BY DEF scanPads
<1>2. ASSUME NEW q \in Pads PROVE ReadJoy(joy[q]) \in SUBSET Buttons
  BY <1>1 DEF ReadJoy
<1>3. ASSUME NEW q \in Pads
      PROVE  /\ scans'[q] \in Seq(SUBSET Buttons) /\ Len(scans'[q]) = 3
             /\ scans'[q][1] = scans[q][2] /\ scans'[q][2] = scans[q][3]
             /\ scans'[q][3] = ReadJoy(joy[q])
  <2>1. scans[q] \in Seq(SUBSET Buttons) /\ Len(scans[q]) = 3
    BY DEF PadsTrackScans
  <2>2. scans'[q] = Append(Tail(scans[q]), ReadJoy(joy[q]))
    BY <1>1
  <2>3. QED
    BY <1>2, <2>1, <2>2, Shift
<1>4. \A q \in Pads : pads'[q].keys = ReadJoy(joy[q]) /\ pads'[q].old = pads[q].keys
  BY <1>1
<1>5. pads' \in [Pads -> [keys : SUBSET Buttons, old : SUBSET Buttons]]
  BY <1>1, <1>2 DEF PadsTrackScans
<1>6. scans' \in [Pads -> Seq(SUBSET Buttons)]
  BY <1>1, <1>3
<1>7. QED
  BY <1>3, <1>4, <1>5, <1>6 DEF PadsTrackScans

(* At most one interrupt comes while a pad is polled, and the words read    *)
(* before it are those of the scans before its own.                         *)
LEMMA PollInterrupted == PollInv /\ VBlank => PollInv'
<1>. SUFFICES ASSUME PollInv, VBlank PROVE PollInv'
  OBVIOUS
<1>1. /\ fresh => pc = "wai"
      /\ fresh' = TRUE /\ then' = then /\ loaded' = loaded
      /\ pc' = IF pc = "wai" THEN then ELSE pc
  BY DEF VBlank, NmiTaken
<1>2. PadsTrackScans /\ then \in {"loop", "updated", "tiled"} \union Loaders
  BY DEF PollInv
<1>3. then # "poll"
  BY <1>2, VBlankAssumption DEF VBlankAssumption
<1>4. scanPads \/ UNCHANGED <<pads, scans>>
  BY DEF VBlank, consoleVblank, consoleVblankMode7
<1>5. PadsTrackScans'
  BY <1>2, <1>4, ScanTracks DEF PadsTrackScans
<1>6. ASSUME pc' = "poll" PROVE Reading' /\ (Current' \/ Overtaken')
  <2>1. pc = "poll" /\ ~fresh
    BY <1>1, <1>3, <1>6
  <2>2. Reading /\ Current
    BY <2>1 DEF PollInv, Overtaken
  <2>3. Reading'
    BY <1>1, <2>2 DEF Reading
  <2>4. CASE UNCHANGED <<pads, scans>>
    BY <1>1, <2>2, <2>3, <2>4 DEF Current
  <2>5. CASE scanPads
    <3>. DEFINE q == loaded.pad
    <3>1. q \in Pads
      BY <2>2 DEF Reading
    <3>2. /\ pads'[q].old = pads[q].keys
          /\ scans'[q][1] = scans[q][2] /\ scans'[q][2] = scans[q][3]
      BY <1>2, <2>5, <3>1, ScanTracks
    <3>3. /\ pads[q].keys = scans[q][3]
          /\ \/ pads[q].old = scans[q][2]
             \/ pads[q].keys = {} /\ pads[q].old = {}
      BY <1>2, <3>1 DEF PadsTrackScans
    <3>4. Overtaken'
      BY <1>1, <2>2, <3>2, <3>3 DEF Overtaken, Before, Current, Reading
    <3>5. QED
      BY <2>3, <3>4
  <2>6. QED
    BY <1>4, <2>4, <2>5
<1>7. QED
  BY <1>1, <1>2, <1>5, <1>6 DEF PollInv

-----------------------------------------------------------------------------
(* Every step of the program and of the interrupt keeps the invariant, which *)
(* has one step per action.                                                 *)
LEMMA PollStep == PollInv /\ [Next]_vars => PollInv'
<1>. SUFFICES ASSUME PollInv, [Next]_vars PROVE PollInv'
  OBVIOUS
<1>. USE DEF Call, padVars, ctlVars, textVars, oamVars
<1>1. fresh \in BOOLEAN /\ then \in {"loop", "updated", "tiled"} \union Loaders
  BY DEF PollInv
<1>2. "poll" \notin {"loop", "updated", "tiled"} \union Loaders
  BY VBlankAssumption DEF VBlankAssumption
<1>3. CASE VBlank
  BY <1>3, PollInterrupted
<1>4. CASE padsCall
  BY <1>4, PollBegins
<1>5. CASE LoadKeys
  BY <1>5, PollContinues
<1>6. CASE padsClear
  BY <1>6, ClearTracks
<1>7. CASE WaitForVBlank
  BY <1>1, <1>7, Elsewhere DEF WaitForVBlank
<1>8. CASE consoleDrawText
  BY <1>1, <1>8, Elsewhere DEF consoleDrawText
<1>9. CASE PrintChar
  BY <1>1, <1>9, Elsewhere DEF PrintChar
<1>10. CASE DrawDone
  BY <1>1, <1>10, Elsewhere DEF DrawDone
<1>11. CASE consoleUpdate
  BY <1>1, <1>11, Elsewhere DEF consoleUpdate
<1>12. CASE UpdateDone
  BY <1>1, <1>12, Elsewhere DEF UpdateDone
<1>13. CASE bgInitTileSetData
  BY <1>1, <1>13, Elsewhere DEF bgInitTileSetData
<1>14. CASE bgSetGfxPtr
  BY <1>1, <1>14, Elsewhere DEF bgSetGfxPtr
<1>15. CASE UploadCall
  BY <1>1, <1>15, Elsewhere DEF UploadCall
<1>16. CASE UploadCopies
  BY <1>1, <1>16, Elsewhere DEF UploadCopies
<1>17. CASE CopyStore
  <2>1. fresh' \in BOOLEAN
    BY <1>1, <1>17 DEF CopyStore
  <2>2. UNCHANGED <<pads, scans, then>> /\ pc' # "poll"
    BY <1>1, <1>2, <1>17 DEF CopyStore
  <2>3. QED
    BY <1>1, <2>1, <2>2, Elsewhere
<1>18. CASE setBrightness
  BY <1>1, <1>18, Elsewhere DEF setBrightness
<1>19. CASE nmiSet
  BY <1>1, <1>19, Elsewhere DEF nmiSet
<1>20. CASE NmiStore
  BY <1>1, <1>20, Elsewhere DEF NmiStore
<1>21. CASE SpriteCall
  BY <1>1, <1>21, Elsewhere DEF SpriteCall
<1>22. CASE SpriteStore
  BY <1>1, <1>22, Elsewhere DEF SpriteStore
<1>23. CASE PadsReturn
  BY <1>1, <1>23, Elsewhere DEF PadsReturn
<1>24. CASE UNCHANGED vars
  BY <1>24 DEF PollInv, PadsTrackScans, Reading, Current, Overtaken, Before, vars
<1>25. QED
  BY <1>3, <1>4, <1>5, <1>6, <1>7, <1>8, <1>9, <1>10, <1>11, <1>12, <1>15, <1>16,
     <1>17, <1>18, <1>19, <1>20, <1>21, <1>22, <1>23, <1>24, <1>13, <1>14 DEF Next, Program

(* In every reachable state the words a poll has read are those of scans of  *)
(* its pad: at most one interrupt comes between the reads of padsDown or     *)
(* padsUp, and the words read before it are those of the scans before it.    *)
THEOREM PollCorrect == Spec => []PollInv
<1>1. QED
  BY InitPoll, PollStep, PTL DEF Spec

(* What the words of a poll say of the last three scans.                    *)
LEMMA AnswerIsReal ==
  ASSUME PollInv, PadsReturn, NEW b \in Buttons, b \in Answer(loaded)
  PROVE  \E before, after \in 1 .. 3 :
           /\ before < after
           /\ (b \in scans[loaded.pad][before]) = (loaded.fn = "padsUp")
           /\ (b \in scans[loaded.pad][after]) = (loaded.fn = "padsDown")
<1>. DEFINE s == scans[loaded.pad]
            Seen(i) == b \in s[i]
<1>1. /\ Reading /\ (Current \/ Overtaken) /\ PadsTrackScans
      /\ {"keys", "old"} \subseteq DOMAIN loaded
      /\ loaded.fn = "padsUp" => "again" \in DOMAIN loaded
  BY DEF PollInv, PadsReturn, Operands, Reading
<1>2. /\ pads[loaded.pad].keys = s[3]
      /\ \/ pads[loaded.pad].old = s[2]
         \/ pads[loaded.pad].keys = {} /\ pads[loaded.pad].old = {}
  BY <1>1 DEF PadsTrackScans, Reading
<1>3. CASE loaded.fn = "padsDown"
  <2>1. b \in loaded.keys /\ b \notin loaded.old
    BY <1>3 DEF Answer
  <2>2. \/ ~Seen(1) /\ Seen(2)
        \/ ~Seen(1) /\ Seen(3)
        \/ ~Seen(2) /\ Seen(3)
    BY <1>1, <1>2, <2>1 DEF Current, Overtaken, Before
  <2>3. QED
    BY <1>3, <2>2
<1>4. CASE loaded.fn = "padsUp"
  <2>1. /\ b \notin loaded.again
        /\ \/ b \in loaded.keys /\ b \notin loaded.old
           \/ b \in loaded.old /\ b \notin loaded.keys
    BY <1>4 DEF Answer
  <2>2. \/ Seen(1) /\ ~Seen(2)
        \/ Seen(1) /\ ~Seen(3)
        \/ Seen(2) /\ ~Seen(3)
    BY <1>1, <1>2, <1>4, <2>1 DEF Current, Overtaken, Before
  <2>3. QED
    BY <1>4, <2>2
<1>5. QED
  BY <1>1, <1>3, <1>4 DEF Reading

(* A button padsDown or padsUp reports has gone down, or up, in the last two *)
(* frames, for every set of pads, buttons and programs, wherever the         *)
(* interrupt falls between the reads of pad.c.                               *)
THEOREM EdgesCorrect == Spec => EdgesAreReal
<1>. DEFINE Real ==
       \A b \in Buttons :
         PadsReturn /\ b \in Answer(loaded) =>
           \E before, after \in 1 .. 3 :
             /\ before < after
             /\ (b \in scans[loaded.pad][before]) = (loaded.fn = "padsUp")
             /\ (b \in scans[loaded.pad][after]) = (loaded.fn = "padsDown")
<1>1. PollInv => [Real]_vars
  BY AnswerIsReal
<1>2. [][Real]_vars <=> EdgesAreReal
  BY DEF EdgesAreReal
<1>. HIDE DEF Real
<1>3. QED
  BY <1>1, <1>2, PollCorrect, PTL

-----------------------------------------------------------------------------
(* The copies.                                                              *)

(* The registers a copy uses, and those that show graphics and brightness.  *)
Channel == {"vmadd", "cgadd", "oamadd", "das", "a1t", "a1b", "dmap", "bbad"}
Registers == Channel \union {"obsel", "nba", "nba34", "inidisp"}

(* The shape of the picture processor's state.                              *)
Shape(h) ==
  /\ DOMAIN h = {"vram", "cgram", "oam", "left"} \union Registers
  /\ h.left \in 0 .. Room /\ h.das \in Nat
  /\ DOMAIN h.vram = 0 .. VramLen - 1 /\ DOMAIN h.cgram = 0 .. CgramLen - 1
  /\ DOMAIN h.oam = Sprites
  /\ h.dmap \in {0, 1} /\ h.bbad \in {"VMDATA", "CGDATA", "OAMDATA"}

(* Two states that show the same graphics, and have the same memories.      *)
SameShown(h, g) == h.obsel = g.obsel /\ h.nba = g.nba /\ h.nba34 = g.nba34

SameMemories(h, g) ==
  h.vram = g.vram /\ h.cgram = g.cgram /\ h.oam = g.oam /\ SameShown(h, g)

(* Two states in which as many words can come.                              *)
SameRoom(h, g) == h.left = g.left /\ h.inidisp = g.inidisp

(* A copy stores to six registers, each another one, and then to MDMAEN.    *)
IsCopy(c) ==
  /\ \A i \in 1 .. 6 : c[i][1] \in Channel
  /\ \A i, j \in 1 .. 6 : i # j => c[i][1] # c[j][1]
  /\ \A i \in 1 .. 6 : c[i][1] = "dmap" => c[i][2] \in {0, 1}
  /\ \A i \in 1 .. 6 : c[i][1] = "bbad" => c[i][2] \in {"VMDATA", "CGDATA", "OAMDATA"}
  /\ \A i \in 1 .. 6 : c[i][1] = "das" => c[i][2] \in Nat
  /\ c[7][1] = "mdmaen"

(* The first n stores of a copy have been made.                             *)
Programmed(h, c, n) == \A i \in 1 .. n : h[c[i][1]] = c[i][2]

(* The library's copies and the handlers' copy of OAM are such sequences.   *)
LEMMA Copies ==
  ASSUME NEW src, NEW address, NEW size \in Nat
  PROVE  /\ IsCopy(dmaCopyVram(src, address, size))
         /\ IsCopy(dmaCopyCGram(src, address, size))
         /\ IsCopy(dmaCopyOAram(src, size))
         /\ IsCopy(oamUpdate)
<1>. USE DEF IsCopy, Channel
<1>1. IsCopy(dmaCopyVram(src, address, size))
  BY DEF dmaCopyVram
<1>2. IsCopy(dmaCopyCGram(src, address, size))
  BY DEF dmaCopyCGram
<1>3. IsCopy(dmaCopyOAram(src, size))
  BY DEF dmaCopyOAram
<1>4. IsCopy(oamUpdate)
  BY PpuAssumption DEF oamUpdate
<1>5. QED
  BY <1>1, <1>2, <1>3, <1>4

(* The next store of a copy, before its last, only programs a register.     *)
LEMMA RegisterStored ==
  ASSUME NEW h, Shape(h), NEW m, NEW c, IsCopy(c), NEW n \in 0 .. 5,
         Programmed(h, c, n)
  PROVE  /\ Shape(Put(h, m, c[n + 1])) /\ SameMemories(Put(h, m, c[n + 1]), h)
         /\ SameRoom(Put(h, m, c[n + 1]), h)
         /\ Programmed(Put(h, m, c[n + 1]), c, n + 1)
<1>. DEFINE r == c[n + 1][1]
            v == c[n + 1][2]
            g == [h EXCEPT ![r] = v]
<1>1. /\ r \in Channel
      /\ \A i \in 1 .. n : c[i][1] # r /\ c[i][1] \in Channel
      /\ r = "dmap" => v \in {0, 1}
      /\ r = "bbad" => v \in {"VMDATA", "CGDATA", "OAMDATA"}
      /\ r = "das" => v \in Nat
  BY DEF IsCopy
<1>2. Put(h, m, c[n + 1]) = g
  BY <1>1 DEF Put, Channel
<1>3. DOMAIN h = {"vram", "cgram", "oam", "left"} \union Registers
  BY DEF Shape
<1>4. /\ DOMAIN g = DOMAIN h /\ g[r] = v
      /\ \A q \in DOMAIN h : q # r => g[q] = h[q]
  BY <1>1, <1>3 DEF Registers
<1>. HIDE DEF g, v, r
<1>5. Shape(g) /\ SameMemories(g, h) /\ SameRoom(g, h)
  BY <1>1, <1>3, <1>4 DEF Shape, SameMemories, SameShown, SameRoom, Registers, Channel
<1>6. Programmed(g, c, n + 1)
  <2>1. ASSUME NEW i \in 1 .. n + 1 PROVE g[c[i][1]] = c[i][2]
    <3>1. CASE i = n + 1
      BY <1>4, <3>1 DEF r, v
    <3>2. CASE i # n + 1
      BY <1>1, <1>3, <1>4, <3>2 DEF Programmed, Registers
    <3>3. QED
      BY <3>1, <3>2
  <2>2. QED
    BY <2>1 DEF Programmed
<1>7. QED
  BY <1>2, <1>5, <1>6

(* After its first six stores every register of a copy is programmed, and no*)
(* memory has changed.                                                      *)
LEMMA SettledRegisters ==
  ASSUME NEW h, Shape(h), NEW c, IsCopy(c), DOMAIN c = 1 .. 7
  PROVE  /\ Shape(Settled(h, c)) /\ SameMemories(Settled(h, c), h)
         /\ SameRoom(Settled(h, c), h)
         /\ Programmed(Settled(h, c), c, 6)
<1>. DEFINE g == Settled(h, c)
            Stored(r) == {k \in DOMAIN c : c[k][1] = r}
<1>1. DOMAIN h = {"vram", "cgram", "oam", "left"} \union Registers
  BY DEF Shape
<1>2. /\ DOMAIN g = DOMAIN h
      /\ \A r \in DOMAIN h :
           g[r] = IF Stored(r) = {} THEN h[r] ELSE c[CHOOSE k \in Stored(r) : TRUE][2]
  BY DEF Settled
<1>. HIDE DEF g
<1>3. ASSUME NEW i \in 1 .. 6
      PROVE  /\ c[i][1] \in DOMAIN h /\ Stored(c[i][1]) = {i}
             /\ g[c[i][1]] = c[i][2]
  <2>1. c[i][1] \in DOMAIN h /\ c[i][1] # "mdmaen"
    BY <1>1 DEF IsCopy, Registers, Channel
  <2>2. ASSUME NEW k \in 1 .. 7, c[k][1] = c[i][1] PROVE k = i
    BY <2>1, <2>2 DEF IsCopy
  <2>3. Stored(c[i][1]) = {i}
    BY <2>2
  <2>4. QED
    BY <1>2, <2>1, <2>3
<1>4. ASSUME NEW r \in DOMAIN h, r \notin {c[i][1] : i \in 1 .. 6} PROVE g[r] = h[r]
  <2>1. r # "mdmaen"
    BY <1>1 DEF Registers, Channel
  <2>2. ASSUME NEW k \in 1 .. 7 PROVE c[k][1] # r
    BY <1>4, <2>1 DEF IsCopy
  <2>3. QED
    BY <1>2, <2>2
<1>5. \A i \in 1 .. 6 : c[i][1] \in Channel
  BY DEF IsCopy
<1>6. SameMemories(g, h) /\ SameRoom(g, h)
  <2>1. ASSUME NEW r \in {"vram", "cgram", "oam", "left", "obsel", "nba", "nba34",
                         "inidisp"}
        PROVE  g[r] = h[r]
    BY <1>1, <1>4, <1>5 DEF Registers, Channel
  <2>2. QED
    BY <2>1 DEF SameMemories, SameShown, SameRoom
<1>7. ASSUME NEW r \in DOMAIN h
      PROVE  g[r] = h[r] \/ \E i \in 1 .. 6 : c[i][1] = r /\ g[r] = c[i][2]
  BY <1>3, <1>4
<1>8. /\ g.dmap \in {0, 1} /\ g.bbad \in {"VMDATA", "CGDATA", "OAMDATA"}
      /\ g.das \in Nat
  <2>1. "dmap" \in DOMAIN h /\ "bbad" \in DOMAIN h /\ "das" \in DOMAIN h
    BY <1>1 DEF Registers, Channel
  <2>2. QED
    BY <1>7, <2>1 DEF IsCopy, Shape
<1>9. Shape(g)
  BY <1>1, <1>2, <1>6, <1>8 DEF Shape, SameMemories, SameRoom
<1>10. Programmed(g, c, 6)
  BY <1>3 DEF Programmed
<1>11. QED
  BY <1>6, <1>9, <1>10 DEF g

-----------------------------------------------------------------------------
(* What the channel moves.                                                  *)

(* A distance around a memory of some size.                                 *)
LEMMA Offset ==
  ASSUME NEW size \in Nat \ {0}, NEW at \in 0 .. size - 1, NEW a \in 0 .. size - 1
  PROVE  (a - at) % size = IF at <= a THEN a - at ELSE (a - at) + size
<1>1. CASE at <= a
  BY <1>1
<1>2. CASE ~(at <= a)
  BY <1>2
<1>3. QED
  BY <1>1, <1>2

(* What a copy of which n words are taken makes of a memory.                *)
Copied(memory, size, at, cells, n) ==
  [a \in 0 .. size - 1 |-> IF a \in at .. at + n - 1 THEN cells[a - at + 1]
                                                     ELSE memory[a]]

(* No more words are taken than there are, and all if they come in VBlank   *)
(* or the screen is off.                                                    *)
LEMMA WordsTaken ==
  ASSUME NEW h, Shape(h), NEW n \in Nat
  PROVE  /\ Taken(h, n) \in 0 .. n /\ Left(h, n) \in 0 .. Room
         /\ h.inidisp = 0 \/ n <= h.left => Taken(h, n) = n
         /\ n <= h.left => Left(h, n) = h.left - n
  BY RoomAssumption DEF Taken, Left, Shape, RoomAssumption

(* A transfer of as many words as its source has, to where they fit,        *)
(* replaces the words that are taken and no others.                         *)
LEMMA FillExact ==
  ASSUME NEW h, NEW m, NEW memory, NEW size \in Nat \ {0}, NEW at \in Nat,
         NEW src, Len(m[src]) \in Nat \ {0}, at + Len(m[src]) <= size,
         h.das = Len(m[src]), h.a1t = Start(src), h.a1b = src,
         NEW n \in 0 .. Len(m[src]), Taken(h, Len(m[src])) = n
  PROVE  Fill(h, m, memory, size, at) = Copied(memory, size, at, m[src], n)
<1>. DEFINE len == Len(m[src])
<1>1. ASSUME NEW a \in 0 .. size - 1
      PROVE  LET k == (a - at) % size
             IN  (IF k < Taken(h, Count(h, size)) THEN Fetch(h, m, k) ELSE memory[a]) =
                 IF a \in at .. at + n - 1 THEN m[src][a - at + 1] ELSE memory[a]
  <2>. DEFINE k == (a - at) % size
  <2>1. at \in 0 .. size - 1
    OBVIOUS
  <2>2. k = IF at <= a THEN a - at ELSE (a - at) + size
    BY <2>1, Offset
  <2>. HIDE DEF k
  <2>3. Taken(h, Count(h, size)) = n
    BY DEF Count
  <2>4. CASE a \in at .. at + n - 1
    <3>1. k = a - at /\ k \in Nat /\ k < n /\ k < len
      BY <2>2, <2>4
    <3>2. Fetch(h, m, k) = m[src][0 + k + 1]
      BY <3>1 DEF Fetch, Start
    <3>3. 0 + k + 1 = a - at + 1
      BY <3>1
    <3>4. QED
      BY <2>3, <2>4, <3>1, <3>2, <3>3 DEF k
  <2>5. CASE a \notin at .. at + n - 1
    <3>1. k \in Nat /\ ~(k < n)
      BY <2>2, <2>5
    <3>2. QED
      BY <2>3, <2>5, <3>1 DEF k
  <2>6. QED
    BY <2>4, <2>5
<1>2. QED
  BY <1>1 DEF Fill, Copied

(* A copy of cells to a place in VRAM, or to the start of CGRAM, has made g *)
(* of h: the words taken are there and the VBlank is shorter.               *)
VramMoved(g, h, at, cells) ==
  /\ Shape(g) /\ g.vram = Copied(h.vram, VramLen, at, cells, Taken(h, Len(cells)))
  /\ g.cgram = h.cgram /\ g.oam = h.oam /\ SameShown(g, h)
  /\ g.inidisp = h.inidisp /\ g.left = Left(h, Len(cells))

CgramMoved(g, h, cells) ==
  /\ Shape(g) /\ g.cgram = Copied(h.cgram, CgramLen, 0, cells, Taken(h, Len(cells)))
  /\ g.vram = h.vram /\ g.oam = h.oam /\ SameShown(g, h)
  /\ g.inidisp = h.inidisp /\ g.left = Left(h, Len(cells))

(* What a copy to VRAM does when it starts.                                 *)
LEMMA VramTransfer ==
  ASSUME NEW h, Shape(h), NEW m, NEW src, NEW at \in Nat,
         Len(m[src]) \in Nat \ {0}, at + Len(m[src]) <= VramLen,
         Programmed(h, dmaCopyVram(src, at, Len(m[src])), 6)
  PROVE  VramMoved(Transfer(h, m), h, at, m[src])
<1>. DEFINE len == Len(m[src])
            g == Transfer(h, m)
            n == Taken(h, len)
<1>1. /\ h.vmadd = at /\ h.das = len /\ h.a1t = Start(src) /\ h.a1b = src
      /\ h.dmap = 1 /\ h.bbad = "VMDATA"
  BY DEF Programmed, dmaCopyVram
<1>2. VramLen \in Nat \ {0}
  BY PpuAssumption
<1>3. /\ Fill(h, m, h.vram, VramLen, h.vmadd) = Copied(h.vram, VramLen, at, m[src], n)
      /\ Left(h, len) \in 0 .. Room
  <2>. DEFINE memory == h.vram
  <2>1. /\ h.das = len /\ h.a1t = Start(src) /\ h.a1b = src
        /\ len \in Nat \ {0} /\ at + len <= VramLen
    BY <1>1
  <2>2. n \in 0 .. len /\ n = Taken(h, len) /\ Left(h, len) \in 0 .. Room
    BY <2>1, WordsTaken
  <2>. HIDE DEF memory, n
  <2>3. Fill(h, m, memory, VramLen, at) = Copied(memory, VramLen, at, m[src], n)
    BY ONLY <2>1, <2>2, <1>2, at \in Nat, FillExact
  <2>4. QED
    BY <1>1, <2>2, <2>3 DEF memory
<1>4. g = [[h EXCEPT !.das = 0, !.a1t.off = @ + h.das]
             EXCEPT !.vram = Fill(h, m, h.vram, VramLen, h.vmadd),
                    !.vmadd = (@ + Count(h, VramLen)) % VramLen,
                    !.left = Left(h, len)]
  <2>1. Count(h, VramLen) = len
    BY <1>1 DEF Count
  <2>2. "vram" \in DOMAIN h /\ "vram" \notin {"das", "a1t"}
    BY DEF Shape
  <2>3. [h EXCEPT !.das = 0, !.a1t.off = @ + h.das].vram = h.vram
    BY <2>2
  <2>4. QED
    BY <1>1, <2>1, <2>3 DEF Transfer
<1>. HIDE DEF n
<1>5. /\ DOMAIN g = DOMAIN h /\ g.vram = Copied(h.vram, VramLen, at, m[src], n)
      /\ g.cgram = h.cgram /\ g.oam = h.oam /\ g.left = Left(h, len)
      /\ g.dmap = h.dmap /\ g.bbad = h.bbad /\ g.das = 0 /\ g.inidisp = h.inidisp
      /\ SameShown(g, h)
  BY <1>3, <1>4 DEF Shape, Registers, Channel, SameShown
<1>. HIDE DEF g
<1>6. DOMAIN g.vram = 0 .. VramLen - 1
  BY <1>5 DEF Copied
<1>7. Shape(g)
  BY <1>3, <1>5, <1>6 DEF Shape
<1>8. QED
  BY <1>5, <1>7 DEF g, n, VramMoved

(* What a copy to CGRAM does when it starts.                                *)
LEMMA CgramTransfer ==
  ASSUME NEW h, Shape(h), NEW m, NEW src,
         Len(m[src]) \in Nat \ {0}, Len(m[src]) <= CgramLen,
         Programmed(h, dmaCopyCGram(src, 0, Len(m[src])), 6)
  PROVE  CgramMoved(Transfer(h, m), h, m[src])
<1>. DEFINE len == Len(m[src])
            g == Transfer(h, m)
            n == Taken(h, len)
            memory == h.cgram
<1>1. /\ h.cgadd = 0 /\ h.das = len /\ h.a1t = Start(src) /\ h.a1b = src
      /\ h.bbad = "CGDATA"
  BY DEF Programmed, dmaCopyCGram
<1>2. CgramLen \in Nat \ {0}
  BY PpuAssumption
<1>3. n \in 0 .. len /\ Left(h, len) \in 0 .. Room
  BY WordsTaken
<1>4. Fill(h, m, memory, CgramLen, 0) = Copied(memory, CgramLen, 0, m[src], n)
  <2>1. /\ h.das = len /\ h.a1t = Start(src) /\ h.a1b = src
        /\ len \in Nat \ {0} /\ 0 + len <= CgramLen /\ n = Taken(h, len)
    BY <1>1
  <2>. HIDE DEF memory, n
  <2>2. QED
    BY ONLY <2>1, <1>2, <1>3, 0 \in Nat, FillExact
<1>5. g = [[h EXCEPT !.das = 0, !.a1t.off = @ + h.das]
             EXCEPT !.cgram = Fill(h, m, memory, CgramLen, h.cgadd),
                    !.cgadd = (@ + Count(h, CgramLen)) % CgramLen,
                    !.left = Left(h, len)]
  BY <1>1 DEF Transfer, Shape, Registers, Channel, Count
<1>. HIDE DEF n
<1>6. /\ DOMAIN g = DOMAIN h /\ g.cgram = Copied(memory, CgramLen, 0, m[src], n)
      /\ g.vram = h.vram /\ g.oam = h.oam /\ g.left = Left(h, len)
      /\ g.dmap = h.dmap /\ g.bbad = h.bbad /\ g.das = 0 /\ g.inidisp = h.inidisp
      /\ SameShown(g, h)
  BY <1>1, <1>4, <1>5 DEF Shape, Registers, Channel, SameShown
<1>. HIDE DEF g
<1>7. DOMAIN g.cgram = 0 .. CgramLen - 1
  BY <1>6 DEF Copied
<1>8. Shape(g)
  BY <1>3, <1>6, <1>7 DEF Shape
<1>9. QED
  BY <1>6, <1>8 DEF g, n, CgramMoved

(* The copies of OAM, the handlers', are whole if they come in VBlank.      *)
LEMMA OamTransfer ==
  ASSUME NEW h, Shape(h), NEW m, Len(m.oam) = NSprites,
         h.oamadd = 0, h.das = NSprites, h.a1t = Start("oam"), h.a1b = "oam",
         h.bbad = "OAMDATA", NSprites <= h.left
  PROVE  LET g == Transfer(h, m)
         IN  /\ Shape(g) /\ g.oam = [i \in Sprites |-> m.oam[i + 1]]
             /\ g.vram = h.vram /\ g.cgram = h.cgram /\ SameShown(g, h)
             /\ g.inidisp = h.inidisp /\ g.left = h.left - NSprites
<1>. DEFINE g == Transfer(h, m)
            memory == h.oam
<1>1. NSprites \in Nat \ {0}
  BY PpuAssumption
<1>2. Fill(h, m, memory, NSprites, 0) = [i \in Sprites |-> m.oam[i + 1]]
  <2>. DEFINE len == Len(m["oam"])
  <2>1. /\ h.das = len /\ h.a1t = Start("oam") /\ h.a1b = "oam"
        /\ len \in Nat \ {0} /\ 0 + len <= NSprites
        /\ len = NSprites
    BY <1>1
  <2>3. len \in 0 .. len /\ Taken(h, len) = len
    BY <1>1, <2>1 DEF Taken
  <2>. HIDE DEF memory
  <2>2. Fill(h, m, memory, NSprites, 0) = Copied(memory, NSprites, 0, m["oam"], len)
    BY ONLY <2>1, <2>3, <1>1, 0 \in Nat, FillExact
  <2>4. QED
    BY <1>1, <2>2 DEF Sprites, Copied
<1>3. Left(h, NSprites) = h.left - NSprites /\ Left(h, NSprites) \in 0 .. Room
  BY <1>1, WordsTaken
<1>4. g = [[h EXCEPT !.das = 0, !.a1t.off = @ + h.das]
             EXCEPT !.oam = Fill(h, m, memory, NSprites, h.oamadd),
                    !.left = Left(h, NSprites)]
  BY <1>1 DEF Transfer, Shape, Registers, Channel, Count
<1>5. /\ DOMAIN g = DOMAIN h /\ g.oam = [i \in Sprites |-> m.oam[i + 1]]
      /\ g.vram = h.vram /\ g.cgram = h.cgram /\ SameShown(g, h)
      /\ g.dmap = h.dmap /\ g.bbad = h.bbad /\ g.das = 0 /\ g.inidisp = h.inidisp
      /\ g.left = Left(h, NSprites)
  BY <1>2, <1>4 DEF Shape, Registers, Channel, SameShown
<1>. HIDE DEF g
<1>6. DOMAIN g.oam = Sprites
  BY <1>5
<1>7. Shape(g)
  BY <1>3, <1>5, <1>6 DEF Shape
<1>8. QED
  BY <1>3, <1>5, <1>7 DEF g

(* Any other transfer, by whatever the registers say, keeps the shape.      *)
LEMMA TransferShape ==
  ASSUME NEW h, Shape(h), NEW m
  PROVE  Shape(Transfer(h, m))
<1>. DEFINE g == Transfer(h, m)
            done == [h EXCEPT !.das = 0, !.a1t.off = @ + h.das]
<1>1. /\ DOMAIN done = DOMAIN h
      /\ DOMAIN h = {"vram", "cgram", "oam", "left"} \union Registers
      /\ done.vram = h.vram /\ done.cgram = h.cgram /\ done.oam = h.oam
      /\ done.dmap = h.dmap /\ done.bbad = h.bbad /\ done.das = 0
  BY DEF Shape, Registers, Channel
<1>2. \A size \in {VramLen, CgramLen, NSprites} : Left(h, Count(h, size)) \in 0 .. Room
  <2>1. \A size \in {VramLen, CgramLen, NSprites} : Count(h, size) \in Nat
    BY PpuAssumption DEF Count, Shape
  <2>2. QED
    BY <2>1, WordsTaken
<1>3. CASE h.bbad = "VMDATA" /\ h.dmap = 1
  <2>1. g = [done EXCEPT !.vram = Fill(h, m, done.vram, VramLen, h.vmadd),
                         !.vmadd = (@ + Count(h, VramLen)) % VramLen,
                         !.left = Left(h, Count(h, VramLen))]
    BY <1>1, <1>3 DEF Transfer
  <2>. HIDE DEF g, done
  <2>2. /\ DOMAIN g = DOMAIN h /\ g.cgram = h.cgram /\ g.oam = h.oam
        /\ g.vram = Fill(h, m, done.vram, VramLen, h.vmadd)
        /\ g.dmap = h.dmap /\ g.bbad = h.bbad /\ g.das = 0
        /\ g.left = Left(h, Count(h, VramLen))
    BY <1>1, <2>1 DEF Registers, Channel
  <2>3. QED
    BY <1>2, <2>2 DEF Shape, Fill, g
<1>4. CASE h.bbad = "VMDATA" /\ h.dmap = 0
  <2>. DEFINE v == IF Taken(h, 1) = 1 THEN Garbage ELSE done.vram[h.vmadd]
  <2>1. g = [done EXCEPT !.vram[h.vmadd] = v, !.left = Left(h, Count(h, VramLen))]
    BY <1>1, <1>4 DEF Transfer
  <2>. HIDE DEF g, done, v
  <2>2. /\ DOMAIN g = DOMAIN h /\ g.cgram = h.cgram /\ g.oam = h.oam
        /\ g.vram = [done.vram EXCEPT ![h.vmadd] = v]
        /\ g.dmap = h.dmap /\ g.bbad = h.bbad /\ g.das = 0
        /\ g.left = Left(h, Count(h, VramLen))
    BY <1>1, <2>1 DEF Registers, Channel
  <2>3. QED
    BY <1>1, <1>2, <2>2 DEF Shape, g
<1>5. CASE h.bbad = "CGDATA"
  <2>1. g = [done EXCEPT !.cgram = Fill(h, m, done.cgram, CgramLen, h.cgadd),
                         !.cgadd = (@ + Count(h, CgramLen)) % CgramLen,
                         !.left = Left(h, Count(h, CgramLen))]
    BY <1>1, <1>5 DEF Transfer
  <2>. HIDE DEF g, done
  <2>2. /\ DOMAIN g = DOMAIN h /\ g.vram = h.vram /\ g.oam = h.oam
        /\ g.cgram = Fill(h, m, done.cgram, CgramLen, h.cgadd)
        /\ g.dmap = h.dmap /\ g.bbad = h.bbad /\ g.das = 0
        /\ g.left = Left(h, Count(h, CgramLen))
    BY <1>1, <2>1 DEF Registers, Channel
  <2>3. QED
    BY <1>2, <2>2 DEF Shape, Fill, g
<1>6. CASE h.bbad = "OAMDATA"
  <2>1. g = [done EXCEPT !.oam = Fill(h, m, done.oam, NSprites, h.oamadd),
                         !.left = Left(h, Count(h, NSprites))]
    BY <1>1, <1>6 DEF Transfer
  <2>. HIDE DEF g, done
  <2>2. /\ DOMAIN g = DOMAIN h /\ g.vram = h.vram /\ g.cgram = h.cgram
        /\ g.oam = Fill(h, m, done.oam, NSprites, h.oamadd)
        /\ g.dmap = h.dmap /\ g.bbad = h.bbad /\ g.das = 0
        /\ g.left = Left(h, Count(h, NSprites))
    BY <1>1, <2>1 DEF Registers, Channel
  <2>3. QED
    BY <1>2, <2>2 DEF Shape, Fill, Sprites, g
<1>7. QED
  BY <1>3, <1>4, <1>5, <1>6 DEF Shape

(* The buffers hold what the copies are told they do.                       *)
LEMMA Buffers ==
  /\ MapLen \in Nat \ {0}
  /\ Len(mem["font"]) = MapLen /\ Len(mem["oam"]) = NSprites
  /\ mem["gfx"] = Gfx /\ mem["pal"] = Pal
  /\ Len(Gfx) \in Nat \ {0} /\ Len(Pal) \in Nat \ {0}
  /\ \A k \in 1 .. MapLen : mem["font"][k] = fontMap[k - 1]
  /\ \A k \in 1 .. NSprites : mem["oam"][k] = oamMemory[k - 1]
<1>1. MapLen \in Nat \ {0}
  <2>1. Columns \in Nat \ {0} /\ Rows \in Nat \ {0}
    BY VBlankAssumption DEF VBlankAssumption
  <2>2. \A x, y \in Nat \ {0} : x * y \in Nat \ {0}
    OBVIOUS
  <2>3. QED
    BY <2>1, <2>2 DEF MapLen
<1>2. NSprites \in Nat \ {0}
  BY PpuAssumption
<1>3. ASSUME NEW s \in Seq(Graphics), s # <<>> PROVE Len(s) \in Nat \ {0}
  BY <1>3
<1>4. Len(Gfx) \in Nat \ {0} /\ Len(Pal) \in Nat \ {0}
  BY <1>3, MemoryAssumption DEF MemoryAssumption
<1>5. QED
  BY <1>1, <1>2, <1>4 DEF mem

(* What a run of the handler's copies does.                                 *)
LEMMA RunFont ==
  ASSUME NEW h, Shape(h), NEW m, Len(m["font"]) = MapLen, MapLen <= h.left
  PROVE  LET g == Run(h, m, dmaCopyVram("font", MapAddr, MapLen))
         IN  /\ Shape(g) /\ g.vram = Copied(h.vram, VramLen, MapAddr, m["font"], MapLen)
             /\ g.cgram = h.cgram /\ g.oam = h.oam /\ SameShown(g, h)
             /\ g.inidisp = h.inidisp /\ g.left = h.left - MapLen
<1>. DEFINE src == "font"
            c == dmaCopyVram(src, MapAddr, Len(m[src]))
            s == Settled(h, c)
<1>1. IsCopy(c) /\ DOMAIN c = 1 .. 7
  BY Copies, Buffers DEF dmaCopyVram
<1>2. Shape(s) /\ SameMemories(s, h) /\ SameRoom(s, h) /\ Programmed(s, c, 6)
  <2>. HIDE DEF c
  <2>1. QED
    BY <1>1, SettledRegisters
<1>3. /\ MapAddr \in Nat /\ MapAddr + Len(m[src]) <= VramLen
      /\ Len(m[src]) \in Nat \ {0}
  BY Buffers, MemoryAssumption DEF MemoryAssumption
<1>. HIDE DEF s
<1>4. /\ Taken(s, Len(m[src])) = MapLen /\ Left(s, Len(m[src])) = s.left - MapLen
  BY <1>2, <1>3, WordsTaken DEF SameRoom
<1>. HIDE DEF src
<1>5. VramMoved(Transfer(s, m), s, MapAddr, m[src])
  BY <1>2, <1>3, VramTransfer
<1>6. QED
  BY <1>2, <1>4, <1>5 DEF Run, VramMoved, SameMemories, SameShown, SameRoom, s, src

(* The handlers' copies of oamMemory show the sprites as it has them.       *)
LEMMA RunOam ==
  ASSUME NEW h, Shape(h), NEW m, Len(m.oam) = NSprites, NSprites <= h.left,
         NEW c \in {oamUpdate, dmaCopyOAram("oam", NSprites)}
  PROVE  LET g == Run(h, m, c)
         IN  /\ Shape(g) /\ g.oam = [i \in Sprites |-> m.oam[i + 1]]
             /\ g.vram = h.vram /\ g.cgram = h.cgram /\ SameShown(g, h)
             /\ g.inidisp = h.inidisp /\ g.left = h.left - NSprites
<1>. DEFINE s == Settled(h, c)
<1>1. IsCopy(c) /\ DOMAIN c = 1 .. 7
  <2>1. IsCopy(oamUpdate) /\ IsCopy(dmaCopyOAram("oam", NSprites))
    BY Copies, PpuAssumption
  <2>2. DOMAIN oamUpdate = 1 .. 7 /\ DOMAIN dmaCopyOAram("oam", NSprites) = 1 .. 7
    BY DEF oamUpdate, dmaCopyOAram
  <2>3. QED
    BY <2>1, <2>2
<1>2. Shape(s) /\ SameMemories(s, h) /\ SameRoom(s, h) /\ Programmed(s, c, 6)
  BY <1>1, SettledRegisters
<1>. HIDE DEF s
<1>3. /\ s.oamadd = 0 /\ s.das = NSprites /\ s.a1t = Start("oam") /\ s.a1b = "oam"
      /\ s.bbad = "OAMDATA"
  <2>1. CASE c = oamUpdate
    BY <1>2, <2>1 DEF Programmed, oamUpdate
  <2>2. CASE c = dmaCopyOAram("oam", NSprites)
    BY <1>2, <2>2 DEF Programmed, dmaCopyOAram
  <2>3. QED
    BY <2>1, <2>2
<1>4. LET g == Transfer(s, m)
      IN  /\ Shape(g) /\ g.oam = [i \in Sprites |-> m.oam[i + 1]]
          /\ g.vram = s.vram /\ g.cgram = s.cgram /\ SameShown(g, s)
          /\ g.inidisp = s.inidisp /\ g.left = s.left - NSprites
  BY <1>2, <1>3, OamTransfer DEF SameRoom
<1>5. QED
  BY <1>2, <1>4 DEF Run, SameMemories, SameShown, SameRoom, s

(* The handler begins with the whole VBlank before it.                      *)
LEMMA BlankingSame ==
  ASSUME Shape(hw)
  PROVE  /\ Shape(Blanking) /\ SameMemories(Blanking, hw)
         /\ Blanking.inidisp = hw.inidisp /\ Blanking.left = Room
  BY RoomAssumption DEF RoomAssumption, Blanking, Shape, SameMemories, SameShown,
     Registers, Channel

(* The handlers show the sprites as oamMemory has them, and consoleVblank   *)
(* the map if the flag asks for it.  The rest of the VBlank is left.        *)
LEMMA HandlerCopies ==
  ASSUME Shape(hw), VBlank
  PROVE  /\ Shape(hw') /\ hw'.oam = [i \in Sprites |-> oamMemory[i]]
         /\ hw'.cgram = hw.cgram /\ SameShown(hw', hw) /\ hw'.inidisp = hw.inidisp
         /\ \/ /\ hw'.vram = hw.vram /\ dirty' = dirty
               /\ dirty = 1 => consoleVblankMode7
               /\ hw'.left = Room - NSprites
            \/ /\ hw'.vram = Copied(hw.vram, VramLen, MapAddr, mem["font"], MapLen)
               /\ dirty = 1 /\ dirty' = 0
               /\ hw'.left = (Room - NSprites) - MapLen
<1>. DEFINE m == mem
            h == Blanking
<1>1. /\ Len(m["oam"]) = NSprites /\ Len(m["font"]) = MapLen
      /\ MapLen \in Nat \ {0}
      /\ \A i \in Sprites : m["oam"][i + 1] = oamMemory[i]
  <2>1. NSprites \in Nat \ {0}
    BY PpuAssumption
  <2>2. \A i \in Sprites : i + 1 \in 1 .. NSprites /\ (i + 1) - 1 = i
    BY <2>1 DEF Sprites
  <2>3. QED
    BY <2>2, Buffers
<1>2. /\ Room \in Nat /\ NSprites + MapLen <= Room /\ NSprites \in Nat
  BY RoomAssumption, PpuAssumption DEF RoomAssumption
<1>3. /\ Shape(h) /\ SameMemories(h, hw) /\ h.inidisp = hw.inidisp /\ h.left = Room
      /\ NSprites <= h.left /\ MapLen <= Room - NSprites
  BY <1>1, <1>2, BlankingSame
<1>. HIDE DEF m, h
<1>4. [i \in Sprites |-> m["oam"][i + 1]] = [i \in Sprites |-> oamMemory[i]]
  BY <1>1
<1>5. CASE consoleVblankMode7
  <2>1. hw' = Run(h, m, dmaCopyOAram("oam", NSprites)) /\ dirty' = dirty
    BY <1>5 DEF consoleVblankMode7, m, h
  <2>2. /\ Shape(hw') /\ hw'.oam = [i \in Sprites |-> m["oam"][i + 1]]
        /\ hw'.vram = h.vram /\ hw'.cgram = h.cgram /\ SameShown(hw', h)
        /\ hw'.inidisp = h.inidisp /\ hw'.left = h.left - NSprites
    <3>. DEFINE c == dmaCopyOAram("oam", NSprites)
    <3>1. c \in {oamUpdate, dmaCopyOAram("oam", NSprites)} /\ hw' = Run(h, m, c)
      BY <2>1
    <3>. HIDE DEF c
    <3>2. QED
      BY <1>1, <1>3, <3>1, RunOam
  <2>3. QED
    BY <1>3, <1>4, <1>5, <2>1, <2>2 DEF SameMemories, SameShown
<1>6. CASE consoleVblank
  <2>. DEFINE g == Run(h, m, oamUpdate)
  <2>1. /\ Shape(g) /\ g.oam = [i \in Sprites |-> m["oam"][i + 1]]
        /\ g.vram = h.vram /\ g.cgram = h.cgram /\ SameShown(g, h)
        /\ g.inidisp = h.inidisp /\ g.left = h.left - NSprites
    BY <1>1, <1>3, RunOam
  <2>2. /\ hw' = IF dirty = 1 THEN Run(g, m, dmaCopyVram("font", MapAddr, MapLen)) ELSE g
        /\ dirty' = IF dirty = 1 THEN 0 ELSE dirty
    BY <1>6 DEF consoleVblank, SpritesCopied, m, h
  <2>. HIDE DEF g
  <2>3. CASE dirty = 1
    <3>1. MapLen <= g.left
      BY <1>3, <2>1
    <3>2. LET f == Run(g, m, dmaCopyVram("font", MapAddr, MapLen))
          IN  /\ Shape(f) /\ f.vram = Copied(g.vram, VramLen, MapAddr, m["font"], MapLen)
              /\ f.cgram = g.cgram /\ f.oam = g.oam /\ SameShown(f, g)
              /\ f.inidisp = g.inidisp /\ f.left = g.left - MapLen
      BY <1>1, <2>1, <3>1, RunFont
    <3>3. /\ Shape(hw') /\ hw'.vram = Copied(g.vram, VramLen, MapAddr, m["font"], MapLen)
          /\ hw'.cgram = g.cgram /\ hw'.oam = g.oam /\ SameShown(hw', g)
          /\ hw'.inidisp = g.inidisp /\ hw'.left = g.left - MapLen
          /\ dirty' = 0
      BY <2>2, <2>3, <3>2
    <3>4. QED
      BY <1>3, <1>4, <2>1, <2>3, <3>3 DEF SameMemories, SameShown, m
  <2>4. CASE dirty # 1
    BY <1>3, <1>4, <2>1, <2>2, <2>4 DEF SameMemories, SameShown
  <2>5. QED
    BY <2>3, <2>4
<1>7. QED
  BY <1>5, <1>6 DEF VBlank

-----------------------------------------------------------------------------
(* The types.                                                               *)

(* The program's copies: of the map, of graphics and of a palette.          *)
FontCopy == dmaCopyVram("font", MapAddr, MapLen)
GfxCopy == dmaCopyVram("gfx", GfxAddr, Len(Gfx))
PalCopy == dmaCopyCGram("pal", 0, Len(Pal))

(* The stores of the program's copies.                                      *)
HwStores ==
  {FontCopy[k] : k \in 1 .. 7} \union {GfxCopy[k] : k \in 1 .. 7}
  \union {PalCopy[k] : k \in 1 .. 7}
  \union {<<"vmdata", w>> : w \in Graphics}
  \union {<<"vmadd", GfxAddr>>, <<"obsel", GfxAddr>>, <<"nba", GfxAddr>>}

(* What every variable that the proofs need the type of can hold.           *)
TypeInv ==
  /\ Shape(hw)
  /\ dirty \in 0 .. 2 /\ fresh \in BOOLEAN /\ torn \in BOOLEAN
  /\ calls \in 0 .. MaxCalls
  /\ pc \in {"loop", "wai", "print", "updated", "tiled", "copy", "nmiSet", "sprite",
             "poll"} \union Loaders
  /\ then \in {"loop", "updated", "tiled"} \union Loaders
  /\ DOMAIN fontMap = Cells /\ DOMAIN committed = Cells
  /\ pc = "copy" => stores \in Seq(HwStores) /\ stores # <<>>

(* The stores of every copy keep the hardware in shape.                     *)
Fits(s) ==
  /\ s[1] \in Registers \union {"mdmaen", "vmdata"}
  /\ s[1] = "dmap" => s[2] \in {0, 1}
  /\ s[1] = "bbad" => s[2] \in {"VMDATA", "CGDATA", "OAMDATA"}
  /\ s[1] = "das" => s[2] \in Nat

(* The stores of every copy do.                                             *)
LEMMA StoresFit == \A s \in HwStores : Fits(s)
<1>1. IsCopy(FontCopy) /\ IsCopy(GfxCopy) /\ IsCopy(PalCopy)
  BY Copies, Buffers DEF FontCopy, GfxCopy, PalCopy
<1>2. ASSUME NEW c, IsCopy(c), NEW k \in 1 .. 7 PROVE Fits(c[k])
  <2>1. k = 7 \/ k \in 1 .. 6
    OBVIOUS
  <2>2. QED
    BY <1>2, <2>1 DEF IsCopy, Fits, Registers, Channel
<1>3. ASSUME NEW w PROVE Fits(<<"vmdata", w>>)
  BY DEF Fits
<1>4. Fits(<<"vmadd", GfxAddr>>) /\ Fits(<<"obsel", GfxAddr>>) /\ Fits(<<"nba", GfxAddr>>)
  BY DEF Fits, Registers, Channel
<1>5. QED
  BY <1>1, <1>2, <1>3, <1>4 DEF HwStores

(* Any store that fits keeps the hardware's shape.                          *)
LEMMA StoreShape ==
  ASSUME NEW h, Shape(h), NEW m, NEW s, Fits(s)
  PROVE  Shape(Put(h, m, s))
<1>1. CASE s[1] = "mdmaen"
  BY <1>1, TransferShape DEF Put
<1>2. CASE s[1] = "vmdata"
  <2>. DEFINE v == IF Taken(h, 1) = 1 THEN s[2] ELSE h.vram[h.vmadd]
              g == [h EXCEPT !.vram[h.vmadd] = v, !.vmadd = (@ + 1) % VramLen,
                             !.left = Left(h, 1)]
  <2>1. Put(h, m, s) = g
    BY <1>2 DEF Put
  <2>2. Left(h, 1) \in 0 .. Room
    BY WordsTaken
  <2>. HIDE DEF v
  <2>3. /\ DOMAIN g = DOMAIN h /\ g.cgram = h.cgram /\ g.oam = h.oam
        /\ g.vram = [h.vram EXCEPT ![h.vmadd] = v] /\ g.left = Left(h, 1)
        /\ g.dmap = h.dmap /\ g.bbad = h.bbad /\ g.das = h.das
    BY DEF Shape, Registers, Channel
  <2>. HIDE DEF g
  <2>4. QED
    BY <2>1, <2>2, <2>3 DEF Shape
<1>3. CASE s[1] \in Registers
  <2>. DEFINE r == s[1]
              v == s[2]
              g == [h EXCEPT ![r] = v]
  <2>1. Put(h, m, s) = g
    BY <1>3 DEF Put, Registers, Channel
  <2>2. r \in Registers /\ (r = "dmap" => v \in {0, 1})
        /\ (r = "bbad" => v \in {"VMDATA", "CGDATA", "OAMDATA"})
        /\ (r = "das" => v \in Nat)
    BY <1>3 DEF Fits
  <2>3. DOMAIN h = {"vram", "cgram", "oam", "left"} \union Registers
    BY DEF Shape
  <2>. HIDE DEF r, v
  <2>4. DOMAIN g = DOMAIN h /\ \A q \in DOMAIN h : g[q] = IF q = r THEN v ELSE h[q]
    BY <2>2, <2>3
  <2>. HIDE DEF g
  <2>5. QED
    BY <2>1, <2>2, <2>3, <2>4 DEF Shape, Registers, Channel
<1>4. QED
  BY <1>1, <1>2, <1>3 DEF Fits

(* Three sequences, the last of one element.                                *)
Joint(g, p, e) == (g \o p) \o e

(* What is at which place of three sequences put together.                  *)
InPlaces(t, g, p, e) ==
  /\ t \in Seq(HwStores) /\ t # <<>>
  /\ Len(t) = Len(g) + Len(p) + 1
  /\ \A k \in 1 .. Len(g) : t[k] = g[k]
  /\ \A k \in 1 .. Len(p) : t[Len(g) + k] = p[k]
  /\ t[Len(g) + Len(p) + 1] = e[1]

(* The elements of three sequences keep their order when put together.      *)
LEMMA JointStores ==
  ASSUME NEW g \in Seq(HwStores), NEW p \in Seq(HwStores),
         NEW e \in Seq(HwStores), Len(e) = 1
  PROVE  InPlaces(Joint(g, p, e), g, p, e)
<1>. DEFINE q == g \o p
            t == q \o e
<1>2. /\ Len(q) = Len(g) + Len(p) /\ Len(g) \in Nat /\ Len(p) \in Nat
      /\ \A i \in 1 .. Len(g) + Len(p) :
           q[i] = IF i <= Len(g) THEN g[i] ELSE p[i - Len(g)]
  BY ConcatProperties, LenProperties, Zenon
<1>3. q \in Seq(HwStores)
  BY ConcatProperties, Zenon
<1>. HIDE DEF q
<1>4. /\ t \in Seq(HwStores) /\ Len(t) = Len(q) + Len(e)
      /\ \A i \in 1 .. Len(q) + Len(e) :
           t[i] = IF i <= Len(q) THEN q[i] ELSE e[i - Len(q)]
  BY <1>3, ConcatProperties, Zenon
<1>. HIDE DEF t
<1>5. /\ \A k \in 1 .. Len(g) : t[k] = g[k]
      /\ \A k \in 1 .. Len(p) : t[Len(g) + k] = p[k]
      /\ t[Len(g) + Len(p) + 1] = e[1]
  BY <1>2, <1>4, SMTT(60)
<1>6. Len(t) # 0 /\ t # <<>>
  <2>1. Len(t) # 0
    BY <1>2, <1>4
  <2>2. QED
    BY <2>1, EmptySeq
<1>7. QED
  <2>1. InPlaces(t, g, p, e)
    BY <1>2, <1>3, <1>4, <1>5, <1>6 DEF InPlaces
  <2>2. QED
    BY <2>1 DEF Joint, t, q

(* The stores of the copies, in sequences.                                  *)
LEMMA StoreSequences ==
  /\ FontCopy \in Seq(HwStores) /\ Len(FontCopy) = 7
  /\ GfxCopy \in Seq(HwStores) /\ Len(GfxCopy) = 7
  /\ \A l \in Loaders : Upload[l] \in Seq(HwStores) /\ Upload[l] # <<>>
  /\ \A l \in Loaders \ {"bgInitTileSetLz"} :
       /\ Len(Upload[l]) = 15
       /\ \A k \in 1 .. 7 : Upload[l][k] = GfxCopy[k] /\ Upload[l][7 + k] = PalCopy[k]
       /\ Upload[l][15] = IF l = "bgInitTileSet" THEN <<"nba", GfxAddr>>
                                                 ELSE <<"obsel", GfxAddr>>
<1>. DEFINE S == HwStores
            obsel == << <<"obsel", GfxAddr>> >>
            nba == << <<"nba", GfxAddr>> >>
            lz == LzssDecodeVram(Gfx, GfxAddr)
<1>1. /\ \A k \in 1 .. 7 : FontCopy[k] \in S /\ GfxCopy[k] \in S /\ PalCopy[k] \in S
      /\ \A w \in Graphics : <<"vmdata", w>> \in S
      /\ <<"vmadd", GfxAddr>> \in S /\ <<"obsel", GfxAddr>> \in S /\ <<"nba", GfxAddr>> \in S
  BY DEF HwStores
<1>2. ASSUME NEW c, c = [k \in 1 .. 7 |-> c[k]], \A k \in 1 .. 7 : c[k] \in S
      PROVE  c \in Seq(S) /\ Len(c) = 7
  <2>. HIDE DEF S
  <2>1. QED
    BY <1>2
<1>3. /\ FontCopy = [k \in 1 .. 7 |-> FontCopy[k]]
      /\ GfxCopy = [k \in 1 .. 7 |-> GfxCopy[k]]
      /\ PalCopy = [k \in 1 .. 7 |-> PalCopy[k]]
  BY DEF FontCopy, GfxCopy, PalCopy, dmaCopyVram, dmaCopyCGram
<1>4. /\ FontCopy \in Seq(S) /\ GfxCopy \in Seq(S) /\ PalCopy \in Seq(S)
      /\ Len(FontCopy) = 7 /\ Len(GfxCopy) = 7 /\ Len(PalCopy) = 7
  <2>. HIDE DEF S
  <2>1. QED
    BY <1>1, <1>2, <1>3
<1>5. /\ obsel \in Seq(S) /\ Len(obsel) = 1 /\ obsel[1] = <<"obsel", GfxAddr>>
      /\ nba \in Seq(S) /\ Len(nba) = 1 /\ nba[1] = <<"nba", GfxAddr>>
  <2>. HIDE DEF S
  <2>1. QED
    BY <1>1
<1>6. lz \in Seq(S)
  <2>. HIDE DEF S
  <2>. DEFINE words == [k \in 1 .. Len(Gfx) |-> <<"vmdata", Gfx[k]>>]
              at == << <<"vmadd", GfxAddr>> >>
  <2>1. Len(Gfx) \in Nat /\ \A k \in 1 .. Len(Gfx) : Gfx[k] \in Graphics
    BY MemoryAssumption DEF MemoryAssumption
  <2>2. words \in Seq(S)
    BY <1>1, <2>1
  <2>3. at \in Seq(S)
    BY <1>1
  <2>. HIDE DEF words, at
  <2>4. at \o words \in Seq(S)
    BY <2>2, <2>3
  <2>5. QED
    BY <2>4 DEF LzssDecodeVram, words, at
<1>7. /\ Upload["oamInitGfxSet"] = Joint(GfxCopy, PalCopy, obsel)
      /\ Upload["bgInitTileSet"] = Joint(GfxCopy, PalCopy, nba)
      /\ Upload["bgInitTileSetLz"] = Joint(lz, PalCopy, nba)
  BY DEF Joint, Upload, oamInitGfxSet, bgInitTileSet, bgInitTileSetLz, GfxCopy, PalCopy
<1>. HIDE DEF S, obsel, nba, lz
<1>8. Loaders \subseteq {"oamInitGfxSet", "bgInitTileSet", "bgInitTileSetLz"}
  BY VBlankAssumption DEF VBlankAssumption
<1>9. ASSUME NEW l \in {"oamInitGfxSet", "bgInitTileSet"}
       PROVE  /\ Upload[l] \in Seq(S) /\ Upload[l] # <<>> /\ Len(Upload[l]) = 15
              /\ \A k \in 1 .. 7 : /\ Upload[l][k] = GfxCopy[k]
                                   /\ Upload[l][7 + k] = PalCopy[k]
              /\ Upload[l][15] = IF l = "bgInitTileSet" THEN <<"nba", GfxAddr>>
                                                        ELSE <<"obsel", GfxAddr>>
  <2>. DEFINE e == IF l = "bgInitTileSet" THEN nba ELSE obsel
  <2>1. Upload[l] = Joint(GfxCopy, PalCopy, e) /\ e \in {obsel, nba}
    BY <1>7
  <2>. DEFINE u == Joint(GfxCopy, PalCopy, e)
  <2>2. /\ e \in Seq(S) /\ Len(e) = 1
    BY <1>5
  <2>3. /\ u \in Seq(S) /\ u # <<>> /\ Len(u) = Len(GfxCopy) + Len(PalCopy) + 1
        /\ \A k \in 1 .. Len(GfxCopy) : u[k] = GfxCopy[k]
        /\ \A k \in 1 .. Len(PalCopy) : u[Len(GfxCopy) + k] = PalCopy[k]
        /\ u[Len(GfxCopy) + Len(PalCopy) + 1] = e[1]
    <3>1. /\ GfxCopy \in Seq(HwStores) /\ PalCopy \in Seq(HwStores)
          /\ e \in Seq(HwStores) /\ Len(e) = 1
      BY <1>4, <2>2 DEF S
    <3>2. InPlaces(u, GfxCopy, PalCopy, e)
      BY <3>1, JointStores
    <3>. HIDE DEF u
    <3>3. QED
      BY <3>2 DEF InPlaces, S
  <2>4. e[1] = IF l = "bgInitTileSet" THEN <<"nba", GfxAddr>> ELSE <<"obsel", GfxAddr>>
    BY <1>5
  <2>. HIDE DEF e
  <2>5. 7 + 7 + 1 = 15
    OBVIOUS
  <2>6. QED
    BY <1>4, <2>1, <2>3, <2>4, <2>5 DEF u
<1>10. Upload["bgInitTileSetLz"] \in Seq(S) /\ Upload["bgInitTileSetLz"] # <<>>
  <2>. DEFINE u == Joint(lz, PalCopy, nba)
  <2>1. InPlaces(u, lz, PalCopy, nba)
    BY <1>4, <1>5, <1>6, JointStores DEF S
  <2>. HIDE DEF u
  <2>2. u \in Seq(S) /\ u # <<>>
    BY <2>1 DEF InPlaces, S
  <2>3. QED
    BY <1>7, <2>2 DEF u
<1>11. QED
  BY <1>4, <1>8, <1>9, <1>10, ZenonT(60) DEF S

(* The initial state has the types.                                         *)
LEMMA InitType == Init => TypeInv
<1>. SUFFICES ASSUME Init PROVE TypeInv
  OBVIOUS
<1>1. MaxCalls \in Nat
  BY VBlankAssumption DEF VBlankAssumption
<1>2. hw.dmap = 0 /\ hw.bbad = "OAMDATA" /\ DOMAIN hw.oam = Sprites
  BY DEF Init
<1>3. /\ DOMAIN hw = {"vram", "cgram", "oam", "left"} \union Registers
      /\ DOMAIN hw.vram = 0 .. VramLen - 1 /\ DOMAIN hw.cgram = 0 .. CgramLen - 1
      /\ hw.das = 0 /\ hw.left = Room - NSprites
  BY DEF Init, Registers, Channel
<1>4. DOMAIN fontMap = Cells /\ DOMAIN committed = Cells
  BY DEF Init
<1>5. /\ dirty = 0 /\ fresh = TRUE /\ torn = FALSE /\ calls = 0
      /\ pc = "loop" /\ then = "loop"
  BY DEF Init
<1>6. Room - NSprites \in 0 .. Room
  BY Buffers, RoomAssumption, PpuAssumption DEF RoomAssumption
<1>7. Shape(hw)
  BY <1>2, <1>3, <1>6 DEF Shape
<1>8. dirty \in 0 .. 2 /\ calls \in 0 .. MaxCalls
  BY <1>1, <1>5
<1>9. QED
  BY <1>4, <1>5, <1>7, <1>8 DEF TypeInv

(* A call is one of at most MaxCalls.                                       *)
LEMMA CallCounted ==
  ASSUME calls \in 0 .. MaxCalls, NEW kind, Call(kind)
  PROVE  calls' \in 0 .. MaxCalls /\ pc = "loop" /\ UNCHANGED program
<1>1. MaxCalls \in Nat
  BY VBlankAssumption DEF VBlankAssumption
<1>2. QED
  BY <1>1 DEF Call

(* The brightness and the tiles of backgrounds are not part of the shape.   *)
LEMMA RegisterShape ==
  ASSUME NEW h, Shape(h), NEW v
  PROVE  /\ Shape([h EXCEPT !.inidisp = v]) /\ SameMemories([h EXCEPT !.inidisp = v], h)
         /\ Shape([h EXCEPT !.nba34 = v])
  BY DEF Shape, SameMemories, SameShown, Registers, Channel

(* When the picture has begun nothing but the room is lost.                 *)
LEMMA PictureSame ==
  ASSUME Shape(hw)
  PROVE  /\ Shape(Picture) /\ SameMemories(Picture, hw)
         /\ \A r \in Registers : Picture[r] = hw[r]
         /\ Picture.inidisp = hw.inidisp
         /\ fresh => Picture.left = hw.left
  BY RoomAssumption DEF RoomAssumption, Picture, Shape, SameMemories, SameShown,
     Registers, Channel

(* What is left of a sequence after its first element.                      *)
LEMMA OneStoreLess ==
  ASSUME NEW S, NEW s \in Seq(S), s # <<>>
  PROVE  /\ Head(s) \in S /\ Head(s) = s[1] /\ Tail(s) \in Seq(S)
         /\ Len(s) \in Nat \ {0} /\ Len(Tail(s)) = Len(s) - 1
         /\ \A k \in 1 .. Len(s) - 1 : Tail(s)[k] = s[k + 1]
         /\ Len(s) # 1 => Tail(s) # <<>>
<1>. DEFINE t == Tail(s)
<1>1. /\ Head(s) \in S /\ Head(s) = s[1] /\ t \in Seq(S)
      /\ Len(s) \in Nat \ {0} /\ Len(t) = Len(s) - 1
      /\ \A k \in 1 .. Len(s) - 1 : t[k] = s[k + 1]
  OBVIOUS
<1>. HIDE DEF t
<1>2. Len(s) # 1 => t # <<>>
  BY <1>1, EmptySeq
<1>3. QED
  BY <1>1, <1>2 DEF t

(* Every step keeps the types.                                              *)
LEMMA TypeStep == TypeInv /\ [Next]_vars => TypeInv'
<1>. SUFFICES ASSUME TypeInv, [Next]_vars PROVE TypeInv'
  OBVIOUS
<1>. USE DEF TypeInv
<1>1. Loaders \subseteq {"oamInitGfxSet", "bgInitTileSet", "bgInitTileSetLz"}
  BY VBlankAssumption DEF VBlankAssumption
<1>2. MaxCalls \in Nat
  BY VBlankAssumption DEF VBlankAssumption
<1>. DEFINE Still == UNCHANGED <<hw, torn, fontMap, dirty, committed, then>>
<1>3. CASE VBlank
  <2>1. Shape(hw') /\ (dirty' = dirty \/ dirty' = 0)
    BY <1>3, HandlerCopies
  <2>4. torn' \in BOOLEAN
    BY <1>3 DEF VBlank, Tearing
  <2>2. /\ fresh' = TRUE /\ pc' = (IF pc = "wai" THEN then ELSE pc)
        /\ calls' = (IF pc = "wai" THEN 0 ELSE calls)
        /\ UNCHANGED <<fontMap, committed, then, stores>>
    BY <1>3 DEF VBlank, NmiTaken
  <2>3. QED
    BY <1>1, <1>2, <2>1, <2>2, <2>4
<1>4. CASE WaitForVBlank
  BY <1>1, <1>4 DEF WaitForVBlank, textVars
<1>5. CASE consoleDrawText
  <2>1. calls' \in 0 .. MaxCalls
    BY <1>5, CallCounted DEF consoleDrawText
  <2>2. /\ pc' = "print" /\ fresh' = FALSE /\ dirty' = 2
        /\ UNCHANGED <<hw, torn, fontMap, committed, then>>
    BY <1>5 DEF consoleDrawText
  <2>3. QED
    BY <1>1, <2>1, <2>2, 2 \in 0 .. 2
<1>6. CASE PrintChar
  BY <1>1, <1>6 DEF PrintChar, ctlVars
<1>7. CASE DrawDone
  <2>1. /\ pc' = "loop" /\ fresh' = FALSE /\ dirty' = 1 /\ committed' = fontMap
        /\ UNCHANGED <<hw, torn, fontMap, then, calls>>
    BY <1>7 DEF DrawDone
  <2>2. QED
    BY <2>1, 1 \in 0 .. 2
<1>8. CASE consoleUpdate
  <2>1. calls' \in 0 .. MaxCalls /\ pc = "loop"
    BY <1>8, CallCounted DEF consoleUpdate
  <2>2. hw' = hw \/ hw' = [hw EXCEPT !.inidisp = 0]
    BY <1>8 DEF consoleUpdate
  <2>3. Shape(hw')
    <3>1. CASE hw' = hw
      BY <3>1
    <3>2. CASE hw' = [hw EXCEPT !.inidisp = 0]
      BY <3>2, RegisterShape
    <3>3. QED
      BY <2>2, <3>1, <3>2
  <2>4. FontCopy \in Seq(HwStores) /\ FontCopy # <<>>
    <3>1. FontCopy # <<>>
      BY DEF FontCopy, dmaCopyVram
    <3>2. QED
      BY <3>1, StoreSequences
  <2>5. /\ fresh' = FALSE /\ UNCHANGED <<torn, fontMap, dirty, committed>>
        /\ \/ stores' = FontCopy /\ pc' = "copy" /\ then' = "updated"
           \/ UNCHANGED <<pc, then>>
    BY <1>8 DEF consoleUpdate, textVars, FontCopy
  <2>6. QED
    BY <1>1, <2>1, <2>3, <2>4, <2>5
<1>9. CASE UpdateDone
  BY <1>1, <1>9 DEF UpdateDone
<1>10. CASE bgInitTileSetData
  <2>1. calls' \in 0 .. MaxCalls
    BY <1>10, CallCounted DEF bgInitTileSetData
  <2>2. hw' = [hw EXCEPT !.inidisp = 0]
    BY <1>10 DEF bgInitTileSetData
  <2>3. Shape(hw')
    BY <2>2, RegisterShape
  <2>4. GfxCopy \in Seq(HwStores) /\ GfxCopy # <<>>
    <3>1. GfxCopy # <<>>
      BY DEF GfxCopy, dmaCopyVram
    <3>2. QED
      BY <3>1, StoreSequences
  <2>5. /\ fresh' = FALSE /\ UNCHANGED <<torn, fontMap, dirty, committed>>
        /\ stores' = GfxCopy /\ pc' = "copy" /\ then' = "tiled"
    BY <1>10 DEF bgInitTileSetData, textVars, GfxCopy
  <2>6. QED
    BY <1>1, <2>1, <2>3, <2>4, <2>5
<1>11. CASE bgSetGfxPtr
  <2>1. hw' = [hw EXCEPT !.nba34 = GfxAddr]
    BY <1>11 DEF bgSetGfxPtr
  <2>2. Shape(hw')
    BY <2>1, RegisterShape
  <2>3. /\ pc' = "loop" /\ UNCHANGED <<fresh, torn, fontMap, dirty, committed, then, calls>>
    BY <1>11 DEF bgSetGfxPtr, textVars
  <2>4. QED
    BY <2>2, <2>3
<1>12. CASE UploadCall
  <2>1. calls' \in 0 .. MaxCalls
    BY <1>12, CallCounted DEF UploadCall
  <2>2. Shape(hw')
    <3>1. hw' = hw \/ hw' = [hw EXCEPT !.inidisp = 0]
      BY <1>12 DEF UploadCall
    <3>2. CASE hw' = hw
      BY <3>2
    <3>3. CASE hw' = [hw EXCEPT !.inidisp = 0]
      BY <3>3, RegisterShape
    <3>4. QED
      BY <3>1, <3>2, <3>3
  <2>3. /\ pc' = "wai" /\ then' \in Loaders
        /\ UNCHANGED <<fresh, torn, fontMap, dirty, committed>>
    BY <1>12 DEF UploadCall, textVars
  <2>4. QED
    BY <1>1, <2>1, <2>2, <2>3
<1>13. CASE UploadCopies
  <2>1. Upload[pc] \in Seq(HwStores) /\ Upload[pc] # <<>>
    BY <1>13, StoreSequences DEF UploadCopies
  <2>2. /\ pc' = "copy" /\ then' = "loop" /\ stores' = Upload[pc]
        /\ UNCHANGED <<hw, fresh, torn, fontMap, dirty, committed, calls>>
    BY <1>13 DEF UploadCopies, textVars
  <2>3. QED
    BY <2>1, <2>2
<1>14. CASE CopyStore
  <2>1. stores \in Seq(HwStores) /\ stores # <<>>
    BY <1>14 DEF CopyStore
  <2>2. /\ Head(stores) \in HwStores /\ Tail(stores) \in Seq(HwStores)
        /\ Len(stores) # 1 => Tail(stores) # <<>>
    BY <2>1, OneStoreLess
  <2>3. hw' = Put(Picture, mem, Head(stores)) /\ Shape(Picture)
    BY <1>14, PictureSame DEF CopyStore
  <2>4. Shape(hw')
    BY <2>2, <2>3, StoresFit, StoreShape
  <2>5. /\ stores' = Tail(stores) /\ pc' = (IF Len(stores) = 1 THEN then ELSE pc)
        /\ fresh' \in BOOLEAN
        /\ UNCHANGED <<torn, fontMap, dirty, committed, then, calls>>
    BY <1>14 DEF CopyStore, textVars
  <2>6. QED
    BY <1>1, <2>2, <2>4, <2>5
<1>15. CASE setBrightness
  <2>1. calls' \in 0 .. MaxCalls
    BY <1>15, CallCounted DEF setBrightness
  <2>2. hw' = [hw EXCEPT !.inidisp = 15]
    BY <1>15 DEF setBrightness
  <2>3. Shape(hw')
    BY <2>2, RegisterShape
  <2>4. UNCHANGED <<fresh, torn, fontMap, dirty, committed, pc, then, stores>>
    BY <1>15 DEF setBrightness, textVars
  <2>5. QED
    BY <2>1, <2>3, <2>4
<1>16. CASE nmiSet
  <2>1. calls' \in 0 .. MaxCalls
    BY <1>16, CallCounted DEF nmiSet
  <2>2. pc' = "nmiSet" /\ fresh' = FALSE /\ Still
    BY <1>16 DEF nmiSet, textVars
  <2>3. QED
    BY <2>1, <2>2
<1>17. CASE NmiStore
  BY <1>1, <1>17 DEF NmiStore, textVars
<1>18. CASE SpriteCall
  <2>1. calls' \in 0 .. MaxCalls
    BY <1>18, CallCounted DEF SpriteCall
  <2>2. pc' = "sprite" /\ fresh' = FALSE /\ Still
    BY <1>18 DEF SpriteCall, textVars
  <2>3. QED
    BY <2>1, <2>2
<1>19. CASE SpriteStore
  BY <1>1, <1>19 DEF SpriteStore, textVars
<1>20. CASE padsCall
  <2>1. calls' \in 0 .. MaxCalls
    BY <1>20, CallCounted DEF padsCall
  <2>2. pc' = "poll" /\ fresh' = fresh /\ Still
    BY <1>20 DEF padsCall, textVars
  <2>3. QED
    BY <2>1, <2>2
<1>21. CASE LoadKeys
  BY <1>1, <1>21 DEF LoadKeys, textVars, ctlVars
<1>22. CASE PadsReturn
  BY <1>1, <1>22 DEF PadsReturn, textVars
<1>23. CASE padsClear
  <2>1. calls' \in 0 .. MaxCalls
    BY <1>23, CallCounted DEF padsClear
  <2>2. UNCHANGED <<pc, stores>> /\ fresh' = FALSE /\ Still
    BY <1>23 DEF padsClear, textVars
  <2>3. QED
    BY <2>1, <2>2
<1>24. CASE UNCHANGED vars
  BY <1>24 DEF vars, textVars, ctlVars
<1>25. QED
  BY <1>3, <1>4, <1>5, <1>6, <1>7, <1>8, <1>9, <1>12, <1>13, <1>14, <1>15, <1>16,
     <1>17, <1>18, <1>19, <1>20, <1>21, <1>22, <1>23, <1>24, <1>10, <1>11 DEF Next, Program

(* The types hold throughout.                                               *)
LEMMA Typed == Spec => []TypeInv
<1>1. QED
  BY InitType, TypeStep, PTL DEF Spec
=============================================================================
