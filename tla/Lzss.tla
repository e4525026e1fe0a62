-------------------------------- MODULE Lzss --------------------------------
(* The graphics converter compresses tiles (gfx2snes, lzss.c) and the       *)
(* console decompresses them into VRAM (LzssDecodeVram).  The compressor    *)
(* keeps the last N bytes in a ring and the strings that begin in it, F     *)
(* bytes each, in binary search trees, one for every first byte; it sends a *)
(* byte as it is or, for more than Threshold bytes that are in the ring     *)
(* already, their position and number.                                      *)
EXTENDS Integers, Sequences, FiniteSetsExt

CONSTANTS
  N,          \* size of the ring (4096)
  F,          \* longest match (18)
  Threshold,  \* longest string sent byte by byte (2)
  Masks,      \* the values of mask, <<1, 2, 4, ..., 128>>
  PosLow,     \* values of the first byte of a position (256)
  Bytes,      \* the values of a byte that occur
  Space,      \* ' ', what the compressor fills its ring with (32)
  Inputs      \* what Convert2PicLZSS is given

Units == Len(Masks)         \* flags in a flags byte (8)

ASSUME LzssAssumption ==
  /\ F \in Nat /\ N \in Nat /\ Threshold \in Nat \ {0}
  /\ Threshold + 1 < F /\ 2 * F <= N /\ N % 2 = 0 /\ F % 2 = 0
  /\ PosLow \in Nat \ {0} /\ N % PosLow = 0
  /\ Masks \in Seq(Nat \ {0}) /\ Masks # <<>> /\ Masks[1] = 1
  /\ \A i \in 1 .. Units - 1 : Masks[i + 1] = 2 * Masks[i]
  /\ \A i, j \in 1 .. Units :
       i < j => Masks[i] < Masks[j] /\ Masks[j] % (2 * Masks[i]) = 0
  /\ Bytes \subseteq Nat /\ Space \in Bytes /\ 0 \in Bytes
  /\ \A b \in Inputs : b \in Seq(Bytes) /\ b # <<>>

NIL == N
Node == 0 .. N - 1
Root(c) == N + 1 + c
LenCodes == F - Threshold   \* the lengths a pair can hold (16)
Unwritten == -1             \* a cell of the console's memories

VARIABLES
  pc,
  bufin, buflen, bfin,         \* the input and how much of it is read
  textBuf,                     \* text_buf: the ring, and F - 1 cells of it again
  s, r, len,                   \* end, begin and length of the text not sent yet
  tree,                        \* lson, rson and dad
  todo,                        \* strings to insert, then bytes to shift
  key, p, cmp,                 \* InsertNode: its r, p and cmp
  last,                        \* DeleteNode: its q
  matchPosition, matchLength,
  codeBuf, mask, bufout,       \* the units kept back, and the output
  x, y, flags, cnt2,           \* LzssDecodeVram: the rest of its input
  strptr, strlen, offs, ring,  \* ... its ring, LZSS_TEXTBUF
  flip, vmadd, vram            \* ... and its output, in bytes

inVars   == <<bufin, buflen>>
ringVars == <<bfin, textBuf, s, r, len>>
nodeVars == <<key, p, cmp, matchPosition, matchLength>>
findVars == <<tree, last, nodeVars>>
codeVars == <<codeBuf, mask, bufout>>
readVars == <<x, y, flags, cnt2>>
copyVars == <<strptr, strlen>>
outVars  == <<offs, ring, flip, vmadd, vram>>
decVars  == <<readVars, copyVars, outVars>>
vars == <<pc, todo, inVars, ringVars, findVars, codeVars, decVars>>

Smaller(a, b) == IF a < b THEN a ELSE b
Wrap(i) == i % N   \* i & (N - 1)

(* All variables are globals that begin as 0.  Less than F bytes of input   *)
(* are followed, in its buffer, by bytes that were never written.           *)
Init ==
  /\ \E input \in Inputs :
       /\ buflen = Len(input)
       /\ \E rest \in [1 .. (IF buflen < F THEN F - buflen ELSE 0) -> Bytes] :
            bufin = input \o rest
  /\ bfin = F /\ len = F /\ s = 0 /\ r = N - F
  /\ textBuf = [i \in 0 .. N + F - 2 |->
                  IF i < r THEN Space ELSE IF i < N THEN bufin[i - r + 1] ELSE 0]
  /\ tree = [lson |-> [i \in 0 .. N |-> 0],
             rson |-> [i \in (0 .. N) \union {Root(c) : c \in Bytes} |->
                         IF i > N THEN NIL ELSE 0],
             dad  |-> [i \in 0 .. N |-> IF i < N THEN NIL ELSE 0]]
  /\ pc = "next" /\ todo = 1
  /\ key = 0 /\ p = 0 /\ cmp = 0 /\ last = 0 /\ matchPosition = 0 /\ matchLength = 0
  /\ codeBuf = <<0>> /\ mask = 1 /\ bufout = <<>>
  /\ x = 0 /\ y = 0 /\ flags = 0 /\ cnt2 = 0 /\ strptr = 0 /\ strlen = 0
  /\ offs = N - F /\ flip = 0 /\ vmadd = 0
  /\ ring = [i \in Node |-> IF i < N - F THEN 0 ELSE Unwritten]
  /\ vram = [i \in 0 .. Len(bufin) - 1 |-> Unwritten]

-----------------------------------------------------------------------------
(* The trees. *)

(* q takes the place of node below p's parent, and p leaves the tree.       *)
Unlink(t, node, q) ==
  LET d == t.dad[node]
      up == [t EXCEPT !.dad[q] = d, !.dad[node] = NIL]
  IN  IF t.rson[d] = node THEN [up EXCEPT !.rson[d] = q]
                          ELSE [up EXCEPT !.lson[d] = q]

(* Two sons: last, the greatest node on the left, is looked for first.     *)
TwoSons(node) ==
  tree.dad[node] # NIL /\ tree.lson[node] # NIL /\ tree.rson[node] # NIL

(* Faulty: what is left of the node that moves up is lost.                  *)
FaultyDeleteNode(t, node) ==
  LET left == t.lson[node]
      right == t.rson[node]
      moved == IF last = left THEN t
               ELSE [t EXCEPT !.rson[t.dad[last]] = NIL,
                              !.lson[last] = left, !.dad[left] = last]
  IN  CASE t.dad[node] = NIL -> t
        [] t.dad[node] # NIL /\ right = NIL -> Unlink(t, node, left)
        [] t.dad[node] # NIL /\ right # NIL /\ left = NIL -> Unlink(t, node, right)
        [] OTHER -> Unlink([moved EXCEPT !.rson[last] = right, !.dad[right] = last],
                           node, last)

DeleteNode(t, node) ==
  LET left == t.lson[node]
      right == t.rson[node]
      moved == IF last = left THEN t   \* out of the left subtree and on top of it
               ELSE [t EXCEPT !.rson[t.dad[last]] = t.lson[last],
                              !.dad[t.lson[last]] = t.dad[last],
                              !.lson[last] = left, !.dad[left] = last]
  IN  CASE t.dad[node] = NIL -> t
        [] t.dad[node] # NIL /\ right = NIL -> Unlink(t, node, left)
        [] t.dad[node] # NIL /\ right # NIL /\ left = NIL -> Unlink(t, node, right)
        [] OTHER -> Unlink([moved EXCEPT !.rson[last] = right, !.dad[right] = last],
                           node, last)

(* Faulty: the old one of two equal strings stays. *)
FaultyReplace(t, old, new) == t

(* The old one of two equal strings will be deleted sooner: it is replaced. *)
Replace(t, old, new) ==
  LET d == t.dad[old]
      put == [t EXCEPT !.dad[new] = d,
                       !.lson[new] = t.lson[old], !.rson[new] = t.rson[old],
                       !.dad[t.lson[old]] = new, !.dad[t.rson[old]] = new,
                       !.dad[old] = NIL]
  IN  IF t.rson[d] = old THEN [put EXCEPT !.rson[d] = new]
                         ELSE [put EXCEPT !.lson[d] = new]

(* InsertNode(k), its beginning: the tree of the first byte. *)
InsertNode(t, k) ==
  /\ key' = k /\ p' = Root(textBuf'[k]) /\ cmp' = 1 /\ matchLength' = 0
  /\ tree' = [t EXCEPT !.lson[k] = NIL, !.rson[k] = NIL]
  /\ pc' = "insert" /\ UNCHANGED matchPosition

(* ... and its loop: the bytes two strings have in common, from the second. *)
Common(a, b) ==
  CHOOSE i \in 1 .. F : /\ \A j \in 1 .. i - 1 : textBuf[a + j] = textBuf[b + j]
                        /\ i < F => textBuf[a + i] # textBuf[b + i]

Descend ==
  /\ pc = "insert"
  /\ LET side == IF cmp >= 0 THEN "rson" ELSE "lson"
         son == tree[side][p]
         i == Common(key, son)
     IN  IF son = NIL
         THEN /\ tree' = [tree EXCEPT ![side][p] = key, !.dad[key] = p]
              /\ pc' = "next" /\ UNCHANGED nodeVars
         ELSE /\ p' = son
              /\ cmp' = IF i = F THEN 0 ELSE textBuf[key + i] - textBuf[son + i]
              /\ IF i > matchLength
                 THEN matchPosition' = son /\ matchLength' = i
                 ELSE UNCHANGED <<matchPosition, matchLength>>
              /\ IF i = F THEN tree' = Replace(tree, son, key) /\ pc' = "next"
                          ELSE UNCHANGED <<tree, pc>>
              /\ UNCHANGED key
  /\ UNCHANGED <<todo, last, inVars, ringVars, codeVars, decVars>>

-----------------------------------------------------------------------------
(* Convert2PicLZSS.  While todo is positive there are strings of the first  *)
(* ring to insert; later -todo counts the bytes by which the ring moves on. *)

InsertFirst ==
  /\ pc = "next" /\ todo > 0
  /\ textBuf' = textBuf
  /\ InsertNode(tree, IF todo <= F THEN r - todo ELSE r)
  /\ todo' = IF todo <= F THEN todo + 1 ELSE 0
  /\ UNCHANGED <<last, inVars, bfin, s, r, len, codeVars, decVars>>

(* One unit, a byte or a pair.  A match may be longer than what is left.    *)
SendUnit ==
  LET n == Smaller(matchLength, len)
      sent == IF n <= Threshold
              THEN [codeBuf EXCEPT ![1] = @ + mask] \o <<textBuf[r]>>
              ELSE codeBuf \o << matchPosition % PosLow,
                                 (matchPosition \div PosLow) * LenCodes
                                   + (n - (Threshold + 1)) >>
  IN  /\ pc = "next" /\ todo = 0 /\ len > 0
      /\ matchLength' = IF n <= Threshold THEN 1 ELSE n
      /\ todo' = -matchLength'
      /\ IF mask = Masks[Units]
         THEN bufout' = bufout \o sent /\ codeBuf' = <<0>> /\ mask' = 1
         ELSE codeBuf' = sent /\ mask' = 2 * mask /\ UNCHANGED bufout
      /\ UNCHANGED <<pc, inVars, ringVars, tree, last, key, p, cmp, matchPosition, decVars>>

(* The ring moves on by a byte that was sent: the oldest string is deleted. *)
BeginDelete ==
  /\ pc = "next" /\ todo < 0
  /\ pc' = "delete" /\ last' = tree.lson[s]
  /\ UNCHANGED <<todo, inVars, ringVars, tree, nodeVars, codeVars, decVars>>

WalkRight ==
  /\ pc = "delete" /\ TwoSons(s) /\ tree.rson[last] # NIL
  /\ last' = tree.rson[last]
  /\ UNCHANGED <<pc, todo, inVars, ringVars, tree, nodeVars, codeVars, decVars>>

Found == pc = "delete" /\ (TwoSons(s) => tree.rson[last] = NIL)

(* ... a new byte is read,                                                  *)
ShiftIn ==
  /\ Found /\ bfin < buflen
  /\ bfin' = bfin + 1 /\ todo' = todo + 1 /\ UNCHANGED len
  /\ textBuf' = [i \in DOMAIN textBuf |->
                   IF i = s \/ (s < F - 1 /\ i = s + N) THEN bufin[bfin + 1]
                                                        ELSE textBuf[i]]
  /\ s' = Wrap(s + 1) /\ r' = Wrap(r + 1)
  /\ InsertNode(DeleteNode(tree, s), r')
  /\ UNCHANGED <<last, inVars, codeVars, decVars>>

(* ... or, after the end of the input, none.                                *)
ShiftOut ==
  /\ Found /\ bfin >= buflen
  /\ todo' = todo + 1 /\ len' = len - 1 /\ UNCHANGED <<bfin, textBuf>>
  /\ s' = Wrap(s + 1) /\ r' = Wrap(r + 1)
  /\ IF len' # 0
     THEN InsertNode(DeleteNode(tree, s), r')
     ELSE tree' = DeleteNode(tree, s) /\ pc' = "next" /\ UNCHANGED nodeVars
  /\ UNCHANGED <<last, inVars, codeVars, decVars>>

(* The units kept back are written, and some day the console decompresses.  *)
Finish ==
  /\ pc = "next" /\ todo = 0 /\ len = 0 /\ pc' = "flags"
  /\ bufout' = IF Len(codeBuf) > 1 THEN bufout \o codeBuf ELSE bufout
  /\ x' = Len(bufout')
  /\ UNCHANGED <<todo, inVars, ringVars, findVars, codeBuf, mask, y, flags, cnt2,
                 copyVars, outVars>>

Compress ==
  \/ InsertFirst \/ Descend \/ SendUnit
  \/ BeginDelete \/ WalkRight \/ ShiftIn \/ ShiftOut \/ Finish

-----------------------------------------------------------------------------
(* LzssDecodeVram. *)

(* A byte goes to the ring and to VMDATAL or VMDATAH in turn; VMADD moves   *)
(* on with the latter.  offset is what LZSS_TEXTBUF_OFFS becomes.           *)
WriteByte(b, offset) ==
  /\ ring' = [ring EXCEPT ![offs] = b] /\ offs' = offset
  /\ vram' = [vram EXCEPT ![2 * vmadd + flip] = b]
  /\ vmadd' = vmadd + flip /\ flip' = 1 - flip

ReadFlags ==
  /\ pc = "flags" /\ x # 0 /\ pc' = "unit"
  /\ flags' = bufout[y + 1] /\ y' = y + 1 /\ x' = x - 1 /\ cnt2' = Units
  /\ UNCHANGED <<todo, inVars, ringVars, findVars, codeVars, copyVars, outVars>>

NextFlag ==
  /\ cnt2' = cnt2 - 1 /\ pc' = IF cnt2 = 1 THEN "flags" ELSE "unit"

(* Faulty: the offset does not wrap. *)
FaultyCopyByte ==
  /\ pc = "unit" /\ flags % 2 = 1 /\ x # 0
  /\ flags' = flags \div 2 /\ y' = y + 1 /\ x' = x - 1
  /\ WriteByte(bufout[y + 1], offs + 1)
  /\ NextFlag
  /\ UNCHANGED <<todo, inVars, ringVars, findVars, codeVars, copyVars>>

(* Only after a byte for VMDATAH does the offset wrap.                      *)
CopyByte ==
  /\ pc = "unit" /\ flags % 2 = 1 /\ x # 0
  /\ flags' = flags \div 2 /\ y' = y + 1 /\ x' = x - 1
  /\ WriteByte(bufout[y + 1], IF flip = 0 THEN offs + 1 ELSE Wrap(offs + 1))
  /\ NextFlag
  /\ UNCHANGED <<todo, inVars, ringVars, findVars, codeVars, copyVars>>

(* Faulty: the shortest string a pair stands for is taken one too short.    *)
FaultyReadPair ==
  /\ pc = "unit" /\ flags % 2 = 0 /\ x # 0 /\ pc' = "string"
  /\ flags' = flags \div 2 /\ y' = y + 2 /\ x' = x - 2
  /\ strptr' = (bufout[y + 2] \div LenCodes) * PosLow + bufout[y + 1]
  /\ strlen' = (bufout[y + 2] % LenCodes) + Threshold
  /\ UNCHANGED <<todo, inVars, ringVars, findVars, codeVars, cnt2, outVars>>

ReadPair ==
  /\ pc = "unit" /\ flags % 2 = 0 /\ x # 0 /\ pc' = "string"
  /\ flags' = flags \div 2 /\ y' = y + 2 /\ x' = x - 2
  /\ strptr' = (bufout[y + 2] \div LenCodes) * PosLow + bufout[y + 1]
  /\ strlen' = (bufout[y + 2] % LenCodes) + Threshold + 1
  /\ UNCHANGED <<todo, inVars, ringVars, findVars, codeVars, cnt2, outVars>>

CopyString ==
  /\ pc = "string"
  /\ WriteByte(ring[strptr], Wrap(offs + 1))
  /\ strptr' = Wrap(strptr + 1) /\ strlen' = strlen - 1
  /\ IF strlen = 1 THEN NextFlag ELSE UNCHANGED <<pc, cnt2>>
  /\ UNCHANGED <<todo, inVars, ringVars, findVars, codeVars, x, y, flags>>

(* Faulty: the end is only looked for before a flags byte.                  *)
FaultyDecodeDone ==
  /\ pc = "flags" /\ x = 0 /\ pc' = "done"
  /\ UNCHANGED <<todo, inVars, ringVars, findVars, codeVars, decVars>>

DecodeDone ==
  /\ pc \in {"flags", "unit"} /\ x = 0 /\ pc' = "done"
  /\ UNCHANGED <<todo, inVars, ringVars, findVars, codeVars, decVars>>

LzssDecodeVram == ReadFlags \/ CopyByte \/ ReadPair \/ CopyString \/ DecodeDone

Next == Compress \/ LzssDecodeVram

(* Both are sequential programs that nothing stops.                         *)
Spec == Init /\ [][Next]_vars /\ WF_vars(Next)

-----------------------------------------------------------------------------
(* Properties. *)

LzssTypeOK ==
  /\ pc \in {"next", "insert", "delete", "flags", "unit", "string", "done"}
  /\ s \in Node /\ r \in Node /\ len \in 0 .. F /\ todo \in -F .. F + 1
  /\ DOMAIN textBuf = 0 .. N + F - 2
  /\ matchPosition \in Node /\ matchLength \in 0 .. F
  /\ DOMAIN tree.lson = 0 .. N /\ DOMAIN tree.dad = 0 .. N /\ last \in 0 .. N
  /\ x \in 0 .. Len(bufout) /\ offs \in Node /\ strptr \in Node /\ flip \in {0, 1}
  /\ DOMAIN ring = Node /\ DOMAIN vram = 0 .. Len(bufin) - 1

(* The nodes below one, itself included. *)
Below(node) ==
  LET below[q \in 0 .. N] ==
        IF q = NIL THEN {} ELSE {q} \union below[tree.lson[q]] \union below[tree.rson[q]]
  IN  below[node]

(* The order of two strings of F bytes. *)
Before(a, b) ==
  \E i \in 0 .. F - 1 : /\ \A j \in 0 .. i - 1 : textBuf[a + j] = textBuf[b + j]
                        /\ textBuf[a + i] < textBuf[b + i]

(* After any number of insertions, replacements and deletions each node     *)
(* that has a parent hangs below it, what is left of it is smaller, what is *)
(* right of it greater, and the bytes under the strings in the trees are    *)
(* never overwritten.                                                       *)
SearchTree ==
  pc = "next" =>
    \A node \in {q \in Node : tree.dad[q] # NIL} :
      /\ IF tree.dad[node] > N
         THEN tree.dad[node] = Root(textBuf[node]) /\ tree.rson[tree.dad[node]] = node
         ELSE node \in {tree.lson[tree.dad[node]], tree.rson[tree.dad[node]]}
      /\ \A q \in Below(tree.lson[node]) : tree.dad[q] # NIL /\ Before(q, node)
      /\ \A q \in Below(tree.rson[node]) : tree.dad[q] # NIL /\ Before(node, q)

(* The text: spaces as long as the ring, then the input.  Sent is what of   *)
(* the input has gone out.                                                  *)
TextAt(i) == IF i < 0 THEN Space ELSE bufin[i + 1]
Sent == bfin - len
Longest(from) ==
  Max({l \in 0 .. len : \A j \in 0 .. l - 1 : TextAt(from + j) = TextAt(Sent + j)})

(* When a unit is to be sent, the match found in the trees is where it is   *)
(* said to be, and in the last N - F bytes of the text none that begins in  *)
(* the input is longer; nor is one that begins in the spaces before it, as  *)
(* long as the first of their strings, inserted last, are in the trees: of  *)
(* equal ones these stay, though they leave the ring first.                 *)
LongestMatch ==
  pc = "next" /\ todo = 0 /\ len > 0 =>
    LET back == Wrap(r - matchPosition)
        n == Smaller(matchLength, len)
    IN  /\ n > 0 => back \in 1 .. N - F /\ Longest(Sent - back) = n
        /\ \A d \in 1 .. N - F :
             Sent - d >= 0 \/ Sent <= N - 2 * F => Longest(Sent - d) <= n

(* What arrives in VRAM, in order, is the input, but that any space may     *)
(* arrive as 0.  The code only makes 0 of those copied from the first       *)
(* contents of the ring, and of copies of these.                            *)
Decoded ==
  pc = "done" =>
    \A i \in 0 .. buflen - 1 :
      vram[i] = bufin[i + 1] \/ (bufin[i + 1] = Space /\ vram[i] = 0)

(* Compressing and decompressing ends. *)
Ends == <>(pc = "done")

(* lzss.h promises a decompressor: all of the input arrives as it was.      *)
DecodedExactly ==
  pc = "done" => \A i \in 0 .. buflen - 1 : vram[i] = bufin[i + 1]
=============================================================================
