----------------------------- MODULE HeapProofs -----------------------------
(***************************************************************************)
(* The allocator of malloc.c is correct for every heap size and every      *)
(* sequence of requests: the chain of headers always tiles the heap, the   *)
(* blocks the program owns never overlap and are never written to, and     *)
(* malloc fails only if there is no room.                                  *)
(***************************************************************************)
EXTENDS Heap, TLAPS

(* Facts of arithmetic.                                                    *)
LEMMA ModSmall ==
  ASSUME NEW k \in Int, 0 <= k, k < 65536
  PROVE  k % 65536 = k
  BY SMT

(* The number of values of a word.                                          *)
LEMMA WordModIs == WordMod \in Int /\ 65535 < WordMod /\ WordMod < 65537
  BY SMT DEF WordMod

(* Sums and differences of even numbers are even.                           *)
LEMMA Even ==
  ASSUME NEW a \in Int, NEW b \in Int, a % 2 = 0, b % 2 = 0
  PROVE  /\ (a + b) % 2 = 0 /\ (a - b) % 2 = 0
         /\ a < b => a + 2 <= b
  BY SMT

(* A part of what is below w is below w.                                    *)
LEMMA PartBelow ==
  ASSUME NEW a \in Int, NEW b \in Int, NEW e \in Int, NEW w \in Int,
         0 <= a, a + b <= e, e < w
  PROVE  b < w
  BY SMT

(* What Rounded makes of a size: a multiple of 4 that is hardly less.       *)
LEMMA Quarter ==
  ASSUME NEW k \in Int, 6 <= k, k < 65536
  PROVE  /\ (k \div 4) * 4 \in Int
         /\ 4 <= (k \div 4) * 4
         /\ (k \div 4) * 4 <= k
         /\ ((k \div 4) * 4) % 2 = 0
         /\ k - 3 <= (k \div 4) * 4
<1>. DEFINE q == k \div 4
<1>1. q \in Int /\ 4 * q <= k /\ k <= 4 * q + 3
  BY SMT
<1>. HIDE DEF q
<1>2. (q * 4) % 2 = 0
  BY <1>1, SMT
<1>3. q * 4 = 4 * q
  BY <1>1, SMT
<1>4. /\ q * 4 \in Int
      /\ 4 <= q * 4
      /\ q * 4 <= k
      /\ k - 3 <= q * 4
  BY <1>1, <1>3, SMT
<1>5. QED
  BY <1>2, <1>4 DEF q

(* Taking the lowest bit off a word.                                       *)
LEMMA Parity ==
  ASSUME NEW w \in Int, 0 <= w
  PROVE  /\ w - (w % 2) \in Int /\ 0 <= w - (w % 2) /\ w - (w % 2) <= w
         /\ (w - (w % 2)) % 2 = 0
         /\ w % 2 # 1 => w - (w % 2) = w
         /\ w % 2 = 1 => w - (w % 2) = w - 1
  BY SMT

(* A header word made of an even size, with and without USED.              *)
LEMMA NewHeader ==
  ASSUME NEW w \in Int, 0 <= w, w % 2 = 0
  PROVE  /\ w % 2 # 1 /\ w - (w % 2) = w
         /\ (w + 1) % 2 = 1 /\ (w + 1) - ((w + 1) % 2) = w
  BY SMT

(* malloc's rounding gives room for the header and the bytes asked for, in *)
(* a multiple of 4, unless the 16-bit size wraps.                          *)
LEMMA RoundedFits ==
  ASSUME NEW n \in 1..(WordMod - 6)
  PROVE  /\ Rounded(n) \in Int
         /\ 4 <= Rounded(n) /\ Rounded(n) < WordMod
         /\ Rounded(n) % 2 = 0
         /\ n + unit <= Rounded(n)
<1>. DEFINE k == n + 3 + unit
<1>1. k \in Int /\ 6 <= k /\ k < 65536 /\ k = n + 5
  BY SMTT(90) DEF WordMod, unit
<1>. HIDE DEF k
<1>2. k % WordMod = k
  BY <1>1, ModSmall, SMTT(90) DEF WordMod
<1>3. Rounded(n) = (k \div 4) * 4
  BY <1>2 DEF Rounded, k
<1>. DEFINE r == (k \div 4) * 4
<1>4. /\ r \in Int /\ 4 <= r /\ r <= k /\ r % 2 = 0 /\ k - 3 <= r
  BY <1>1, Quarter
<1>. HIDE DEF r
<1>5. /\ r \in Int /\ 4 <= r /\ r < WordMod /\ r % 2 = 0 /\ n + unit <= r
  BY <1>1, <1>4, SMTT(90) DEF WordMod, unit
<1>6. QED
  BY <1>3, <1>5 DEF r

(* Addresses and header words.                                             *)
LEMMA HeapBounds ==
  /\ HeapLen \in Int /\ HeapLen < WordMod
  /\ End \in Int /\ 6 <= End /\ End = HeapLen - 2 /\ End % 2 = 0
  /\ End < WordMod
  /\ End \in Addr /\ 0 \in Addr /\ 0 # End
<1>1. HeapLen \in Int /\ HeapLen % 4 = 0 /\ 8 <= HeapLen /\ HeapLen < WordMod
  BY HeapAssumption, SMT
<1>2. (HeapLen - 2) % 2 = 0
  BY <1>1, SMT
<1>3. End \in Int /\ 6 <= End /\ End = HeapLen - 2 /\ End % 2 = 0
  BY <1>1, <1>2, SMT DEF End, unit
<1>4. End \in Addr /\ 0 \in Addr
  <2>1. 0 % 2 = 0 /\ 0 \in Int
    BY SMT
  <2>2. End \in 0..End /\ 0 \in 0..End
    BY <1>3, SMT
  <2>. QED
    BY <1>3, <2>1, <2>2, Zenon DEF Addr
<1>5. QED
  BY <1>1, <1>3, <1>4, WordModIs, SMT

(* The addresses of the heap are its even numbers.                          *)
LEMMA Addresses ==
  /\ \A a \in Addr : a \in Int /\ 0 <= a /\ a <= End /\ a % 2 = 0
  /\ \A a \in Int : 0 <= a /\ a <= End /\ a % 2 = 0 => a \in Addr
<1>1. \A a \in Int : 0 <= a /\ a <= End <=> a \in 0..End
  BY HeapBounds, SMT
<1>2. \A a \in 0..End : a \in Int
  BY HeapBounds, SMT
<1>3. QED
  BY <1>1, <1>2, Zenon DEF Addr

(* Words are the numbers below WordMod.                                     *)
LEMMA Words ==
  /\ \A w \in Int : 0 <= w /\ w < WordMod => w \in 0..(WordMod - 1)
  /\ \A w \in 0..(WordMod - 1) : w \in Int /\ 0 <= w /\ w < WordMod
  BY WordModIs, SMT

(* A header holds an even size and whether the block is used.               *)
LEMMA HeaderWord ==
  ASSUME HeapTypeOK, NEW a \in Addr
  PROVE  /\ mem[a] \in Int /\ 0 <= mem[a] /\ mem[a] < WordMod
         /\ Size(a) \in Int /\ 0 <= Size(a) /\ Size(a) <= mem[a]
         /\ Size(a) % 2 = 0
         /\ ~Used(a) => Size(a) = mem[a]
         /\ Used(a) => Size(a) = mem[a] - 1
<1>1. mem[a] \in 0..(WordMod - 1)
  BY DEF HeapTypeOK
<1>2. mem[a] \in Int /\ 0 <= mem[a] /\ mem[a] < WordMod
  BY <1>1, WordModIs, SMT
<1>3. QED
  BY <1>2, Parity DEF Size, Used

(* The blocks lie in the heap, one after another.                          *)
LEMMA BlockFacts ==
  ASSUME HeapTypeOK, Tiled
  PROVE  \A b \in blocks :
           /\ b \in Int /\ 0 <= b /\ b % 2 = 0
           /\ Size(b) \in Int /\ 2 <= Size(b) /\ Size(b) % 2 = 0
           /\ b + Size(b) <= End
           /\ b + Size(b) \in blocks \union {End}
           /\ \A c \in blocks : b < c => b + Size(b) <= c
<1>. SUFFICES ASSUME NEW b \in blocks
              PROVE  /\ b \in Int /\ 0 <= b /\ b % 2 = 0
                     /\ Size(b) \in Int /\ 2 <= Size(b) /\ Size(b) % 2 = 0
                     /\ b + Size(b) <= End
                     /\ b + Size(b) \in blocks \union {End}
                     /\ \A c \in blocks : b < c => b + Size(b) <= c
  OBVIOUS
<1>1. b \in Addr /\ b + Size(b) \in Addr
  BY HeapBounds DEF HeapTypeOK, Tiled
<1>2. b + Size(b) <= End /\ b \in Int /\ 0 <= b /\ b % 2 = 0
  BY <1>1, HeapBounds, SMT DEF Addr
<1>3. QED
  BY <1>1, <1>2, HeaderWord DEF Tiled, unit

(* The local variables of __compact and malloc are addresses and sizes.     *)
LEMMA Locals ==
  ASSUME HeapTypeOK
  PROVE  /\ p \in Int /\ 0 <= p /\ p <= End /\ p % 2 = 0
         /\ best \in Int /\ 0 <= best /\ best <= End /\ best % 2 = 0
         /\ bsize \in Int /\ 0 <= bsize /\ bsize < WordMod
         /\ want \in Int /\ 0 <= want /\ want < WordMod
  BY Addresses, Words DEF HeapTypeOK

(* A size that is looked for is not 0.                                     *)
LEMMA WantPositive ==
  ASSUME HeapTypeOK, Request, pc # "idle"
  PROVE  0 < want
<1>1. CASE asked = 0
  BY <1>1, WordModIs, SMT DEF Request, NoLimit
<1>2. CASE asked # 0
  BY <1>2, RoundedFits, SMT DEF Request
<1>3. QED
  BY <1>1, <1>2

(* The heap starts with one free block.                                    *)
THEOREM InitInv == Init => HeapInv
<1>. SUFFICES ASSUME Init PROVE HeapInv
  OBVIOUS
<1>1. /\ mem = [a \in Addr |-> IF a = 0 THEN HeapLen - unit ELSE 0]
      /\ HeapLen - unit = End
  BY HeapBounds DEF Init, unit, End
<1>2. mem[0] = End /\ mem[End] = 0
  BY <1>1, HeapBounds
<1>3. mem \in [Addr -> 0..(WordMod - 1)]
  <2>1. End \in 0..(WordMod - 1) /\ 0 \in 0..(WordMod - 1)
    BY HeapBounds, WordModIs, SMT
  <2>2. HeapLen - unit = End
    BY <1>1
  <2>. QED
    BY <1>1, <2>1, <2>2
<1>4. HeapTypeOK
  <2>1. 0 \in 0..(WordMod - 1)
    BY WordModIs, SMT
  <2>. QED
    BY <1>3, <2>1, HeapBounds DEF HeapTypeOK, Init
<1>5. Size(0) = End /\ ~Used(0)
  BY <1>2, HeapBounds, NewHeader DEF Size, Used
<1>6. Tiled
  BY <1>2, <1>5, HeapBounds, SMT DEF Tiled, unit, Init
<1>7. LiveBlocks /\ FreeIsFree
  BY <1>5 DEF LiveBlocks, FreeIsFree, Init
<1>8. TakeFits /\ ScanRun /\ Passed /\ Request
  BY DEF TakeFits, ScanRun, Passed, Request, Init
<1>9. QED
  BY <1>4, <1>6, <1>7, <1>8 DEF HeapInv

(* __compact adds a free block to the run.                                 *)
LEMMA ScanFreeInv ==
  ASSUME HeapInv, ScanFree
  PROVE  HeapInv'
<1>. USE DEF HeapInv
<1>1. /\ p \in blocks /\ ~Used(p) /\ mem[p] = Size(p) /\ pc = "scan"
      /\ bsize' = bsize + Size(p) /\ p' = p + Size(p)
      /\ best + bsize = p
  BY HeaderWord DEF ScanFree, ScanRun, Tiled, HeapTypeOK
<1>2. UNCHANGED <<mem, free, pc, asked, want, best, blocks, live>>
  BY DEF ScanFree
<1>3. \A a : Size(a)' = Size(a) /\ Used(a)' = Used(a)
  BY <1>2 DEF Size, Used
<1>4. p' \in blocks \union {End} /\ best' + bsize' = p'
  BY <1>1, <1>2, BlockFacts, SMT DEF HeapTypeOK, Addr
<1>5. HeapTypeOK'
  <2>1. p' \in Addr
    BY <1>4, HeapBounds DEF HeapTypeOK
  <2>2. bsize' \in 0..(WordMod - 1)
    <3>1. /\ p' \in Int /\ p' <= End /\ best' \in Int /\ 0 <= best'
      BY <1>2, <2>1, Addresses DEF HeapTypeOK
    <3>2. bsize' \in Int /\ 0 <= bsize'
      BY <1>1, BlockFacts, Words, SMT DEF HeapTypeOK
    <3>3. bsize' < WordMod
      <4>1. best' + bsize' = p' /\ End \in Int /\ End < WordMod
        BY <1>4, HeapBounds
      <4>2. p' \in Int /\ p' <= End /\ best' \in Int /\ 0 <= best'
        BY <3>1
      <4>3. best' + bsize' <= End
        BY <4>1, <4>2, Zenon
      <4>4. WordMod \in Int
        BY WordModIs
      <4>. QED
        BY <4>1, <4>2, <4>3, <4>4, <3>2, PartBelow, Zenon
    <3>. QED
      BY <3>2, <3>3, Words
  <2>. QED
    BY <1>2, <2>1, <2>2 DEF HeapTypeOK
<1>6. Tiled' /\ LiveBlocks' /\ FreeIsFree' /\ TakeFits' /\ Request'
  BY <1>2, <1>3 DEF Tiled, LiveBlocks, FreeIsFree, TakeFits, Request
<1>7. Passed'
  BY <1>2, <1>3 DEF Passed, NoRoomBefore
<1>8. ScanRun'
  <2>. SUFFICES ASSUME NEW b \in blocks, best <= b, b < p + Size(p)
                PROVE  ~Used(b)
    BY <1>1, <1>2, <1>3, <1>4 DEF ScanRun
  <2>1. b <= p
    BY <1>1, BlockFacts, SMT
  <2>2. CASE b < p
    BY <2>2, <1>1 DEF ScanRun
  <2>3. CASE b = p
    BY <2>3, <1>1
  <2>4. b \in Int /\ p \in Int
    BY <1>1, BlockFacts
  <2>5. b < p \/ b = p
    BY <2>1, <2>4, SMT
  <2>. QED
    BY <2>2, <2>3, <2>5
<1>9. QED
  BY <1>5, <1>6, <1>7, <1>8

(* Writing the size of the run to its first block merges its blocks: the   *)
(* chain stays whole and the blocks in use stay as they are.               *)
LEMMA MergeKeeps ==
  ASSUME HeapInv, pc = "scan", mem[p] = 0 \/ Used(p), MergeRun,
         UNCHANGED live
  PROVE  /\ mem' \in [Addr -> 0..(WordMod - 1)]
         /\ blocks' \subseteq blocks
         /\ DOMAIN live \subseteq blocks'
         /\ Tiled' /\ LiveBlocks'
         /\ \A b \in DOMAIN live : Size(b)' = Size(b)
         /\ p \in blocks' \union {End}
         /\ \A a \in Addr : a = p => Used(a)' = Used(a) /\ Size(a)' = Size(a)
         /\ bsize # 0 => best \in blocks' /\ mem'[best] = bsize
                         /\ \A a \in Addr : a = best => ~Used(a)'
<1>. USE DEF HeapInv
<1>1. CASE bsize = 0
  <2>1. UNCHANGED <<mem, blocks, live>>
    BY <1>1 DEF MergeRun
  <2>2. \A a : Size(a)' = Size(a) /\ Used(a)' = Used(a)
    BY <2>1 DEF Size, Used
  <2>3. Tiled' /\ LiveBlocks'
    BY <2>1, <2>2 DEF Tiled, LiveBlocks
  <2>4. p \in blocks \union {End} /\ DOMAIN live \subseteq blocks
        /\ mem \in [Addr -> 0..(WordMod - 1)]
    BY DEF ScanRun, HeapTypeOK
  <2>. QED
    BY <1>1, <2>1, <2>2, <2>3, <2>4
<1>2. CASE bsize # 0
  <2>1. /\ mem' = [mem EXCEPT ![best] = bsize]
        /\ blocks' = {b \in blocks : ~(best < b /\ b < best + bsize)}
    BY <1>2 DEF MergeRun
  <2>2. best + bsize = p /\ best < p
    BY <1>2, Locals, SMT DEF ScanRun
  <2>3. best \in blocks /\ best # End
    BY <2>2, Locals, HeapBounds, SMT DEF ScanRun
  <2>4. bsize % 2 = 0 /\ 2 <= bsize
    <3>1. (p - best) % 2 = 0 /\ best + 2 <= p
      BY <2>2, Locals, Even
    <3>2. p - best = bsize
      BY <2>2, Locals, SMT
    <3>. QED
      BY <3>1, <3>2, <2>2, Locals, SMT
  <2>5. best \in Addr /\ p \in Addr /\ blocks \subseteq Addr
        /\ mem \in [Addr -> 0..(WordMod - 1)]
    BY DEF HeapTypeOK
  <2>6. \A a \in Addr : mem'[a] = IF a = best THEN bsize ELSE mem[a]
    BY <2>1, <2>5
  <2>7. mem' \in [Addr -> 0..(WordMod - 1)]
    BY <2>1, <2>5, Locals, Words
  <2>8. /\ mem'[best] = bsize
        /\ \A a \in Addr : a = best => ~Used(a)' /\ Size(a)' = bsize
    <3>1. mem'[best] = bsize
      BY <2>5, <2>6
    <3>2. bsize % 2 # 1 /\ bsize - (bsize % 2) = bsize
      BY <2>4, Locals, NewHeader
    <3>. QED
      BY <3>1, <3>2 DEF Size, Used
  <2>9. \A a \in Addr : a # best => Used(a)' = Used(a) /\ Size(a)' = Size(a)
    BY <2>6 DEF Size, Used
  <2>10. p \in blocks' \union {End} /\ best \in blocks'
         /\ blocks' \subseteq blocks
    BY <2>1, <2>2, <2>3, Locals, SMT DEF ScanRun
  <2>11. \A b \in blocks : best <= b /\ b < p => b \notin DOMAIN live
    BY DEF ScanRun, LiveBlocks
  <2>12. best \notin DOMAIN live
    BY <2>2, <2>3, <2>11, Locals, SMT
  <2>13. DOMAIN live \subseteq blocks'
    <3>. SUFFICES ASSUME NEW b \in DOMAIN live PROVE b \in blocks'
      OBVIOUS
    <3>1. b \in blocks
      BY DEF HeapTypeOK
    <3>. QED
      BY <2>1, <2>2, <2>11, <3>1, Locals, BlockFacts, SMT
  <2>14. LiveBlocks'
    <3>1. \A b \in blocks' : b # best => Used(b)' = Used(b)
      BY <2>5, <2>9, <2>10
    <3>2. \A b \in DOMAIN live : Size(b)' = Size(b)
      BY <2>5, <2>9, <2>12, <2>13, <2>10
    <3>3. \A b \in blocks' : Used(b)' <=> b \in DOMAIN live
      BY <2>5, <2>8, <2>10, <2>12, <3>1 DEF LiveBlocks
    <3>4. \A b \in DOMAIN live : unit + live[b] <= Size(b)'
      BY <3>2 DEF LiveBlocks
    <3>. QED
      BY <3>3, <3>4 DEF LiveBlocks
  <2>15. 0 \in blocks' /\ End \notin blocks' /\ mem'[End] = 0
    <3>1. mem'[End] = mem[End]
      BY <2>3, <2>6, HeapBounds
    <3>2. ~(best < 0)
      BY Locals, SMT
    <3>. QED
      BY <2>1, <2>10, <3>1, <3>2 DEF Tiled
  <2>16. ASSUME NEW b \in blocks'
         PROVE  /\ Size(b)' >= 2
                /\ b + Size(b)' \in blocks' \union {End}
                /\ \A c \in blocks' : b < c => b + Size(b)' <= c
    <3>1. b \in blocks /\ b \in Int /\ (b <= best \/ p <= b)
      <4>1. b \in blocks /\ ~(best < b /\ b < p)
        BY <2>1, <2>2
      <4>2. b \in Int
        BY <4>1, BlockFacts
      <4>. QED
        BY <4>1, <4>2, Locals, SMT
    <3>2. CASE b = best
      <4>1. \A c \in blocks' : c \in Int /\ ~(best < c /\ c < p)
        BY <2>1, <2>2, BlockFacts
      <4>2. \A c \in blocks' : best < c => p <= c
        BY <4>1, Locals, SMT
      <4>. QED
        BY <3>2, <4>2, <2>2, <2>4, <2>5, <2>8, <2>10, SMT
    <3>3. CASE b < best
      <4>1. Size(b)' = Size(b)
        BY <2>5, <2>9, <3>1, <3>3, Locals, SMT
      <4>2. b + Size(b) <= best
        BY <2>3, <3>1, <3>3, BlockFacts
      <4>3. b + Size(b) \in blocks /\ b + Size(b) \in Int
        BY <4>2, <2>2, <3>1, Locals, HeapBounds, BlockFacts, SMT
      <4>4. b + Size(b) \in blocks'
        BY <2>1, <4>2, <4>3, Locals, SMT
      <4>. QED
        BY <2>10, <3>1, <3>3, <4>1, <4>4, BlockFacts, SMT
    <3>4. CASE p <= b
      <4>1. Size(b)' = Size(b)
        BY <2>2, <2>5, <2>9, <3>1, <3>4, Locals, SMT
      <4>2. b + Size(b) \in blocks' \union {End}
        BY <2>1, <2>2, <3>1, <3>4, Locals, BlockFacts, HeapBounds, SMT
      <4>. QED
        BY <2>10, <3>1, <4>1, <4>2, BlockFacts, SMT
    <3>. QED
      BY <3>1, <3>2, <3>3, <3>4, Locals, SMT
  <2>17. Tiled'
    BY <2>15, <2>16 DEF Tiled, unit
  <2>18. \A a \in Addr : a = p => Used(a)' = Used(a) /\ Size(a)' = Size(a)
    <3>1. p # best
      BY <2>2, Locals, SMT
    <3>. QED
      BY <2>5, <2>9, <3>1
  <2>19. \A b \in DOMAIN live : Size(b)' = Size(b)
    BY <2>5, <2>9, <2>12, <2>13, <2>10
  <2>. QED
    BY <2>7, <2>8, <2>10, <2>13, <2>14, <2>17, <2>18, <2>19
<1>3. QED
  BY <1>1, <1>2

(* While __compact is at p with a run too short for the request, there is  *)
(* no room before p: an interval that ends before p lies in the run, or    *)
(* reaches back into the block in use before it, or ends before the run.   *)
LEMMA RunTooShort ==
  ASSUME HeapInv, pc = "scan", ~RunFits
  PROVE  NoRoomBefore(p)
<1>. USE DEF HeapInv
<1>. SUFFICES ASSUME NEW a \in Addr, a + want <= p
              PROVE  \E b \in DOMAIN live : b < a + want /\ a < b + Size(b)
  BY DEF NoRoomBefore
<1>1. 0 < want /\ a \in Int /\ 0 <= a /\ best + bsize = p
  BY WantPositive, Addresses DEF ScanRun
<1>2. a < best
  <2>1. bsize < want
    BY <1>1, Locals, SMT DEF RunFits
  <2>. QED
    BY <1>1, <2>1, Locals, SMT
<1>3. CASE a + want <= best
  BY <1>3 DEF Passed, NoRoomBefore
<1>4. CASE ~(a + want <= best)
  <2>1. best # 0
    BY <1>1, <1>2, Locals, SMT
  <2>2. PICK b \in DOMAIN live : b + Size(b) = best
    BY <2>1 DEF Passed
  <2>3. b < best /\ b \in Int
    <3>1. b \in blocks
      BY DEF HeapTypeOK
    <3>2. b \in Int /\ Size(b) \in Int /\ 2 <= Size(b)
      BY <3>1, BlockFacts
    <3>. QED
      BY <2>2, <3>2, Locals, SMT
  <2>4. b < a + want
    BY <1>1, <1>4, <2>3, Locals, SMT
  <2>. QED
    BY <1>2, <2>2, <2>4
<1>5. QED
  BY <1>3, <1>4

(* __compact finds a run that is long enough.                              *)
LEMMA ScanFoundInv ==
  ASSUME HeapInv, ScanFound
  PROVE  HeapInv'
<1>. USE DEF HeapInv
<1>1. /\ pc = "scan" /\ (mem[p] = 0 \/ Used(p)) /\ MergeRun
      /\ bsize # 0 /\ bsize >= want
      /\ free' = best /\ pc' = IF asked = 0 THEN "idle" ELSE "take"
      /\ UNCHANGED <<asked, want, p, best, bsize, live>>
  BY DEF ScanFound, RunFits, scanVars
<1>2. /\ mem' \in [Addr -> 0..(WordMod - 1)] /\ blocks' \subseteq blocks
      /\ DOMAIN live \subseteq blocks' /\ Tiled' /\ LiveBlocks'
      /\ best \in blocks' /\ mem'[best] = bsize
      /\ \A a \in Addr : a = best => ~Used(a)'
  BY <1>1, MergeKeeps
<1>3. best \in Addr /\ best \in Int /\ 0 <= best
  BY Locals DEF HeapTypeOK
<1>4. HeapTypeOK'
  BY <1>1, <1>2, <1>3 DEF HeapTypeOK
<1>5. ~Used(free)'
  <2>1. ~(mem'[best] % 2 = 1)
    BY <1>2, <1>3 DEF Used
  <2>. QED
    BY <1>1, <2>1 DEF Used
<1>6. FreeIsFree' /\ TakeFits'
  <2>1. free' # NULL
    BY <1>1, <1>3, SMT DEF NULL
  <2>. QED
    BY <1>1, <1>2, <1>5, <2>1, Locals, SMT DEF FreeIsFree, TakeFits
<1>7. ScanRun' /\ Passed' /\ Request'
  BY <1>1 DEF ScanRun, Passed, Request
<1>8. QED
  BY <1>2, <1>4, <1>6, <1>7

(* __compact goes on after a block in use.                                 *)
LEMMA ScanUsedInv ==
  ASSUME HeapInv, ScanUsed
  PROVE  HeapInv'
<1>. USE DEF HeapInv
<1>1. /\ pc = "scan" /\ Used(p) /\ ~RunFits /\ MergeRun
      /\ bsize' = 0 /\ p' = p + Size(p) /\ best' = p + Size(p)
      /\ UNCHANGED <<free, pc, asked, want, live>>
  BY DEF ScanUsed
<1>2. /\ mem' \in [Addr -> 0..(WordMod - 1)] /\ blocks' \subseteq blocks
      /\ DOMAIN live \subseteq blocks' /\ Tiled' /\ LiveBlocks'
      /\ p \in blocks' \union {End}
      /\ \A b \in DOMAIN live : Size(b)' = Size(b)
  BY <1>1, MergeKeeps
<1>3. p \in blocks' /\ p \in blocks /\ p \in DOMAIN live
  <2>1. ~Used(End)
    BY HeapBounds, NewHeader, SMT DEF Tiled, Used
  <2>2. p # End
    BY <1>1, <2>1
  <2>. QED
    BY <1>1, <1>2, <2>2 DEF LiveBlocks
<1>4. p + Size(p) \in blocks' \union {End}
  <2>1. \A b \in blocks' : b + Size(b)' \in blocks' \union {End}
    BY <1>2 DEF Tiled
  <2>. QED
    BY <1>2, <1>3, <2>1
<1>5. HeapTypeOK'
  <2>1. p + Size(p) \in Addr
    BY <1>2, <1>4, HeapBounds DEF HeapTypeOK
  <2>2. 0 \in 0..(WordMod - 1)
    BY WordModIs, SMT
  <2>. QED
    BY <1>1, <1>2, <2>1, <2>2 DEF HeapTypeOK
<1>6. FreeIsFree' /\ TakeFits' /\ Request'
  BY <1>1 DEF FreeIsFree, TakeFits, Request
<1>7. ScanRun'
  <2>1. p + Size(p) \in Int
    BY <1>3, BlockFacts, SMT
  <2>2. best' + bsize' = p'
    BY <1>1, <2>1, SMT
  <2>3. \A b \in blocks' : ~(best' <= b /\ b < p')
    <3>. SUFFICES ASSUME NEW b \in blocks' PROVE ~(best' <= b /\ b < p')
      OBVIOUS
    <3>1. b \in Int
      BY <1>2, BlockFacts
    <3>. QED
      BY <1>1, <2>1, <3>1, SMT
  <2>. QED
    BY <1>1, <1>4, <2>2, <2>3 DEF ScanRun
<1>8. Passed'
  <2>1. \E b \in DOMAIN live : b + Size(b)' = best'
    BY <1>1, <1>2, <1>3
  <2>2. ASSUME NEW a \in Addr, a + want <= p + Size(p)
        PROVE  \E b \in DOMAIN live : b < a + want /\ a < b + Size(b)
    <3>1. CASE a + want <= p
      BY <1>1, <3>1, RunTooShort DEF NoRoomBefore
    <3>2. CASE ~(a + want <= p)
      <4>1. 0 < want /\ a \in Int /\ p \in Int /\ Size(p) \in Int
            /\ want \in Int
        BY <1>1, <1>3, WantPositive, Addresses, Locals, BlockFacts
      <4>2. p < a + want /\ a < p + Size(p)
        BY <2>2, <3>2, <4>1, SMT
      <4>. QED
        BY <1>3, <4>2
    <3>. QED
      BY <3>1, <3>2
  <2>3. NoRoomBefore(best)'
    BY <1>1, <1>2, <2>2 DEF NoRoomBefore
  <2>. QED
    BY <1>1, <2>1, <2>3 DEF Passed
<1>9. QED
  BY <1>2, <1>5, <1>6, <1>7, <1>8

(* __compact returns 0.                                                    *)
LEMMA ScanEndInv ==
  ASSUME HeapInv, ScanEnd
  PROVE  HeapInv'
<1>. USE DEF HeapInv
<1>1. /\ pc = "scan" /\ mem[p] = 0 /\ MergeRun /\ free' = NULL /\ pc' = "idle"
      /\ UNCHANGED <<asked, want, p, best, bsize, live>>
  BY DEF ScanEnd, scanVars
<1>2. /\ mem' \in [Addr -> 0..(WordMod - 1)] /\ blocks' \subseteq blocks
      /\ DOMAIN live \subseteq blocks' /\ Tiled' /\ LiveBlocks'
  BY <1>1, MergeKeeps
<1>3. HeapTypeOK'
  BY <1>1, <1>2 DEF HeapTypeOK
<1>4. FreeIsFree' /\ TakeFits' /\ ScanRun' /\ Passed' /\ Request'
  BY <1>1 DEF FreeIsFree, TakeFits, ScanRun, Passed, Request
<1>5. QED
  BY <1>2, <1>3, <1>4

(* The first loop iteration of __compact has nothing behind it.            *)
LEMMA ScanStarts ==
  ASSUME HeapInv, HeapTypeOK', Request', pc' = "scan",
         p' = 0, best' = 0, bsize' = 0, UNCHANGED <<mem, blocks, live>>
  PROVE  ScanRun' /\ Passed'
<1>1. 0 \in blocks' /\ blocks' = blocks
  BY DEF HeapInv, Tiled
<1>2. \A b \in blocks' : ~(0 <= b /\ b < 0)
  BY <1>1, BlockFacts, SMT DEF HeapInv
<1>3. ScanRun'
  BY <1>1, <1>2, SMT DEF ScanRun
<1>4. 0 < want' /\ want' \in Int
  <2>1. CASE asked' = 0
    BY <2>1, WordModIs, SMT DEF Request, NoLimit
  <2>2. CASE asked' # 0
    BY <2>2, RoundedFits, SMT DEF Request
  <2>. QED
    BY <2>1, <2>2
<1>5. \A a \in Addr : ~(a + want' <= 0)
  BY <1>4, Addresses, SMT
<1>6. NoRoomBefore(best)'
  BY <1>5 DEF NoRoomBefore
<1>7. QED
  BY <1>3, <1>6 DEF Passed

(* A call of malloc begins a search for the size it rounds to.              *)
LEMMA mallocInv ==
  ASSUME HeapInv, NEW n \in Requests, malloc(n)
  PROVE  HeapInv'
<1>. USE DEF HeapInv
<1>1. /\ pc = "idle" /\ asked' = n /\ want' = Rounded(n)
      /\ UNCHANGED <<mem, free, blocks, live>>
  BY DEF malloc
<1>2. n \in 1..(WordMod - 6)
  BY HeapAssumption
<1>3. /\ Rounded(n) \in Int /\ 0 <= Rounded(n) /\ Rounded(n) < WordMod
      /\ n \in Int /\ 0 < n /\ n < WordMod
  BY <1>2, RoundedFits, WordModIs, SMT
<1>4. \A a : Size(a)' = Size(a) /\ Used(a)' = Used(a)
  BY <1>1 DEF Size, Used
<1>5. Request'
  BY <1>1, <1>2, <1>3, SMT DEF Request
<1>6. Tiled' /\ LiveBlocks'
  BY <1>1, <1>4 DEF Tiled, LiveBlocks
<1>7. n \in 0..(WordMod - 1) /\ Rounded(n) \in 0..(WordMod - 1)
      /\ 0 \in 0..(WordMod - 1)
  BY <1>3, Words, WordModIs, SMT
<1>8. CASE free = NULL \/ want' > mem[free]
  <2>1. pc' = "scan" /\ p' = 0 /\ best' = 0 /\ bsize' = 0
    BY <1>8 DEF malloc
  <2>2. HeapTypeOK'
    BY <1>1, <1>7, <2>1, HeapBounds DEF HeapTypeOK
  <2>3. ScanRun' /\ Passed'
    BY <1>1, <1>5, <2>1, <2>2, ScanStarts
  <2>. QED
    BY <1>5, <1>6, <2>1, <2>2, <2>3 DEF FreeIsFree, TakeFits
<1>9. CASE ~(free = NULL \/ want' > mem[free])
  <2>1. pc' = "take" /\ UNCHANGED <<p, best, bsize>>
    BY <1>9 DEF malloc
  <2>2. HeapTypeOK'
    BY <1>1, <1>7, <2>1 DEF HeapTypeOK
  <2>3. free \in blocks /\ ~Used(free) /\ free \in Addr
    BY <1>1, <1>9 DEF FreeIsFree, HeapTypeOK
  <2>4. want' <= mem[free]
    BY <1>1, <1>3, <1>9, <2>3, HeaderWord, SMT
  <2>5. FreeIsFree' /\ TakeFits'
    BY <1>1, <1>9, <2>1, <2>3, <2>4 DEF FreeIsFree, TakeFits, Used
  <2>. QED
    BY <1>5, <1>6, <2>1, <2>2, <2>5 DEF ScanRun, Passed
<1>10. QED
  BY <1>8, <1>9

(* A call of __compact begins one with no size that would do.               *)
LEMMA compactInv ==
  ASSUME HeapInv, compact
  PROVE  HeapInv'
<1>. USE DEF HeapInv
<1>1. /\ pc = "idle" /\ asked' = 0 /\ want' = NoLimit
      /\ pc' = "scan" /\ p' = 0 /\ best' = 0 /\ bsize' = 0
      /\ UNCHANGED <<mem, free, blocks, live>>
  BY DEF compact
<1>2. \A a : Size(a)' = Size(a) /\ Used(a)' = Used(a)
  BY <1>1 DEF Size, Used
<1>3. Tiled' /\ LiveBlocks' /\ FreeIsFree' /\ TakeFits' /\ Request'
  BY <1>1, <1>2 DEF Tiled, LiveBlocks, FreeIsFree, TakeFits, Request
<1>4. 0 \in 0..(WordMod - 1) /\ NoLimit \in 0..(WordMod - 1)
  BY WordModIs, SMT DEF NoLimit
<1>5. HeapTypeOK'
  BY <1>1, <1>4, HeapBounds DEF HeapTypeOK
<1>6. QED
  BY <1>1, <1>3, <1>5, ScanStarts

(* free() clears USED: the sizes, and with them the chain, stay.           *)
LEMMA freeInv ==
  ASSUME HeapInv, NEW b \in DOMAIN live, free_(b)
  PROVE  HeapInv'
<1>. USE DEF HeapInv
<1>1. /\ pc = "idle" /\ mem' = [mem EXCEPT ![b] = Size(b)]
      /\ live' = [c \in DOMAIN live \ {b} |-> live[c]]
      /\ UNCHANGED <<free, pc, asked, want, p, best, bsize, blocks>>
  BY DEF free_, scanVars
<1>2. b \in blocks /\ b \in Addr /\ b # End /\ End \in Addr
      /\ blocks \subseteq Addr /\ mem \in [Addr -> 0..(WordMod - 1)]
  BY HeapBounds DEF HeapTypeOK, Tiled
<1>3. Size(b) \in Int /\ 0 <= Size(b) /\ Size(b) % 2 = 0 /\ Size(b) < WordMod
  BY <1>2, HeaderWord, WordModIs, SMT
<1>4. \A a \in Addr : mem'[a] = IF a = b THEN Size(b) ELSE mem[a]
  BY <1>1, <1>2
<1>5. \A a \in Addr : a # b => Used(a)' = Used(a) /\ Size(a)' = Size(a)
  BY <1>4 DEF Used, Size
<1>6. ~Used(b)' /\ Size(b)' = Size(b)
  <2>. DEFINE s == Size(b)
  <2>1. s % 2 # 1 /\ s - (s % 2) = s
    BY <1>3, NewHeader
  <2>2. mem'[b] = s
    BY <1>2, <1>4
  <2>3. ~Used(b)'
    BY <2>1, <2>2 DEF Used
  <2>4. Size(b)' = mem'[b] - (mem'[b] % 2)
    BY DEF Size
  <2>. QED
    BY <2>1, <2>2, <2>3, <2>4
<1>7. HeapTypeOK'
  <2>1. mem' \in [Addr -> 0..(WordMod - 1)]
    BY <1>1, <1>2, <1>3, Words
  <2>2. DOMAIN live' \subseteq blocks' /\ live' \in [DOMAIN live' -> 1..(WordMod - 1)]
    BY <1>1 DEF HeapTypeOK
  <2>. QED
    BY <1>1, <2>1, <2>2 DEF HeapTypeOK
<1>8. Tiled'
  <2>1. \A a \in blocks : Size(a)' = Size(a)
    BY <1>2, <1>5, <1>6
  <2>2. mem'[End] = 0
    BY <1>2, <1>4 DEF Tiled
  <2>. QED
    BY <1>1, <2>1, <2>2 DEF Tiled
<1>9. LiveBlocks'
  <2>1. \A c \in blocks : Used(c)' <=> c \in DOMAIN live'
    BY <1>1, <1>2, <1>5, <1>6 DEF LiveBlocks
  <2>2. \A c \in DOMAIN live' : unit + live'[c] <= Size(c)'
    BY <1>1, <1>2, <1>5, <1>6 DEF LiveBlocks, HeapTypeOK
  <2>. QED
    BY <1>1, <2>1, <2>2 DEF LiveBlocks
<1>10. FreeIsFree'
  <2>1. \A a \in Addr : ~Used(a) => ~(mem'[a] % 2 = 1)
    BY <1>5, <1>6 DEF Used
  <2>. QED
    BY <1>1, <1>2, <2>1 DEF FreeIsFree, Used
<1>11. TakeFits' /\ ScanRun' /\ Passed' /\ Request'
  BY <1>1 DEF TakeFits, ScanRun, Passed, Request
<1>12. QED
  BY <1>7, <1>8, <1>9, <1>10, <1>11

(* The program's words are no headers.                                     *)
LEMMA PayloadApart ==
  ASSUME HeapInv, NEW b \in DOMAIN live, NEW a \in Payload(b)
  PROVE  a \in Addr /\ a \notin blocks /\ a # End
<1>. USE DEF HeapInv
<1>1. b \in blocks /\ unit + live[b] <= Size(b) /\ live[b] \in 1..(WordMod - 1)
  BY DEF HeapTypeOK, LiveBlocks
<1>2. a \in Addr /\ b + unit <= a /\ a + 1 < b + unit + live[b]
  BY DEF Payload
<1>3. a \in Int /\ b \in Int /\ Size(b) \in Int /\ live[b] \in Int
      /\ b + Size(b) <= End
  BY <1>1, <1>2, Addresses, BlockFacts, Words, WordModIs, SMT
<1>4. b < a /\ a < b + Size(b)
  BY <1>1, <1>2, <1>3, SMT DEF unit
<1>5. a \notin blocks
  <2>1. \A c \in blocks : c \in Int /\ (b < c => b + Size(b) <= c)
    BY <1>1, BlockFacts
  <2>. QED
    BY <1>3, <1>4, <2>1, SMT
<1>6. a # End
  BY <1>3, <1>4, HeapBounds, SMT
<1>7. QED
  BY <1>2, <1>5, <1>6

(* The words of different blocks are different.                            *)
LEMMA PayloadsApart ==
  ASSUME HeapInv, NEW b \in DOMAIN live, NEW c \in DOMAIN live, b # c,
         NEW a \in Payload(b), NEW d \in Payload(c)
  PROVE  a # d
<1>. USE DEF HeapInv
<1>1. /\ b \in blocks /\ unit + live[b] <= Size(b) /\ live[b] \in Int
      /\ c \in blocks /\ unit + live[c] <= Size(c) /\ live[c] \in Int
  BY DEF HeapTypeOK, LiveBlocks
<1>2. /\ a \in Addr /\ b + unit <= a /\ a + 1 < b + unit + live[b]
      /\ d \in Addr /\ c + unit <= d /\ d + 1 < c + unit + live[c]
  BY DEF Payload
<1>3. /\ a \in Int /\ b \in Int /\ c \in Int /\ d \in Int
      /\ Size(b) \in Int /\ Size(c) \in Int
  BY <1>1, <1>2, Addresses, BlockFacts, Words
<1>4. (b < c => b + Size(b) <= c) /\ (c < b => c + Size(c) <= b)
  BY <1>1, BlockFacts
<1>5. QED
  BY <1>1, <1>2, <1>3, <1>4, SMT DEF unit

(* What a program writes into its blocks touches no header.                 *)
LEMMA UserWriteInv ==
  ASSUME HeapInv, NEW b \in DOMAIN live, UserWrite(b)
  PROVE  HeapInv'
<1>. USE DEF HeapInv
<1>1. PICK a \in Payload(b), w \in Data : mem' = [mem EXCEPT ![a] = w]
  BY DEF UserWrite
<1>2. /\ pc = "idle"
      /\ UNCHANGED <<free, pc, asked, want, p, best, bsize, blocks, live>>
  BY DEF UserWrite, scanVars
<1>3. a \in Addr /\ a \notin blocks /\ a # End
  BY PayloadApart
<1>4. mem \in [Addr -> 0..(WordMod - 1)] /\ blocks \subseteq Addr /\ End \in Addr
  BY HeapBounds DEF HeapTypeOK
<1>5. HeapTypeOK'
  <2>1. mem' \in [Addr -> 0..(WordMod - 1)]
    BY <1>1, <1>4, HeapAssumption
  <2>. QED
    BY <1>2, <2>1 DEF HeapTypeOK
<1>6. mem'[End] = mem[End] /\ \A c \in blocks : mem'[c] = mem[c]
  BY <1>1, <1>3, <1>4
<1>7. \A c \in blocks : Size(c)' = Size(c) /\ Used(c)' = Used(c)
  BY <1>6 DEF Size, Used
<1>8. Tiled'
  BY <1>2, <1>6, <1>7 DEF Tiled
<1>9. LiveBlocks'
  BY <1>2, <1>7 DEF LiveBlocks, HeapTypeOK
<1>10. FreeIsFree'
  BY <1>2, <1>6 DEF FreeIsFree, Used
<1>11. TakeFits' /\ ScanRun' /\ Passed' /\ Request'
  BY <1>2 DEF TakeFits, ScanRun, Passed, Request
<1>12. QED
  BY <1>5, <1>8, <1>9, <1>10, <1>11

(* What malloc knows of the block it takes.                                *)
LEMMA TakeFacts ==
  ASSUME HeapInv, pc = "take"
  PROVE  /\ free \in blocks /\ free \in Addr /\ free \in Int /\ 0 <= free
         /\ ~Used(free) /\ free \notin DOMAIN live /\ free # End
         /\ mem[free] = Size(free) /\ mem[free] \in Int /\ mem[free] % 2 = 0
         /\ free % 2 = 0
         /\ free + mem[free] <= End
         /\ want \in Int /\ 4 <= want /\ want % 2 = 0 /\ want <= mem[free]
         /\ asked \in 1..(WordMod - 1) /\ unit + asked <= want
<1>. USE DEF HeapInv
<1>1. free \in blocks /\ ~Used(free) /\ want <= mem[free]
  BY DEF FreeIsFree, TakeFits
<1>2. free \in Addr /\ free # End
  BY <1>1 DEF HeapTypeOK, Tiled
<1>3. free \notin DOMAIN live
  BY <1>1 DEF LiveBlocks
<1>4. mem[free] = Size(free) /\ mem[free] \in Int
  BY <1>1, <1>2, HeaderWord
<1>5. free \in Int /\ 0 <= free /\ free % 2 = 0 /\ mem[free] % 2 = 0
      /\ free + mem[free] <= End
  BY <1>1, <1>4, BlockFacts
<1>6. asked # 0 /\ asked \in 1..(WordMod - 6) /\ want = Rounded(asked)
  BY DEF Request
<1>7. want \in Int /\ 4 <= want /\ want % 2 = 0 /\ asked + unit <= want
  BY <1>6, RoundedFits
<1>8. asked \in 1..(WordMod - 1) /\ unit + asked = asked + unit
  BY <1>6, WordModIs, SMT DEF unit
<1>9. QED
  BY <1>1, <1>2, <1>3, <1>4, <1>5, <1>7, <1>8

(* The block becomes one in use; what is left over, a free one behind it.  *)
LEMMA TakeInv ==
  ASSUME HeapInv, Take
  PROVE  HeapInv'
<1>. USE DEF HeapInv
<1>. DEFINE m == mem[free]
            f == free
            n == free + want
<1>1. /\ pc = "take" /\ pc' = "idle"
      /\ live' = [b \in DOMAIN live \union {f} |-> IF b = f THEN asked ELSE live[b]]
      /\ UNCHANGED <<asked, want, p, best, bsize>>
  BY DEF Take, scanVars
<1>2. /\ f \in blocks /\ f \in Addr /\ f \in Int /\ 0 <= f
      /\ f \notin DOMAIN live /\ f # End
      /\ m = Size(f) /\ m \in Int /\ m % 2 = 0 /\ f % 2 = 0
      /\ f + m <= End
      /\ want \in Int /\ 4 <= want /\ want % 2 = 0 /\ want <= m
      /\ asked \in 1..(WordMod - 1) /\ unit + asked <= want
  BY <1>1, TakeFacts
<1>3. blocks \subseteq Addr /\ mem \in [Addr -> 0..(WordMod - 1)] /\ End \in Addr
      /\ mem[End] = 0 /\ 0 \in blocks /\ End \notin blocks
      /\ f + m \in blocks \union {End}
      /\ \A c \in blocks : c \in Int /\ (f < c => f + m <= c)
  BY <1>2, HeapBounds, BlockFacts DEF HeapTypeOK, Tiled
<1>4. /\ DOMAIN live' = DOMAIN live \union {f} /\ live'[f] = asked
      /\ live' \in [DOMAIN live' -> 1..(WordMod - 1)]
      /\ \A b \in DOMAIN live : live'[b] = live[b]
  BY <1>1, <1>2 DEF HeapTypeOK
<1>. SUFFICES HeapTypeOK' /\ Tiled' /\ LiveBlocks' /\ FreeIsFree'
  BY <1>1 DEF TakeFits, ScanRun, Passed, Request
<1>. HIDE DEF n
<1>5. CASE m >= want + unit
  <2>1. /\ mem' = [mem EXCEPT ![n] = m - want, ![f] = want + 1]
        /\ free' = n /\ blocks' = blocks \union {n}
    BY <1>5 DEF Take, n
  <2>2. n \in Int /\ n = f + want /\ f < n /\ n < f + m /\ n <= End /\ 0 <= n
        /\ m - want \in Int /\ 2 <= m - want
    BY <1>2, <1>5, HeapBounds, SMT DEF n, unit
  <2>3. n \in Addr /\ n # f /\ n # End /\ n # NULL
    <3>1. n % 2 = 0
      BY <1>2, <2>2, Even
    <3>. QED
      BY <1>2, <2>2, <3>1, Addresses, HeapBounds, SMT DEF NULL
  <2>4. n \notin blocks
    <3>1. n \in blocks => f + m <= n
      BY <1>3, <2>2
    <3>. QED
      BY <1>2, <2>2, <3>1, SMT
  <2>5. \A a \in Addr : mem'[a] = IF a = f THEN want + 1
                                ELSE IF a = n THEN m - want ELSE mem[a]
    BY <1>2, <1>3, <2>1, <2>3
  <2>6. \A a \in blocks : a # f => Size(a)' = Size(a) /\ Used(a)' = Used(a)
    BY <1>3, <2>4, <2>5 DEF Size, Used
  <2>7. (mem'[f] % 2) = 1 /\ mem'[f] - (mem'[f] % 2) = want
    BY <1>2, <2>5, NewHeader
  <2>8. (mem'[n] % 2) # 1 /\ mem'[n] - (mem'[n] % 2) = m - want
    <3>1. (m - want) % 2 = 0
      BY <1>2, Even
    <3>2. mem'[n] = m - want
      BY <2>3, <2>5
    <3>3. 0 <= m - want
      BY <2>2, SMT
    <3>. QED
      BY <2>2, <3>1, <3>2, <3>3, NewHeader
  <2>9. \A a \in {f} : Size(a)' = want /\ Used(a)'
    BY <2>7 DEF Size, Used
  <2>10. \A a \in {n} : Size(a)' = m - want /\ ~Used(a)'
    BY <2>8 DEF Size, Used
  <2>11. HeapTypeOK'
    <3>1. m - want \in 0..(WordMod - 1) /\ want + 1 \in 0..(WordMod - 1)
      BY <1>2, <2>2, HeapBounds, WordModIs, SMT
    <3>2. mem' \in [Addr -> 0..(WordMod - 1)]
      BY <1>3, <2>1, <3>1
    <3>. QED
      BY <1>1, <1>2, <1>3, <1>4, <2>1, <2>3, <3>2 DEF HeapTypeOK
  <2>12. Tiled'
    <3>1. 0 \in blocks' /\ End \notin blocks' /\ mem'[End] = 0
      BY <1>2, <1>3, <2>1, <2>3, <2>5
    <3>2. ASSUME NEW b \in blocks'
          PROVE  /\ Size(b)' >= 2
                 /\ b + Size(b)' \in blocks' \union {End}
                 /\ \A c \in blocks' : b < c => b + Size(b)' <= c
      <4>1. CASE b = f
        BY <1>2, <1>3, <2>1, <2>2, <2>9, <4>1, SMT
      <4>2. CASE b = n
        <5>1. Size(b)' = m - want /\ b + (m - want) = f + m
          BY <1>2, <2>2, <2>10, <4>2, SMT
        <5>. QED
          BY <1>2, <1>3, <2>1, <2>2, <4>2, <5>1, SMT
      <4>3. CASE b \in blocks /\ b # f
        <5>1. Size(b)' = Size(b) /\ 2 <= Size(b) /\ Size(b) \in Int /\ b \in Int
              /\ b + Size(b) \in blocks \union {End}
              /\ \A c \in blocks : b < c => b + Size(b) <= c
          BY <2>6, <4>3, BlockFacts
        <5>2. b < n => b + Size(b) <= n
          BY <1>2, <1>3, <2>2, <4>3, <5>1, SMT
        <5>3. Size(b) >= 2
          BY <5>1, SMT
        <5>. QED
          BY <2>1, <5>1, <5>2, <5>3
      <4>. QED
        BY <2>1, <4>1, <4>2, <4>3
    <3>. QED
      BY <3>1, <3>2 DEF Tiled, unit
  <2>13. LiveBlocks'
    <3>1. \A b \in blocks' : Used(b)' <=> b \in DOMAIN live'
      <4>1. n \notin DOMAIN live'
        BY <1>4, <2>3, <2>4 DEF HeapTypeOK
      <4>2. \A b \in blocks : b # f => (Used(b)' <=> b \in DOMAIN live')
        BY <1>4, <2>6 DEF LiveBlocks
      <4>. QED
        BY <1>4, <2>1, <2>9, <2>10, <4>1, <4>2
    <3>2. ASSUME NEW b \in DOMAIN live' PROVE unit + live'[b] <= Size(b)'
      <4>1. CASE b = f
        BY <1>2, <1>4, <2>9, <4>1
      <4>2. CASE b # f
        BY <1>4, <2>6, <4>2 DEF LiveBlocks, HeapTypeOK
      <4>. QED
        BY <4>1, <4>2
    <3>. QED
      BY <3>1, <3>2 DEF LiveBlocks
  <2>14. FreeIsFree'
    BY <2>1, <2>8 DEF FreeIsFree, Used
  <2>. QED
    BY <2>11, <2>12, <2>13, <2>14
<1>6. CASE ~(m >= want + unit)
  <2>1. mem' = [mem EXCEPT ![f] = m + 1] /\ free' = NULL /\ blocks' = blocks
    BY <1>6 DEF Take
  <2>2. \A a \in Addr : mem'[a] = IF a = f THEN m + 1 ELSE mem[a]
    BY <1>3, <2>1
  <2>3. \A a \in Addr : a # f => Size(a)' = Size(a) /\ Used(a)' = Used(a)
    BY <2>2 DEF Size, Used
  <2>4. (mem'[f] % 2) = 1 /\ mem'[f] - (mem'[f] % 2) = m
    <3>1. 0 <= m
      BY <1>2, SMT
    <3>. QED
      BY <1>2, <2>2, <3>1, NewHeader
  <2>5. \A a \in {f} : Size(a)' = Size(a) /\ Used(a)'
    BY <1>2, <2>4 DEF Size, Used
  <2>6. HeapTypeOK'
    <3>1. m + 1 \in 0..(WordMod - 1)
      BY <1>2, HeapBounds, WordModIs, SMT
    <3>2. mem' \in [Addr -> 0..(WordMod - 1)]
      BY <1>3, <2>1, <3>1
    <3>. QED
      BY <1>1, <1>2, <1>3, <1>4, <2>1, <3>2 DEF HeapTypeOK
  <2>7. \A b \in blocks : Size(b)' = Size(b)
    BY <1>3, <2>3, <2>5
  <2>8. Tiled'
    <3>1. mem'[End] = 0
      BY <1>2, <1>3, <2>2
    <3>. QED
      BY <2>1, <2>7, <3>1 DEF Tiled
  <2>9. LiveBlocks'
    <3>1. \A b \in blocks' : Used(b)' <=> b \in DOMAIN live'
      BY <1>3, <1>4, <2>1, <2>3, <2>5 DEF LiveBlocks
    <3>2. ASSUME NEW b \in DOMAIN live' PROVE unit + live'[b] <= Size(b)'
      <4>1. CASE b = f
        <5>1. unit + asked <= m
          BY <1>2, SMT DEF unit
        <5>. QED
          BY <1>2, <1>4, <2>7, <4>1, <5>1
      <4>2. CASE b # f
        BY <1>4, <2>7, <4>2 DEF LiveBlocks, HeapTypeOK
      <4>. QED
        BY <4>1, <4>2
    <3>. QED
      BY <3>1, <3>2 DEF LiveBlocks
  <2>. QED
    BY <2>1, <2>6, <2>8, <2>9 DEF FreeIsFree
<1>7. QED
  BY <1>5, <1>6

-----------------------------------------------------------------------------
(* Every step keeps the invariant.                                         *)
LEMMA StepInv == HeapInv /\ [Next]_vars => HeapInv'
<1>. SUFFICES ASSUME HeapInv, [Next]_vars PROVE HeapInv'
  OBVIOUS
<1>1. ASSUME NEW n \in Requests, malloc(n) PROVE HeapInv'
  BY <1>1, mallocInv
<1>2. CASE compact
  BY <1>2, compactInv
<1>3. CASE ScanFree
  BY <1>3, ScanFreeInv
<1>4. CASE ScanFound
  BY <1>4, ScanFoundInv
<1>5. CASE ScanUsed
  BY <1>5, ScanUsedInv
<1>6. CASE ScanEnd
  BY <1>6, ScanEndInv
<1>7. CASE Take
  BY <1>7, TakeInv
<1>8. ASSUME NEW b \in DOMAIN live, free_(b) PROVE HeapInv'
  BY <1>8, freeInv
<1>9. ASSUME NEW b \in DOMAIN live, UserWrite(b) PROVE HeapInv'
  BY <1>9, UserWriteInv
<1>10. CASE UNCHANGED vars
  BY <1>10 DEF vars, HeapInv, HeapTypeOK, Tiled, LiveBlocks, FreeIsFree,
     TakeFits, ScanRun, Passed, NoRoomBefore, Request, Size, Used
<1>11. QED
  BY <1>1, <1>2, <1>3, <1>4, <1>5, <1>6, <1>7, <1>8, <1>9, <1>10
     DEF Next, Step, Scan

(* The chain of headers tiles the heap, agrees with what the program owns  *)
(* and with what __compact remembers, in every reachable state: for every  *)
(* heap length, every set of requests and all data the program writes.     *)
THEOREM HeapCorrect == Spec => []HeapInv
<1>1. HeapInv /\ [Next]_vars => HeapInv'
  BY StepInv
<1>2. QED
  BY <1>1, InitInv, PTL DEF Spec

(* The variables keep their types: no header leaves 16 bits and no pointer *)
(* of malloc.c leaves the heap.                                            *)
THEOREM HeapTypes == Spec => []HeapTypeOK
<1>1. HeapInv => HeapTypeOK
  BY DEF HeapInv
<1>2. QED
  BY <1>1, HeapCorrect, PTL

(* No two blocks that malloc returned and free did not get back overlap.   *)
THEOREM BlocksDisjoint == Spec => []NoOverlap
<1>1. HeapInv => NoOverlap
  <2>. SUFFICES ASSUME HeapInv, NEW b \in DOMAIN live
                PROVE  /\ b + unit + live[b] <= End
                       /\ \A c \in DOMAIN live : b < c => b + unit + live[b] <= c
    BY DEF NoOverlap
  <2>1. /\ HeapTypeOK /\ Tiled /\ DOMAIN live \subseteq blocks
        /\ unit + live[b] <= Size(b) /\ live[b] \in 1..(WordMod - 1)
    BY DEF HeapInv, HeapTypeOK, LiveBlocks
  <2>2. b \in Int /\ Size(b) \in Int /\ b + Size(b) <= End /\ live[b] \in Int
    BY <2>1, BlockFacts, Words
  <2>3. /\ b + unit + live[b] <= b + Size(b)
        /\ b + unit + live[b] \in Int
    BY <2>1, <2>2, SMT DEF unit
  <2>4. \A c \in DOMAIN live : c \in Int /\ (b < c => b + Size(b) <= c)
    BY <2>1, BlockFacts
  <2>. QED
    BY <2>2, <2>3, <2>4, HeapBounds, SMT
<1>2. QED
  BY <1>1, HeapCorrect, PTL

(* While the program owns a block, its words change by its own writes to   *)
(* that block only: not by the merging, splitting and freeing of blocks,   *)
(* and not by its writes to other blocks.                                  *)
THEOREM PayloadUntouched == Spec => ContentsKept
<1>1. HeapInv /\ [Next]_vars =>
        [\A b \in DOMAIN live \intersect DOMAIN live' :
           UserWrite(b) \/ \A a \in Payload(b) : mem'[a] = mem[a]]_vars
  <2>. SUFFICES ASSUME HeapInv, Next,
                       NEW b \in DOMAIN live, b \in DOMAIN live', ~UserWrite(b),
                       NEW a \in Payload(b)
                PROVE  mem'[a] = mem[a]
    OBVIOUS
  <2>1. /\ HeapTypeOK /\ Tiled /\ a \in Addr /\ a \notin blocks /\ a # End
        /\ mem \in [Addr -> 0..(WordMod - 1)] /\ b \in blocks
    BY PayloadApart DEF HeapInv, HeapTypeOK
  <2>2. CASE ScanFree
    BY <2>2 DEF ScanFree
  <2>3. CASE MergeRun /\ pc = "scan"
    <3>1. CASE bsize = 0
      BY <2>3, <3>1 DEF MergeRun
    <3>2. CASE bsize # 0
      <4>1. best # a
        <5>1. best + bsize = p /\ best \in blocks \union {End}
          BY <2>3 DEF HeapInv, ScanRun
        <5>2. best # End
          BY <2>1, <3>2, <5>1, Locals, SMT
        <5>. QED
          BY <2>1, <5>1, <5>2
      <4>. QED
        BY <2>1, <2>3, <3>2, <4>1 DEF MergeRun
    <3>. QED
      BY <3>1, <3>2
  <2>4. CASE Take
    <3>1. pc = "take"
      BY <2>4 DEF Take
    <3>2. /\ free \in blocks /\ free \in Addr /\ free \in Int /\ free # b
          /\ mem[free] = Size(free) /\ mem[free] \in Int
          /\ want \in Int /\ 4 <= want /\ want <= mem[free]
      BY <3>1, TakeFacts
    <3>3. a # free
      BY <2>1, <3>2
    <3>4. ASSUME mem[free] >= want + unit PROVE a # free + want
      <4>1. free + want \in Int /\ free < free + want
            /\ free + want < free + Size(free)
        BY <3>2, <3>4, SMT DEF unit
      <4>2. a \in Int /\ b \in Int /\ Size(b) \in Int /\ live[b] \in Int
            /\ b + unit <= a /\ a + 1 < b + unit + live[b]
            /\ unit + live[b] <= Size(b)
        BY <2>1, BlockFacts, Addresses, Words
           DEF Payload, HeapInv, LiveBlocks, HeapTypeOK
      <4>3. b < a /\ a < b + Size(b)
        BY <4>2, SMT DEF unit
      <4>4. (b < free => b + Size(b) <= free)
            /\ (free < b => free + Size(free) <= b)
        BY <2>1, <3>2, BlockFacts
      <4>. QED
        BY <3>2, <4>1, <4>2, <4>3, <4>4, SMT
    <3>5. CASE mem[free] >= want + unit
      BY <2>1, <2>4, <3>3, <3>4, <3>5 DEF Take
    <3>6. CASE ~(mem[free] >= want + unit)
      BY <2>1, <2>4, <3>3, <3>6 DEF Take
    <3>. QED
      BY <3>5, <3>6
  <2>5. CASE \E c \in DOMAIN live : free_(c)
    <3>1. PICK c \in DOMAIN live : free_(c)
      BY <2>5
    <3>2. c \in blocks /\ mem' = [mem EXCEPT ![c] = Size(c)]
      BY <2>1, <3>1 DEF free_, HeapTypeOK
    <3>. QED
      BY <2>1, <3>2
  <2>6. CASE \E c \in DOMAIN live : UserWrite(c)
    <3>1. PICK c \in DOMAIN live : UserWrite(c)
      BY <2>6
    <3>2. PICK d \in Payload(c), w \in Data : mem' = [mem EXCEPT ![d] = w]
      BY <3>1 DEF UserWrite
    <3>3. a # d
      BY <3>1, PayloadsApart
    <3>. QED
      BY <2>1, <3>2, <3>3
  <2>. QED
    BY <2>2, <2>3, <2>4, <2>5, <2>6 DEF Next, malloc, compact, Step, Scan,
       ScanFound, ScanUsed, ScanEnd
<1>2. QED
  BY <1>1, HeapCorrect, PTL DEF Spec, ContentsKept

(* malloc returns 0 only if no stretch of free memory, in one block or in  *)
(* several that were never merged, is long enough.                         *)
THEOREM FailureMeansFull == Spec => FailsOnlyWhenFull
<1>1. HeapInv /\ [Next]_vars => [Fails => NoRoomBefore(End)]_vars
  <2>. SUFFICES ASSUME HeapInv, Next, Fails PROVE NoRoomBefore(End)
    OBVIOUS
  <2>1. pc = "scan" /\ pc' = "idle" /\ asked # 0
    BY DEF Fails
  <2>2. ScanEnd
    BY <2>1 DEF Next, Step, Scan, malloc, compact, ScanFree, ScanFound,
       ScanUsed, Take, free_, UserWrite
  <2>3. mem[p] = 0 /\ ~RunFits
    BY <2>2 DEF ScanEnd
  <2>4. p = End
    <3>1. p \in blocks \union {End} /\ p \in Addr /\ HeapTypeOK /\ Tiled
      BY <2>1 DEF HeapInv, ScanRun, HeapTypeOK
    <3>2. Size(p) <= 0
      BY <2>3, <3>1, HeaderWord
    <3>3. p \in blocks => 2 <= Size(p) /\ Size(p) \in Int
      BY <3>1, BlockFacts
    <3>. QED
      BY <3>1, <3>2, <3>3, SMT
  <2>. QED
    BY <2>1, <2>3, <2>4, RunTooShort
<1>2. QED
  BY <1>1, HeapCorrect, PTL DEF Spec, FailsOnlyWhenFull
=============================================================================
