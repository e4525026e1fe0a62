-------------------------------- MODULE Heap --------------------------------
(***************************************************************************)
(* The heap of malloc.c: blocks that follow one another in one array, each *)
(* with a header word that holds its size and, in the lowest bit, whether  *)
(* it is in use; a header of 0 ends the heap.  Adjacent free blocks are    *)
(* merged by __compact only, when malloc finds no room otherwise or the    *)
(* program asks for it.  The loop of __compact is one step per iteration.  *)
(*                                                                         *)
(* Addresses are offsets from the start of the heap.  A word of memory is  *)
(* a header or data of the program: nothing but the chain of sizes tells   *)
(* one from the other, and old headers stay in memory as data.             *)
(***************************************************************************)
EXTENDS Integers

CONSTANTS
  HeapLen,    \* bytes given to __malloc_init, rounded to a multiple of 4
  Requests,   \* sizes the program asks malloc for
  Data        \* words the program writes to its blocks

WordMod == 65536

ASSUME HeapAssumption ==
  /\ HeapLen \in Nat /\ HeapLen % 4 = 0 /\ 8 <= HeapLen /\ HeapLen < WordMod
  /\ Requests \subseteq 1..(WordMod - 6)
  /\ Data \subseteq 0..(WordMod - 1)

unit == 2                      \* sizeof(unit)
End == HeapLen - unit          \* where __malloc_init puts the last header
Addr == {a \in 0..End : a % 2 = 0}
NULL == -1
NoLimit == WordMod - 1         \* the size compact() looks for

VARIABLES
  mem,      \* mem[a]: the word at address a
  free,     \* msys.free: where malloc looks first, or NULL
  pc, asked, want, p, best, bsize,
            \* the call in progress, its request and __compact's locals
  blocks,   \* history: the addresses that are headers of the chain
  live      \* history: live[b], the bytes the program may use in block b

vars == <<mem, free, pc, asked, want, p, best, bsize, blocks, live>>
scanVars == <<asked, want, p, best, bsize>>

HeapTypeOK ==
  /\ mem \in [Addr -> 0..(WordMod - 1)]
  /\ free \in Addr \union {NULL}
  /\ pc \in {"idle", "scan", "take"}
  /\ asked \in 0..(WordMod - 1)
  /\ want \in 0..(WordMod - 1)
  /\ p \in Addr
  /\ best \in Addr
  /\ bsize \in 0..(WordMod - 1)
  /\ blocks \subseteq Addr
  /\ DOMAIN live \subseteq blocks
  /\ live \in [DOMAIN live -> 1..(WordMod - 1)]

(* __malloc_init: one free block and the end.                              *)
Init ==
  /\ mem = [a \in Addr |-> IF a = 0 THEN HeapLen - unit ELSE 0]
  /\ free = 0
  /\ pc = "idle"
  /\ asked = 0 /\ want = 0
  /\ p = 0 /\ best = 0 /\ bsize = 0
  /\ blocks = {0}
  /\ live = [b \in {} |-> 1]

Used(a) == mem[a] % 2 = 1
Size(a) == mem[a] - (mem[a] % 2)          \* size & ~USED

(* Faulty: no room for the header.                                         *)
FaultyRounded(n) == (((n + 3) % WordMod) \div 4) * 4

(* Bytes taken from the heap for a request of n bytes, in 16 bits.         *)
Rounded(n) == (((n + 3 + unit) % WordMod) \div 4) * 4

-----------------------------------------------------------------------------
malloc(n) ==
  /\ pc = "idle"
  /\ asked' = n
  /\ want' = Rounded(n)
  /\ IF free = NULL \/ want' > mem[free]
       THEN pc' = "scan" /\ p' = 0 /\ best' = 0 /\ bsize' = 0
       ELSE pc' = "take" /\ UNCHANGED <<p, best, bsize>>
  /\ UNCHANGED <<mem, free, blocks, live>>

compact ==
  /\ pc = "idle"
  /\ asked' = 0
  /\ want' = NoLimit
  /\ pc' = "scan" /\ p' = 0 /\ best' = 0 /\ bsize' = 0
  /\ UNCHANGED <<mem, free, blocks, live>>

(* __compact at a free block: add it to the run that starts at best.       *)
ScanFree ==
  /\ pc = "scan"
  /\ mem[p] # 0 /\ ~Used(p)
  /\ bsize' = bsize + mem[p]
  /\ p' = p + mem[p]
  /\ UNCHANGED <<mem, free, pc, asked, want, best, blocks, live>>

(* best->size = bsize, if there was a run.                                 *)
MergeRun ==
  IF bsize # 0
    THEN /\ mem' = [mem EXCEPT ![best] = bsize]
         /\ blocks' = {b \in blocks : ~(best < b /\ b < best + bsize)}
    ELSE UNCHANGED <<mem, blocks>>

(* Faulty: a run of exactly the size is passed over.                       *)
FaultyRunFits == bsize # 0 /\ bsize > want

RunFits == bsize # 0 /\ bsize >= want

(* return best: malloc takes it, compact only remembers it.                *)
ScanFound ==
  /\ pc = "scan"
  /\ mem[p] = 0 \/ Used(p)
  /\ RunFits
  /\ MergeRun
  /\ free' = best
  /\ pc' = IF asked = 0 THEN "idle" ELSE "take"
  /\ UNCHANGED <<scanVars, live>>

(* Faulty variants: the run goes on across a block in use; USED is not     *)
(* taken off the size; the loop does not advance.                          *)
FaultyScanUsedRun ==
  /\ pc = "scan"
  /\ Used(p)
  /\ ~RunFits
  /\ MergeRun
  /\ p' = p + Size(p)
  /\ best' = p + Size(p)
  /\ UNCHANGED <<free, pc, asked, want, bsize, live>>

FaultyScanUsedSize ==
  /\ pc = "scan"
  /\ Used(p)
  /\ ~RunFits
  /\ MergeRun
  /\ bsize' = 0
  /\ p' = p + mem[p]
  /\ best' = p + mem[p]
  /\ UNCHANGED <<free, pc, asked, want, live>>

FaultyScanUsedStuck ==
  /\ pc = "scan"
  /\ Used(p)
  /\ ~RunFits
  /\ MergeRun
  /\ bsize' = 0
  /\ best' = p + Size(p)
  /\ UNCHANGED <<free, pc, asked, want, p, live>>

ScanUsed ==
  /\ pc = "scan"
  /\ Used(p)
  /\ ~RunFits
  /\ MergeRun
  /\ bsize' = 0
  /\ p' = p + Size(p)
  /\ best' = p + Size(p)
  /\ UNCHANGED <<free, pc, asked, want, live>>

(* return 0: malloc fails, there is no block to look at first.             *)
ScanEnd ==
  /\ pc = "scan"
  /\ mem[p] = 0
  /\ ~RunFits
  /\ MergeRun
  /\ free' = NULL
  /\ pc' = "idle"
  /\ UNCHANGED <<scanVars, live>>

(* The rest of malloc: split the block, or take all of it.                 *)
Take ==
  /\ pc = "take"
  /\ pc' = "idle"
  /\ IF mem[free] >= want + unit
       THEN /\ mem' = [mem EXCEPT ![free + want] = mem[free] - want,
                                  ![free] = want + 1]
            /\ free' = free + want
            /\ blocks' = blocks \union {free + want}
       ELSE /\ mem' = [mem EXCEPT ![free] = mem[free] + 1]
            /\ free' = NULL
            /\ UNCHANGED blocks
  /\ live' = [b \in DOMAIN live \union {free} |->
                IF b = free THEN asked ELSE live[b]]
  /\ UNCHANGED scanVars

(* Faulty: the block that follows is merged, whether in use or not.        *)
FaultyFree(b) ==
  /\ pc = "idle"
  /\ mem' = [mem EXCEPT ![b] = Size(b) + Size(b + Size(b))]
  /\ live' = [c \in DOMAIN live \ {b} |-> live[c]]
  /\ UNCHANGED <<free, pc, scanVars, blocks>>

(* free(ptr), of a block malloc returned and the program still owns.       *)
free_(b) ==
  /\ pc = "idle"
  /\ mem' = [mem EXCEPT ![b] = Size(b)]
  /\ live' = [c \in DOMAIN live \ {b} |-> live[c]]
  /\ UNCHANGED <<free, pc, scanVars, blocks>>

(* The words of a block the program may use.                               *)
Payload(b) == {a \in Addr : b + unit <= a /\ a + 1 < b + unit + live[b]}

(* The program writes to memory it was given.                              *)
UserWrite(b) ==
  /\ pc = "idle"
  /\ \E a \in Payload(b), w \in Data : mem' = [mem EXCEPT ![a] = w]
  /\ UNCHANGED <<free, pc, scanVars, blocks, live>>

Scan == ScanFree \/ ScanFound \/ ScanUsed \/ ScanEnd
Step == Scan \/ Take

Next ==
  \/ \E n \in Requests : malloc(n)
  \/ compact
  \/ Step
  \/ \E b \in DOMAIN live : free_(b)
  \/ \E b \in DOMAIN live : UserWrite(b)

Spec == Init /\ [][Next]_vars /\ WF_vars(Step)

-----------------------------------------------------------------------------
(* The chain of blocks tiles the heap: from every header, the size leads   *)
(* to the next header or to the end, and to no place before.               *)
Tiled ==
  /\ 0 \in blocks
  /\ End \notin blocks
  /\ mem[End] = 0
  /\ \A b \in blocks :
       /\ Size(b) >= unit
       /\ b + Size(b) \in blocks \union {End}
       /\ \A c \in blocks : b < c => b + Size(b) <= c

(* The blocks in use are the ones the program owns, and they are large     *)
(* enough for what it asked for.                                           *)
LiveBlocks ==
  /\ \A b \in blocks : Used(b) <=> b \in DOMAIN live
  /\ \A b \in DOMAIN live : unit + live[b] <= Size(b)

(* msys.free is a free block.                                              *)
FreeIsFree ==
  pc # "scan" /\ free # NULL => free \in blocks /\ ~Used(free)

TakeFits == pc = "take" => free # NULL /\ want <= mem[free]

(* __compact has passed the blocks before p, those from best on are free.  *)
ScanRun ==
  pc = "scan" =>
    /\ p \in blocks \union {End}
    /\ best \in blocks \union {End}
    /\ best + bsize = p
    /\ \A b \in blocks : best <= b /\ b < p => ~Used(b)

(* What __compact has passed: the run it is in begins at the start of the  *)
(* heap or after a block in use, and before it there is no room.           *)
NoRoomBefore(limit) ==
  \A a \in Addr : a + want <= limit =>
    \E b \in DOMAIN live : b < a + want /\ a < b + Size(b)

Passed ==
  pc = "scan" =>
    /\ best = 0 \/ \E b \in DOMAIN live : b + Size(b) = best
    /\ NoRoomBefore(best)

(* The request in progress.                                                *)
Request ==
  pc # "idle" =>
    IF asked = 0 THEN pc = "scan" /\ want = NoLimit
                 ELSE asked \in 1..(WordMod - 6) /\ want = Rounded(asked)

(* What makes the allocator work; it is inductive.                         *)
HeapInv ==
  /\ HeapTypeOK /\ Tiled /\ LiveBlocks /\ FreeIsFree /\ TakeFits
  /\ ScanRun /\ Passed /\ Request

(* No two blocks the program owns overlap, headers included, and all lie   *)
(* within the heap.                                                        *)
NoOverlap ==
  \A b \in DOMAIN live :
    /\ b + unit + live[b] <= End
    /\ \A c \in DOMAIN live :
         b < c => b + unit + live[b] <= c

(* While the program owns a block, nothing but its own writes to that very *)
(* block changes the words it was given: no step of malloc, free and       *)
(* compact does, nor a write to another block.                             *)
ContentsKept ==
  [][\A b \in DOMAIN live \intersect DOMAIN live' :
       UserWrite(b) \/ \A a \in Payload(b) : mem'[a] = mem[a]]_vars

(* malloc fails only if no stretch of the heap outside the blocks in use,  *)
(* merged or not, is long enough.                                          *)
Fails == pc = "scan" /\ asked # 0 /\ pc' = "idle"
FailsOnlyWhenFull == [][Fails => NoRoomBefore(End)]_vars

(* malloc and compact return.                                              *)
CallsEnd == pc # "idle" ~> pc = "idle"
=============================================================================
