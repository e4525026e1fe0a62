--------------------------------- MODULE Ppu ---------------------------------
(* DMA channel 0 and the memories of the picture processor, as the library  *)
(* uses them.  This is hardware: VRAM, CGRAM and OAM are written through an *)
(* address register that advances, and channel 0 is a set of registers that *)
(* every copy, in the program and in the VBlank handler, sets up one store  *)
(* at a time before it writes MDMAEN.  A copy is the sequence of its        *)
(* stores, <<register, value>>.  The memories take words in VBlank, when    *)
(* left is how many of them can still come, and whenever the screen is off. *)
EXTENDS Integers, Sequences

CONSTANTS
  VramLen,   \* words of VRAM
  CgramLen,  \* words of CGRAM
  NSprites,  \* entries of OAM, and of its copy oamMemory
  Garbage    \* what the channel reads outside the buffer it was pointed at

ASSUME PpuAssumption ==
  /\ VramLen \in Nat \ {0}
  /\ CgramLen \in Nat \ {0}
  /\ NSprites \in Nat \ {0}

(* The CPU's bus: mem maps the name of a buffer to its cells.  A1T is an    *)
(* offset in a buffer and A1B the buffer's bank: they are stored one after  *)
(* the other, and only together they name a cell.                           *)
Fetch(hw, mem, k) ==
  IF hw.a1t.src = hw.a1b /\ hw.a1t.off + k < Len(mem[hw.a1b])
  THEN mem[hw.a1b][hw.a1t.off + k + 1]
  ELSE Garbage

(* The cells the channel moves.  A count of 0 stands for 65536, which is    *)
(* more than any of the memories holds.                                     *)
Count(hw, size) == IF hw.das = 0 THEN size ELSE hw.das

(* Of n words the memories take those that come before the picture, or all  *)
(* if the screen is off.  The others are lost.                              *)
Taken(hw, n) == IF hw.inidisp = 0 \/ n <= hw.left THEN n ELSE hw.left

(* What is left of the VBlank when n more words have come.                  *)
Left(hw, n) == IF n <= hw.left THEN hw.left - n ELSE 0

(* The words taken replace the cells of a memory of this size, from address *)
(* at on.                                                                   *)
Fill(hw, mem, memory, size, at) ==
  [a \in 0 .. size - 1 |->
     LET k == (a - at) % size
     IN  IF k < Taken(hw, Count(hw, size)) THEN Fetch(hw, mem, k) ELSE memory[a]]

(* The store to MDMAEN: the copy, then the address registers and the source *)
(* have advanced and the count is used up.  Mode 1 writes whole words of    *)
(* VRAM; in mode 0 only the low byte port is written, and VMADD, which      *)
(* advances with the high byte, stays.                                      *)
Transfer(hw, mem) ==
  LET done == [hw EXCEPT !.das = 0, !.a1t.off = @ + hw.das]
  IN  CASE hw.bbad = "VMDATA" /\ hw.dmap = 1 ->
             [done EXCEPT !.vram = Fill(hw, mem, @, VramLen, hw.vmadd),
                          !.vmadd = (@ + Count(hw, VramLen)) % VramLen,
                          !.left = Left(hw, Count(hw, VramLen))]
        [] hw.bbad = "VMDATA" /\ hw.dmap = 0 ->
             [done EXCEPT !.vram[hw.vmadd] = IF Taken(hw, 1) = 1 THEN Garbage ELSE @,
                          !.left = Left(hw, Count(hw, VramLen))]
        [] hw.bbad = "CGDATA" ->
             [done EXCEPT !.cgram = Fill(hw, mem, @, CgramLen, hw.cgadd),
                          !.cgadd = (@ + Count(hw, CgramLen)) % CgramLen,
                          !.left = Left(hw, Count(hw, CgramLen))]
        [] hw.bbad = "OAMDATA" ->
             [done EXCEPT !.oam = Fill(hw, mem, @, NSprites, hw.oamadd),
                          !.left = Left(hw, Count(hw, NSprites))]

(* A word written to VMDATA goes where VMADD points, which moves on.        *)
Put(hw, mem, store) ==
  CASE store[1] = "mdmaen" -> Transfer(hw, mem)
    [] store[1] = "vmdata" ->
         [hw EXCEPT !.vram[hw.vmadd] = IF Taken(hw, 1) = 1 THEN store[2] ELSE @,
                    !.vmadd = (@ + 1) % VramLen, !.left = Left(hw, 1)]
    [] OTHER -> [hw EXCEPT ![store[1]] = store[2]]

(* The registers after the stores of a copy, each to another register.      *)
Settled(hw, stores) ==
  LET Stored(r) == {k \in DOMAIN stores : stores[k][1] = r}
  IN  [r \in DOMAIN hw |-> IF Stored(r) = {} THEN hw[r]
                           ELSE stores[CHOOSE k \in Stored(r) : TRUE][2]]

(* A copy nothing interrupts: nothing is read until the last store, the one *)
(* to MDMAEN.                                                               *)
Run(hw, mem, stores) == Transfer(Settled(hw, stores), mem)

Start(source) == [src |-> source, off |-> 0]

(* The copies of the library, in the order of their code.                   *)
dmaCopyVram(source, address, size) ==
  << <<"vmadd", address>>, <<"das", size>>, <<"a1t", Start(source)>>,
     <<"a1b", source>>, <<"dmap", 1>>, <<"bbad", "VMDATA">>, <<"mdmaen", 1>> >>

dmaCopyCGram(source, address, size) ==
  << <<"das", size>>, <<"a1t", Start(source)>>, <<"a1b", source>>,
     <<"cgadd", address>>, <<"dmap", 0>>, <<"bbad", "CGDATA">>,
     <<"mdmaen", 1>> >>

(* LzssDecodeVram writes words itself, those the compressed tiles stand for. *)
LzssDecodeVram(words, address) ==
  << <<"vmadd", address>> >>
  \o [k \in 1 .. Len(words) |-> <<"vmdata", words[k]>>]

dmaCopyOAram(source, size) ==
  << <<"oamadd", 0>>, <<"das", size>>, <<"a1t", Start(source)>>,
     <<"a1b", source>>, <<"dmap", 0>>, <<"bbad", "OAMDATA">>,
     <<"mdmaen", 1>> >>

oamUpdate ==
  << <<"oamadd", 0>>, <<"dmap", 0>>, <<"bbad", "OAMDATA">>,
     <<"das", NSprites>>, <<"a1t", Start("oam")>>, <<"a1b", "oam">>,
     <<"mdmaen", 1>> >>
=============================================================================
