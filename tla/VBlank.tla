------------------------------- MODULE VBlank -------------------------------
(* A program of the library and the VBlank interrupt.  The program prints   *)
(* text into a map in RAM, moves sprites in a copy of OAM, reads pads and   *)
(* uploads graphics by DMA, some functions after a wait for VBlank and some *)
(* at any moment; once a frame, between any two of its stores, the NMI runs *)
(* the installed handler, which reads the pads and copies sprites and text  *)
(* to the picture processor over the same DMA channel.                      *)
(* A program is a loop of library calls of some kinds, chosen freely, at    *)
(* most MaxCalls between two calls of WaitForVBlank.                        *)
EXTENDS Ppu

CONSTANTS
  Columns, Rows,   \* of the text map (32 by 32)
  Blank,           \* the cell of a cleared map (0x00)
  NewLine,         \* '\n'
  Texts,           \* what consoleDrawText is called with: <<cell, text>>
  MapAddr,         \* the text map in VRAM (0x800)
  GfxAddr,         \* where the program's sprite graphics go in VRAM
  Gfx, Pal,        \* those graphics and their palette, sequences of words
  Positions,       \* where sprites are put: [x : 0 .. 511, y : 0 .. 239]
  Offsets,         \* the tiles they show: 0 .. 511
  Dressed,         \* the sprites whose tiles and flips the program changes
  Pads, Buttons,   \* the joypads and their buttons
  Device,          \* what a port with no joypad in it reads as
  HandlerAddr,     \* the handlers' addresses: [lo, bank]
  Programs,        \* the programs: each the set of kinds of calls it makes
  MaxCalls,        \* calls in one turn of a program's loop
  Loaders,         \* the functions it uploads graphics with, after a wait
  Room             \* words that DMA moves in a VBlank

MapLen == Columns * Rows
Cells == 0 .. MapLen - 1
Characters == UNION {{t[2][k] : k \in DOMAIN t[2]} : t \in Texts}
Graphics == {Gfx[k] : k \in DOMAIN Gfx} \union {Pal[k] : k \in DOMAIN Pal}

(* A sprite as OAM holds it: the low byte of x and its high bit, the size,  *)
(* the tile's number in eight bits and one, and the flips.                  *)
SpriteCell ==
  [x : 0 .. 255, y : 0 .. 255, x9 : 0 .. 1, size : 0 .. 1,
   tile : 0 .. 255, ninth : 0 .. 1, flip : SUBSET {"h", "v"}]
Sprites == 0 .. NSprites - 1
Handlers == {"consoleVblank", "consoleVblankMode7"}

(* The handlers are in one bank.  nmiSet stores the two halves of an        *)
(* address one after the other, and an NMI between the stores would         *)
(* otherwise enter neither handler.                                         *)
ASSUME VBlankAssumption ==
  /\ Columns \in Nat \ {0} /\ Rows \in Nat \ {0} /\ MaxCalls \in Nat \ {0}
  /\ \A t \in Texts : t[1] \in Cells /\ t[2] \in Seq(Characters)
  /\ Positions \subseteq [x : 0 .. 511, y : 0 .. 239] /\ Offsets \subseteq 0 .. 511
  /\ Dressed \subseteq Sprites
  /\ DOMAIN HandlerAddr = Handlers
  /\ Loaders \subseteq {"oamInitGfxSet", "bgInitTileSet", "bgInitTileSetLz"}
  /\ \A g, h \in Handlers : HandlerAddr[g].bank = HandlerAddr[h].bank

(* What the handler copies fits in a VBlank.                                 *)
ASSUME RoomAssumption == Room \in Nat /\ NSprites + MapLen <= Room

(* Text map and graphics are apart in VRAM, and graphics are not where the   *)
(* registers that show them point before any are loaded.  A count of 0       *)
(* would copy 65536 bytes.                                                   *)
ASSUME MemoryAssumption ==
  /\ MapAddr \in Nat /\ MapAddr + MapLen <= VramLen
  /\ GfxAddr \in Nat \ {0} /\ GfxAddr + Len(Gfx) <= VramLen
  /\ GfxAddr + Len(Gfx) <= MapAddr \/ MapAddr + MapLen <= GfxAddr
  /\ Gfx \in Seq(Graphics) /\ Gfx # <<>> /\ Pal \in Seq(Graphics) /\ Pal # <<>>
  /\ Len(Pal) <= CgramLen
  /\ Garbage \notin {Blank} \union Characters \union Graphics \union SpriteCell

VARIABLES
  program,     \* which program runs
  hw,          \* the picture processor and DMA channel 0
  fontMap,     \* pvsneslibfont_map
  dirty,       \* pvsneslibdirty
  oamMemory,
  pads,        \* pad_keys and pad_keysold of every pad
  nmi,         \* __nmi_handler, two halves
  pc,          \* what the program is doing
  then,        \* ... and does after its stores, or after the interrupt
  stores,      \* stores to the hardware, to oamMemory or to nmi it still makes
  text, cell,  \* what _print_screen_map still prints, and where
  loaded,      \* operands padsDown or padsUp has read
  fresh,       \* no more than a few stores were made since the last NMI
  calls,       \* calls since the last WaitForVBlank
  torn,        \* an NMI has come within a copy that had not waited for it
  committed,   \* the map as the last complete text left it
  placed,      \* the sprites as the last complete calls left them
  scans        \* the last three values of pad_keys

textVars == <<fontMap, dirty, text, cell, committed>>
oamVars  == <<oamMemory, placed>>
padVars  == <<pads, loaded, scans>>
ctlVars  == <<pc, then, stores, calls, program>>
vars == <<hw, nmi, fresh, torn, textVars, oamVars, padVars, ctlVars>>

(* A sprite is hidden left of the screen and below it.                      *)
Hidden == [x |-> 1, y |-> 240, x9 |-> 1, size |-> 0, tile |-> 0, ninth |-> 0,
           flip |-> {}]

(* The buffers DMA can be pointed at. *)
mem == [font |-> [i \in 1 .. MapLen |-> fontMap[i - 1]],
        oam |-> [i \in 1 .. NSprites |-> oamMemory[i - 1]],
        gfx |-> Gfx, pal |-> Pal]

(* After consoleInit and consoleInitText: the handler is installed, all     *)
(* memories are clear, the sprites hidden, and an interrupt has just woken  *)
(* the program, which has turned the screen on.                             *)
Init ==
  /\ fontMap = [c \in Cells |-> Blank] /\ committed = fontMap /\ dirty = 0
  /\ oamMemory = [i \in Sprites |-> Hidden] /\ placed = oamMemory
  /\ hw = [vram |-> [a \in 0 .. VramLen - 1 |-> Blank], oam |-> oamMemory,
           cgram |-> [a \in 0 .. CgramLen - 1 |-> Blank],
           vmadd |-> 0, cgadd |-> 0, oamadd |-> 0, das |-> 0,
           a1t |-> [src |-> "oam", off |-> NSprites], a1b |-> "oam",
           dmap |-> 0, bbad |-> "OAMDATA", obsel |-> 0, nba |-> 0, nba34 |-> 0,
           inidisp |-> 15, left |-> Room - NSprites]
  /\ pads = [p \in Pads |-> [keys |-> {}, old |-> {}]]
  /\ scans = [p \in Pads |-> <<{}, {}, {}>>]
  /\ nmi = HandlerAddr["consoleVblank"]
  /\ pc = "loop" /\ then = "loop" /\ stores = <<>> /\ text = <<>> /\ cell = 0
  /\ loaded = <<>> /\ fresh = TRUE /\ torn = FALSE /\ calls = 0
  /\ program \in Programs

-----------------------------------------------------------------------------
(* The interrupt. *)

(* A joypad leaves the low four bits 0; anything else reads as no button.   *)
ReadJoy(value) == IF value = Device THEN {} ELSE value

(* The pads are scanned whether or not the program has looked at the last   *)
(* scan; a program that never looks is played with no hand on the pad.      *)
(* pad_keysrepeat, which nothing of the library reads, is left out.         *)
scanPads ==
  \E joy \in [Pads -> IF "pad" \in program THEN (SUBSET Buttons) \union {Device}
                                            ELSE {{}}] :
    /\ pads' = [p \in Pads |-> [keys |-> ReadJoy(joy[p]), old |-> pads[p].keys]]
    /\ scans' = [p \in Pads |-> Append(Tail(scans[p]), ReadJoy(joy[p]))]

(* The handler has the whole VBlank before it.                              *)
Blanking == [hw EXCEPT !.left = Room]

SpritesCopied == Run(Blanking, mem, oamUpdate)

(* Faulty: the map is copied whenever the flag is not 0.                    *)
FaultyConsoleVblank ==
  /\ scanPads
  /\ hw' = IF dirty # 0
           THEN Run(SpritesCopied, mem, dmaCopyVram("font", MapAddr, MapLen))
           ELSE SpritesCopied
  /\ dirty' = IF dirty = 1 THEN 0 ELSE dirty

consoleVblank ==
  /\ scanPads
  /\ hw' = IF dirty = 1
           THEN Run(SpritesCopied, mem, dmaCopyVram("font", MapAddr, MapLen))
           ELSE SpritesCopied
  /\ dirty' = IF dirty = 1 THEN 0 ELSE dirty

consoleVblankMode7 ==
  /\ hw' = Run(Blanking, mem, dmaCopyOAram("oam", NSprites))
  /\ UNCHANGED <<pads, scans, dirty>>

(* The NMI comes once a frame: a program that has only made the few stores  *)
(* of a copy or a poll since the last one is not interrupted again, but one *)
(* that waits always is.  WaitForVBlank returns when the handler does.      *)
NmiTaken ==
  /\ fresh => pc = "wai"
  /\ fresh' = TRUE
  /\ pc' = IF pc = "wai" THEN then ELSE pc
  /\ calls' = IF pc = "wai" THEN 0 ELSE calls

(* A copy that has not waited for the interrupt is torn by one that comes   *)
(* after its first store.                                                   *)
Tearing == pc = "copy" /\ then # "loop" /\ Head(stores)[1] # "vmadd"

VBlank ==
  /\ NmiTaken
  /\ torn' = (torn \/ Tearing)
  /\ \/ nmi = HandlerAddr["consoleVblank"] /\ consoleVblank
     \/ nmi = HandlerAddr["consoleVblankMode7"] /\ consoleVblankMode7
  /\ UNCHANGED <<nmi, fontMap, text, cell, committed, oamVars, loaded, then, stores,
                 program>>

-----------------------------------------------------------------------------
(* The program. *)

Call(kind) ==
  /\ pc = "loop" /\ kind \in program /\ UNCHANGED program
  /\ calls < MaxCalls /\ calls' = calls + 1

WaitForVBlank ==
  /\ pc = "loop" /\ pc' = "wai" /\ then' = "loop"
  /\ UNCHANGED <<hw, nmi, fresh, torn, textVars, oamVars, padVars, stores, calls,
                 program>>

(* Faulty: the flag is not raised before the map is written.                *)
FaultyDrawText ==
  /\ Call("text") /\ pc' = "print" /\ fresh' = FALSE
  /\ \E t \in Texts : cell' = t[1] /\ text' = t[2]
  /\ UNCHANGED <<hw, nmi, torn, dirty, fontMap, committed, oamVars, padVars, then,
                 stores>>

(* consoleDrawText: 2 in the flag keeps the handler from a half drawn map,  *)
(* 1 asks it for the map.                                                   *)
consoleDrawText ==
  /\ Call("text") /\ pc' = "print" /\ fresh' = FALSE
  /\ \E t \in Texts : cell' = t[1] /\ text' = t[2]
  /\ dirty' = 2
  /\ UNCHANGED <<hw, nmi, torn, fontMap, committed, oamVars, padVars, then, stores>>

(* _print_screen_map: a line feed goes one row down, in the same column.    *)
PrintChar ==
  /\ pc = "print" /\ text # <<>> /\ text' = Tail(text) /\ fresh' = FALSE
  /\ IF Head(text) = NewLine
     THEN cell' = cell + Columns /\ UNCHANGED fontMap
     ELSE cell' = cell + 1 /\ fontMap' = [fontMap EXCEPT ![cell] = Head(text)]
  /\ UNCHANGED <<hw, nmi, torn, dirty, committed, oamVars, padVars, ctlVars>>

(* Faulty: the flag counts the texts that wait. *)
FaultyCountingDone ==
  /\ pc = "print" /\ text = <<>> /\ pc' = "loop" /\ fresh' = FALSE
  /\ dirty' = dirty + 1 /\ committed' = fontMap /\ cell' = 0
  /\ UNCHANGED <<hw, nmi, torn, fontMap, text, oamVars, padVars, then, stores, calls,
                 program>>

(* Faulty: the flag is left at 2. *)
FaultyDrawDone ==
  /\ pc = "print" /\ text = <<>> /\ pc' = "loop" /\ fresh' = FALSE
  /\ committed' = fontMap /\ cell' = 0
  /\ UNCHANGED <<hw, nmi, torn, fontMap, dirty, text, oamVars, padVars, then, stores,
                 calls, program>>

DrawDone ==
  /\ pc = "print" /\ text = <<>> /\ pc' = "loop" /\ fresh' = FALSE
  /\ dirty' = 1 /\ committed' = fontMap
  /\ cell' = 0  \* x1 is a local variable
  /\ UNCHANGED <<hw, nmi, torn, fontMap, text, oamVars, padVars, then, stores, calls,
                 program>>

(* consoleUpdate turns the screen off and sets the channel up where it is   *)
(* called.                                                                  *)
consoleUpdate ==
  /\ Call("update") /\ fresh' = FALSE
  /\ IF dirty = 1
     THEN /\ hw' = [hw EXCEPT !.inidisp = 0]
          /\ stores' = dmaCopyVram("font", MapAddr, MapLen)
          /\ pc' = "copy" /\ then' = "updated"
     ELSE UNCHANGED <<hw, stores, pc, then>>
  /\ UNCHANGED <<nmi, torn, textVars, oamVars, padVars>>

UpdateDone ==
  /\ pc = "updated" /\ pc' = "loop" /\ dirty' = 0
  /\ UNCHANGED <<hw, nmi, torn, fresh, fontMap, text, cell, committed, oamVars,
                 padVars, then, stores, calls, program>>

(* So does bgInitTileSetData, here with tiles of another background, and    *)
(* without a palette.                                                       *)
bgInitTileSetData ==
  /\ Call("tiles") /\ fresh' = FALSE /\ hw' = [hw EXCEPT !.inidisp = 0]
  /\ stores' = dmaCopyVram("gfx", GfxAddr, Len(Gfx))
  /\ pc' = "copy" /\ then' = "tiled"
  /\ UNCHANGED <<nmi, torn, textVars, oamVars, padVars>>

bgSetGfxPtr ==
  /\ pc = "tiled" /\ pc' = "loop" /\ hw' = [hw EXCEPT !.nba34 = GfxAddr]
  /\ UNCHANGED <<nmi, fresh, torn, textVars, oamVars, padVars, then, stores, calls,
                 program>>

(* The functions that upload graphics and a palette, after their wait for   *)
(* the interrupt.  The last store shows the graphics.                       *)
oamInitGfxSet ==
  dmaCopyVram("gfx", GfxAddr, Len(Gfx)) \o dmaCopyCGram("pal", 0, Len(Pal))
  \o << <<"obsel", GfxAddr>> >>

bgInitTileSet ==
  dmaCopyVram("gfx", GfxAddr, Len(Gfx)) \o dmaCopyCGram("pal", 0, Len(Pal))
  \o << <<"nba", GfxAddr>> >>

bgInitTileSetLz ==
  LzssDecodeVram(Gfx, GfxAddr) \o dmaCopyCGram("pal", 0, Len(Pal))
  \o << <<"nba", GfxAddr>> >>

Upload == [oamInitGfxSet |-> oamInitGfxSet, bgInitTileSet |-> bgInitTileSet,
           bgInitTileSetLz |-> bgInitTileSetLz]

(* Faulty: the copies are made without waiting for the interrupt. *)
FaultyUploadCall ==
  /\ Call("copy") /\ \E l \in Loaders : pc' = l
  /\ UNCHANGED <<hw, nmi, torn, fresh, textVars, oamVars, padVars, then, stores>>

(* Faulty: the screen is left on for backgrounds as well. *)
FaultyScreenOn ==
  /\ Call("copy") /\ pc' = "wai" /\ \E l \in Loaders : then' = l
  /\ UNCHANGED <<hw, nmi, torn, fresh, textVars, oamVars, padVars, stores>>

(* They wait for the interrupt, whose handler has used the channel, before  *)
(* they set it up; those for backgrounds turn the screen off first.         *)
UploadCall ==
  /\ Call("copy") /\ pc' = "wai"
  /\ \E l \in Loaders :
       /\ then' = l
       /\ hw' = IF l = "oamInitGfxSet" THEN hw ELSE [hw EXCEPT !.inidisp = 0]
  /\ UNCHANGED <<nmi, torn, fresh, textVars, oamVars, padVars, stores>>

UploadCopies ==
  /\ pc \in Loaders /\ pc' = "copy" /\ then' = "loop"
  /\ stores' = Upload[pc]
  /\ UNCHANGED <<hw, nmi, torn, fresh, textVars, oamVars, padVars, calls, program>>

(* Decompressing takes frames, a copy by DMA a few stores.  When it is not  *)
(* made right after the interrupt, the picture has begun.                   *)
Picture == [hw EXCEPT !.left = IF fresh THEN @ ELSE 0]

CopyStore ==
  /\ pc = "copy"
  /\ hw' = Put(Picture, mem, Head(stores))
  /\ fresh' = (fresh /\ Head(stores)[1] # "vmdata")
  /\ stores' = Tail(stores) /\ pc' = IF Len(stores) = 1 THEN then ELSE pc
  /\ UNCHANGED <<nmi, torn, textVars, oamVars, padVars, then, calls, program>>

setBrightness ==
  /\ Call("screen") /\ hw.inidisp = 0 /\ hw' = [hw EXCEPT !.inidisp = 15]
  /\ UNCHANGED <<nmi, torn, fresh, textVars, oamVars, padVars, pc, then, stores>>

(* nmiSet: the address of a function is stored in two halves. *)
nmiSet ==
  /\ Call("nmi") /\ pc' = "nmiSet" /\ fresh' = FALSE
  /\ \E h \in Handlers : stores' = << <<"nmi", "lo", HandlerAddr[h].lo>>,
                                     <<"nmi", "bank", HandlerAddr[h].bank>> >>
  /\ UNCHANGED <<hw, nmi, torn, textVars, oamVars, padVars, then>>

NmiStore ==
  /\ pc = "nmiSet"
  /\ nmi' = [nmi EXCEPT ![Head(stores)[2]] = Head(stores)[3]]
  /\ stores' = Tail(stores) /\ pc' = IF Len(stores) = 1 THEN "loop" ELSE pc
  /\ fresh' = FALSE
  /\ UNCHANGED <<hw, torn, textVars, oamVars, padVars, then, calls, program>>

-----------------------------------------------------------------------------
(* Sprites: every call is a sequence of stores <<"oam", sprite, fields>> to  *)
(* oamMemory.  Those that share a byte with other fields are made by        *)
(* reading, masking and writing it; the interrupt only reads oamMemory.     *)
Oam(i, fields) == << <<"oam", i, fields>> >>

(* Fields replace those of a sprite.                                        *)
Over(fields, sprite) ==
  [f \in DOMAIN fields \union DOMAIN sprite |->
     IF f \in DOMAIN fields THEN fields[f] ELSE sprite[f]]

(* The two bytes of a position; the high bit of x is elsewhere.             *)
Low(p) == [x |-> p.x % 256, y |-> p.y]

(* Faulty: the high bit is only ever set. *)
FaultySetXY(i, p) ==
  Oam(i, Low(p))
  \o (IF p.x > 255 THEN Oam(i, [x9 |-> 1]) ELSE <<>>)

oamSetXY(i, p) ==
  Oam(i, Low(p)) \o Oam(i, [x9 |-> (p.x \div 256) % 2])

oamSetXYEx(i, p) ==
  oamSetXY(i, p) \o Oam(i, [x9 |-> 0]) \o Oam(i, [x9 |-> p.x \div 256])

oamHide(i, hide) ==
  IF hide = 0 THEN Oam(i, [x9 |-> 0])
              ELSE Oam(i, [x9 |-> 1]) \o Oam(i, [x |-> 1]) \o Oam(i, [y |-> 240])

oamSetVisible(i, hide) == oamHide(i, hide)

oamSetEx(i, size, hide) ==
  Oam(i, [size |-> 0])
  \o (IF size = 0 THEN <<>> ELSE Oam(i, [size |-> 1]))
  \o oamHide(i, hide)

(* The sprites from first up to, not counting from first, numEntries, with  *)
(* four stores each.                                                        *)
oamClear(first, numEntries) ==
  LET last == IF numEntries = 0 THEN NSprites ELSE numEntries
  IN  [k \in 1 .. 4 * (last - first) |->
         oamSetEx(first + (k - 1) \div 4, 0, 1)[1 + ((k - 1) % 4)]]

(* The tile's number has nine bits; the ninth is in the byte of the flips.  *)
Tile(gfxoffset) == [tile |-> gfxoffset % 256, ninth |-> gfxoffset \div 256]
Turned(flip) == [flip |-> flip]

(* A word of gfxoffset replaces that byte as well, into which the           *)
(* attributes are put at the end.                                           *)
oamSetAttr(i, p, gfxoffset, flip) ==
  Oam(i, Low(p)) \o Oam(i, Over(Tile(gfxoffset), Turned({})))
  \o Oam(i, [x9 |-> (p.x \div 256) % 2]) \o Oam(i, Turned(flip))

(* oamSet, a macro, and oamSet1: the high bit of x stays as it is.          *)
oamSet(i, p, gfxoffset, flip) ==
  Oam(i, [x |-> p.x % 256]) \o Oam(i, [y |-> p.y])
  \o Oam(i, [tile |-> gfxoffset % 256])
  \o Oam(i, [ninth |-> gfxoffset \div 256, flip |-> flip])

oamSetGfxOffset(i, gfxoffset) ==
  Oam(i, [tile |-> gfxoffset % 256]) \o Oam(i, [ninth |-> gfxoffset \div 256])

oamFlip(i, flip) ==
  Oam(i, Turned({}))
  \o (IF "h" \in flip THEN Oam(i, Turned({"h"})) ELSE <<>>)
  \o (IF "v" \in flip THEN Oam(i, Turned(flip)) ELSE <<>>)

(* What hiding and placing a sprite are for.                                *)
Hiding(hide) == IF hide = 0 THEN [x9 |-> 0] ELSE [x9 |-> 1, x |-> 1, y |-> 240]

At(p) == [x |-> p.x % 256, y |-> p.y, x9 |-> IF p.x > 255 THEN 1 ELSE 0]

(* The calls: their stores, the sprites they are about and what they are    *)
(* for, the fields these sprites have when the call returns.                *)
About(i, made, fields) == [stores |-> made, about |-> {i}, for |-> fields]

Moves ==
  {About(i, oamSetXY(i, p), At(p)) : i \in Sprites, p \in Positions}
  \union {About(i, oamSetXYEx(i, p), At(p)) : i \in Sprites, p \in Positions}
  \union {About(i, oamSetVisible(i, hide), Hiding(hide)) :
            i \in Sprites, hide \in {0, 1}}
  \union {About(i, oamSetEx(i, size, hide), Over([size |-> size], Hiding(hide))) :
            i \in Sprites, size \in {0, 1}, hide \in {0, 1}}
  \union {[stores |-> oamClear(0, n), for |-> Over([size |-> 0], Hiding(1)),
           about |-> IF n = 0 THEN Sprites ELSE 0 .. n - 1] : n \in 0 .. NSprites}

(* Those of the sprites the program dresses.                                *)
Flips == SUBSET {"h", "v"}

Shows ==
  {About(i, oamSetAttr(i, p, g, flip), Over(At(p), Over(Tile(g), Turned(flip)))) :
     i \in Dressed, p \in Positions, g \in Offsets, flip \in Flips}
  \union
  {About(i, oamSet(i, p, g, flip), Over(Low(p), Over(Tile(g), Turned(flip)))) :
     i \in Dressed, p \in Positions, g \in Offsets, flip \in Flips}
  \union {About(i, oamSetGfxOffset(i, g), Tile(g)) : i \in Dressed, g \in Offsets}
  \union {About(i, oamFlip(i, flip), Turned(flip)) : i \in Dressed, flip \in Flips}

Make(call) ==
  /\ stores' = call.stores
  /\ placed' = [i \in Sprites |-> IF i \in call.about THEN Over(call.for, placed[i])
                                                     ELSE placed[i]]

SpriteCall ==
  /\ pc' = "sprite" /\ fresh' = FALSE
  /\ \/ Call("sprite") /\ \E c \in Moves : Make(c)
     \/ Call("tile") /\ \E c \in Shows : Make(c)
  /\ UNCHANGED <<hw, nmi, torn, textVars, oamMemory, padVars, then>>

SpriteStore ==
  /\ pc = "sprite" /\ fresh' = FALSE
  /\ LET i == Head(stores)[2]
     IN  oamMemory' = [oamMemory EXCEPT ![i] = Over(Head(stores)[3], @)]
  /\ stores' = Tail(stores) /\ pc' = IF Len(stores) = 1 THEN "loop" ELSE pc
  /\ UNCHANGED <<hw, nmi, torn, textVars, placed, padVars, then, calls, program>>

-----------------------------------------------------------------------------
(* Pads.  The interrupt may come between the reads of two operands.  The    *)
(* compiler loads a plain operand as late as it can, so that the words of   *)
(* keys & ~old and keys ^ old are read in either order, but it has computed *)
(* the exclusive or before it reads pad_keys again for ~keys.               *)

Operands == [padsDown |-> {"keys", "old"}, padsUp |-> {"keys", "old", "again"}]

padsCall ==
  /\ Call("pad") /\ pc' = "poll"
  /\ \E p \in Pads, fn \in {"padsDown", "padsUp"} : loaded' = [fn |-> fn, pad |-> p]
  /\ UNCHANGED <<hw, nmi, torn, fresh, textVars, oamVars, pads, scans, then, stores>>

Word(v) == IF v = "old" THEN pads[loaded.pad].old ELSE pads[loaded.pad].keys

Load(v) == loaded' = [u \in DOMAIN loaded \union {v} |-> IF u = v THEN Word(v)
                                                                 ELSE loaded[u]]

(* Faulty: pad_keys is read for ~keys before the exclusive or is complete.  *)
FaultyLoadKeys ==
  /\ pc = "poll"
  /\ \E v \in Operands[loaded.fn] \ DOMAIN loaded : Load(v)
  /\ UNCHANGED <<hw, nmi, torn, fresh, textVars, oamVars, pads, scans, ctlVars>>

LoadKeys ==
  /\ pc = "poll"
  /\ \E v \in Operands[loaded.fn] \ DOMAIN loaded :
       /\ v = "again" => {"keys", "old"} \subseteq DOMAIN loaded
       /\ Load(v)
  /\ UNCHANGED <<hw, nmi, torn, fresh, textVars, oamVars, pads, scans, ctlVars>>

(* keys & ~old, and (keys ^ old) & ~keys.                                   *)
Answer(l) ==
  IF l.fn = "padsDown" THEN l.keys \ l.old
  ELSE ((l.keys \ l.old) \union (l.old \ l.keys)) \ l.again

PadsReturn ==
  /\ pc = "poll" /\ Operands[loaded.fn] \subseteq DOMAIN loaded
  /\ loaded' = <<>> /\ pc' = "loop"
  /\ UNCHANGED <<hw, nmi, torn, fresh, textVars, oamVars, pads, scans, then, stores,
                 calls, program>>

(* padsClear: a store to each of the words of a pad; the program sees none  *)
(* of them before it has done both.                                         *)
padsClear ==
  /\ Call("pad") /\ fresh' = FALSE
  /\ \E p \in Pads : /\ pads' = [pads EXCEPT ![p] = [keys |-> {}, old |-> {}]]
                     /\ scans' = [scans EXCEPT ![p] = Append(Tail(@), {})]
  /\ UNCHANGED <<hw, nmi, torn, textVars, oamVars, loaded, pc, then, stores>>

Program ==
  \/ WaitForVBlank \/ consoleDrawText \/ PrintChar \/ DrawDone
  \/ consoleUpdate \/ UpdateDone \/ bgInitTileSetData \/ bgSetGfxPtr
  \/ UploadCall \/ UploadCopies \/ CopyStore
  \/ setBrightness \/ nmiSet \/ NmiStore \/ SpriteCall \/ SpriteStore
  \/ padsCall \/ LoadKeys \/ PadsReturn \/ padsClear

Next == VBlank \/ Program

(* The NMI comes every frame (no other step is an NmiTaken that changes pc  *)
(* or fresh), and the program runs between two of them.                     *)
Spec ==
  Init /\ [][Next]_vars /\ WF_<<pc, fresh>>(NmiTaken) /\ WF_vars(Program)

-----------------------------------------------------------------------------
(* Properties. *)

Screen == [c \in Cells |-> hw.vram[MapAddr + c]]

VBlankTypeOK ==
  /\ dirty \in 0 .. 2 /\ fresh \in BOOLEAN /\ torn \in BOOLEAN
  /\ calls \in 0 .. MaxCalls
  /\ pc \in {"loop", "wai", "print", "updated", "tiled", "copy", "nmiSet", "sprite",
             "poll"} \union Loaders
  /\ then \in {"loop", "updated", "tiled"} \union Loaders
  /\ hw.left \in 0 .. Room
  /\ DOMAIN fontMap = Cells /\ DOMAIN committed = Cells
  /\ DOMAIN hw.vram = 0 .. VramLen - 1 /\ DOMAIN hw.cgram = 0 .. CgramLen - 1
  /\ DOMAIN hw.oam = Sprites /\ oamMemory \in [Sprites -> SpriteCell]
  /\ pads \in [Pads -> [keys : SUBSET Buttons, old : SUBSET Buttons]]

(* pvsneslibdirty is 0 only when the screen shows the map as it is: no text *)
(* is lost between the flag's four writers, whichever of them the interrupt *)
(* separates, unless it tears the copy of one.                              *)
CleanMapShown == ~torn /\ dirty = 0 => Screen = fontMap

(* The picture processor is never given a word from outside the buffers     *)
(* that are copied: the two users of DMA channel 0 do not mix their stores. *)
(* Only the functions that do not wait for the interrupt are exposed to it, *)
(* and only when it comes after their first store.                          *)
NoForeignWord ==
  ~torn => /\ \A a \in DOMAIN hw.vram : hw.vram[a] # Garbage
           /\ \A a \in DOMAIN hw.cgram : hw.cgram[a] # Garbage
           /\ \A i \in Sprites : hw.oam[i] # Garbage

GfxLoaded == \A k \in 1 .. Len(Gfx) : hw.vram[GfxAddr + k - 1] = Gfx[k]
PalLoaded == \A k \in 1 .. Len(Pal) : hw.cgram[k - 1] = Pal[k]

(* The sprites, the map if the program draws any text, and an upload of     *)
(* graphics fit in one VBlank.                                              *)
FitsInVBlank ==
  NSprites + (IF "text" \in program THEN MapLen ELSE 0) + Len(Gfx) + Len(Pal) <= Room

(* No upload is cut short by the end of VBlank or overwritten later: those  *)
(* for backgrounds are whole from the moment they are shown on, however     *)
(* long they are, those for sprites, which leave the screen on, if they     *)
(* fit.                                                                     *)
UploadKept ==
  ~torn => /\ hw.nba = GfxAddr \/ (hw.obsel = GfxAddr /\ FitsInVBlank)
                => GfxLoaded /\ PalLoaded
           /\ hw.nba34 = GfxAddr => GfxLoaded

(* The graphics and palette a program has uploaded are in VRAM and CGRAM    *)
(* from the moment they are shown on, wherever the interrupt falls and      *)
(* wherever texts and sprites are copied later.                             *)
UploadStays == hw.obsel = GfxAddr \/ hw.nba = GfxAddr => GfxLoaded /\ PalLoaded

(* A button padsDown or padsUp reports has gone down, or up, in the last    *)
(* two frames: reading the words of two different scans invents no edge.    *)
EdgesAreReal ==
  [][\A b \in Buttons :
       PadsReturn /\ b \in Answer(loaded) =>
         \E before, after \in 1 .. 3 :
           /\ before < after
           /\ (b \in scans[loaded.pad][before]) = (loaded.fn = "padsUp")
           /\ (b \in scans[loaded.pad][after]) = (loaded.fn = "padsDown")]_vars

(* Each interrupt shows every sprite as the last call about it left it; only *)
(* those of a call that is not over yet may be seen half moved.             *)
Moving == IF pc = "sprite" THEN {stores[k][2] : k \in DOMAIN stores} ELSE {}

SpritesShownAsPlaced ==
  [][VBlank => \A i \in Sprites \ Moving : hw'.oam[i] = placed[i]]_vars

(* No text is ever seen half drawn, as long as no copy is torn: the console *)
(* implements TextScreen.                                                   *)
Text == INSTANCE TextScreen WITH
  Maps <- [Cells -> {Blank} \union Characters],
  Blank <- [c \in Cells |-> Blank],
  drawn <- committed, screen <- Screen, spoilt <- torn

WholeTextsOnly == Text!Spec

(* While consoleVblank is the handler, the screen catches up with the text  *)
(* again and again, as long as no copy is torn.                             *)
TextCatchesUp ==
  <>[](nmi = HandlerAddr["consoleVblank"]) => []<>(torn \/ Screen = committed)
=============================================================================
