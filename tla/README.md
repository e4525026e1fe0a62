# A verification development for PVSnesLib

PVSnesLib is a library and tool chain for writing Super Nintendo games in C.
This directory holds TLA+ models of its run-time parts, the TLC configurations
that check them on small instances, and TLAPS proofs about them.  Paths below
are relative to the root of the repository; `A` stands for
`src/pvsneslib/source/snesmodwla.asm`, `S` for
`src/pvsneslib/snesmod/sm_spc.as7` and `M` for
`src/pvsneslib/source/malloc.c`.  `PROJECT.json` maps every definition to the
lines it models.

## 1. Inventory

### The sound driver (SNESMOD)

A game's sound involves two processors.  The S-CPU runs the game and `A`; the
SPC700 runs `S`.  They share four byte-wide ports, each a pair of latches, and
nothing else.  Through them go

| exchange | started by | protocol |
|---|---|---|
| messages (play, stop, volume, fade, effect) | `QueueMessage`, sent by `spcProcess` | id to port 0, arguments to ports 2 and 3, port 1 toggles bit 7; the SPC700 mimics port 1 when it has executed the message |
| module upload | `spcLoad` | message `CMD_LOAD`, then the module word by word, then each of its samples, each word acknowledged through port 1; a 0 ends a transfer |
| effect upload | `spcLoadEffect` | message `CMD_LOADE` and one transfer |
| region size | `spcAllocateSoundRegion` | a message sent at once, after the queue |
| streamed samples | `spcPlaySound`, sent by `spcProcess` | a high-priority signal (bit 7 of port 0), served between any two routines of the SPC700's main loop; blocks of nine bytes in groups of three, each echoed through port 0; afterwards the S-CPU restores the ports |

*S-CPU state*: the ring `spc_fifo` with `spc_fread` and `spc_fwrite`, the
validation byte `spc_v`, the record of the ports `spc_pr`, the effect counter
`spc_sfx_next`, the scratch word `spc1`, the streaming variables `digi_*`.
*SPC700 state*: `comms_v`, the transfer address, the sample and effect
directories, the streaming variables, and the player proper.

*Hard behaviour*: every store to a port is visible at once, and the other
processor can read between any two of them; streaming overwrites the ports while
a message may still wait in them; both sides wait for each other in loops
without time limits; part of the protocol is timed (45 microseconds), and
the VBlank interrupt can delay one side; `spcProcess` may be called from a
handler that interrupts `QueueMessage`; the bookkeeping of effects is kept twice.

*What makes it correct*: messages are executed once, in order, with the arguments
of their calls; uploads arrive word for word; streamed bytes arrive in order;
a module does not replace memory that queued messages still need; no call waits
forever; a called function returns to its caller.  Transfers may
be one word long, and samples empty.

### The heap (`M`)

One array of blocks with a one-word header each (size, and a used bit), a cached
free block, and `__compact`, which merges free blocks while it scans.  It is
sequential; what is hard is the long sequences of `malloc`, `free` and `compact`
that must keep the chain of sizes intact while stale headers stay in memory as
data.  It is correct when blocks do not overlap, contents survive, `malloc`
fails only for want of room, and every call ends.

### VBlank, console, sprites, pads and DMA

`VBlank` (`crt0_snes.asm`) saves registers and calls `*__nmi_handler`, by
default `consoleVblank`: it scans the joypads, copies `oamMemory` to OAM, copies
the text map to VRAM when `pvsneslibdirty` is 1, and clears the flag.  The
program writes the same flag, map, table and pad words, replaces the handler's
24-bit address in two stores, and uploads graphics over the same DMA channel 0,
whose registers nobody saves.  The NMI cannot be masked by SEI; only
`WaitForVBlank` puts the two in step, and `consoleUpdate` and
`bgInitTileSetData` do without it.  The memories of the picture processor
are accessible only in VBlank and while the screen is off
(`src/pvsneslib/include/snes/video.h:100`): words written otherwise are lost.

*What makes it correct*: no half drawn text is shown and none is lost; the
stores of two copies do not mix; graphics are complete when they are shown;
sprites are shown where calls put them; a button edge that `padsDown` or
`padsUp` reports has happened.

### LZSS

`gfx2snes -glz` compresses tiles with `Convert2PicLZSS` (`lzss.c`): a ring of the
last 4096 bytes and binary search trees of the strings that begin in it.
`LzssDecodeVram` (`lzsss.asm`) keeps its own ring and writes bytes alternately to
the two halves of VMDATA.  They share nothing but conventions: the ring's first
contents and starting offset, the order of flags, the code of a pair.  Correct:
the trees find the longest match as they are changed under way, and what arrives
is what was compressed.

### The rest

The SPC700 boot handshake (`spcBoot`); the module player (patterns, envelopes,
fades and effect channels, which share eight voices); video registers, mode 7,
fades of the screen; scores in base 10000; the C library; the compiler
and the other asset tools.  `PROJECT.json` lists each with its sources and its
status.

## 2. Modules

| module | models |
|---|---|
| `ApuPorts` | the four ports, the arithmetic on validation bytes, the message ids |
| `SnesMod` | the S-CPU's side of the driver, one action per port access |
| `SmSpc` | the SPC700's side: main loop, dispatcher, transfers, streaming |
| `SpcLink` | both together, their fairness, the timing assumption, the properties |
| `SpcLinkInv` | the phases of the exchange: where each processor can be at every point of the other's program |
| `CommandQueue` | the abstract queue of messages that `SpcLink` implements |
| `CommandFifo` | the ring of bytes, interrupt handlers, `spc1`, the stack |
| `Heap` | `malloc.c` |
| `Ppu` | DMA channel 0 and the memories of the picture processor; the library's copies as sequences of stores |
| `VBlank` | the program's calls (text, sprites, pads, uploads, `nmiSet`) and the NMI handlers |
| `TextScreen` | the abstract console that `VBlank` implements |
| `Lzss` | compressor and decompressor |
| `SpcLinkProofs` | theorems about `SpcLink`: types, positions inside sequences |
| `InStepProofs` | ... each step of either processor keeps the phases and the order of messages; the refinement of `CommandQueue`; streamed sounds |
| `CommandFifoProofs` | theorems about `CommandFifo` |
| `HeapProofs` | theorems about `Heap` |
| `VBlankProofs` | theorems about `VBlank`: the pads; the copies by DMA and the types |
| `ScreenProofs` | ... the sprites, the texts, the graphics, and the refinement of `TextScreen` |
| `LzssTrees` | lemmas about `Lzss`: numbers, the cells of the ring, changes of a search tree |
| `LzssProofs` | theorems about `Lzss` |
| `MCSpcLink`, `MCCommandFifo`, `MCHeap`, `MCVBlank`, `MCLzss` | instances for TLC |

### SnesMod, SmSpc and SpcLink

The program counter of each processor is a label at a port access.  Work on a
processor's own memory belongs to the neighbouring access, as the other
processor cannot see it.  `SnesMod` interleaves with `SmSpc` at every step, and
with the VBlank handler, which is nothing but time here (`NmiBegin`, `NmiEnd`:
`At(label)` requires that it does not run).

* The queue is a sequence of messages in `SnesMod`, and a ring of bytes in
  `CommandFifo`.  The loop of `spcProcess` is limited by the scanline counter;
  `MessageTimeout` may leave it at any round.
* A sound bank is a sequence of words and a module's samples are known by
  position.  Address arithmetic in the bank (`incptr`, `get_address`) is left out.
  Samples may be empty, as `it2spc` exports every slot: then the S-CPU goes from the
  announcement straight to the final zero (A:448-449), but the SPC700 stores a word
  before it looks at that zero (S:604-619): what it finds in the ports, the
  sample's loop point (`Stored`).  An effect and a module's list of samples are not
  empty (`SnesModAssumption`): the code counts down before it tests (A:472, A:399), and
  would go on for 65536 words or samples.
* `spc_sfx_next` and the SPC700's count of samples are numbers without a limit, as
  the histories are; in the code they have eight bits and the directories less room
  (a hazard in the list without a property).
* `digi_src` and the pointer register are one position, which moves with every
  group of three bytes.  The number of blocks in one call is
  `digi_rates + INIT_DATACOPY` at most, and 28 at most, as the byte offset has
  eight bits.
* `StreamingCopy` stores three bytes in one step.  The SPC700 reads the third
  one instruction after it signals; the S-CPU needs to see the signal and
  store two other ports first.
* A message that needs no further exchange is one entry of the history
  `executed`, with the arguments its handler reads (`Arguments`).
* The routines of the main loop other than `ProcessComms` take no part in the
  exchange; they matter because the streaming signal is polled before each.
* An effect is played by an index that `spcLoadEffect` has returned since the
  last `spcLoad` (guard of `QueueMessage`): `sound.h` hands out no others.

`InTime` is the timing the protocol states (S:181-184): the SPC700 needs about
45 microseconds from its last reply to the main loop, the S-CPU some thirty
instructions from seeing the reply to the last restored port.  So `StreamingExit`
waits for the S-CPU, unless the VBlank handler runs in between, of which nothing
bounds the duration.

### CommandFifo

One action per store that an interrupt may separate.  The stack is the sequence
of bytes pushed since the program's call: `L` by JSL, `S` by JSR, `P` by PHP,
`B` by PHB, `X` by PHX; `Pull` goes on in `lost` if instructions that pull bytes do
not find those pushed for them.  `spcFlush` and `spcLoad` call two versions of the
same loop, each with its frame: `spcFlush` by JSR one that ends with PLB, PLP
and RTL, `spcLoad`, after PHX, by JSR one that ends with RTS.  Of `spcLoad` only this
flush is here; `spcAllocateSoundRegion`, which saves one byte by PHA where `spcLoad`
saves X, is not repeated.  `consumer` is fixed in the initial state: the
program itself, an IRQ handler (held off by SEI), or an NMI handler (not held
off).  The library only ever installs NMI handlers; the comment in
`QueueMessage` speaks of IRQ.  The handler that runs `spcProcess` interleaves
with the program in one direction only: the program stands still meanwhile
(`At`).  The capacity of the ring is the program's duty, as the code does not
check it (guard `Waiting < Capacity`).

### Heap

Addresses are offsets from the heap's start.  Memory is a function from even
addresses to words, whether header or data, and `UserWrite` writes any word of
`Data` into a block the program owns, so the model meets old headers, fake
headers and zeros as data.  `blocks` and `live` are histories: the code has only
the chain of sizes.  `__compact` is one step per iteration.  `Requests` excludes
sizes above 65530, for which `size + 3 + sizeof(unit)` wraps (a hazard in the
list without a property).

### Ppu, VBlank and TextScreen

`Ppu` is the hardware: a record of the registers that copies use, and the three
memories.  A copy of the library is the sequence of its stores, and the store to
MDMAEN moves the data at once, from what the registers then say: a count of 0 is
65536, and a source whose address and bank belong to different buffers yields
`Garbage`.  A copy that the program makes is one step per store (`Put`); one that
the handler makes, which nothing interrupts, is its registers after all stores
(`Settled`) and then the transfer (`Run`).  VMAIN is left out; all copies modelled set
it alike.

The memories take words while the screen is off and in VBlank, of which `left` says
how many words may still come (`Room` at its beginning): of a longer transfer the rest
is lost (`Taken`).  A word by DMA takes the same time whatever it is.

A program of `VBlank` is a loop of library calls of the kinds in `program`.  Each
store to the hardware, to `oamMemory` or to `__nmi_handler`, each character put
in the map and each pad word read is a step, and the NMI may come between any
two; the handler is one step, as nothing interrupts it.

* The NMI comes once a frame.  `fresh` holds while the program has made no more
  than the few stores of a copy or a poll since the last one; such a program is
  not interrupted again.  Calls that take long (a text, sprite calls,
  decompression) end it.
* `consoleUpdate` and `bgInitTileSetData` turn the screen off and set up a copy where
  they are called, at any moment; the other copies wait for the interrupt first.  An
  NMI that comes after the first store of a copy that has not waited finds the
  channel half set up and leaves it changed: `torn` says that this has happened, and
  what is then in the memories is anything (the handler leaves a count of 0, that is
  65536).  Nothing in the code prevents it, so the properties about the memories
  speak of what happens until then.  An NMI before the first store does no harm, and
  neither does the handler's use of the channel between two copies: those stay in.
  `bgInitTileSetData` loads the graphics of another background, which `nba34` shows
  (`bgSetGfxPtr`).
* A DMA transfer stops the S-CPU, and a long one, with the screen off, delays the NMI
  to its end; this delay is left out, as the NMI of the model may come at any step after
  it.
* The handler runs at the beginning of VBlank, and what it copies fits in it
  (`RoomAssumption`): 544 bytes of OAM and 2048 of the map take less than half of one.
  A copy that an upload makes right after its wait has what the handler has left; a
  program that has made a longer call since (`~fresh`) is in the picture, and nothing
  is left (`Picture`).  `oamInitGfxSet` does not turn the screen off: the store that
  would is commented out (`src/pvsneslib/source/sprite.c:66`).
* `padsDown` is `keys & ~old`, read in either order; `padsUp` reads `pad_keys`
  twice, the second time when the exclusive or is there, which is what the
  compiler's code generator does: it loads a plain operand as late as it can.
* The handlers are in one bank (`VBlankAssumption`).  In two banks an NMI between
  the stores of `nmiSet` would enter neither.  Map and graphics do not overlap in
  VRAM, nothing that is uploaded is empty or too long for its memory, and graphics
  do not go to address 0, where OBSEL and BG12NBA point before there are any
  (`MemoryAssumption`).  The library leaves all of these to the program.
* `committed`, `placed` and `scans` are histories: the map after the last whole
  text, the fields sprites have after the last call about them, the last three
  scans of every pad.
* A sprite call is the sequence of its stores to `oamMemory`.  A byte that holds
  several fields is read, masked and written; only the interrupt could see it
  meanwhile, and it only reads, so such a store names the fields it changes.  The
  attribute byte is the two flips and the ninth bit of the tile's number; priority
  and palette, which every store treats as it does the flips, are left out.
* `oamClear` is called with `first = 0`; text stays inside the map.  `oamSet1`
  takes its index, four times the sprite's number, as eight bits: it is `oamSet`
  only for the first 64 sprites.

### Lzss

Bytes are numbers, for the trees compare them.  The loop of `InsertNode` is one
step per round (`Descend`), and so is the loop in which `DeleteNode` walks to the
greatest node on the left (`BeginDelete`, `WalkRight`); everything else between two
calls of `InsertNode` is one step.  The
pair's two bytes and the flags byte are computed as in the code, with `PosLow`
and the values of `mask` (`Masks`, of which there are `Units`) in place of 256 and
1, 2, ..., 128, so that small rings use both bytes of a
position and an input fills several flags bytes.  What `malloc` left behind an
input shorter than `F` is any bytes (`rest`).  The two programs do not run at
the same time: decompression begins when the output is complete.

## 3. Runs

| run | expected | shows |
|---|---|---|
| `link_uploads` | pass | messages, module and effect uploads, `spcAllocateSoundRegion`, VBlank at any step |
| `link_streams` | pass | a streamed sound with messages and an upload; refinement and liveness |
| `link_region` | violation | finding 1 |
| `link_nmi` | violation | finding 2 |
| `fifo_ring` | pass | every interleaving of `QueueMessage` with its consumer |
| `fifo_flush` | violation | finding 3 |
| `fifo_irq` | violation | finding 4 |
| `heap` | pass | every sequence of calls and of program data on a small heap |
| `vblank` | pass | seven programs under the VBlank interrupt; refinement and liveness |
| `vblank_tiles` | violation | finding 5 |
| `lzss` | pass | compression and decompression of some 2400 inputs |
| `lzss_ring` | violation | finding 6 |

Properties of the passing runs, other than the type invariants:

* `ExecutedAsAccepted`: `executed` is a prefix of the messages asked for.
* `EffectsResident`, `LoadAfterCommands`, `EffectIndexAgrees`: an upload waits
  for the queue, and both counts of effects agree between calls.
* `UploadsIntact`: module, samples, effects and loop points arrive word for word; for an
  empty sample the SPC700 stores one word, which is that sample's own loop point.
* `StreamIntact`: the bytes in the region are a prefix of the sample, under its
  own volume and pitch, and the two sides agree on how many.
* `PortsBuffered`: between calls, the record of the ports holds what a pending
  message needs.
* `ImplementsQueue`: `SpcLink` implements `CommandQueue` with `pending` mapped
  to what is accepted and not executed, so nothing is lost, repeated, altered or
  reordered.
* `InStep` (`SpcLinkInv`), `Phases` and `Order`: for every label of the S-CPU,
  where the SPC700 can be and what is in the ports and their record: a message is
  not in the ports, sent, taken or executed; the word of an upload is the next one
  or the last one taken; a group of a stream is ahead of or behind its echo; which
  effects the SPC700 has registered.  Of all messages asked for, the executed ones,
  the one in the ports and the queued ones are, in this order, the whole.  It
  excludes the instances of findings 1 and 2 (`Undisturbed`).
* `AllExecuted`, `CallsReturn`, `StreamDrains`: liveness.
* `RingHoldsQueue`: at every instant, what is sent and what the ring holds are
  the published messages, in order.
  `ProgramArgumentsKept`: arguments survive when the program itself calls
  `spcProcess`.
* `HeapInv` and its consequences `NoOverlap` and `FailsOnlyWhenFull`.  `ContentsKept`:
  as long as the program owns a block, only its own writes to that block change
  the words in it; no step of `malloc`, `free` or `compact` does, nor a write to
  another block.  `CallsEnd`: `__compact` terminates.
* `CleanMapShown`: the flag is 0 only when the screen shows the map as it is.
  `WholeTextsOnly`: `VBlank` implements `TextScreen`, with `drawn` mapped to the
  map after the last whole text, `screen` to its place in VRAM and `spoilt` to
  `torn`, so a half drawn map is never shown.  `TextCatchesUp`: with
  `consoleVblank` installed for good, the screen shows the latest text again and
  again.  All three hold until a copy is torn.
* `NoForeignWord`: until a copy is torn, none, of the program or of the handler,
  reads outside its buffer.  Its mutant omits the wait of `bgInitTileSet`.
* `UploadKept`: until a copy is torn, graphics and palette are complete from the
  store that shows them on, and stay so: of backgrounds those of any length, as the
  screen is off; of sprites those that fit in a VBlank after what the handler copies
  (`FitsInVBlank`).  Its mutant leaves the screen on for backgrounds as well, which
  loses words behind the sprites and a map.
* `SpritesShownAsPlaced`: an NMI shows each sprite as the last call left it, but
  those of a call that is not over.
* `EdgesAreReal`: a reported edge lies between two of the last three scans.
* `SearchTree`: whatever was inserted, replaced and deleted, parents and sons
  agree and the strings, whose bytes the ring overwrites in turn, are in order.
  `LongestMatch`: the match found is where it is said to be, and in the last `N - F`
  bytes of the text, counted from the input itself and not from the ring, none that
  begins in the input is longer, nor is one that begins in the spaces before it while
  the first of these are in the ring.  `Decoded`: what
  arrives is the input, except that spaces may arrive as zeros (finding 6).
  `Ends`: both programs terminate.

The runs that expect a violation check `ExecutedAsAccepted`, `RestoredBeforeResume`,
`ReturnsToCaller` (a function that was called finds its return address on the
stack), `ArgumentsKept`, `UploadStays` (graphics that are shown are there, whatever
function has loaded them) and `DecodedExactly`.

### Bounds

* `link_uploads`: three messages of two kinds and a region size, and three
  uploads, so that effects are loaded, played, made invalid by a module and
  loaded again.  A module of two words with three samples of one, no and two words:
  transfers of one word and longer ones, the exit for an empty one, and a loop over
  samples.  The validation byte takes all of 0, 1, 128 and 129.
* `link_streams`: three blocks are sent as two and one, the first call with its
  additional block, the last one partial; bytes sent through port 1 include 0 and
  128, which look like validation bytes.  Two messages and one upload, so that a
  message waits in the ports before, during and after a call of the stream.
* `fifo_ring`: a ring of 8 bytes holds two messages; four messages of three
  kinds straddle the wrap-around at different positions.  256 is no multiple of 3,
  neither is 8.
* `heap`: 20 bytes are up to four blocks; requests of 1, 3 and 6 bytes give
  blocks of 4 and 8 bytes with exact fits and remainders.  Data are 0, which looks
  like the end of the heap, and 7, which looks like a block in use.

* `vblank`: a map of two by two cells and two texts that overlap, one of them of
  three characters and a line feed; two sprites, one position beyond 255 and one tile beyond 255; one pad
  with one button, or with no joypad; VRAM of seven words, so that a copy that is
  too long, or whose count is 0, meets its neighbours.  `Room` is 8 words: an upload
  fits after the sprites, not after the sprites and the map.  Programs make calls of
  a few kinds, those that share the channel together, or change the tiles and flips of
  one sprite (`Dressed`), and at most two (`MaxCalls`)
  before they wait.  More sprites or buttons add nothing that the two cannot do, as
  calls touch one each, but for `oamClear`, which has both.
* `lzss`: a ring of 16 with matches of up to 4 and pairs from 2 on; all inputs of
  two and four bytes of three values (shorter than and as long as `F`), 2048 of
  24 bytes, after which the ring has turned once, and those that begin
  with `F - 1` spaces and have `F` more when only the first strings have left the ring.  All branches of `InsertNode` and
  `DeleteNode` are taken.  The programs end, hence no check for deadlock.

### Fairness

Both processors execute instructions as long as they are on: weak fairness of
`Spc`.  A call in progress continues whenever the VBlank handler leaves it time;
the handler comes and goes, hence strong fairness of `CpuStep`, and it
returns (`NmiEnd`).  `sound.h` says `spcProcess` "MUST be called every frame if
you are using streamed sounds", and only it sends messages: strong fairness of
`spcProcess`, which other calls may delay.  No other call is assumed to happen.
For `Heap`, a call that was made runs on (`WF_vars(Step)`).
For `VBlank`, the NMI comes every frame, as `consoleInit` enables it and nothing
turns it off (weak fairness of `NmiTaken`, which is the part of `VBlank` that
changes `pc` or `fresh`), and the program runs in between (`WF_vars(Program)`).
`Lzss` is two sequential programs (`WF_vars(Next)`).

### Findings

1. `spcAllocateSoundRegion` does not record port 3 (A:975), against "previously
   written port data must be buffered" (S:150).  When streaming runs before the
   SPC700 took the message, the region gets a stale size.
2. The ports are restored with interrupts enabled (A:1219), so the VBlank handler
   can delay it beyond the time S:183 allows.
3. `spcFlush` calls `spcProcessMessages` by JSR (A:612), which returns by RTL
   after PLB and PLP (A:749-751).  With an empty queue it is never called, hence
   `FlushQueued`.
4. The arguments in `spc1` are stored before SEI (A:574), and the loop of
   `spcProcess` writes `spc1` (A:741): an IRQ handler that calls `spcProcess`, the
   case the comment names, changes a message being queued.
5. `bgInitTileSetLz` (`src/pvsneslib/source/background.c:91`) copies the palette
   after a decompression of several frames, not after `WaitForVBlank`.  An NMI between
   the stores of `dmaCopyCGram` uses the channel and leaves its count 0, so that the
   copy overruns all of palette memory.  `bgInitTileSetData` and `consoleUpdate` start
   copies without a wait as well; unlike this function they do not wait at all, so
   that only an interrupt in a few instructions of a frame meets them.
6. The compressor fills its ring with spaces (`src/tools/gfx2snes/lzss.c:150`), the
   console fills its own with zeros (`lzsss.asm:105`): tiles that begin with 0x20
   bytes arrive with zeros in their place.

## 4. Proofs

`HeapProofs` proves, for every heap size, every set of requests up to 65530
bytes and all data (`HeapAssumption`):

* `HeapCorrect`: `Spec => []HeapInv`; `HeapTypes`: `Spec => []HeapTypeOK`;
* `BlocksDisjoint`: `Spec => []NoOverlap`;
* `PayloadUntouched`: `Spec => ContentsKept`;
* `FailureMeansFull`: `Spec => FailsOnlyWhenFull`.

That blocks do not overlap is not inductive: nothing in it says that `__compact`
stays on the chain, or that the block `malloc` is about to split is free.
`HeapInv` adds it.  `Tiled`: from every header, the size leads to the next header
or the end, with none between.  `LiveBlocks`: the used bits are those of the
owned blocks, which are long enough for what was asked.  `FreeIsFree`, `TakeFits`:
the cached block.  `ScanRun`: `p` and `best` are on the chain and all between
them is free.  `Passed`: before `best` there is no free stretch as long as the
request, as each would contain part of a block in use; this is what
`FailsOnlyWhenFull` follows from, since a run stops at a used block and
`RunFits` has failed for it.  The proof has one lemma per action and, under it,
one step per conjunct; facts about words, parity and rounding are lemmas of their
own (`WordModIs`, `Parity`, `Quarter`, `RoundedFits`).

`SpcLinkProofs` proves, for every sound bank, sample, set of messages and every
bound (`SnesModAssumption`):

* `LinkTypes`: `Spec => []LinkTypeOK`;
* `ReadsInside`: the S-CPU dequeues only from a queue that is not empty, uploads
  only words of the block in hand, and streams only bytes of the sound.

The types are not inductive without the second: the byte stored to a port is a
byte only if it was read inside a sequence.  `LinkInv` therefore joins
`LinkTypeOK` with `QueueFacts` (a message in the course of being sent is still in
the queue), `TransferFacts` (the position of an upload lies in its block, the
number of a sample in the module) and `StreamFacts` (the pointer and the two
counters of `spcProcessStream` add up to the length of the sound: nine bytes for
each block left, three for each group left of the call).  One lemma per part of
each processor's program (`QueueStep`, `UploadStep`, `StreamStep`,
`TransferStepTypes`, ...) has a step per action and, under it, one per conjunct.

`InStepProofs` proves what the two processors do
together, for the same parameters:

* `StaysInStep`: `Spec => []InStep`;
* `ExecutesInOrder`, `UploadsArrive`, `LoadsAfterCommands`, `PlaysResidentEffects`,
  `CountsEffectsAlike`: `ExecutedAsAccepted`, `UploadsIntact`, `LoadAfterCommands`,
  `EffectsResident` and `EffectIndexAgrees` always hold;
* `RecordsPorts`: so does `PortsBuffered`, if `spcAllocateSoundRegion` is not called
  (`Regions = {}`);
* `StreamsIntact`: `Spec => []StreamIntact`;
* `LinkImplementsQueue`: `Spec => ImplementsQueue`, the step simulation of
  `CommandQueue`.

All but the first assume `Undisturbed` (the first has it inside `InStep`): either no
sound is streamed, or neither `spcAllocateSoundRegion` nor a VBlank handler meets
the streaming.  It cannot be left out: `link_region` and `link_nmi` show, in the
instances it excludes, the messages that are executed with wrong arguments and the
ports that are restored too late.

None of these properties is inductive, as none says where the other processor is.
The inductive invariant is `StepInv`, which is `LinkInv` and `InStep` together.
`Phases` names, for each label of the S-CPU, the few places where the SPC700 can be,
so that a step of either processor is examined only against those; there is
one lemma per routine of each.  For `Order` every step does one of three things: it
asks for a message (`Asks`), executes the one in the ports (`Executes`) or leaves all
that is outstanding (`Passes`, from `Unmoved` or `Moves`: a message goes from the
queue to the ports, or from the ports to their record and back).  `Order` then
follows from the associativity of sequences alone, and the same three cases are the
steps of `CommandQueue`: `accepted` is `executed` and what is on the way, so what is
accepted and not executed, the mapping of `pending`, is what is on the way.
`StreamData` adds the bytes: those in the region, the group in the ports and the
rest of the sound, and the volume and pitch the SPC700 has read.

`CommandFifoProofs` proves, for every ring of at least four bytes, every set of
messages and every caller of `spcProcess` (`CommandFifoAssumption`):

* `FifoTypes`: `Spec => []FifoTypeOK`; `RingIsQueue`: `Spec => []RingHoldsQueue`;
* `ArgumentsReach`: `Spec => []ProgramArgumentsKept`.

`RingHoldsQueue` sees the ids; the invariants see each store.  `RingInv`: the bytes
from `spc_fread` to `spc_fwrite` are the published messages, at positions that never
meet, whatever 256, or the ring's size, leaves when divided by 3 (lemmas
`AdvanceValue`, `AdvanceTwice`, `AdvanceDiffers`).  `WriteInv`: while a message is
being stored, its bytes so far lie behind the published ones and `spc1` still holds
its arguments if nobody else can write it.

`VBlankProofs` and `ScreenProofs` prove, for all pads, buttons and programs, maps and
texts, memories, sprites, positions, tiles and uploads (`PpuAssumption`,
`VBlankAssumption`, `RoomAssumption`, `MemoryAssumption`):

* `PollCorrect`: `Spec => []PollInv`; `EdgesCorrect`: `Spec => EdgesAreReal`;
* `TypeCorrect`: `Spec => []VBlankTypeOK`;
* `SpritesCorrect`: `Spec => SpritesShownAsPlaced`;
* `CleanMapCorrect`, `WordsCorrect`, `UploadsCorrect`: `CleanMapShown`,
  `NoForeignWord` and `UploadKept` always hold, if uploads are by DMA (`ByDma`);
* `TextScreenImplemented`: `Spec => WholeTextsOnly`, the step simulation of
  `TextScreen`, if uploads are by DMA.

`ByDma` leaves out `bgInitTileSetLz` alone.  It decompresses for frames between its
wait and its copy of the palette, which finding 5 is about: `vblank_tiles` shows
`UploadStays` violated with it.  The theorems about pads, types and sprites do
not assume `ByDma`.  These four speak of what holds until a copy is torn; they
include every interrupt before the first store of a copy that has not waited, every
frame between copies, and uploads of any length, of which those for sprites only
count if they fit in a VBlank.

Pads.  `EdgesAreReal` speaks of the step in which a poll returns; the invariant says
what holds while it runs.  `PadsTrackScans`: the two words of a pad are its last two
scans, or both empty.  While a poll runs, either no scan has come since it began
(`Current`: what it read is what is there) or one has (`Overtaken`: a word read is
from before or after it, and if the second reading of `pad_keys` is from before,
so are the other two).  There is no third case because the NMI comes once a frame
and ends a poll's claim to be `fresh`.  Only `VBlank`, `padsCall`, `LoadKeys` and
`padsClear` need an argument; one lemma (`Elsewhere`) disposes of the others.

Copies.  A copy is six stores to six different registers and one to MDMAEN (`IsCopy`),
so after its first `n` stores exactly those registers have its values (`Programmed`).
When all six have, the transfer replaces the words of its destination by those of
the buffer and no others (`VramTransfer`, `CgramTransfer`, `OamTransfer`): the count is
not 0, and the source's bank and address are of one buffer.  `TypeInv` has the shape
of the hardware and of the stores a copy still makes.

Sprites.  Between calls `oamMemory` is what was placed (`SpriteInv`).  During a call,
for each sprite and each of its fields, either no store to the field is pending and
it is as placed, or the last pending store has the value placed (`Settles`).  A call
begins with this because of what it makes: `Makes` says that a run of stores
leaves a sprite with certain fields, and two runs make the fields of both
(`JoinedStores`), which gives one lemma per function (`Placing`, `Flipping`, `Dressing`,
`Clearing`, ...) and `CallsKeep` for all.  `oamClear` has four stores per sprite, found
by division (`Quarters`, `QuarterOf`).

Texts and graphics.  `CleanMapShown` is not inductive: the interrupt may copy the map
at any time.  `TextInv` adds the flag's protocol: it is 2 exactly while a text is
printed, otherwise the map is that of a whole text, and between the end of
`consoleUpdate`'s copy and its clearing of the flag the screen already shows it.
`Updating`, `Retiling` and `Uploading` say how far a copy of the program has come: which
stores remain, what the registers hold, and what has arrived.  Two reasons carry
them.  A copy after a wait begins while `fresh` and takes no longer, so that no NMI
comes between its stores; this is where `bgInitTileSetLz` differs.  Of a copy that has
not waited only its first `n` stores matter, with `n = 0` whatever the handler has left;
an NMI after that is a step to `torn`, and the inductive invariant is
`torn \/ Unspoilt` (`ScreenInv`).  `Ahead` says how many words can still come: with the screen
off all, otherwise those left of the VBlank, which after the handler are at least
`Room - NSprites - MapLen`, or `Room - NSprites` in a program that draws no text (`Waiting`);
each transfer takes its words away, and what was ahead of both copies leaves enough for
the second one.  `ScreenStep` then has one lemma per kind of step, and gives the
steps of `TextScreen`: only the handler and the last store of `consoleUpdate`'s copy
change the screen, and an NMI that tears a copy is `Spoil`.

`LzssProofs` proves, for every size of the ring, every longest match, every input and
whatever follows a short one (`LzssAssumption`):

* `AlwaysSearches`: `Spec => []Searches`, the inductive invariant of the compressor;
* `TreesSorted`: `Spec => []SearchTree`;
* `MatchLongest`: `Spec => []LongestMatch`;
* `AlwaysTransmits`: `Spec => []Transmits`, the inductive invariant of both programs
  and what goes from one to the other;
* `InputArrives`: `Spec => []Decoded`;
* `TypesLzss`: `Spec => []LzssTypeOK`.

Bytes of the text are counted from the first of the input, so that byte `k` lies in
cell `Pos(k)` of the ring, and the arithmetic of the ring is that of its cells (`Cells`,
`CellsOfString`, `CellsBack`).  `Control`: where the cursors are, and what `todo` counts at each
label.  `Written`: the ring holds the last `N` bytes read, those of the first cells
twice.  `SearchTree` is not inductive: in the middle of an insertion the new string
hangs nowhere yet, and nothing in it says that the descent is in the right place.
`Trees` says that parents and sons agree (`WellLinked`), that there is a function `D`
from nodes to the sets of nodes below them with which the trees are `Sorted`, and, of an
insertion, that every node is below the one reached or has no more in common with the
new string than the match found (`Seeking`), and of a deletion, that every node left of
the deleted one is below `last` or smaller (`Walking`).  With such a function no proof
needs induction over a tree.  A change of the tree is one of three: a node with one
son is spliced out (`SpliceSorts`), a node takes the place of another one
(`SubstituteSorts`, which is both `Replace` and the last part of `DeleteNode`), or a node is
grafted where a descent ended (`GraftSorts`).  A descent passes no string that
could match longer because what lies between two strings shares what they share
(`Squeeze`).  `Covered` says which strings are in the trees, or an equal one that stays
no less long, and `Unbeaten` that none of them beats the match found; this is
where the strings before the input are an exception.  The compressor inserts those of
spaces from the last to the first (`src/tools/gfx2snes/lzss.c:159`), and `InsertNode`
replaces equal strings "because the old one will be deleted sooner" (line 58): here it
is the new one.  When it has left the ring, as many spaces are still there but are not
found, and the match sent is shorter than it could be; what is decompressed is right
all the same.  `LongestMatch` first left this case out of account: the proof failed
there, and TLC, given such inputs (`MCSpaces`), confirmed it.

`Decoded` relates two programs of which the second begins when the first has ended, so
its invariant must keep, from the first byte sent to the last one written, what the
bytes mean.  A spot is where a unit begins: the byte of the text it begins with, the
number of bytes sent before it, its place in its group and the index of the group's
flags byte.  Between two spots stands a `Letter`, whose flag is 1, or a `Pair`, whose flag
is 0 and whose bytes hold the cell and the number of bytes of a string that occurs
earlier in the text, at most `N - F` bytes before.  `Chain(G, e, out, txt)` says of a set of
spots that each but the last, `e`, is followed by a unit that leads to another one: again
an existence in the place of an induction.  While the compressor runs, `Codes` has such a
chain for `bufout \o codeBuf` and the text up to the bytes sent; a unit more (`SendUnitCodes`)
changes the flags byte of its group, which leaves the flags before it alone as masks are
powers of two (`BitKept`), and where the match is comes from `Matched` and `Written`.
`Finish` writes the last group, unless nothing but its flags byte is there
(`FinishPacks`).  `Memory` says of the console that the cells of its ring, as far back as a
pair reaches, and VRAM hold the text, but for zeros in the place of spaces, and that
`offs` is the cell of the next byte; `EvenCells` is why it need not wrap after a byte for
VMDATAL.  `Reads` says at which spot of the chain the console is: between groups, at a unit with
the flags of the rest of its group, or in the middle of a string.  The last spot is at
the end of the input and of the output, so that `x = 0`, between two groups or within one,
means that all has arrived (`UnitRead`), and no pair has only half of its bytes there:
`x` never falls below 0 (`BytesLeft`), where the code, which only compares it with 0,
would go on reading.

TLC has checked `TypeInv`, `SpriteInv` and `ScreenInv` as invariants of the instance of
run `vblank`, and `SearchTree` and `LongestMatch` in that of `lzss`, before they were proved.

`bufout` has no bound in the model; `gfx2snes` gives it the size of the tiles
(`src/tools/gfx2snes/gfx2snes.c:1232`), which tiles without repetitions exceed by an
eighth.  `Decoded` is weaker than what the code does: it lets any space arrive as 0,
where only those copied from the ring's first contents do.

Every safety property that a passing run checks is a theorem: `ContentsKept`,
`UploadsIntact` with empty samples, `NoForeignWord` and `UploadKept` in the form above.
Only model-checked is, as
it is out of the prover's reach, liveness: `AllExecuted`, `CallsReturn`, `StreamDrains`,
`CallsEnd`, `TextCatchesUp` and `Ends`, which need fairness and ENABLED.

## 5. Not modelled

See the components of `PROJECT.json`.  In short: the compiler (a fork of TCC, whose
correctness is out of a model checker's reach), the asset tools other than the
compressor (sequential converters of files, of which image and option parsing is
the larger part), the C library, PPU register wrappers; the player inside the
SPC700 and the boot handshake are planned.  These are most of the repository's C
lines, so the share the models cover stays small: it is the part of the code
that runs concurrently or keeps state over many calls.

## 6. Plan

Done: `SpcLink` and its parts, the most concurrent code of the library, then
`CommandFifo`, `Heap`, `VBlank` and `Lzss`.  Next, in this order:

1. `StreamRegion`: addresses of the streaming region (`Streaming_Resize`,
   `StreamSetupAddress` with its self-modifying carries, `stream_write`), the
   directories and `xfer_address`, over SPC700 memory.
2. `SpcBoot`: the boot handshake against the IPL; `SfxChannels`: effect voices
   against module voices and `ProcessFade`.
