------------------------------ MODULE MCVBlank ------------------------------
(* A text map of two by two cells, two sprites, one pad with one button.    *)
(* Both handlers are in one bank.  Each program makes calls of a few kinds. *)
(* An upload still fits in a VBlank after the sprites, but not after the    *)
(* sprites and the map.                                                     *)
EXTENDS VBlank

MCTexts == {<<0, <<"A", "nl", "A">>>>, <<1, <<"B">>>>}
MCGfx == <<"g1", "g2">>
MCPal == <<"p1">>
MCPositions == {[x |-> 20, y |-> 30], [x |-> 300, y |-> 30]}
MCHandlerAddr == [consoleVblank |-> [lo |-> 1, bank |-> 0],
                  consoleVblankMode7 |-> [lo |-> 2, bank |-> 0]]
MCWaiting == {{"text", "copy", "screen"}}
MCPrograms == {{"text", "copy", "nmi", "screen"}, {"text", "pad"}, {"text", "sprite"},
               {"tile"}, {"text", "update", "tiles", "screen"},
               {"pad", "copy", "nmi"}, {"sprite", "nmi"}}
=============================================================================
