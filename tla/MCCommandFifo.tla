--------------------------- MODULE MCCommandFifo ---------------------------
(* Small instances of CommandFifo for TLC.                                 *)
EXTENDS CommandFifo

MCFade == [id |-> CMD_FADE, lo |-> 1, hi |-> 2]
MCEffect == [id |-> CMD_FX, lo |-> 3, hi |-> 4]
MCPlay == [id |-> CMD_PLAY, lo |-> 0, hi |-> 5]
MCCommands == {MCFade, MCEffect, MCPlay}
MCVCounts == {9}
MCAllConsumers == {"program", "irq", "nmi"}
MCProgram == {"program"}
MCIrq == {"irq"}
=============================================================================
