------------------------------ MODULE MCSpcLink ------------------------------
(* Small instances of SpcLink for TLC.                                     *)
EXTENDS SpcLinkInv

MCPlay == [id |-> CMD_PLAY, lo |-> 0, hi |-> 2]
MCFade == [id |-> CMD_FADE, lo |-> 7, hi |-> 9]
MCEffect == [id |-> CMD_FX, lo |-> 248, hi |-> 8]

MCUploadCommands == {MCFade, MCEffect}
MCStreamCommands == {MCPlay, MCFade}
MCNoCommands == {}
MCRegions == {39}
MCNoRegions == {}

MCModule == <<1, 513>>
(* A sample of one word, an empty slot, a sample of two words.             *)
MCSources ==
  <<[loop |-> 770, data |-> <<5>>], [loop |-> 259, data |-> <<>>],
    [loop |-> 771, data |-> <<6, 7>>]>>
MCShortModule == <<1>>
MCShortSources == <<[loop |-> 770, data |-> <<5>>]>>
MCEffectWords == <<260>>

(* Three blocks of nine bytes; every third byte goes through port 1  *)
(* and takes values that are validation bytes, too.                        *)
MCByte(i) == IF i % 3 = 0 THEN (IF i % 2 = 0 THEN 128 ELSE 0) ELSE i
MCSound3 == [i \in 1..27 |-> MCByte(i)]
=============================================================================
