----------------------------- MODULE TextScreen -----------------------------
(* What the text console promises: a program draws whole texts, and the     *)
(* screen shows at every moment some whole drawing, the latest one after    *)
(* each refresh, until a copy the program makes at a moment of its own      *)
(* spoils the screen.                                                       *)
CONSTANTS Maps,  \* the pictures a text map can hold
          Blank  \* the empty one

VARIABLES drawn,  \* what the program has drawn
          screen, \* what the picture processor shows
          spoilt  \* whether anything may be there

Init == drawn = Blank /\ screen = Blank /\ spoilt = FALSE

Draw == drawn' \in Maps /\ UNCHANGED <<screen, spoilt>>

Refresh == screen' = drawn /\ UNCHANGED <<drawn, spoilt>>

Spoil == spoilt'

Next == Draw \/ Refresh \/ Spoil

Spec == Init /\ [][Next]_<<drawn, screen, spoilt>>
=============================================================================
